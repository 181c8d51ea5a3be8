-------------------------- MODULE RoutePlanningProofs --------------------------
(***************************************************************************)
(* Proofs about RoutePlanning, for any catalogs, settings and requests.    *)
(***************************************************************************)
EXTENDS RoutePlanning, FiniteSetTheorems, SequenceTheorems, TLAPS

-----------------------------------------------------------------------------
(* Induction.                                                              *)

LEMMA LeastOf ==
    ASSUME NEW S \in SUBSET Nat, S # {}
    PROVE  \E n \in S : \A m \in S : n <= m
  <1> DEFINE below == OpToRel(<, Nat)
  <1>1. IsWellFoundedOn(below, Nat)
    BY NatLessThanWellFounded
  <1>2. \A m, n \in Nat : m < n => <<m, n>> \in below
    BY DEF OpToRel
  <1> HIDE DEF below
  <1>3. \E n \in S : \A m \in S : ~ (<<m, n>> \in below)
    BY <1>1, WFMin, Zenon
  <1>4. PICK n \in S : \A m \in S : ~ (<<m, n>> \in below)
    BY <1>3
  <1>5. \A m \in S : ~(m < n)
    BY <1>2, <1>4
  <1> QED
    BY <1>5

LEMMA Induction ==
    ASSUME NEW S, 0 \in S, \A n \in Nat : n \in S => n + 1 \in S
    PROVE  Nat \subseteq S
  <1> DEFINE missing == {n \in Nat : n \notin S}
  <1>1. CASE missing = {}
    BY <1>1
  <1>2. CASE missing # {}
    <2>1. PICK n \in missing : \A m \in missing : n <= m
      BY <1>2, LeastOf
    <2>2. n \in Nat /\ n # 0
      OBVIOUS
    <2>3. n - 1 \in Nat /\ n - 1 \notin missing
      BY <2>1, <2>2
    <2> QED
      BY <2>2, <2>3
  <1> QED
    BY <1>1, <1>2

-----------------------------------------------------------------------------
(* What is kept of a sequence.                                             *)

KeptUpTo(f, s, S, n) ==
    f = [i \in 0..n |-> IF i = 0 THEN <<>> ELSE IF s[i] \in S THEN Append(f[i - 1], s[i]) ELSE f[i - 1]]

LEMMA KeptIsDefined ==
    ASSUME NEW s, NEW S, NEW m \in Nat
    PROVE  \E f : KeptUpTo(f, s, S, m)
  <1> DEFINE N == {n \in Nat : \E f : KeptUpTo(f, s, S, n)}
  <1>1. 0 \in N
    <2>1. KeptUpTo([i \in 0..0 |-> <<>>], s, S, 0)
      BY DEF KeptUpTo
    <2> QED
      BY <2>1
  <1>2. ASSUME NEW n \in Nat, n \in N PROVE n + 1 \in N
    <2>1. PICK f : KeptUpTo(f, s, S, n)
      BY <1>2
    <2> DEFINE last == IF s[n + 1] \in S THEN Append(f[n], s[n + 1]) ELSE f[n]
               g == [i \in 0..(n + 1) |-> IF i = n + 1 THEN last ELSE f[i]]
    <2> HIDE DEF last
    <2>2. \A i \in 0..n : i # n + 1 /\ i \in 0..(n + 1) /\ g[i] = f[i]
      OBVIOUS
    <2>3. \A i \in 0..(n + 1) : g[i] = IF i = 0 THEN <<>> ELSE IF s[i] \in S THEN Append(g[i - 1], s[i]) ELSE g[i - 1]
      <3> SUFFICES ASSUME NEW i \in 0..(n + 1)
                   PROVE  g[i] = IF i = 0 THEN <<>> ELSE IF s[i] \in S THEN Append(g[i - 1], s[i]) ELSE g[i - 1]
        OBVIOUS
      <3>1. CASE i = n + 1
        <4>1. n \in 0..n /\ i - 1 = n /\ i # 0
          BY <3>1
        <4> QED
          BY <2>2, <3>1, <4>1 DEF last
      <3>2. CASE i # n + 1 /\ i # 0
        <4>1. i \in 0..n /\ i - 1 \in 0..n
          BY <3>2
        <4>2. f[i] = IF s[i] \in S THEN Append(f[i - 1], s[i]) ELSE f[i - 1]
          BY <2>1, <3>2, <4>1 DEF KeptUpTo
        <4> QED
          BY <2>2, <3>2, <4>1, <4>2
      <3>3. CASE i = 0
        BY <2>1, <2>2, <3>3 DEF KeptUpTo
      <3> QED
        BY <3>1, <3>2, <3>3
    <2>4. KeptUpTo(g, s, S, n + 1)
      BY <2>3 DEF KeptUpTo
    <2> QED
      BY <2>4
  <1>3. Nat \subseteq N
    <2> HIDE DEF N
    <2> QED
      BY <1>1, <1>2, Induction
  <1> QED
    BY <1>3

LEMMA KeptIsLast ==
    ASSUME NEW s, NEW S, Len(s) \in Nat
    PROVE  \E f : KeptUpTo(f, s, S, Len(s)) /\ Kept(s, S) = f[Len(s)]
  <1> DEFINE f == CHOOSE f : KeptUpTo(f, s, S, Len(s))
  <1>1. KeptUpTo(f, s, S, Len(s))
    BY KeptIsDefined
  <1>2. KeptOf(s, S) = f[Len(s)]
    BY DEF KeptOf, KeptUpTo
  <1>3. {KeptOf(t, T) : t \in {s}, T \in {S}} = {KeptOf(s, S)}
    OBVIOUS
  <1>4. Kept(s, S) = KeptOf(s, S)
    BY <1>3 DEF Kept, The
  <1> QED
    BY <1>1, <1>2, <1>4

\* The places that the kept members have in the first n of a sequence.
PlacedBy(e, t, s, S, n) ==
    /\ e \in [1..Len(t) -> 1..n]
    /\ \A k \in 1..Len(t) : t[k] = s[e[k]]
    /\ \A k, l \in 1..Len(t) : k < l => e[k] < e[l]
    /\ \A i \in 1..n : s[i] \in S <=> \E k \in 1..Len(t) : e[k] = i

LEMMA PlacedOneMore ==
    ASSUME NEW T, NEW s \in Seq(T), NEW S, NEW n \in Nat, n + 1 \in 1..Len(s),
           NEW t \in Seq(T), NEW e, PlacedBy(e, t, s, S, n), s[n + 1] \in S
    PROVE  \E d : PlacedBy(d, Append(t, s[n + 1]), s, S, n + 1)
  <1> DEFINE u == Append(t, s[n + 1])
             d == [k \in 1..Len(u) |-> IF k = Len(u) THEN n + 1 ELSE e[k]]
  <1>1. /\ Len(t) \in Nat /\ Len(u) = Len(t) + 1 /\ Len(u) \in 1..Len(u) /\ u[Len(u)] = s[n + 1]
        /\ \A k \in 1..Len(t) : k # Len(u) /\ k \in 1..Len(u) /\ u[k] = t[k]
        /\ \A k \in 1..Len(u) : k = Len(u) \/ k \in 1..Len(t)
    OBVIOUS
  <1> HIDE DEF u
  <1>8. \A k \in 1..Len(t) : e[k] \in 1..n
    BY DEF PlacedBy
  <1>2. /\ d[Len(u)] = n + 1
        /\ \A k \in 1..Len(t) : d[k] = e[k] /\ e[k] \in 1..n
    BY <1>1, <1>8
  <1>3. d \in [1..Len(u) -> 1..(n + 1)]
    <2>1. \A k \in 1..Len(u) : k # Len(u) => e[k] \in 1..(n + 1)
      BY <1>1, <1>8
    <2>2. n + 1 \in 1..(n + 1)
      OBVIOUS
    <2> QED
      BY <2>1, <2>2
  <1> HIDE DEF d
  <1>4. \A k \in 1..Len(u) : u[k] = s[d[k]]
    BY <1>1, <1>2 DEF PlacedBy
  <1>5. \A k, l \in 1..Len(u) : k < l => d[k] < d[l]
    <2> SUFFICES ASSUME NEW k \in 1..Len(u), NEW l \in 1..Len(u), k < l PROVE d[k] < d[l]
      OBVIOUS
    <2>1. k \in 1..Len(t)
      BY <1>1
    <2>2. CASE l = Len(u)
      BY <1>1, <1>2, <2>1, <2>2
    <2>3. CASE l # Len(u)
      <3>1. l \in 1..Len(t)
        BY <1>1, <2>3
      <3> QED
        BY <1>2, <2>1, <3>1 DEF PlacedBy
    <2> QED
      BY <2>2, <2>3
  <1>6. \A i \in 1..(n + 1) : s[i] \in S <=> \E k \in 1..Len(u) : d[k] = i
    <2> SUFFICES ASSUME NEW i \in 1..(n + 1) PROVE s[i] \in S <=> \E k \in 1..Len(u) : d[k] = i
      OBVIOUS
    <2>1. CASE i = n + 1
      BY <1>1, <1>2, <2>1
    <2>2. CASE i # n + 1
      <3>1. i \in 1..n
        BY <2>2
      <3>2. s[i] \in S <=> \E k \in 1..Len(t) : e[k] = i
        BY <3>1 DEF PlacedBy
      <3>3. (\E k \in 1..Len(t) : e[k] = i) <=> \E k \in 1..Len(u) : d[k] = i
        BY <1>1, <1>2, <2>2
      <3> QED
        BY <3>2, <3>3
    <2> QED
      BY <2>1, <2>2
  <1>7. PlacedBy(d, u, s, S, n + 1)
    BY <1>3, <1>4, <1>5, <1>6 DEF PlacedBy
  <1> QED
    BY <1>7 DEF u

\* Kept keeps every member of the set, at every place it has, and nothing else, in their order.
LEMMA KeptPlaces ==
    ASSUME NEW T, NEW s \in Seq(T), NEW S
    PROVE  Kept(s, S) \in Seq(T) /\ \E e : PlacedBy(e, Kept(s, S), s, S, Len(s))
  <1>1. Len(s) \in Nat /\ \A i \in 1..Len(s) : s[i] \in T
    OBVIOUS
  <1>2. PICK f : KeptUpTo(f, s, S, Len(s)) /\ Kept(s, S) = f[Len(s)]
    BY <1>1, KeptIsLast
  <1> DEFINE N == {n \in Nat : n <= Len(s) => f[n] \in Seq(T) /\ \E e : PlacedBy(e, f[n], s, S, n)}
  <1>3. 0 \in N
    <2>1. f[0] = <<>>
      BY <1>1, <1>2 DEF KeptUpTo
    <2>2. PlacedBy([k \in 1..0 |-> 1], <<>>, s, S, 0)
      BY DEF PlacedBy
    <2>3. f[0] \in Seq(T) /\ PlacedBy([k \in 1..0 |-> 1], f[0], s, S, 0)
      BY <2>1, <2>2
    <2> QED
      BY <2>3
  <1>4. ASSUME NEW n \in Nat, n \in N PROVE n + 1 \in N
    <2> SUFFICES ASSUME n + 1 <= Len(s) PROVE f[n + 1] \in Seq(T) /\ \E e : PlacedBy(e, f[n + 1], s, S, n + 1)
      OBVIOUS
    <2>1. n + 1 \in 1..Len(s) /\ n + 1 \in 0..Len(s) /\ (n + 1) - 1 = n /\ n + 1 # 0 /\ n <= Len(s)
      BY <1>1
    <2>2. f[n + 1] = IF s[n + 1] \in S THEN Append(f[n], s[n + 1]) ELSE f[n]
      BY <1>2, <2>1 DEF KeptUpTo
    <2>3. f[n] \in Seq(T) /\ \E e : PlacedBy(e, f[n], s, S, n)
      BY <1>4, <2>1
    <2>4. PICK e : PlacedBy(e, f[n], s, S, n)
      BY <2>3
    <2>5. CASE s[n + 1] \in S
      <3>1. \E d : PlacedBy(d, Append(f[n], s[n + 1]), s, S, n + 1)
        BY <2>1, <2>3, <2>4, <2>5, PlacedOneMore
      <3>2. Append(f[n], s[n + 1]) \in Seq(T)
        BY <1>1, <2>1, <2>3
      <3> QED
        BY <2>2, <2>5, <3>1, <3>2
    <2>6. CASE s[n + 1] \notin S
      <3> DEFINE t == f[n]
      <3>1. PlacedBy(e, t, s, S, n) /\ t \in Seq(T)
        BY <2>3, <2>4
      <3> HIDE DEF t
      <3>2. e \in [1..Len(t) -> 1..(n + 1)]
        BY <3>1 DEF PlacedBy
      <3>3. \A k \in 1..Len(t) : e[k] \in 1..n /\ e[k] # n + 1
        BY <3>1 DEF PlacedBy
      <3>4. \A i \in 1..(n + 1) : i = n + 1 \/ i \in 1..n
        OBVIOUS
      <3>5. \A i \in 1..(n + 1) : s[i] \in S <=> \E k \in 1..Len(t) : e[k] = i
        BY <2>6, <3>1, <3>3, <3>4 DEF PlacedBy
      <3>6. PlacedBy(e, t, s, S, n + 1)
        BY <3>1, <3>2, <3>5 DEF PlacedBy
      <3> QED
        BY <2>2, <2>3, <2>6, <3>6 DEF t
    <2> QED
      BY <2>5, <2>6
  <1>5. Nat \subseteq N
    <2> HIDE DEF N
    <2> QED
      BY <1>3, <1>4, Induction
  <1> QED
    BY <1>1, <1>2, <1>5

LEMMA Members ==
    ASSUME NEW T, NEW s \in Seq(T)
    PROVE  \A v : v \in ToSet(s) <=> \E i \in 1..Len(s) : s[i] = v
  <1>1. DOMAIN s = 1..Len(s)
    OBVIOUS
  <1> QED
    BY <1>1 DEF ToSet

LEMMA KeptSet ==
    ASSUME NEW T, NEW s \in Seq(T), NEW S
    PROVE  /\ Kept(s, S) \in Seq(T)
           /\ ToSet(Kept(s, S)) = ToSet(s) \cap S
  <1>1. Kept(s, S) \in Seq(T)
    BY KeptPlaces
  <1> DEFINE t == Kept(s, S)
  <1>2. PICK e : PlacedBy(e, t, s, S, Len(s))
    BY KeptPlaces
  <1>3. DOMAIN s = 1..Len(s) /\ DOMAIN t = 1..Len(t)
    BY <1>1
  <1> HIDE DEF t
  <1>4. \A k \in 1..Len(t) : e[k] \in 1..Len(s) /\ t[k] = s[e[k]] /\ s[e[k]] \in S
    BY <1>2 DEF PlacedBy
  <1>5. \A i \in 1..Len(s) : s[i] \in S => \E k \in 1..Len(t) : t[k] = s[i]
    BY <1>2, <1>4 DEF PlacedBy
  <1>6. \A v : v \in ToSet(t) <=> v \in ToSet(s) /\ v \in S
    <2>1. \A v : v \in ToSet(t) <=> \E k \in 1..Len(t) : t[k] = v
      BY <1>1, Members DEF t
    <2>2. \A v : v \in ToSet(s) <=> \E i \in 1..Len(s) : s[i] = v
      BY Members
    <2>3. \A v : v \in ToSet(t) => v \in ToSet(s) /\ v \in S
      BY <1>4, <2>1, <2>2
    <2>4. \A v : v \in ToSet(s) /\ v \in S => v \in ToSet(t)
      BY <1>5, <2>1, <2>2
    <2> QED
      BY <2>3, <2>4
  <1> QED
    BY <1>1, <1>6 DEF t

-----------------------------------------------------------------------------
(* Sequences in the order of another.                                      *)

\* Each member of t stands for the first place it has in w, and these places ascend.
FirstIn(w, i) == \A j \in 1..(i - 1) : w[j] # w[i]
OrderedBy(e, t, w) ==
    /\ e \in [1..Len(t) -> 1..Len(w)]
    /\ \A k \in 1..Len(t) : t[k] = w[e[k]] /\ FirstIn(w, e[k])
    /\ \A k, l \in 1..Len(t) : k < l => e[k] < e[l]
InOrderOf(t, w) == \E e : OrderedBy(e, t, w)

LEMMA OrderedOnce ==
    ASSUME NEW T, NEW t \in Seq(T), NEW w \in Seq(T), InOrderOf(t, w)
    PROVE  \A k, l \in 1..Len(t) : t[k] = t[l] => k = l
  <1>1. PICK e : OrderedBy(e, t, w)
    BY DEF InOrderOf
  <1>2. Len(t) \in Nat /\ Len(w) \in Nat
    OBVIOUS
  <1>3. ASSUME NEW k \in 1..Len(t), NEW l \in 1..Len(t), k < l PROVE t[k] # t[l]
    <2>1. e[k] \in 1..Len(w) /\ e[l] \in 1..Len(w) /\ e[k] < e[l]
      BY <1>1, <1>3 DEF OrderedBy
    <2>2. e[k] \in 1..(e[l] - 1)
      BY <1>2, <2>1
    <2>3. w[e[k]] # w[e[l]]
      BY <1>1, <2>2 DEF OrderedBy, FirstIn
    <2> QED
      BY <1>1, <2>3 DEF OrderedBy
  <1> QED
    BY <1>2, <1>3

\* What is kept of it is in that order too.
LEMMA KeptInOrder ==
    ASSUME NEW T, NEW t \in Seq(T), NEW w \in Seq(T), InOrderOf(t, w), NEW S
    PROVE  InOrderOf(Kept(t, S), w)
  <1> DEFINE u == Kept(t, S)
  <1>1. PICK e : OrderedBy(e, t, w)
    BY DEF InOrderOf
  <1>2. PICK d : PlacedBy(d, u, t, S, Len(t))
    BY KeptPlaces
  <1> HIDE DEF u
  <1> DEFINE c == [k \in 1..Len(u) |-> e[d[k]]]
  <1>3. \A k \in 1..Len(u) : d[k] \in 1..Len(t) /\ e[d[k]] \in 1..Len(w) /\ c[k] = e[d[k]]
    BY <1>1, <1>2 DEF PlacedBy, OrderedBy
  <1>4. c \in [1..Len(u) -> 1..Len(w)]
    BY <1>3
  <1> HIDE DEF c
  <1>5. \A k \in 1..Len(u) : u[k] = w[c[k]] /\ FirstIn(w, c[k])
    BY <1>1, <1>2, <1>3 DEF PlacedBy, OrderedBy
  <1>6. \A k, l \in 1..Len(u) : k < l => c[k] < c[l]
    BY <1>1, <1>2, <1>3 DEF PlacedBy, OrderedBy
  <1>7. OrderedBy(c, u, w)
    BY <1>4, <1>5, <1>6 DEF OrderedBy
  <1> QED
    BY <1>7 DEF InOrderOf, u

\* And so is every part of it.
LEMMA PartInOrder ==
    ASSUME NEW T, NEW t \in Seq(T), NEW w \in Seq(T), InOrderOf(t, w),
           NEW m \in Int, NEW n \in Int, 1 <= m, n <= Len(t)
    PROVE  InOrderOf(SubSeq(t, m, n), w)
  <1> DEFINE u == SubSeq(t, m, n)
  <1>1. PICK e : OrderedBy(e, t, w)
    BY DEF InOrderOf
  <1>2. /\ Len(t) \in Nat /\ Len(u) \in Nat /\ Len(u) = IF m <= n THEN n - m + 1 ELSE 0
        /\ \A k \in 1..Len(u) : u[k] = t[m + k - 1]
    <2>1. \A i \in m..n : t[i] \in T
      OBVIOUS
    <2>2. /\ Len(u) = IF m <= n THEN n - m + 1 ELSE 0
          /\ \A k \in 1..(n - m + 1) : u[k] = t[m + k - 1]
      BY <2>1, SubSeqProperties
    <2> QED
      BY <2>2
  <1> HIDE DEF u
  <1> DEFINE c == [k \in 1..Len(u) |-> e[m + k - 1]]
  <1>3. \A k \in 1..Len(u) : m + k - 1 \in 1..Len(t) /\ c[k] = e[m + k - 1]
    BY <1>2
  <1>4. \A k \in 1..Len(u) : c[k] \in 1..Len(w) /\ u[k] = w[c[k]] /\ FirstIn(w, c[k])
    BY <1>1, <1>2, <1>3 DEF OrderedBy
  <1>5. c \in [1..Len(u) -> 1..Len(w)]
    BY <1>4
  <1>6. \A k, l \in 1..Len(u) : k < l => c[k] < c[l]
    <2> HIDE DEF c
    <2> SUFFICES ASSUME NEW k \in 1..Len(u), NEW l \in 1..Len(u), k < l PROVE c[k] < c[l]
      OBVIOUS
    <2>1. m + k - 1 < m + l - 1
      BY <1>2
    <2> QED
      BY <1>1, <1>3, <2>1 DEF OrderedBy
  <1> HIDE DEF c
  <1>7. OrderedBy(c, u, w)
    BY <1>4, <1>5, <1>6 DEF OrderedBy
  <1> QED
    BY <1>7 DEF InOrderOf, u

\* A sequence of which each member is kept once, where it is first, is in its order.
LEMMA DistinctInOrder ==
    ASSUME NEW T, NEW w \in Seq(T)
    PROVE  /\ Distinct(w) \in Seq(T)
           /\ ToSet(Distinct(w)) = ToSet(w)
           /\ InOrderOf(Distinct(w), w)
  <1> DEFINE places == [i \in DOMAIN w |-> i]
             firsts == Kept(places, Firsts(w))
             t == [k \in DOMAIN firsts |-> w[firsts[k]]]
  <1>1. DOMAIN w = 1..Len(w) /\ Len(w) \in Nat
    OBVIOUS
  <1>2. places \in Seq(1..Len(w)) /\ Len(places) = Len(w) /\ \A i \in 1..Len(w) : places[i] = i
    BY <1>1
  <1>3. Distinct(w) = t
    BY DEF Distinct
  <1> HIDE DEF places
  <1>4. firsts \in Seq(1..Len(w))
    BY <1>2, KeptPlaces
  <1>5. PICK e : PlacedBy(e, firsts, places, Firsts(w), Len(w))
    BY <1>2, KeptPlaces
  <1> HIDE DEF firsts
  <1>6. DOMAIN firsts = 1..Len(firsts) /\ Len(firsts) \in Nat /\ \A k \in 1..Len(firsts) : firsts[k] \in 1..Len(w)
    BY <1>4
  <1>7. t \in Seq(T) /\ Len(t) = Len(firsts) /\ \A k \in 1..Len(t) : t[k] = w[firsts[k]]
    BY <1>6
  <1> HIDE DEF t
  <1>8. \A k \in 1..Len(t) : firsts[k] = e[k] /\ e[k] \in Firsts(w)
    BY <1>2, <1>5, <1>7 DEF PlacedBy
  <1>9. \A k, l \in 1..Len(t) : k < l => firsts[k] < firsts[l]
    BY <1>5, <1>7, <1>8 DEF PlacedBy
  <1>10. \A k \in 1..Len(t) : FirstIn(w, firsts[k])
    BY <1>8 DEF Firsts, FirstIn
  <1>11. OrderedBy(firsts, t, w)
    BY <1>4, <1>6, <1>7, <1>9, <1>10 DEF OrderedBy
  <1>12. ASSUME NEW i \in 1..Len(w) PROVE \E k \in 1..Len(t) : t[k] = w[i]
    <2> DEFINE same == {j \in 1..Len(w) : w[j] = w[i]}
    <2>1. PICK j \in same : \A m \in same : j <= m
      <3>1. same \subseteq Nat /\ i \in same
        OBVIOUS
      <3> HIDE DEF same
      <3> QED
        BY <3>1, LeastOf
    <2>2. \A m \in 1..(j - 1) : w[m] # w[j]
      BY <2>1
    <2>3. j \in Firsts(w)
      BY <1>1, <2>1, <2>2 DEF Firsts
    <2>4. j \in 1..Len(w) /\ places[j] = j
      BY <1>2, <2>1
    <2>5. \E k \in 1..Len(firsts) : e[k] = j
      BY <1>5, <2>3, <2>4 DEF PlacedBy
    <2> QED
      BY <1>7, <1>8, <2>1, <2>5
  <1>13. ToSet(t) = ToSet(w)
    <2>1. \A v : v \in ToSet(t) <=> \E k \in 1..Len(t) : t[k] = v
      BY <1>7, Members
    <2>2. \A v : v \in ToSet(w) <=> \E i \in 1..Len(w) : w[i] = v
      BY Members
    <2> QED
      BY <1>6, <1>7, <1>12, <2>1, <2>2
  <1> QED
    BY <1>3, <1>7, <1>11, <1>13 DEF InOrderOf

-----------------------------------------------------------------------------
(* Places.                                                                 *)

\* Where a value is first in a sequence, 0 if it is not there.
Place(s, v) == LET at == {i \in 1..Len(s) : s[i] = v} IN IF at # {} THEN Min(at) ELSE 0

LEMMA MinOf ==
    ASSUME NEW S \in SUBSET Nat, S # {}
    PROVE  Min(S) \in S /\ \A m \in S : Min(S) <= m
  <1>1. \E n \in S : \A m \in S : n <= m
    BY LeastOf
  <1> QED
    BY <1>1 DEF Min

LEMMA PlaceIsFirst ==
    ASSUME NEW T, NEW s \in Seq(T), NEW v
    PROVE  /\ Place(s, v) \in 0..Len(s)
           /\ Place(s, v) = 0 <=> v \notin ToSet(s)
           /\ Place(s, v) # 0 => s[Place(s, v)] = v /\ FirstIn(s, Place(s, v))
  <1> DEFINE at == {i \in 1..Len(s) : s[i] = v}
  <1>1. at \subseteq Nat /\ Len(s) \in Nat
    OBVIOUS
  <1>2. v \in ToSet(s) <=> at # {}
    BY Members
  <1>3. CASE at = {}
    <2>1. Place(s, v) = 0
      BY <1>3 DEF Place
    <2> QED
      BY <1>1, <1>2, <1>3, <2>1
  <1>4. CASE at # {}
    <2>1. Place(s, v) = Min(at)
      BY <1>4 DEF Place
    <2> HIDE DEF at
    <2>2. Place(s, v) \in at /\ \A m \in at : Place(s, v) <= m
      BY <1>1, <1>4, <2>1, MinOf
    <2>3. Place(s, v) \in 1..Len(s) /\ s[Place(s, v)] = v
      BY <2>2 DEF at
    <2>4. FirstIn(s, Place(s, v))
      <3> SUFFICES ASSUME NEW j \in 1..(Place(s, v) - 1), s[j] = v PROVE FALSE
        BY <2>3 DEF FirstIn
      <3>1. j \in 1..Len(s) /\ j < Place(s, v) /\ j \in Int /\ Place(s, v) \in Int
        BY <1>1, <2>3
      <3>2. j \in at
        BY <3>1 DEF at
      <3> QED
        BY <2>2, <3>1, <3>2
    <2> QED
      BY <1>1, <1>2, <1>4, <2>3, <2>4
  <1> QED
    BY <1>3, <1>4

LEMMA FirstIsPlace ==
    ASSUME NEW T, NEW s \in Seq(T), NEW i \in 1..Len(s), FirstIn(s, i)
    PROVE  Place(s, s[i]) = i
  <1> DEFINE p == Place(s, s[i])
  <1>1. s[i] \in ToSet(s)
    BY Members
  <1>2. p \in 0..Len(s) /\ p # 0 /\ s[p] = s[i] /\ FirstIn(s, p)
    BY <1>1, PlaceIsFirst
  <1>3. Len(s) \in Nat
    OBVIOUS
  <1> HIDE DEF p
  <1>4. ~(p < i)
    BY <1>2, <1>3 DEF FirstIn
  <1>5. ~(i < p)
    BY <1>2, <1>3 DEF FirstIn
  <1>6. p = i
    BY <1>2, <1>3, <1>4, <1>5
  <1> QED
    BY <1>6 DEF p

\* A place in two sequences, one behind the other.
LEMMA FirstInBoth ==
    ASSUME NEW T, NEW p \in Seq(T), NEW c \in Seq(T), NEW i \in 1..Len(p \o c), FirstIn(p \o c, i)
    PROVE  IF i <= Len(p) THEN Place(p, (p \o c)[i]) = i ELSE (p \o c)[i] \notin ToSet(p)
  <1> DEFINE w == p \o c
  <1>1. /\ w \in Seq(T) /\ Len(p) \in Nat /\ Len(c) \in Nat /\ Len(w) = Len(p) + Len(c)
        /\ \A j \in 1..Len(p) : j \in 1..Len(w) /\ w[j] = p[j]
    BY ConcatProperties
  <1> HIDE DEF w
  <1>2. i \in 1..Len(w) /\ FirstIn(w, i)
    BY DEF w
  <1>3. CASE i <= Len(p)
    <2>1. i \in 1..Len(p) /\ w[i] = p[i]
      BY <1>1, <1>2, <1>3
    <2>2. FirstIn(p, i)
      BY <1>1, <1>2, <2>1 DEF FirstIn
    <2> QED
      BY <1>3, <2>1, <2>2, FirstIsPlace DEF w
  <1>4. CASE ~(i <= Len(p))
    <2>1. \A j \in 1..Len(p) : j \in 1..(i - 1)
      BY <1>1, <1>2, <1>4
    <2>2. \A j \in 1..Len(p) : p[j] # w[i]
      BY <1>1, <1>2, <2>1 DEF FirstIn
    <2>3. w[i] \notin ToSet(p)
      BY <2>2, Members
    <2> QED
      BY <1>4, <2>3 DEF w
  <1> QED
    BY <1>3, <1>4

\* In the order of two sequences the members of the first lead, in its order.
LEMMA FirstLeads ==
    ASSUME NEW T, NEW t \in Seq(T), NEW p \in Seq(T), NEW c \in Seq(T), InOrderOf(t, p \o c),
           NEW k \in 1..Len(t), NEW l \in 1..Len(t), k < l, t[l] \in ToSet(p)
    PROVE  Place(p, t[k]) # 0 /\ Place(p, t[k]) < Place(p, t[l])
  <1> DEFINE w == p \o c
  <1>1. PICK e : OrderedBy(e, t, w)
    BY DEF InOrderOf
  <1>2. /\ e[k] \in 1..Len(w) /\ e[l] \in 1..Len(w) /\ e[k] < e[l] /\ t[k] = w[e[k]] /\ t[l] = w[e[l]]
        /\ FirstIn(w, e[k]) /\ FirstIn(w, e[l])
    BY <1>1 DEF OrderedBy
  <1>3. Len(p) \in Nat /\ Len(w) \in Nat
    BY ConcatProperties
  <1>4. IF e[l] <= Len(p) THEN Place(p, t[l]) = e[l] ELSE t[l] \notin ToSet(p)
    BY <1>2, FirstInBoth
  <1>5. IF e[k] <= Len(p) THEN Place(p, t[k]) = e[k] ELSE t[k] \notin ToSet(p)
    BY <1>2, FirstInBoth
  <1> HIDE DEF w
  <1> QED
    BY <1>2, <1>3, <1>4, <1>5

\* A sequence without repetitions is as long as the set of its members.
LEMMA MembersCounted ==
    ASSUME NEW T, NEW s \in Seq(T), \A k, l \in 1..Len(s) : s[k] = s[l] => k = l
    PROVE  IsFiniteSet(ToSet(s)) /\ Cardinality(ToSet(s)) = Len(s)
  <1>1. Len(s) \in Nat /\ s \in [1..Len(s) -> T]
    OBVIOUS
  <1>2. \A v : v \in ToSet(s) <=> \E i \in 1..Len(s) : s[i] = v
    BY Members
  <1>3. s \in [1..Len(s) -> ToSet(s)]
    BY <1>1, <1>2
  <1>4. s \in Surjection(1..Len(s), ToSet(s)) /\ s \in Injection(1..Len(s), ToSet(s))
    BY <1>2, <1>3 DEF Surjection, Injection, IsInjective
  <1>5. IsFiniteSet(1..Len(s)) /\ Cardinality(1..Len(s)) = Len(s)
    BY <1>1, FS_Interval
  <1> QED
    BY <1>4, <1>5, FS_Surjection

-----------------------------------------------------------------------------
(* Sequences put together.                                                 *)

LEMMA JoinedMembers ==
    ASSUME NEW T, NEW a \in Seq(T), NEW b \in Seq(T)
    PROVE  a \o b \in Seq(T) /\ \A v : v \in ToSet(a \o b) <=> v \in ToSet(a) \/ v \in ToSet(b)
  <1>1. /\ a \o b \in Seq(T) /\ Len(a) \in Nat /\ Len(b) \in Nat /\ Len(a \o b) = Len(a) + Len(b)
        /\ \A i \in 1..(Len(a) + Len(b)) : (a \o b)[i] = IF i <= Len(a) THEN a[i] ELSE b[i - Len(a)]
    BY ConcatProperties
  <1>2. \A v : v \in ToSet(a \o b) <=> \E i \in 1..Len(a \o b) : (a \o b)[i] = v
    BY <1>1, Members
  <1>3. \A v : v \in ToSet(a) <=> \E i \in 1..Len(a) : a[i] = v
    BY Members
  <1>4. \A v : v \in ToSet(b) <=> \E i \in 1..Len(b) : b[i] = v
    BY Members
  <1>5. ASSUME NEW v, v \in ToSet(a \o b) PROVE v \in ToSet(a) \/ v \in ToSet(b)
    <2>1. PICK i \in 1..(Len(a) + Len(b)) : (a \o b)[i] = v
      BY <1>1, <1>2, <1>5
    <2>2. i \in 1..Len(a) \/ (i - Len(a) \in 1..Len(b) /\ ~(i <= Len(a)))
      BY <1>1
    <2> QED
      BY <1>1, <1>3, <1>4, <2>1, <2>2
  <1>6. ASSUME NEW v, v \in ToSet(a) PROVE v \in ToSet(a \o b)
    BY <1>1, <1>2, <1>3, <1>6
  <1>7. ASSUME NEW v, v \in ToSet(b) PROVE v \in ToSet(a \o b)
    <2>1. PICK i \in 1..Len(b) : b[i] = v
      BY <1>4, <1>7
    <2>2. /\ i + Len(a) \in 1..(Len(a) + Len(b)) /\ ~(i + Len(a) <= Len(a)) /\ (i + Len(a)) - Len(a) = i
      BY <1>1
    <2> QED
      BY <1>1, <1>2, <2>1, <2>2
  <1> QED
    BY <1>1, <1>5, <1>6, <1>7

JoinedUpTo(f, seqs, n) ==
    f = [i \in 1..n |-> IF i = 1 THEN seqs[i] ELSE f[i - 1] \o seqs[i]]

LEMMA JoinIsDefined ==
    ASSUME NEW seqs, NEW m \in Nat
    PROVE  \E f : JoinedUpTo(f, seqs, m)
  <1> DEFINE N == {n \in Nat : \E f : JoinedUpTo(f, seqs, n)}
  <1>1. 0 \in N
    <2>1. JoinedUpTo([i \in 1..0 |-> <<>>], seqs, 0)
      BY DEF JoinedUpTo
    <2> QED
      BY <2>1
  <1>2. ASSUME NEW n \in Nat, n \in N PROVE n + 1 \in N
    <2>1. PICK f : JoinedUpTo(f, seqs, n)
      BY <1>2
    <2> DEFINE last == IF n + 1 = 1 THEN seqs[n + 1] ELSE f[n] \o seqs[n + 1]
               g == [i \in 1..(n + 1) |-> IF i = n + 1 THEN last ELSE f[i]]
    <2> HIDE DEF last
    <2>2. \A i \in 1..n : i # n + 1 /\ i \in 1..(n + 1) /\ g[i] = f[i]
      OBVIOUS
    <2>3. \A i \in 1..(n + 1) : g[i] = IF i = 1 THEN seqs[i] ELSE g[i - 1] \o seqs[i]
      <3> SUFFICES ASSUME NEW i \in 1..(n + 1)
                   PROVE  g[i] = IF i = 1 THEN seqs[i] ELSE g[i - 1] \o seqs[i]
        OBVIOUS
      <3>1. CASE i = n + 1 /\ i # 1
        <4>1. n \in 1..n /\ i - 1 = n
          BY <3>1
        <4> QED
          BY <2>2, <3>1, <4>1 DEF last
      <3>2. CASE i # n + 1 /\ i # 1
        <4>1. i \in 1..n /\ i - 1 \in 1..n
          BY <3>2
        <4>2. f[i] = f[i - 1] \o seqs[i]
          BY <2>1, <3>2, <4>1 DEF JoinedUpTo
        <4> QED
          BY <2>2, <3>2, <4>1, <4>2
      <3>3. CASE i = 1 /\ i = n + 1
        BY <3>3 DEF last
      <3>4. CASE i = 1 /\ i # n + 1
        <4>1. i \in 1..n
          BY <3>4
        <4> QED
          BY <2>1, <2>2, <3>4, <4>1 DEF JoinedUpTo
      <3> QED
        BY <3>1, <3>2, <3>3, <3>4
    <2>4. JoinedUpTo(g, seqs, n + 1)
      BY <2>3 DEF JoinedUpTo
    <2> QED
      BY <2>4
  <1>3. Nat \subseteq N
    <2> HIDE DEF N
    <2> QED
      BY <1>1, <1>2, Induction
  <1> QED
    BY <1>3

\* What is joined has the members of all.
LEMMA JoinedSet ==
    ASSUME NEW T, NEW seqs \in Seq(Seq(T))
    PROVE  /\ FlattenSeq(seqs) \in Seq(T)
           /\ \A v : v \in ToSet(FlattenSeq(seqs)) <=> \E i \in 1..Len(seqs) : v \in ToSet(seqs[i])
  <1>1. Len(seqs) \in Nat /\ \A i \in 1..Len(seqs) : seqs[i] \in Seq(T)
    OBVIOUS
  <1>2. CASE Len(seqs) = 0
    <2>1. FlattenSeq(seqs) = <<>> /\ <<>> \in Seq(T) /\ 1..Len(seqs) = {} /\ ToSet(<<>>) = {}
      BY <1>2 DEF FlattenSeq, ToSet
    <2> QED
      BY <2>1
  <1>3. CASE Len(seqs) # 0
    <2> DEFINE f == CHOOSE f : JoinedUpTo(f, seqs, Len(seqs))
    <2>1. JoinedUpTo(f, seqs, Len(seqs))
      BY <1>1, JoinIsDefined
    <2>2. FlattenSeq(seqs) = f[Len(seqs)]
      BY <1>3 DEF FlattenSeq, JoinedUpTo
    <2> HIDE DEF f
    <2> DEFINE joined(n) == f[n] \in Seq(T) /\ \A v : v \in ToSet(f[n]) <=> \E i \in 1..n : v \in ToSet(seqs[i])
               N == {n \in Nat : n \in 1..Len(seqs) => joined(n)}
    <2>3. 0 \in N
      OBVIOUS
    <2>4. ASSUME NEW n \in Nat, n \in N PROVE n + 1 \in N
      <3> SUFFICES ASSUME n + 1 \in 1..Len(seqs) PROVE joined(n + 1)
        OBVIOUS
      <3>1. f[n + 1] = IF n + 1 = 1 THEN seqs[n + 1] ELSE f[n] \o seqs[n + 1]
        <4>1. (n + 1) - 1 = n
          OBVIOUS
        <4> QED
          BY <2>1, <4>1 DEF JoinedUpTo
      <3>2. seqs[n + 1] \in Seq(T)
        BY <1>1
      <3>3. CASE n = 0
        <4>1. f[n + 1] = seqs[n + 1] /\ 1..(n + 1) = {n + 1}
          BY <3>1, <3>3
        <4> QED
          BY <3>2, <4>1
      <3>4. CASE n # 0
        <4>1. f[n + 1] = f[n] \o seqs[n + 1] /\ n \in 1..Len(seqs) /\ 1..(n + 1) = (1..n) \cup {n + 1}
          <5>1. n \in 1..Len(seqs) /\ n + 1 # 1
            BY <1>1, <3>4
          <5>2. 1..(n + 1) = (1..n) \cup {n + 1}
            OBVIOUS
          <5> QED
            BY <3>1, <5>1, <5>2
        <4>2. joined(n)
          BY <2>4, <4>1
        <4>3. f[n] \o seqs[n + 1] \in Seq(T) /\ \A v : v \in ToSet(f[n] \o seqs[n + 1]) <=> v \in ToSet(f[n]) \/ v \in ToSet(seqs[n + 1])
          BY <3>2, <4>2, JoinedMembers
        <4> QED
          BY <4>1, <4>2, <4>3
      <3> QED
        BY <3>3, <3>4
    <2>5. Nat \subseteq N
      <3> HIDE DEF N
      <3> QED
        BY <2>3, <2>4, Induction
    <2>6. joined(Len(seqs))
      <3> HIDE DEF joined
      <3>1. Len(seqs) \in N /\ Len(seqs) \in 1..Len(seqs)
        BY <1>1, <1>3, <2>5
      <3> QED
        BY <3>1
    <2> QED
      BY <2>2, <2>6
  <1> QED
    BY <1>2, <1>3

LEMMA MembersIn ==
    ASSUME NEW T, NEW s \in Seq(T), NEW U, ToSet(s) \subseteq U
    PROVE  s \in Seq(U)
  <1>1. s \in [1..Len(s) -> T] /\ Len(s) \in Nat
    OBVIOUS
  <1>2. \A i \in 1..Len(s) : s[i] \in U
    BY Members
  <1> QED
    BY <1>1, <1>2

\* What is first among those that are kept is first among all.
LEMMA OrderOfKept ==
    ASSUME NEW T, NEW w \in Seq(T), NEW S, NEW t \in Seq(T), InOrderOf(t, Kept(w, S))
    PROVE  InOrderOf(t, w)
  <1> DEFINE u == Kept(w, S)
  <1>1. PICK e : OrderedBy(e, t, u)
    BY DEF InOrderOf
  <1>2. PICK d : PlacedBy(d, u, w, S, Len(w))
    BY KeptPlaces
  <1>3. u \in Seq(T) /\ Len(u) \in Nat /\ Len(w) \in Nat /\ \A v \in ToSet(u) : v \in S
    BY KeptSet
  <1>4. \A k \in 1..Len(u) : u[k] \in ToSet(u)
    BY <1>3, Members
  <1> HIDE DEF u
  <1> DEFINE c == [k \in 1..Len(t) |-> d[e[k]]]
  <1>5. \A k \in 1..Len(t) : e[k] \in 1..Len(u) /\ d[e[k]] \in 1..Len(w) /\ c[k] = d[e[k]]
    BY <1>1, <1>2 DEF PlacedBy, OrderedBy
  <1>6. c \in [1..Len(t) -> 1..Len(w)]
    BY <1>5
  <1> HIDE DEF c
  <1>7. \A k \in 1..Len(t) : t[k] = w[c[k]]
    BY <1>1, <1>2, <1>5 DEF PlacedBy, OrderedBy
  <1>8. \A k, l \in 1..Len(t) : k < l => c[k] < c[l]
    BY <1>1, <1>2, <1>5 DEF PlacedBy, OrderedBy
  <1>9. ASSUME NEW k \in 1..Len(t) PROVE FirstIn(w, c[k])
    <2> SUFFICES ASSUME NEW j \in 1..(c[k] - 1), w[j] = w[c[k]] PROVE FALSE
      BY DEF FirstIn
    <2>1. j \in 1..Len(w) /\ j < c[k] /\ c[k] = d[e[k]] /\ e[k] \in 1..Len(u)
      BY <1>3, <1>5
    <2>2. w[j] \in S /\ w[j] = u[e[k]]
      BY <1>2, <1>3, <1>4, <2>1 DEF PlacedBy
    <2>3. PICK m \in 1..Len(u) : d[m] = j
      BY <1>2, <2>1, <2>2 DEF PlacedBy
    <2>4. u[m] = u[e[k]]
      BY <1>2, <2>2, <2>3 DEF PlacedBy
    <2>5. ~(e[k] < m) /\ e[k] # m
      <3>1. d[e[k]] \in Int /\ d[m] \in Int /\ d[m] < d[e[k]]
        BY <1>5, <2>1, <2>3
      <3>2. e[k] < m => d[e[k]] < d[m]
        BY <1>2, <2>1 DEF PlacedBy
      <3> QED
        BY <3>1, <3>2
    <2>6. m \in 1..(e[k] - 1)
      BY <1>3, <2>1, <2>5
    <2> QED
      BY <1>1, <2>4, <2>6 DEF OrderedBy, FirstIn
  <1>10. OrderedBy(c, t, w)
    BY <1>6, <1>7, <1>8, <1>9 DEF OrderedBy
  <1> QED
    BY <1>10 DEF InOrderOf

-----------------------------------------------------------------------------
(* The catalog and the candidates.                                         *)

LEMMA RefreshedTyped ==
    ASSUME catalog \in Seq(Names), NEW listing \in Listings, NEW failed
    PROVE  Refreshed(listing, failed) \in Seq(Names)
  <1> DEFINE listed == Kept(Order, signedIn)
             parts == [i \in DOMAIN listed |-> Part(listed[i], listing, failed)]
  <1>1. listed \in Seq(Providers)
    BY CatalogAssumption, KeptPlaces
  <1>2. listing \in Seq(Names)
    BY CatalogAssumption
  <1>3. \A p : Part(p, listing, failed) \in Seq(Names)
    BY <1>2, KeptPlaces DEF Part
  <1> HIDE DEF listed
  <1>4. DOMAIN listed = 1..Len(listed) /\ Len(listed) \in Nat
    BY <1>1
  <1>5. parts \in Seq(Seq(Names))
    BY <1>3, <1>4
  <1>6. FlattenSeq(parts) \in Seq(Names)
    BY <1>5, JoinedSet
  <1> QED
    BY <1>6 DEF Refreshed, listed

LEMMA CacheTyped ==
    ASSUME catalog \in Seq(Names), fresh \in BOOLEAN, EnsureModelsCache
    PROVE  catalog' \in Seq(Names) /\ fresh' \in BOOLEAN /\ signedIn' = signedIn
  BY RefreshedTyped DEF EnsureModelsCache

\* All that is configured or in the catalog and there, once, what is configured first.
LEMMA CandidatesInOrder ==
    ASSUME catalog' \in Seq(Names), settings \in Settings
    PROVE  /\ OrderedCandidates \in Seq(Names)
           /\ ToSet(OrderedCandidates) = UsableNames
           /\ InOrderOf(OrderedCandidates, settings.priorities \o catalog')
  <1> DEFINE T == ToSet(settings.priorities) \cup Names
             w == settings.priorities \o catalog'
             kept == Kept(w, UsableNames)
  <1>1. settings.priorities \in Seq(T) /\ catalog' \in Seq(T)
    BY SettingsAssumption, SeqMonotonic
  <1>2. w \in Seq(T) /\ ToSet(catalog') \subseteq ToSet(w)
    BY <1>1, JoinedMembers
  <1>3. UsableNames \subseteq ToSet(catalog') /\ UsableNames \subseteq Names
    <2>1. ToSet(catalog') \subseteq Names
      BY Members
    <2> QED
      BY <2>1 DEF UsableNames
  <1> HIDE DEF T, w
  <1>4. kept \in Seq(T) /\ ToSet(kept) = UsableNames
    <2>1. kept \in Seq(T) /\ ToSet(kept) = ToSet(w) \cap UsableNames
      BY <1>2, KeptSet
    <2>2. ToSet(w) \cap UsableNames = UsableNames
      BY <1>2, <1>3
    <2> QED
      BY <2>1, <2>2
  <1>5. Distinct(kept) \in Seq(T) /\ ToSet(Distinct(kept)) = UsableNames /\ InOrderOf(Distinct(kept), kept)
    BY <1>4, DistinctInOrder
  <1>6. InOrderOf(Distinct(kept), w)
    BY <1>2, <1>5, OrderOfKept
  <1>7. Distinct(kept) \in Seq(Names)
    BY <1>3, <1>5, MembersIn
  <1>8. OrderedCandidates = Distinct(kept)
    BY DEF OrderedCandidates, w
  <1> QED
    BY <1>5, <1>6, <1>7, <1>8 DEF w

-----------------------------------------------------------------------------
(* Types.                                                                  *)

Typed ==
    /\ catalog \in Seq(Names) /\ ordered \in Seq(Names)
    /\ TypeOK

LEMMA TypedAtFirst == Init => Typed
  <1> SUFFICES ASSUME Init PROVE Typed
    OBVIOUS
  <1>1. signedIn \subseteq Providers /\ settings \in Settings
    BY DEF Init
  <1>2. catalog = <<>> /\ ordered = <<>> /\ ToSet(<<>>) = {} /\ <<>> \in Seq(Names)
    BY DEF Init, ToSet
  <1>3. fresh = FALSE /\ bound = None /\ served = None /\ pc = "asked"
    BY DEF Init
  <1> QED
    BY <1>1, <1>2, <1>3 DEF Typed, TypeOK

LEMMA TypedStep == Typed /\ [Next]_vars => Typed'
  <1> SUFFICES ASSUME Typed, [Next]_vars PROVE Typed'
    OBVIOUS
  <1> USE DEF Typed, TypeOK
  <1>1. catalog \in Seq(Names) => ToSet(catalog) \subseteq Names
    BY Members
  <1>2. catalog' \in Seq(Names) => ToSet(catalog') \subseteq Names
    BY Members
  <1>3. <<>> \in Seq(Names)
    OBVIOUS
  <1>4. CASE Outage
    BY <1>4 DEF Outage, worldVars
  <1>5. CASE PlanChain
    BY <1>2, <1>5, CacheTyped DEF PlanChain, Refused, Planned
  <1>6. CASE PlanTasks
    <2>1. EnsureModelsCache /\ UNCHANGED <<settings, request, bound, ordered, served, continued>>
      BY <1>6 DEF PlanTasks
    <2>2. pc' \in {"refused", "planned", "classifying", "unclassified"}
      BY <1>6 DEF PlanTasks, Refused, Planned, Unclassified
    <2> QED
      BY <1>2, <2>1, <2>2, CacheTyped
  <1>7. ASSUME NEW reply \in Replies, Classified(reply) PROVE Typed'
    <2>1. pc' \in {"planned", "unclassified"} /\ UNCHANGED <<worldVars, settings, request, bound, ordered, served, continued>>
      BY <1>7 DEF Classified, Planned, Unclassified
    <2> QED
      BY <1>1, <2>1 DEF worldVars
  <1>8. CASE PlanAlias
    <2>1. pc' \in {"planned", "refused"} /\ EnsureModelsCache /\ UNCHANGED <<settings, request, bound, ordered, question, served, continued>>
      BY <1>8 DEF PlanAlias, Planned, Refused
    <2> QED
      BY <1>2, <2>1, CacheTyped
  <1>9. CASE PlanExplicit
    <2>1. pc' \in {"resolving", "refused"} /\ EnsureModelsCache /\ UNCHANGED <<settings, request, bound, question, served, continued>>
      BY <1>9 DEF PlanExplicit, Refused
    <2>2. catalog' \in Seq(Names) /\ ordered' = OrderedCandidates
      BY <1>9, CacheTyped DEF PlanExplicit
    <2>3. ordered' \in Seq(Names)
      BY <2>2, CandidatesInOrder
    <2> QED
      BY <1>2, <2>1, <2>3, CacheTyped
  <1>10. CASE Resolve
    <2>1. pc' \in {"planned", "refused"} /\ EnsureModelsCache /\ UNCHANGED <<settings, request, bound, ordered, question, served, continued>>
      BY <1>10 DEF Resolve, Planned, Refused
    <2> QED
      BY <1>2, <2>1, CacheTyped
  <1>11. ASSUME NEW n \in Names, Serve(n) PROVE Typed'
    BY <1>11 DEF Serve, worldVars
  <1>12. CASE Fail
    BY <1>12 DEF Fail, worldVars
  <1>13. ASSUME NEW name \in {AutoModel, request.name}, NEW sealed \in BOOLEAN, NEW other \in Settings,
                NEW gone \in {{}} \cup {{p} : p \in Providers}, Continue(name, sealed, other, gone)
         PROVE  Typed'
    <2>1. catalog' \in {catalog, <<>>} /\ ordered' = <<>> /\ fresh' = FALSE /\ signedIn' \subseteq signedIn
          /\ settings' \in Settings /\ bound' \in {None, served} /\ served' = served /\ pc' = "asked"
      BY <1>13 DEF Continue
    <2> QED
      BY <1>2, <1>3, <2>1
  <1>14. CASE UNCHANGED vars
    BY <1>14 DEF vars, worldVars
  <1> QED
    BY <1>4, <1>5, <1>6, <1>7, <1>8, <1>9, <1>10, <1>11, <1>12, <1>13, <1>14 DEF Next

\* The catalog holds public names of providers' entries, and a request is bound to a model that
\* has answered, or to none.
THEOREM TypeCorrect == Spec => []TypeOK
  <1>1. Typed => TypeOK
    BY DEF Typed
  <1> QED
    BY <1>1, TypedAtFirst, TypedStep, PTL DEF Spec

-----------------------------------------------------------------------------
(* Largest numbers.                                                        *)

Bounded(S) == S \subseteq Nat /\ \E b \in Nat : \A x \in S : x <= b

LEMMA MaxOf ==
    ASSUME NEW S, Bounded(S), S # {}
    PROVE  Max(S) \in S /\ Max(S) \in Nat /\ \A x \in S : x <= Max(S)
  <1>1. PICK b \in Nat : \A x \in S : x <= b
    BY DEF Bounded
  <1>2. S \subseteq Nat
    BY DEF Bounded
  <1> DEFINE D == {d \in Nat : \E x \in S : d = b - x}
  <1>3. D # {}
    <2>1. PICK x \in S : TRUE
      OBVIOUS
    <2>2. b - x \in D
      BY <1>1, <1>2, <2>1
    <2> QED
      BY <2>2
  <1>4. PICK d \in D : \A m \in D : d <= m
    BY <1>3, LeastOf
  <1>5. PICK x \in S : d = b - x
    BY <1>4
  <1>6. \A y \in S : y <= x
    <2> SUFFICES ASSUME NEW y \in S PROVE y <= x
      OBVIOUS
    <2>1. b - y \in D
      BY <1>1, <1>2
    <2>2. b - x <= b - y /\ x \in Nat /\ y \in Nat
      BY <1>2, <1>4, <1>5, <2>1
    <2> QED
      BY <2>2
  <1>7. \A y \in S : x >= y
    BY <1>2, <1>6
  <1>8. Max(S) \in S /\ \A y \in S : Max(S) >= y
    BY <1>7 DEF Max
  <1> QED
    BY <1>2, <1>8

LEMMA BoundedTogether ==
    ASSUME NEW S, NEW T, Bounded(S), Bounded(T)
    PROVE  Bounded(S \cup T)
  <1>1. PICK b \in Nat : \A x \in S : x <= b
    BY DEF Bounded
  <1>2. PICK c \in Nat : \A x \in T : x <= c
    BY DEF Bounded
  <1>3. S \cup T \subseteq Nat
    BY DEF Bounded
  <1>4. b + c \in Nat /\ \A x \in S \cup T : x <= b + c
    BY <1>1, <1>2, <1>3
  <1> QED
    BY <1>3, <1>4 DEF Bounded

LEMMA LengthIsBounded ==
    ASSUME NEW l, IsLength(l)
    PROVE  Bounded(l)
  <1>1. CASE l = {}
    BY <1>1 DEF Bounded
  <1>2. CASE l # {}
    <2>1. PICK v \in l : TRUE
      BY <1>2
    <2>2. v \in Nat /\ \A x \in l : x = v
      BY <2>1 DEF IsLength
    <2> QED
      BY <2>2 DEF Bounded, IsLength
  <1> QED
    BY <1>1, <1>2

LEMMA TheLength ==
    ASSUME NEW l, IsLength(l), l # {}
    PROVE  The(l) \in Nat /\ l = {The(l)}
  <1>1. The(l) \in l
    BY DEF The
  <1> QED
    BY <1>1 DEF IsLength

\* The numbers in a sequence have a bound.
LEMMA SequenceIsBounded ==
    ASSUME NEW s \in Seq(Nat)
    PROVE  Bounded(ToSet(s))
  <1>1. Len(s) \in Nat /\ \A i \in 1..Len(s) : s[i] \in Nat
    OBVIOUS
  <1> DEFINE N == {n \in Nat : n <= Len(s) => \E b \in Nat : \A i \in 1..n : s[i] <= b}
  <1>2. 0 \in N
    OBVIOUS
  <1>3. ASSUME NEW n \in Nat, n \in N PROVE n + 1 \in N
    <2> SUFFICES ASSUME n + 1 <= Len(s) PROVE \E b \in Nat : \A i \in 1..(n + 1) : s[i] <= b
      OBVIOUS
    <2>1. PICK b \in Nat : \A i \in 1..n : s[i] <= b
      BY <1>1, <1>3
    <2>2. s[n + 1] \in Nat
      BY <1>1
    <2>3. \A i \in 1..(n + 1) : s[i] <= b + s[n + 1]
      <3> SUFFICES ASSUME NEW i \in 1..(n + 1) PROVE s[i] <= b + s[n + 1]
        OBVIOUS
      <3>1. CASE i = n + 1
        BY <2>2, <3>1
      <3>2. CASE i # n + 1
        <4>1. i \in 1..n /\ s[i] \in Nat
          BY <1>1, <3>2
        <4> QED
          BY <2>1, <2>2, <4>1
      <3> QED
        BY <3>1, <3>2
    <2>4. b + s[n + 1] \in Nat
      BY <2>1, <2>2
    <2> QED
      BY <2>3, <2>4
  <1>4. Nat \subseteq N
    <2> HIDE DEF N
    <2> QED
      BY <1>2, <1>3, Induction
  <1>5. PICK b \in Nat : \A i \in 1..Len(s) : s[i] <= b
    <2>1. Len(s) \in N
      BY <1>1, <1>4
    <2>2. Len(s) <= Len(s)
      BY <1>1
    <2> QED
      BY <2>1, <2>2
  <1>6. \A v : v \in ToSet(s) <=> \E i \in 1..Len(s) : s[i] = v
    BY Members
  <1> QED
    BY <1>1, <1>5, <1>6 DEF Bounded

-----------------------------------------------------------------------------
(* Continuations.                                                          *)

LEMMA NamesAreExplicit ==
    ASSUME NEW n \in Names
    PROVE  n = <<n[1], n[2]>> /\ n # AutoModel /\ Meant(n) = n /\ IsExplicit(n) /\ Id(n) = n[2]
  <1>1. n \in Providers \X DOMAIN Parts
    BY CatalogAssumption
  <1>2. n = <<n[1], n[2]>> /\ Len(n) = 2
    BY <1>1
  <1>3. n # AutoModel
    BY <1>2 DEF AutoModel
  <1>4. n \notin DOMAIN Aliases
    BY CatalogAssumption
  <1> QED
    BY <1>2, <1>3, <1>4 DEF Meant, IsExplicit, Id

\* A name that is listed matches itself alone.
LEMMA ListedMatchesItself ==
    ASSUME catalog' \in Seq(Names), NEW n \in Names, n \in ToSet(catalog')
    PROVE  Matches(n) = {n}
  <1> DEFINE ofProvider == {m \in ToSet(catalog') : m[1] = n[1]}
             entries == Kept(catalog', ofProvider)
             exact == {i \in DOMAIN entries : entries[i][2] = Id(n)}
  <1>1. Among(n) = entries
    BY NamesAreExplicit DEF Among
  <1>2. entries \in Seq(Names) /\ ToSet(entries) = ToSet(catalog') \cap ofProvider
    BY KeptSet
  <1>3. \A v : v \in ToSet(entries) <=> \E i \in 1..Len(entries) : entries[i] = v
    BY <1>2, Members
  <1>4. DOMAIN entries = 1..Len(entries) /\ Len(entries) \in Nat
    BY <1>2
  <1>5. n \in ofProvider
    OBVIOUS
  <1>6. \A v \in ToSet(entries) : v \in Names /\ v[1] = n[1]
    <2>1. ToSet(catalog') \subseteq Names
      BY Members
    <2> QED
      BY <1>2, <2>1
  <1> HIDE DEF ofProvider, entries
  <1>7. exact # {} /\ exact \subseteq Nat
    BY <1>2, <1>3, <1>4, <1>5, NamesAreExplicit
  <1>8. Matches(n) = {entries[Min(exact)]}
    BY <1>1, <1>7 DEF Matches
  <1>9. Min(exact) \in exact
    <2> HIDE DEF exact
    <2> QED
      BY <1>7, MinOf
  <1>10. entries[Min(exact)] \in ToSet(entries) /\ entries[Min(exact)][2] = n[2]
    BY <1>3, <1>4, <1>9, NamesAreExplicit
  <1>11. entries[Min(exact)] = n
    <2> DEFINE m == entries[Min(exact)]
    <2>1. m \in Names /\ m[1] = n[1] /\ m[2] = n[2]
      BY <1>6, <1>10
    <2> HIDE DEF m
    <2>2. m = <<m[1], m[2]>> /\ n = <<n[1], n[2]>>
      BY <2>1, NamesAreExplicit
    <2>3. m = n
      BY <2>1, <2>2
    <2> QED
      BY <2>3 DEF m
  <1> QED
    BY <1>8, <1>11

\* Any other name of a provider's entry matches an entry of that provider, of the same model.
LEMMA KinIsMatched ==
    ASSUME catalog' \in Seq(Names), NEW n \in Names, NEW m \in Matches(n)
    PROVE  m \in ToSet(catalog') /\ m[1] = n[1] /\ Undated(m[2]) = Undated(n[2])
  <1> DEFINE ofProvider == {k \in ToSet(catalog') : k[1] = n[1]}
             entries == Among(n)
             exact == {i \in DOMAIN entries : entries[i][2] = Id(n)}
             kin == {i \in DOMAIN entries : Id(n) \in DOMAIN Parts /\ Undated(entries[i][2]) = Undated(Id(n))}
             version(i) == ParsedId(entries[i][2]).version
             newest == {i \in kin : \A j \in kin : version(j) <= version(i)}
  <1>1. entries = Kept(catalog', ofProvider) /\ Id(n) = n[2]
    BY NamesAreExplicit DEF Among
  <1>2. entries \in Seq(Names) /\ ToSet(entries) = ToSet(catalog') \cap ofProvider
    BY <1>1, KeptSet
  <1>3. \A v : v \in ToSet(entries) <=> \E i \in 1..Len(entries) : entries[i] = v
    BY <1>2, Members
  <1>4. DOMAIN entries = 1..Len(entries) /\ Len(entries) \in Nat
    BY <1>2
  <1>5. \A i \in DOMAIN entries : entries[i] \in ToSet(catalog') /\ entries[i][1] = n[1] /\ entries[i] \in Names
    <2>1. ToSet(catalog') \subseteq Names
      BY Members
    <2>2. ToSet(entries) \subseteq ToSet(catalog') /\ \A k \in ToSet(entries) : k[1] = n[1]
      <3> HIDE DEF entries
      <3> QED
        BY <1>2
    <2> HIDE DEF entries, ofProvider
    <2> QED
      BY <1>3, <1>4, <2>1, <2>2
  <1>6. \A i \in DOMAIN entries : version(i) \in Nat
    <2> SUFFICES ASSUME NEW i \in DOMAIN entries PROVE version(i) \in Nat
      OBVIOUS
    <2>1. entries[i][2] \in DOMAIN Parts
      <3> HIDE DEF entries
      <3>1. entries[i] \in Providers \X DOMAIN Parts
        BY <1>5, CatalogAssumption
      <3> QED
        BY <3>1
    <2>2. version(i) = Parts[entries[i][2]].date
      BY DEF ParsedId
    <2> QED
      BY <2>1, <2>2, CatalogAssumption
  <1>7. /\ exact \subseteq DOMAIN entries /\ \A i \in exact : entries[i][2] = n[2]
        /\ kin \subseteq DOMAIN entries /\ \A i \in kin : Undated(entries[i][2]) = Undated(n[2])
    BY <1>1
  <1>8. (m = entries[Min(exact)] /\ exact # {}) \/ (m = entries[Min(newest)] /\ kin # {})
    <2>1. Matches(n) = CASE exact # {} -> {entries[Min(exact)]}
                         [] exact = {} /\ kin # {} -> {entries[Min(newest)]}
                         [] OTHER -> {}
      BY DEF Matches
    <2> HIDE DEF entries, exact, kin, newest
    <2> QED
      BY <2>1
  <1>9. newest \subseteq kin /\ (kin # {} => newest # {})
    <2> SUFFICES ASSUME kin # {} PROVE newest # {}
      OBVIOUS
    <2> DEFINE versions == [i \in 1..Len(entries) |-> version(i)]
               S == {version(i) : i \in kin}
    <2>1. versions \in Seq(Nat) /\ Len(versions) = Len(entries) /\ \A i \in 1..Len(entries) : versions[i] = version(i)
      <3> HIDE DEF version, entries
      <3> QED
        BY <1>4, <1>6
    <2> HIDE DEF versions, version, entries, kin
    <2>2. S \subseteq ToSet(versions) /\ S # {}
      <3>1. \A v : v \in ToSet(versions) <=> \E i \in 1..Len(versions) : versions[i] = v
        BY <2>1, Members
      <3> QED
        BY <1>4, <1>7, <2>1, <3>1
    <2>3. Bounded(S)
      <3>1. Bounded(ToSet(versions))
        BY <2>1, SequenceIsBounded
      <3> QED
        BY <2>2, <3>1 DEF Bounded
    <2>4. Max(S) \in S /\ \A v \in S : v <= Max(S)
      <3> HIDE DEF S
      <3> QED
        BY <2>2, <2>3, MaxOf
    <2>5. PICK i \in kin : version(i) = Max(S)
      BY <2>4
    <2>6. \A j \in kin : version(j) <= version(i)
      BY <2>4, <2>5
    <2> QED
      BY <2>6
  <1> HIDE DEF ofProvider, entries, exact, newest, kin
  <1>10. \E i \in DOMAIN entries : m = entries[i] /\ (entries[i][2] = n[2] \/ Undated(entries[i][2]) = Undated(n[2]))
    <2>1. exact # {} => Min(exact) \in exact
      BY <1>4, <1>7, MinOf
    <2>2. newest # {} => Min(newest) \in newest
      BY <1>4, <1>7, <1>9, MinOf
    <2> QED
      BY <1>7, <1>8, <1>9, <2>1, <2>2
  <1> QED
    BY <1>5, <1>10

LEMMA BoundIsRequested ==
    ASSUME bound \in {None} \cup {{n} : n \in Names}, bound # None, request.name = AutoModel
    PROVE  RequestedName \in Names /\ bound = {RequestedName} /\ RequestedName # AutoModel
  <1>1. PICK n \in Names : bound = {n}
    OBVIOUS
  <1>2. RequestedName = n
    BY <1>1 DEF RequestedName
  <1> QED
    BY <1>1, <1>2, NamesAreExplicit

\* Only Auto classifies, and only another name is resolved.
Planning ==
    /\ pc = "classifying" => RequestedName = AutoModel
    /\ pc = "resolving" => RequestedName # AutoModel

LEMMA PlanningStep == Typed /\ Planning /\ [Next]_vars => Planning'
  <1> SUFFICES ASSUME Typed, Planning, [Next]_vars PROVE Planning'
    OBVIOUS
  <1>1. UNCHANGED <<request, bound>> => RequestedName' = RequestedName
    BY DEF RequestedName
  <1>2. CASE PlanTasks
    BY <1>1, <1>2 DEF PlanTasks, Planning, Refused, Planned, Unclassified
  <1>3. CASE PlanExplicit
    BY <1>1, <1>3 DEF PlanExplicit, Planning, Refused
  <1>4. CASE UNCHANGED vars
    BY <1>1, <1>4 DEF vars, Planning
  <1>5. pc' \notin {"classifying", "resolving"} => Planning'
    BY DEF Planning
  <1>6. CASE Outage \/ PlanChain \/ Fail
    BY <1>5, <1>6 DEF Outage, PlanChain, Fail, Refused, Planned
  <1>7. CASE PlanAlias \/ Resolve
    BY <1>5, <1>7 DEF PlanAlias, Resolve, Refused, Planned
  <1>8. ASSUME NEW reply \in Replies, Classified(reply) PROVE Planning'
    BY <1>5, <1>8 DEF Classified, Planned, Unclassified
  <1>9. ASSUME NEW n \in Names, Serve(n) PROVE Planning'
    BY <1>5, <1>9 DEF Serve
  <1>10. ASSUME NEW name \in {AutoModel, request.name}, NEW sealed \in BOOLEAN, NEW other \in Settings,
                NEW gone \in {{}} \cup {{p} : p \in Providers}, Continue(name, sealed, other, gone)
         PROVE  Planning'
    BY <1>5, <1>10 DEF Continue
  <1> QED
    BY <1>2, <1>3, <1>4, <1>6, <1>7, <1>8, <1>9, <1>10 DEF Next

LEMMA ContinuationStep == Typed /\ Planning /\ ContinuationIsPlanned /\ [Next]_vars => ContinuationIsPlanned'
  <1> SUFFICES ASSUME Typed, Planning, ContinuationIsPlanned, [Next]_vars, Typed',
                      request'.name = AutoModel, bound' # None, NEW n \in bound'
               PROVE  /\ pc' \in {"planned", "served"} /\ plan'.primary # n =>
                             /\ n \notin ToSet(catalog')
                             /\ plan'.primary[1] = n[1] /\ Undated(plan'.primary[2]) = Undated(n[2])
                      /\ pc' \in {"refused", "unclassified"} =>
                             n[1] \notin signedIn' \/ n \notin ToSet(catalog') \/ n \notin ToSet(ordered')
    BY TypedStep DEF ContinuationIsPlanned
  <1>1. ASSUME UNCHANGED <<request, bound>>
        PROVE  n \in Names /\ RequestedName = n /\ n # AutoModel /\ Meant(n) = n /\ IsExplicit(n)
    <2>1. request.name = AutoModel /\ bound # None /\ n \in bound
      BY <1>1
    <2>2. RequestedName \in Names /\ bound = {RequestedName}
      BY <2>1, BoundIsRequested DEF Typed, TypeOK
    <2> QED
      BY <2>1, <2>2, NamesAreExplicit
  <1>2. pc' \notin {"planned", "served", "refused", "unclassified"} => 
            /\ pc' \in {"planned", "served"} /\ plan'.primary # n =>
                   /\ n \notin ToSet(catalog')
                   /\ plan'.primary[1] = n[1] /\ Undated(plan'.primary[2]) = Undated(n[2])
            /\ pc' \in {"refused", "unclassified"} =>
                   n[1] \notin signedIn' \/ n \notin ToSet(catalog') \/ n \notin ToSet(ordered')
    OBVIOUS
  <1>3. CASE PlanChain \/ PlanTasks
    <2>1. UNCHANGED <<request, bound>> /\ RequestedName = AutoModel
      BY <1>3 DEF PlanChain, PlanTasks
    <2> QED
      BY <1>1, <2>1
  <1>4. CASE PlanAlias
    <2>1. UNCHANGED <<request, bound>> /\ ~IsExplicit(Meant(RequestedName))
      BY <1>4 DEF PlanAlias
    <2> QED
      BY <1>1, <2>1
  <1>5. ASSUME NEW reply \in Replies, Classified(reply) PROVE FALSE
    <2>1. UNCHANGED <<request, bound>> /\ pc = "classifying"
      BY <1>5 DEF Classified
    <2> QED
      BY <1>1, <2>1 DEF Planning
  <1>6. CASE PlanExplicit
    <2>1. pc' = "resolving" \/ (pc' = "refused" /\ ordered' = <<>>)
      BY <1>6 DEF PlanExplicit, Refused
    <2>2. ToSet(<<>>) = {}
      BY DEF ToSet
    <2> QED
      BY <2>1, <2>2
  <1>7. CASE Resolve
    <2>1. UNCHANGED <<request, bound, ordered>>
      BY <1>7 DEF Resolve
    <2>2. CASE n \notin ToSet(catalog')
      <3> DEFINE found == Resolved(n) \cap ToSet(ordered)
      <3>1. IF found = {} THEN Refused ELSE \E m \in found : Planned(ExplicitPlan(m, ordered))
        BY <1>1, <1>7, <2>1 DEF Resolve
      <3>2. found \subseteq Matches(n)
        BY DEF Resolved
      <3> HIDE DEF found
      <3>3. CASE found = {}
        <4>1. pc' = "refused"
          BY <3>1, <3>3 DEF Refused
        <4> QED
          BY <2>2, <4>1
      <3>4. CASE found # {}
        <4>1. PICK m \in found : Planned(ExplicitPlan(m, ordered))
          BY <3>1, <3>4
        <4>2. m[1] = n[1] /\ Undated(m[2]) = Undated(n[2])
          BY <1>1, <2>1, <3>2, <4>1, KinIsMatched DEF Typed
        <4>3. pc' = "planned" /\ plan'.primary = m
          BY <4>1 DEF Planned, ExplicitPlan, Plan
        <4> QED
          BY <2>2, <4>2, <4>3
      <3> QED
        BY <3>3, <3>4
    <2>3. CASE n \in ToSet(catalog')
      <3>1. Matches(n) = {n}
        BY <1>1, <2>1, <2>3, ListedMatchesItself DEF Typed
      <3>2. Resolved(n) = {m \in {n} : m[1] \in signedIn'}
        BY <3>1 DEF Resolved
      <3> DEFINE found == Resolved(n) \cap ToSet(ordered)
      <3>3. IF found = {} THEN Refused ELSE \E m \in found : Planned(ExplicitPlan(m, ordered))
        BY <1>1, <1>7, <2>1 DEF Resolve
      <3> HIDE DEF found
      <3>4. CASE found = {}
        <4>1. pc' = "refused" /\ (n[1] \notin signedIn' \/ n \notin ToSet(ordered))
          BY <3>2, <3>3, <3>4 DEF Refused, found
        <4> QED
          BY <2>1, <4>1
      <3>5. CASE found # {}
        <4>1. PICK m \in found : Planned(ExplicitPlan(m, ordered))
          BY <3>3, <3>5
        <4>2. m = n
          BY <3>2, <4>1 DEF found
        <4>3. pc' = "planned" /\ plan'.primary = n
          BY <4>1, <4>2 DEF Planned, ExplicitPlan, Plan
        <4> QED
          BY <4>3
      <3> QED
        BY <3>4, <3>5
    <2> QED
      BY <2>2, <2>3
  <1>8. ASSUME NEW m \in Names, Serve(m), plan'.primary # n
        PROVE  n \notin ToSet(catalog') /\ plan'.primary[1] = n[1] /\ Undated(plan'.primary[2]) = Undated(n[2])
    BY <1>8 DEF Serve, worldVars, ContinuationIsPlanned
  <1>9. ASSUME NEW m \in Names, Serve(m) PROVE pc' = "served"
    BY <1>9 DEF Serve
  <1>10. CASE Outage \/ Fail
    BY <1>2, <1>10 DEF Outage, Fail
  <1>11. ASSUME NEW name \in {AutoModel, request.name}, NEW sealed \in BOOLEAN, NEW other \in Settings,
                NEW gone \in {{}} \cup {{p} : p \in Providers}, Continue(name, sealed, other, gone)
         PROVE  pc' = "asked"
    BY <1>11 DEF Continue
  <1>12. CASE UNCHANGED vars
    BY <1>12 DEF vars, worldVars, ContinuationIsPlanned
  <1> QED
    BY <1>2, <1>3, <1>4, <1>5, <1>6, <1>7, <1>8, <1>9, <1>10, <1>11, <1>12 DEF Next

\* A request to Auto that is bound to a model is planned on that model while the catalog lists it:
\* the plan asks for that very model, whose name no alias is put in place of and which matches
\* nothing else.  Once the name is not listed it matches another date of the same model of the
\* same provider, and the request is refused if there is none.
THEOREM ContinuationPlanned == Spec => []ContinuationIsPlanned
  <1>1. Init => Planning /\ ContinuationIsPlanned
    BY DEF Init, Planning, ContinuationIsPlanned
  <1> QED
    BY <1>1, TypedAtFirst, TypedStep, PlanningStep, ContinuationStep, PTL DEF Spec

-----------------------------------------------------------------------------
(* Fallbacks.                                                              *)

LEMMA OnceCounted ==
    ASSUME NEW T, NEW s \in Seq(T), NEW v, v \notin ToSet(s), \A k, l \in 1..Len(s) : s[k] = s[l] => k = l
    PROVE  Cardinality({v} \cup ToSet(s)) = 1 + Len(s)
  <1>1. IsFiniteSet(ToSet(s)) /\ Cardinality(ToSet(s)) = Len(s) /\ Len(s) \in Nat
    BY MembersCounted
  <1>2. Cardinality(ToSet(s) \cup {v}) = Cardinality(ToSet(s)) + 1
    BY <1>1, FS_AddElement
  <1>3. {v} \cup ToSet(s) = ToSet(s) \cup {v}
    OBVIOUS
  <1>4. Cardinality({v} \cup ToSet(s)) = Cardinality(ToSet(s) \cup {v})
    BY <1>3, Zenon
  <1> QED
    BY <1>1, <1>2, <1>4

\* The first m of an ordered sequence.
LEMMA FirstOnes ==
    ASSUME NEW T, NEW g \in Seq(T), NEW w \in Seq(T), InOrderOf(g, w), NEW m \in Nat
    PROVE  /\ UpTo(g, m) \in Seq(T) /\ Len(UpTo(g, m)) <= m
           /\ ToSet(UpTo(g, m)) \subseteq ToSet(g)
           /\ InOrderOf(UpTo(g, m), w)
  <1> DEFINE n == IF Len(g) < m THEN Len(g) ELSE m
             f == SubSeq(g, 1, n)
  <1>1. n \in Nat /\ n <= Len(g) /\ n <= m /\ Len(g) \in Nat /\ \A i \in 1..Len(g) : g[i] \in T
    OBVIOUS
  <1>2. UpTo(g, m) = f
    BY DEF UpTo
  <1> HIDE DEF n
  <1>3. /\ f \in Seq(T) /\ Len(f) = n
        /\ \A i \in 1..n : f[i] = g[i]
    <2>1. \A i \in 1..n : g[i] \in T
      BY <1>1
    <2>2. /\ f \in Seq(T) /\ Len(f) = IF 1 <= n THEN n - 1 + 1 ELSE 0
          /\ \A i \in 1..(n - 1 + 1) : f[i] = g[1 + i - 1]
      BY <1>1, <2>1, SubSeqProperties
    <2>3. n - 1 + 1 = n /\ \A i \in 1..n : 1 + i - 1 = i
      BY <1>1
    <2> QED
      BY <1>1, <2>2, <2>3
  <1>4. InOrderOf(f, w)
    BY <1>1, PartInOrder
  <1> HIDE DEF f
  <1>5. \A v \in ToSet(f) : v \in ToSet(g)
    <2>1. \A v : v \in ToSet(f) <=> \E i \in 1..Len(f) : f[i] = v
      BY <1>3, Members
    <2>2. \A v : v \in ToSet(g) <=> \E i \in 1..Len(g) : g[i] = v
      BY Members
    <2> QED
      BY <1>1, <1>3, <2>1, <2>2
  <1> QED
    BY <1>1, <1>2, <1>3, <1>4, <1>5

LEMMA PlacesAscend ==
    ASSUME NEW T, NEW f \in Seq(T), NEW p \in Seq(T), NEW c \in Seq(T), InOrderOf(f, p \o c), ToSet(f) \subseteq ToSet(p)
    PROVE  \A i \in 1..Len(f) :
               /\ Place(p, f[i]) > 0
               /\ \A j \in 1..(i - 1) : Place(p, f[j]) < Place(p, f[i])
  <1>1. \A i \in 1..Len(f) : f[i] \in ToSet(p)
    BY Members
  <1>2. \A i \in 1..Len(f) : Place(p, f[i]) \in Nat /\ Place(p, f[i]) # 0
    <2>1. Len(p) \in Nat
      OBVIOUS
    <2> QED
      BY <1>1, <2>1, PlaceIsFirst
  <1>3. ASSUME NEW i \in 1..Len(f), NEW j \in 1..(i - 1) PROVE Place(p, f[j]) < Place(p, f[i])
    <2>1. j \in 1..Len(f) /\ j < i
      OBVIOUS
    <2> QED
      BY <1>1, <2>1, FirstLeads
  <1> QED
    BY <1>2, <1>3

LEMMA LimitIsNatural == settings \in Settings => Limit \in Nat
  BY SettingsAssumption DEF Limit

LEMMA RestOf ==
    ASSUME NEW T, NEW s \in Seq(T), NEW m \in 1..(Len(s) + 1)
    PROVE  LET a == SubSeq(s, m, Len(s))
           IN  /\ a \in Seq(T) /\ Len(a) \in Nat
               /\ \A i \in 1..Len(a) : m + i - 1 \in 1..Len(s) /\ m <= m + i - 1 /\ a[i] = s[m + i - 1]
  <1> DEFINE n == Len(s)
             a == SubSeq(s, m, n)
  <1>1. n \in Nat /\ m \in Int /\ 1 <= m /\ \A i \in m..n : s[i] \in T
    OBVIOUS
  <1> HIDE DEF n
  <1>2. /\ a \in Seq(T) /\ Len(a) = IF m <= n THEN n - m + 1 ELSE 0
        /\ \A i \in 1..(n - m + 1) : a[i] = s[m + i - 1]
    BY <1>1, SubSeqProperties
  <1> HIDE DEF a
  <1>3. Len(a) \in Nat /\ \A i \in 1..Len(a) : i \in 1..(n - m + 1) /\ m + i - 1 \in 1..n /\ m <= m + i - 1
    BY <1>1, <1>2
  <1> QED
    BY <1>2, <1>3 DEF a, n

\* What is behind a member is not that member, and in order.
LEMMA BehindMember ==
    ASSUME NEW T, NEW s \in Seq(T), NEW p \in Seq(T), NEW c \in Seq(T), InOrderOf(s, p \o c),
           NEW v \in ToSet(s)
    PROVE  /\ After(s, v) \in Seq(T) /\ InOrderOf(After(s, v), p \o c)
           /\ v \notin ToSet(After(s, v)) /\ ToSet(After(s, v)) \subseteq ToSet(s)
           /\ \A n \in ToSet(After(s, v)) : n \in ToSet(p) => Place(p, v) < Place(p, n)
  <1> DEFINE m == Place(s, v) + 1
             a == SubSeq(s, m, Len(s))
             w == p \o c
  <1>1. w \in Seq(T) /\ Len(s) \in Nat /\ InOrderOf(s, w)
    BY ConcatProperties
  <1>2. \A k, l \in 1..Len(s) : s[k] = s[l] => k = l
    BY <1>1, OrderedOnce
  <1>3. Place(s, v) \in 1..Len(s) /\ s[Place(s, v)] = v
    BY <1>1, PlaceIsFirst
  <1>4. After(s, v) = a
    BY DEF After, Place, SelectInSeq
  <1>5. m \in Int /\ 1 <= m /\ m = Place(s, v) + 1
    BY <1>1, <1>3
  <1> HIDE DEF m, w
  <1>6. InOrderOf(a, w)
    BY <1>1, <1>5, PartInOrder
  <1>7. /\ a \in Seq(T) /\ Len(a) \in Nat
        /\ \A i \in 1..Len(a) : m + i - 1 \in 1..Len(s) /\ Place(s, v) < m + i - 1 /\ a[i] = s[m + i - 1]
    <2>1. m \in 1..(Len(s) + 1) /\ \A k \in Int : m <= k => Place(s, v) < k
      BY <1>1, <1>3, <1>5
    <2> QED
      BY <1>1, <2>1, RestOf
  <1> HIDE DEF a
  <1>8. \A n : n \in ToSet(a) <=> \E i \in 1..Len(a) : a[i] = n
    BY <1>7, Members
  <1>9. \A n \in ToSet(a) : n \in ToSet(s)
    BY <1>7, <1>8, Members
  <1>10. v \notin ToSet(a)
    BY <1>2, <1>3, <1>7, <1>8
  <1>11. ASSUME NEW n \in ToSet(a), n \in ToSet(p) PROVE Place(p, v) < Place(p, n)
    <2>1. PICK i \in 1..Len(a) : a[i] = n
      BY <1>8
    <2>2. s[m + i - 1] = n /\ m + i - 1 \in 1..Len(s) /\ Place(s, v) < m + i - 1
      BY <1>7, <2>1
    <2> QED
      BY <1>3, <1>11, <2>2, FirstLeads
  <1> QED
    BY <1>4, <1>6, <1>7, <1>9, <1>10, <1>11 DEF w

\* What an explicit plan takes from candidates that are in the order of the priorities.
LEMMA ExplicitSource ==
    ASSUME settings \in Settings, NEW c \in Seq(Names), NEW s \in Seq(Names), InOrderOf(s, settings.priorities \o c), NEW p \in ToSet(s)
    PROVE  LET g == ExplicitFallbacks(p, s)
               able == ToSet(CapableOf(s))
           IN  /\ g \in Seq(Names) /\ InOrderOf(g, settings.priorities \o c)
               /\ p \notin ToSet(g) /\ ToSet(g) \subseteq able
               /\ IF settings.strategy = "same-model" THEN \A n \in ToSet(g) : n[2] = p[2]
                  ELSE /\ ToSet(g) \subseteq ToSet(settings.priorities)
                       /\ p \in able => \A n \in ToSet(g) : Place(settings.priorities, p) < Place(settings.priorities, n)
  <1> DEFINE T == ToSet(settings.priorities) \cup Names
             w == settings.priorities \o c
             capable == CapableOf(s)
             configured == Kept(capable, ToSet(settings.priorities))
             same == {n \in ToSet(capable) : n # p /\ n[2] = p[2]}
             g == ExplicitFallbacks(p, s)
  <1>1. settings.priorities \in Seq(T) /\ c \in Seq(T) /\ s \in Seq(T)
    <2>1. settings.priorities \in Seq(ToSet(settings.priorities))
      BY SettingsAssumption
    <2> QED
      BY <2>1, SeqMonotonic
  <1> HIDE DEF T
  <1>2. w \in Seq(T) /\ InOrderOf(s, w)
    BY <1>1, ConcatProperties
  <1>3. capable \in Seq(Names) /\ capable \in Seq(T) /\ InOrderOf(capable, w)
    BY <1>1, <1>2, KeptPlaces, KeptInOrder DEF CapableOf
  <1>4. g = IF settings.strategy = "same-model" THEN Kept(capable, same)
            ELSE IF p \in ToSet(configured) THEN After(configured, p) ELSE configured
    BY DEF ExplicitFallbacks
  <1>5. p \in Names
    BY Members
  <1> HIDE DEF capable, g
  <1>6. CASE settings.strategy = "same-model"
    <2>1. g = Kept(capable, same)
      BY <1>4, <1>6
    <2>2. g \in Seq(Names) /\ ToSet(g) = ToSet(capable) \cap same
      BY <1>3, <2>1, KeptSet
    <2>3. InOrderOf(g, w)
      BY <1>2, <1>3, <2>1, KeptInOrder
    <2> QED
      BY <1>6, <2>2, <2>3 DEF capable, g
  <1>7. CASE settings.strategy # "same-model"
    <2>1. /\ configured \in Seq(Names) /\ configured \in Seq(T)
          /\ ToSet(configured) = ToSet(capable) \cap ToSet(settings.priorities)
      BY <1>3, KeptSet
    <2>2. InOrderOf(configured, w)
      BY <1>2, <1>3, KeptInOrder
    <2> HIDE DEF configured
    <2>3. \A n \in ToSet(configured) : Place(settings.priorities, n) > 0
      <3>1. Len(settings.priorities) \in Nat
        BY <1>1
      <3> QED
        BY <1>1, <2>1, <3>1, PlaceIsFirst
    <2>4. CASE p \in ToSet(configured)
      <3>1. g = After(configured, p)
        BY <1>4, <1>7, <2>4
      <3>2. /\ g \in Seq(T) /\ InOrderOf(g, w) /\ p \notin ToSet(g) /\ ToSet(g) \subseteq ToSet(configured)
            /\ \A n \in ToSet(g) : n \in ToSet(settings.priorities) =>
                   Place(settings.priorities, p) < Place(settings.priorities, n)
        BY <1>1, <2>1, <2>2, <2>4, <3>1, BehindMember
      <3>3. ToSet(g) \subseteq Names
        BY <2>1, <3>2, Members
      <3>4. g \in Seq(Names)
        BY <3>2, <3>3, MembersIn
      <3> QED
        BY <1>7, <2>1, <3>2, <3>4 DEF capable, g
    <2>5. CASE p \notin ToSet(configured)
      <3>1. g = configured
        BY <1>4, <1>7, <2>5
      <3>2. p \in ToSet(capable) => Place(settings.priorities, p) = 0
        BY <1>1, <2>1, <2>5, PlaceIsFirst
      <3> QED
        BY <1>7, <2>1, <2>2, <2>3, <2>5, <3>1, <3>2 DEF capable, g
    <2> QED
      BY <2>4, <2>5
  <1> QED
    BY <1>6, <1>7

\* The fallbacks of an explicit plan.
LEMMA ExplicitConfigured ==
    ASSUME settings \in Settings, NEW c \in Seq(Names), NEW s \in Seq(Names),
           InOrderOf(s, settings.priorities \o c), NEW p \in ToSet(s)
    PROVE  LET f == ExplicitPlan(p, s).fallbacks
               able == ToSet(CapableOf(s))
           IN  /\ Len(f) <= Limit /\ f \in Seq(Names)
               /\ Cardinality({p} \cup ToSet(f)) = 1 + Len(f)
               /\ ToSet(f) \subseteq able
               /\ IF settings.strategy = "same-model" THEN \A n \in ToSet(f) : n[2] = p[2]
                  ELSE \A i \in DOMAIN f :
                           /\ Place(settings.priorities, f[i]) > 0
                           /\ \A j \in 1..(i - 1) : Place(settings.priorities, f[j]) < Place(settings.priorities, f[i])
                           /\ p \in able => Place(settings.priorities, p) < Place(settings.priorities, f[i])
  <1> DEFINE T == ToSet(settings.priorities) \cup Names
             w == settings.priorities \o c
             g == ExplicitFallbacks(p, s)
             f == UpTo(g, Limit)
             able == ToSet(CapableOf(s))
  <1>1. ExplicitPlan(p, s).fallbacks = f
    BY DEF ExplicitPlan, Plan
  <1>2. /\ g \in Seq(Names) /\ InOrderOf(g, w)
        /\ p \notin ToSet(g) /\ ToSet(g) \subseteq able
        /\ IF settings.strategy = "same-model" THEN \A n \in ToSet(g) : n[2] = p[2]
           ELSE /\ ToSet(g) \subseteq ToSet(settings.priorities)
                /\ p \in able => \A n \in ToSet(g) : Place(settings.priorities, p) < Place(settings.priorities, n)
    BY ExplicitSource
  <1>3. settings.priorities \in Seq(T) /\ c \in Seq(T) /\ g \in Seq(T)
    <2>1. settings.priorities \in Seq(ToSet(settings.priorities))
      BY SettingsAssumption
    <2> QED
      BY <1>2, <2>1, SeqMonotonic
  <1>4. w \in Seq(T) /\ Limit \in Nat
    BY <1>3, ConcatProperties, LimitIsNatural
  <1> HIDE DEF g, T, able
  <1>5. /\ f \in Seq(T) /\ Len(f) <= Limit
        /\ ToSet(f) \subseteq ToSet(g)
        /\ InOrderOf(f, w)
    BY <1>2, <1>3, <1>4, FirstOnes
  <1> HIDE DEF f
  <1>6. \A k, l \in 1..Len(f) : f[k] = f[l] => k = l
    BY <1>4, <1>5, OrderedOnce
  <1>7. Cardinality({p} \cup ToSet(f)) = 1 + Len(f)
    BY <1>2, <1>5, <1>6, OnceCounted
  <1>8. f \in Seq(Names)
    <2>1. ToSet(g) \subseteq Names
      BY <1>2, Members
    <2> QED
      BY <1>5, <2>1, MembersIn
  <1>9. ASSUME settings.strategy # "same-model"
        PROVE  \A i \in DOMAIN f :
                   /\ Place(settings.priorities, f[i]) > 0
                   /\ \A j \in 1..(i - 1) : Place(settings.priorities, f[j]) < Place(settings.priorities, f[i])
                   /\ p \in able => Place(settings.priorities, p) < Place(settings.priorities, f[i])
    <2>1. ToSet(f) \subseteq ToSet(settings.priorities)
      BY <1>2, <1>5, <1>9
    <2>2. DOMAIN f = 1..Len(f)
      BY <1>5
    <2>3. \A i \in 1..Len(f) : f[i] \in ToSet(g)
      BY <1>5, Members
    <2>4. \A i \in 1..Len(f) :
              /\ Place(settings.priorities, f[i]) > 0
              /\ \A j \in 1..(i - 1) : Place(settings.priorities, f[j]) < Place(settings.priorities, f[i])
      BY <1>3, <1>5, <2>1, PlacesAscend
    <2> QED
      BY <1>2, <1>9, <2>2, <2>3, <2>4
  <1>10. settings.strategy = "same-model" => \A n \in ToSet(f) : n[2] = p[2]
    BY <1>2, <1>5
  <1> QED
    BY <1>1, <1>2, <1>5, <1>7, <1>8, <1>9, <1>10 DEF able

LEMMA FitIsKept ==
    ASSUME NEW s \in Seq(Names)
    PROVE  /\ CapableOf(s) \in Seq(Names)
           /\ \A n : n \in ToSet(CapableOf(s)) <=> n \in ToSet(s) /\ Supports(n, request.needs, FALSE)
  <1> DEFINE fit == {n \in ToSet(s) : Supports(n, request.needs, FALSE)}
  <1>1. CapableOf(s) = Kept(s, fit)
    BY DEF CapableOf
  <1>2. \A n : n \in fit <=> n \in ToSet(s) /\ Supports(n, request.needs, FALSE)
    OBVIOUS
  <1> HIDE DEF fit
  <1>3. Kept(s, fit) \in Seq(Names) /\ ToSet(Kept(s, fit)) = ToSet(s) \cap fit
    BY KeptSet
  <1> QED
    BY <1>1, <1>2, <1>3

\* The head and the rest of an ordered sequence.
LEMMA HeadLeads ==
    ASSUME NEW T, NEW x \in Seq(T), x # <<>>, NEW p \in Seq(T), NEW c \in Seq(T), InOrderOf(x, p \o c)
    PROVE  /\ Head(x) \in ToSet(x) /\ Head(x) \notin ToSet(Tail(x))
           /\ Tail(x) \in Seq(T) /\ ToSet(Tail(x)) \subseteq ToSet(x)
           /\ InOrderOf(Tail(x), p \o c)
           /\ \A n \in ToSet(x) : n \in ToSet(p) => Place(p, Head(x)) # 0 /\ Place(p, Head(x)) <= Place(p, n)
  <1>1. /\ Len(x) \in Nat /\ Len(x) # 0 /\ 1 \in 1..Len(x) /\ Head(x) = x[1]
    OBVIOUS
  <1>2. Tail(x) = SubSeq(x, 2, Len(x))
    BY TailIsSubSeq
  <1> DEFINE w == p \o c
             a == SubSeq(x, 2, Len(x))
  <1>3. w \in Seq(T) /\ InOrderOf(x, w)
    BY ConcatProperties
  <1> HIDE DEF w
  <1>4. InOrderOf(a, w)
    <2>1. 2 \in Int /\ 1 <= 2 /\ Len(x) \in Int /\ Len(x) <= Len(x)
      BY <1>1
    <2> QED
      BY <1>3, <2>1, PartInOrder
  <1>5. /\ a \in Seq(T) /\ Len(a) \in Nat
        /\ \A i \in 1..Len(a) : 2 + i - 1 \in 1..Len(x) /\ 2 <= 2 + i - 1 /\ a[i] = x[2 + i - 1]
    <2>1. 2 \in 1..(Len(x) + 1)
      BY <1>1
    <2> QED
      BY <2>1, RestOf
  <1> HIDE DEF a
  <1>6. \A k, l \in 1..Len(x) : x[k] = x[l] => k = l
    BY <1>3, OrderedOnce
  <1>7. \A n : n \in ToSet(a) <=> \E i \in 1..Len(a) : a[i] = n
    BY <1>5, Members
  <1>8. \A n : n \in ToSet(x) <=> \E i \in 1..Len(x) : x[i] = n
    BY Members
  <1>9. x[1] \notin ToSet(a)
    BY <1>1, <1>5, <1>6, <1>7
  <1>10. \A n \in ToSet(a) : n \in ToSet(x)
    BY <1>5, <1>7, <1>8
  <1>11. ASSUME NEW n \in ToSet(x), n \in ToSet(p)
         PROVE  Place(p, x[1]) # 0 /\ Place(p, x[1]) <= Place(p, n)
    <2>1. PICK k \in 1..Len(x) : x[k] = n
      BY <1>8
    <2>2. Place(p, n) \in Nat /\ Place(p, n) # 0 /\ Place(p, x[1]) \in Nat
      <3>1. Len(p) \in Nat
        OBVIOUS
      <3> QED
        BY <1>11, <3>1, PlaceIsFirst
    <2>3. CASE k = 1
      BY <2>1, <2>2, <2>3
    <2>4. CASE k # 1
      <3>1. 1 < k
        BY <1>1, <2>4
      <3>2. Place(p, x[1]) # 0 /\ Place(p, x[1]) < Place(p, x[k])
        BY <1>1, <1>11, <2>1, <3>1, FirstLeads
      <3> QED
        BY <2>1, <2>2, <3>2
    <2> QED
      BY <2>3, <2>4
  <1> QED
    BY <1>1, <1>2, <1>4, <1>5, <1>8, <1>9, <1>10, <1>11 DEF a, w

\* The plans for an id or a family alone.
LEMMA AliasConfigured ==
    ASSUME settings \in Settings, catalog' \in Seq(Names), NEW name, NEW p \in AliasPlans(name)
    PROVE  LET f == p.fallbacks
           IN  /\ ~p.explicit
               /\ Len(f) <= Limit /\ Cardinality({p.primary} \cup ToSet(f)) = 1 + Len(f)
               /\ \A n \in ToSet(f) : n \in UsableNames /\ Supports(n, request.needs, FALSE) /\ n[2] = p.primary[2]
               /\ \A n \in ToSet(settings.priorities) :
                      n[2] = p.primary[2] /\ Supports(n, request.needs, FALSE) /\ n \in UsableNames =>
                          /\ Place(settings.priorities, p.primary) # 0
                          /\ Place(settings.priorities, p.primary) <= Place(settings.priorities, n)
  <1> DEFINE T == ToSet(settings.priorities) \cup Names
             w == settings.priorities \o catalog'
             ofId(id) == {n \in UsableNames : n[2] = id}
             capable(id) == CapableOf(Kept(OrderedCandidates, ofId(id)))
  <1>1. PICK m \in Matches(name) :
            /\ capable(m[2]) # <<>>
            /\ p = Plan(Head(capable(m[2])), UpTo(Tail(capable(m[2])), Limit), FALSE, FALSE)
    BY DEF AliasPlans
  <1> DEFINE id == m[2]
             x == capable(id)
             f == UpTo(Tail(x), Limit)
             kept == Kept(OrderedCandidates, ofId(id))
  <1>2. p.primary = Head(x) /\ p.fallbacks = f /\ ~p.explicit /\ x # <<>>
    BY <1>1 DEF Plan
  <1>3. /\ OrderedCandidates \in Seq(Names) /\ ToSet(OrderedCandidates) = UsableNames
        /\ InOrderOf(OrderedCandidates, w)
    BY CandidatesInOrder
  <1>4. settings.priorities \in Seq(T) /\ catalog' \in Seq(T)
    <2>1. settings.priorities \in Seq(ToSet(settings.priorities))
      BY SettingsAssumption
    <2> QED
      BY <2>1, SeqMonotonic
  <1>5. w \in Seq(T) /\ Limit \in Nat
    BY <1>4, ConcatProperties, LimitIsNatural
  <1>6. kept \in Seq(Names) /\ \A n : n \in ToSet(kept) <=> n \in UsableNames /\ n[2] = id
    BY <1>3, KeptSet
  <1>7. OrderedCandidates \in Seq(T)
    BY <1>3, SeqMonotonic
  <1>8. InOrderOf(kept, w)
    BY <1>3, <1>5, <1>7, KeptInOrder
  <1>9. x = CapableOf(kept)
    OBVIOUS
  <1> HIDE DEF kept, id, x
  <1>10. x \in Seq(Names) /\ \A n : n \in ToSet(x) <=> n \in UsableNames /\ n[2] = id /\ Supports(n, request.needs, FALSE)
    BY <1>6, <1>9, FitIsKept
  <1>11. kept \in Seq(T) /\ x \in Seq(T)
    BY <1>6, <1>10, SeqMonotonic
  <1>12. InOrderOf(x, w)
    BY <1>5, <1>8, <1>9, <1>11, KeptInOrder DEF CapableOf
  <1>13. /\ Head(x) \in ToSet(x) /\ Head(x) \notin ToSet(Tail(x))
         /\ Tail(x) \in Seq(T) /\ ToSet(Tail(x)) \subseteq ToSet(x)
         /\ InOrderOf(Tail(x), w)
         /\ \A n \in ToSet(x) : n \in ToSet(settings.priorities) =>
                Place(settings.priorities, Head(x)) # 0 /\ Place(settings.priorities, Head(x)) <= Place(settings.priorities, n)
    BY <1>2, <1>4, <1>11, <1>12, HeadLeads
  <1> HIDE DEF T, w
  <1>14. f \in Seq(T) /\ Len(f) <= Limit /\ ToSet(f) \subseteq ToSet(Tail(x)) /\ InOrderOf(f, w)
    BY <1>5, <1>13, FirstOnes
  <1> HIDE DEF f
  <1>15. Cardinality({Head(x)} \cup ToSet(f)) = 1 + Len(f)
    <2>1. \A k, l \in 1..Len(f) : f[k] = f[l] => k = l
      BY <1>5, <1>14, OrderedOnce
    <2> QED
      BY <1>13, <1>14, <2>1, OnceCounted
  <1>16. Head(x)[2] = id
    BY <1>10, <1>13
  <1>17. \A n \in ToSet(f) : n \in UsableNames /\ Supports(n, request.needs, FALSE) /\ n[2] = Head(x)[2]
    BY <1>10, <1>13, <1>14, <1>16
  <1>18. \A n \in ToSet(settings.priorities) :
             n[2] = Head(x)[2] /\ Supports(n, request.needs, FALSE) /\ n \in UsableNames =>
                 /\ Place(settings.priorities, Head(x)) # 0
                 /\ Place(settings.priorities, Head(x)) <= Place(settings.priorities, n)
    BY <1>10, <1>13, <1>16
  <1>19. Len(p.fallbacks) <= Limit /\ Cardinality({p.primary} \cup ToSet(p.fallbacks)) = 1 + Len(p.fallbacks)
    BY <1>2, <1>14, <1>15
  <1>20. \A n \in ToSet(p.fallbacks) : n \in UsableNames /\ Supports(n, request.needs, FALSE) /\ n[2] = p.primary[2]
    <2>1. ToSet(p.fallbacks) = ToSet(f) /\ p.primary[2] = Head(x)[2]
      BY <1>2, Zenon
    <2> QED
      BY <1>17, <2>1
  <1>21. \A n \in ToSet(settings.priorities) :
             n[2] = p.primary[2] /\ Supports(n, request.needs, FALSE) /\ n \in UsableNames =>
                 /\ Place(settings.priorities, p.primary) # 0
                 /\ Place(settings.priorities, p.primary) <= Place(settings.priorities, n)
    BY <1>2, <1>18, Zenon
  <1> QED
    BY <1>2, <1>19, <1>20, <1>21

LEMMA FitLater ==
    ASSUME UNCHANGED <<settings, request>>, NEW n
    PROVE  Supports(n, request.needs, FALSE)' <=> Supports(n, request.needs, FALSE)
  BY DEF Supports, Info

LEMMA RankLater ==
    ASSUME UNCHANGED settings, NEW n
    PROVE  Rank(n)' = Place(settings.priorities, n)
  BY DEF Rank, Place, SelectInSeq

\* The plan of a step is as configured.
LEMMA ConfiguredLater ==
    ASSUME UNCHANGED <<settings, request>>,
           Len(plan'.fallbacks) <= Limit,
           Cardinality({plan'.primary} \cup ToSet(plan'.fallbacks)) = 1 + Len(plan'.fallbacks),
           \A n \in ToSet(plan'.fallbacks) : n[1] \in signedIn' /\ Supports(n, request.needs, FALSE),
           IF settings.strategy = "same-model" \/ ~plan'.explicit
           THEN \A n \in ToSet(plan'.fallbacks) : n[2] = plan'.primary[2]
           ELSE \A i \in DOMAIN plan'.fallbacks :
                    /\ Place(settings.priorities, plan'.fallbacks[i]) > 0
                    /\ \A j \in 1..(i - 1) :
                           Place(settings.priorities, plan'.fallbacks[j]) < Place(settings.priorities, plan'.fallbacks[i])
                    /\ Supports(plan'.primary, request.needs, FALSE) =>
                           Place(settings.priorities, plan'.primary) < Place(settings.priorities, plan'.fallbacks[i]),
           ~plan'.explicit => \A n \in ToSet(settings.priorities) :
               n[2] = plan'.primary[2] /\ Supports(n, request.needs, FALSE) /\ n \in UsableNames =>
                   /\ Place(settings.priorities, plan'.primary) # 0
                   /\ Place(settings.priorities, plan'.primary) <= Place(settings.priorities, n)
    PROVE  FallbacksAreConfigured'
  <1> DEFINE f == plan'.fallbacks
             p == plan'.primary
  <1>1. Fallbacks' = f /\ Candidates' = {p} \cup ToSet(f) /\ Limit' = Limit
    BY DEF Fallbacks, Candidates, Limit
  <1>2. \A n : Supports(n, request.needs, FALSE)' <=> Supports(n, request.needs, FALSE)
    BY FitLater
  <1>3. \A n : Rank(n)' = Place(settings.priorities, n)
    BY RankLater
  <1>4. \A n : ~(Never(n)') <=> n \in UsableNames
    BY DEF Never, UsableNames
  <1>5. settings' = settings
    OBVIOUS
  <1>6. (\A n \in ToSet(Fallbacks) : n[1] \in signedIn /\ Supports(n, request.needs, FALSE))'
    BY <1>1, <1>2
  <1>7. (IF settings.strategy = "same-model" \/ ~plan.explicit
         THEN \A n \in ToSet(Fallbacks) : n[2] = plan.primary[2]
         ELSE \A i \in DOMAIN Fallbacks :
                  /\ Rank(Fallbacks[i]) > 0
                  /\ \A j \in 1..(i - 1) : Rank(Fallbacks[j]) < Rank(Fallbacks[i])
                  /\ Supports(plan.primary, request.needs, FALSE) => Rank(plan.primary) < Rank(Fallbacks[i]))'
    <2>1. CASE settings.strategy = "same-model" \/ ~plan'.explicit
      BY <1>1, <1>5, <2>1
    <2>2. CASE ~(settings.strategy = "same-model" \/ ~plan'.explicit)
      <3>1. \A i \in DOMAIN f :
                /\ Place(settings.priorities, f[i]) > 0
                /\ \A j \in 1..(i - 1) : Place(settings.priorities, f[j]) < Place(settings.priorities, f[i])
                /\ Supports(p, request.needs, FALSE) => Place(settings.priorities, p) < Place(settings.priorities, f[i])
        BY <2>2
      <3> QED
        BY <1>1, <1>2, <1>3, <1>5, <2>2, <3>1
    <2> QED
      BY <2>1, <2>2
  <1>8. (~plan.explicit => \A n \in ToSet(settings.priorities) :
            n[2] = plan.primary[2] /\ Supports(n, request.needs, FALSE) /\ ~Never(n) =>
                Rank(plan.primary) # 0 /\ Rank(plan.primary) <= Rank(n))'
    BY <1>2, <1>3, <1>4, <1>5
  <1>9. (Len(Fallbacks) <= Limit /\ Cardinality(Candidates) = 1 + Len(Fallbacks))'
    BY <1>1
  <1> QED
    BY <1>6, <1>7, <1>8, <1>9 DEF FallbacksAreConfigured

\* The candidates of a plan under way.
Prepared ==
    pc = "resolving" =>
        /\ \A n \in ToSet(ordered) : n[1] \in signedIn
        /\ \E c \in Seq(Names) : InOrderOf(ordered, settings.priorities \o c)

LEMMA PreparedStep == Typed /\ Prepared /\ [Next]_vars => Prepared'
  <1> SUFFICES ASSUME Typed, Prepared, [Next]_vars PROVE Prepared'
    OBVIOUS
  <1>1. pc' # "resolving" => Prepared'
    BY DEF Prepared
  <1>2. CASE PlanExplicit
    <2>1. UNCHANGED settings /\ ordered' = OrderedCandidates /\ catalog' \in Seq(Names)
      BY <1>2, CacheTyped DEF PlanExplicit, Typed, TypeOK
    <2>2. ToSet(ordered') = UsableNames /\ InOrderOf(ordered', settings.priorities \o catalog')
      BY <2>1, CandidatesInOrder DEF Typed, TypeOK
    <2>3. \A n \in UsableNames : n[1] \in signedIn'
      BY DEF UsableNames
    <2>4. \E c \in Seq(Names) : InOrderOf(ordered', settings'.priorities \o c)
      BY <2>1, <2>2
    <2> QED
      BY <2>2, <2>3, <2>4 DEF Prepared
  <1>3. CASE Outage \/ PlanChain \/ Fail
    BY <1>1, <1>3 DEF Outage, PlanChain, Fail, Refused, Planned
  <1>4. CASE PlanTasks
    BY <1>1, <1>4 DEF PlanTasks, Refused, Planned, Unclassified
  <1>5. CASE PlanAlias \/ Resolve
    BY <1>1, <1>5 DEF PlanAlias, Resolve, Refused, Planned
  <1>6. ASSUME NEW reply \in Replies, Classified(reply) PROVE Prepared'
    BY <1>1, <1>6 DEF Classified, Planned, Unclassified
  <1>7. ASSUME NEW n \in Names, Serve(n) PROVE Prepared'
    BY <1>1, <1>7 DEF Serve
  <1>8. ASSUME NEW name \in {AutoModel, request.name}, NEW sealed \in BOOLEAN, NEW other \in Settings,
               NEW gone \in {{}} \cup {{p} : p \in Providers}, Continue(name, sealed, other, gone)
        PROVE  Prepared'
    BY <1>1, <1>8 DEF Continue
  <1>9. CASE UNCHANGED vars
    BY <1>9 DEF vars, worldVars, Prepared
  <1> QED
    BY <1>2, <1>3, <1>4, <1>5, <1>6, <1>7, <1>8, <1>9 DEF Next

LEMMA FallbacksStep == Typed /\ Planning /\ Prepared /\ FallbacksAreConfigured /\ [Next]_vars => FallbacksAreConfigured'
  <1> SUFFICES ASSUME Typed, Planning, Prepared, FallbacksAreConfigured, [Next]_vars PROVE FallbacksAreConfigured'
    OBVIOUS
  <1>1. pc' # "planned" => FallbacksAreConfigured'
    BY DEF FallbacksAreConfigured
  <1>2. ASSUME UNCHANGED <<request, bound>>, RequestedName = AutoModel PROVE FallbacksAreConfigured'
    <2>1. RequestedName' = AutoModel
      BY <1>2 DEF RequestedName
    <2> QED
      BY <2>1 DEF FallbacksAreConfigured
  <1>3. CASE PlanChain \/ PlanTasks
    BY <1>2, <1>3 DEF PlanChain, PlanTasks
  <1>4. ASSUME NEW reply \in Replies, Classified(reply) PROVE FallbacksAreConfigured'
    BY <1>2, <1>4 DEF Classified, Planning
  <1>5. CASE PlanAlias
    <2>1. EnsureModelsCache /\ UNCHANGED <<settings, request>>
      BY <1>5 DEF PlanAlias
    <2>2. catalog' \in Seq(Names) /\ settings \in Settings
      BY <2>1, CacheTyped DEF Typed, TypeOK
    <2>3. CASE AliasPlans(Meant(RequestedName)) = {}
      BY <1>1, <1>5, <2>3 DEF PlanAlias, Refused
    <2>4. CASE AliasPlans(Meant(RequestedName)) # {}
      <3>1. plan' \in AliasPlans(Meant(RequestedName))
        BY <1>5, <2>4 DEF PlanAlias, Planned
      <3>2. /\ ~plan'.explicit
            /\ Len(plan'.fallbacks) <= Limit /\ Cardinality({plan'.primary} \cup ToSet(plan'.fallbacks)) = 1 + Len(plan'.fallbacks)
            /\ \A n \in ToSet(plan'.fallbacks) :
                   n \in UsableNames /\ Supports(n, request.needs, FALSE) /\ n[2] = plan'.primary[2]
            /\ \A n \in ToSet(settings.priorities) :
                   n[2] = plan'.primary[2] /\ Supports(n, request.needs, FALSE) /\ n \in UsableNames =>
                       /\ Place(settings.priorities, plan'.primary) # 0
                       /\ Place(settings.priorities, plan'.primary) <= Place(settings.priorities, n)
        BY <2>2, <3>1, AliasConfigured
      <3>3. \A n \in UsableNames : n[1] \in signedIn'
        BY DEF UsableNames
      <3> QED
        BY <2>1, <3>2, <3>3, ConfiguredLater
    <2> QED
      BY <2>3, <2>4
  <1>6. CASE Resolve
    <2> DEFINE found == Resolved(Meant(RequestedName)) \cap ToSet(ordered)
    <2>1. UNCHANGED <<settings, request, ordered>> /\ pc = "resolving" /\ signedIn' = signedIn
      BY <1>6, CacheTyped DEF Resolve, Typed, TypeOK
    <2>2. IF found = {} THEN Refused ELSE \E n \in found : Planned(ExplicitPlan(n, ordered))
      BY <1>6 DEF Resolve
    <2>3. CASE found = {}
      BY <1>1, <2>2, <2>3 DEF Refused
    <2>4. CASE found # {}
      <3>1. PICK p \in ToSet(ordered) : plan' = ExplicitPlan(p, ordered)
        BY <2>2, <2>4 DEF Planned
      <3>2. PICK c \in Seq(Names) : InOrderOf(ordered, settings.priorities \o c)
        BY <2>1 DEF Prepared
      <3>3. ordered \in Seq(Names) /\ settings \in Settings
        BY DEF Typed, TypeOK
      <3> DEFINE f == ExplicitPlan(p, ordered).fallbacks
                 able == ToSet(CapableOf(ordered))
      <3>4. /\ Len(f) <= Limit
            /\ Cardinality({p} \cup ToSet(f)) = 1 + Len(f)
            /\ ToSet(f) \subseteq able
            /\ IF settings.strategy = "same-model" THEN \A n \in ToSet(f) : n[2] = p[2]
               ELSE \A i \in DOMAIN f :
                        /\ Place(settings.priorities, f[i]) > 0
                        /\ \A j \in 1..(i - 1) : Place(settings.priorities, f[j]) < Place(settings.priorities, f[i])
                        /\ p \in able => Place(settings.priorities, p) < Place(settings.priorities, f[i])
        BY <3>2, <3>3, ExplicitConfigured
      <3>5. \A n : n \in able <=> n \in ToSet(ordered) /\ Supports(n, request.needs, FALSE)
        BY <3>3, FitIsKept
      <3>6. plan'.primary = p /\ plan'.fallbacks = f /\ plan'.explicit = TRUE
        BY <3>1 DEF ExplicitPlan, Plan
      <3>7. \A n \in ToSet(f) : n[1] \in signedIn' /\ Supports(n, request.needs, FALSE)
        BY <2>1, <3>4, <3>5 DEF Prepared
      <3> HIDE DEF f, able
      <3>8. IF settings.strategy = "same-model" \/ ~plan'.explicit
            THEN \A n \in ToSet(plan'.fallbacks) : n[2] = plan'.primary[2]
            ELSE \A i \in DOMAIN plan'.fallbacks :
                     /\ Place(settings.priorities, plan'.fallbacks[i]) > 0
                     /\ \A j \in 1..(i - 1) :
                            Place(settings.priorities, plan'.fallbacks[j]) < Place(settings.priorities, plan'.fallbacks[i])
                     /\ Supports(plan'.primary, request.needs, FALSE) =>
                            Place(settings.priorities, plan'.primary) < Place(settings.priorities, plan'.fallbacks[i])
        BY <3>4, <3>5, <3>6
      <3> QED
        BY <2>1, <3>4, <3>6, <3>7, <3>8, ConfiguredLater
    <2> QED
      BY <2>3, <2>4
  <1>7. CASE Outage \/ PlanExplicit \/ Fail
    BY <1>1, <1>7 DEF Outage, PlanExplicit, Fail, Refused
  <1>8. ASSUME NEW n \in Names, Serve(n) PROVE FallbacksAreConfigured'
    BY <1>1, <1>8 DEF Serve
  <1>9. ASSUME NEW name \in {AutoModel, request.name}, NEW sealed \in BOOLEAN, NEW other \in Settings,
               NEW gone \in {{}} \cup {{p} : p \in Providers}, Continue(name, sealed, other, gone)
        PROVE  FallbacksAreConfigured'
    BY <1>1, <1>9 DEF Continue
  <1>10. CASE UNCHANGED vars
    <2>1. UNCHANGED <<catalog, signedIn, settings, request, bound, pc, plan>>
      BY <1>10 DEF vars, worldVars
    <2>2. \A n : Rank(n)' = Rank(n)
      <3>1. \A n : Rank(n) = Place(settings.priorities, n)
        BY DEF Rank, Place, SelectInSeq
      <3> QED
        BY <2>1, <3>1, RankLater
    <2>3. \A n : Supports(n, request.needs, FALSE)' <=> Supports(n, request.needs, FALSE)
      BY <2>1, FitLater
    <2>4. \A n : Never(n)' <=> Never(n)
      BY <2>1 DEF Never
    <2>5. Fallbacks' = Fallbacks /\ Candidates' = Candidates /\ Limit' = Limit /\ RequestedName' = RequestedName
      BY <2>1 DEF Fallbacks, Candidates, Limit, RequestedName
    <2> QED
      BY <2>1, <2>2, <2>3, <2>4, <2>5 DEF FallbacksAreConfigured
  <1> QED
    BY <1>3, <1>4, <1>5, <1>6, <1>7, <1>8, <1>9, <1>10 DEF Next

\* The fallbacks of every plan that is not Auto's are what the user configured: no more of them
\* than allowed and none twice, each fit for the request and its provider signed in, of the same
\* model where that is the strategy or the name left the provider open, else in the order of the
\* priorities behind the model that was asked for.
THEOREM FallbacksConfigured == Spec => []FallbacksAreConfigured
  <1>1. Init => Planning /\ Prepared /\ FallbacksAreConfigured
    BY DEF Init, Planning, Prepared, FallbacksAreConfigured
  <1> QED
    BY <1>1, TypedAtFirst, TypedStep, PlanningStep, PreparedStep, FallbacksStep, PTL DEF Spec

-----------------------------------------------------------------------------
(* Windows.                                                                *)

Windows == [tier : {"default", "long_context"}, limit : Nat, default : BOOLEAN]

\* Windows of which there is a default, if there are any.
Choice(options) ==
    /\ options \in Seq(Windows)
    /\ options # <<>> => \E w \in ToSet(options) : w.default

InfoTyped(i) ==
    /\ DOMAIN i = {"prompt", "output", "window", "options", "features", "efforts", "transports", "operations"}
    /\ IsLength(i.prompt) /\ IsLength(i.output) /\ IsLength(i.window)
    /\ Choice(i.options)

LEMMA OneOfTyped ==
    ASSUME NEW k, NEW l, IsLength(k), IsLength(l)
    PROVE  IsLength(OneOf(k, l))
  BY DEF OneOf

LEMMA OneMember ==
    ASSUME NEW T, NEW o \in T
    PROVE  <<o>> \in Seq(T) /\ <<o>> # <<>> /\ ToSet(<<o>>) = {o} /\ [i \in 1..1 |-> o] = <<o>>
  <1>1. <<o>> \in Seq(T) /\ Len(<<o>>) = 1 /\ <<o>>[1] = o
    OBVIOUS
  <1>2. \A v : v \in ToSet(<<o>>) <=> \E i \in 1..1 : <<o>>[i] = v
    BY <1>1, Members
  <1>3. \A v : v \in ToSet(<<o>>) <=> v = o
    BY <1>1, <1>2
  <1>4. [i \in 1..1 |-> o] \in Seq(T) /\ Len([i \in 1..1 |-> o]) = 1
    OBVIOUS
  <1> QED
    BY <1>1, <1>3, <1>4

LEMMA SingleTyped ==
    ASSUME NEW l, IsLength(l)
    PROVE  /\ Choice(SingleOption(l))
           /\ l = {} <=> SingleOption(l) = <<>>
           /\ \A v \in l : SingleOption(l) = <<Option("default", v, TRUE)>>
  <1>1. CASE l = {}
    <2>1. Cardinality(l) = 0
      BY <1>1, FS_EmptySet
    <2>2. SingleOption(l) = <<>>
      BY <2>1 DEF SingleOption
    <2>3. <<>> \in Seq(Windows)
      OBVIOUS
    <2> QED
      BY <1>1, <2>2, <2>3 DEF Choice
  <1>2. CASE l # {}
    <2>1. The(l) \in Nat /\ l = {The(l)}
      BY <1>2, TheLength
    <2> DEFINE v == The(l)
               o == Option("default", v, TRUE)
    <2>2. Cardinality(l) = 1
      BY <2>1, FS_Singleton
    <2>3. o \in Windows /\ o.default
      BY <2>1 DEF Option, Windows
    <2>4. SingleOption(l) = [i \in 1..1 |-> o]
      BY <2>2 DEF SingleOption
    <2>5. <<o>> \in Seq(Windows) /\ <<o>> # <<>> /\ o \in ToSet(<<o>>) /\ SingleOption(l) = <<o>>
      <3> HIDE DEF o
      <3> QED
        BY <2>3, <2>4, OneMember
    <2>6. \A x \in l : x = v
      BY <2>1
    <2> QED
      BY <1>2, <2>3, <2>5, <2>6 DEF Choice
  <1> QED
    BY <1>1, <1>2

LEMMA UsableTyped ==
    ASSUME NEW w \in Nat, NEW output, IsLength(output)
    PROVE  UsablePrompt(w, output, w) \in Nat
  <1> DEFINE most == IF output = {} THEN 4 ELSE The(output)
             share == (w * 15) \div 100
  <1>1. most \in Nat
    BY TheLength
  <1>2. share \in Nat /\ share <= w
    OBVIOUS
  <1>3. Least(most, share) \in Nat /\ Least(most, share) <= w
    <2> HIDE DEF most, share
    <2> QED
      BY <1>1, <1>2 DEF Least
  <1> DEFINE out == Least(most, share)
  <1>4. UsablePrompt(w, output, w) = Least(w, w - out)
    BY DEF UsablePrompt
  <1> HIDE DEF out
  <1> QED
    BY <1>3, <1>4 DEF Least, out

LEMMA TiersTyped ==
    ASSUME NEW tiers, \A t, u \in tiers : t = u, \A t \in tiers : IsLength(t.prompt) /\ IsLength(t.context)
    PROVE  IsLength(UNION {TierLimit(t) : t \in tiers})
  <1>1. CASE tiers = {}
    <2>1. UNION {TierLimit(t) : t \in tiers} = {}
      BY <1>1
    <2> QED
      BY <2>1 DEF IsLength
  <1>2. CASE tiers # {}
    <2>1. PICK u \in tiers : TRUE
      BY <1>2
    <2>2. UNION {TierLimit(t) : t \in tiers} = TierLimit(u)
      BY <2>1
    <2>3. IsLength(TierLimit(u))
      BY <2>1, OneOfTyped DEF TierLimit
    <2> QED
      BY <2>2, <2>3
  <1> QED
    BY <1>1, <1>2

LEMMA OptionsTyped ==
    ASSUME NEW n \in Names
    PROVE  Choice(WindowOptions(Entries[n]))
  <1> DEFINE e == Entries[n]
             usable(w) == UsablePrompt(w, e.output, w)
             windows == {usable(w) : w \in e.window}
             whole == OneOf(e.prompt, windows)
             base == UNION {TierLimit(t) : t \in e.prices.default}
             long == UNION {TierLimit(t) : t \in e.prices.long}
             all == base \cup (IF e.window # {} THEN windows ELSE e.prompt \cup long)
             full == Max(all)
             costs == \E d \in e.prices.default, l \in e.prices.long : Surcharge(d, l)
             two == <<Option("default", The(base), costs), Option("long_context", full, ~costs)>>
  <1>1. IsLength(e.prompt) /\ IsLength(e.output) /\ IsLength(e.window)
    BY EntriesAssumption
  <1>2. IsLength(base) /\ IsLength(long)
    <2>1. \A tiers \in {e.prices.default, e.prices.long} :
              (\A t, u \in tiers : t = u) /\ \A t \in tiers : IsLength(t.prompt) /\ IsLength(t.context)
      BY EntriesAssumption
    <2> QED
      BY <2>1, TiersTyped
  <1>3. IsLength(windows)
    BY <1>1, UsableTyped DEF IsLength
  <1>4. WindowOptions(e) = CASE base = {} -> SingleOption(whole)
                             [] base # {} /\ The(base) >= full -> SingleOption({full})
                             [] OTHER -> two
    BY DEF WindowOptions
  <1>5. CASE base = {}
    <2>1. WindowOptions(e) = SingleOption(whole)
      BY <1>4, <1>5
    <2>2. IsLength(whole)
      BY <1>1, <1>3, OneOfTyped
    <2> QED
      BY <2>1, <2>2, SingleTyped
  <1>6. CASE base # {}
    <2>1. The(base) \in Nat /\ base = {The(base)}
      BY <1>2, <1>6, TheLength
    <2>2. Bounded(all) /\ all # {}
      <3>1. Bounded(base) /\ Bounded(windows) /\ Bounded(e.prompt) /\ Bounded(long)
        BY <1>1, <1>2, <1>3, LengthIsBounded
      <3> HIDE DEF base, windows, long
      <3> QED
        BY <1>6, <3>1, BoundedTogether
    <2>3. full \in Nat
      <3> HIDE DEF all
      <3> QED
        BY <2>2, MaxOf
    <2> HIDE DEF base, full
    <2>4. CASE The(base) >= full
      <3>1. WindowOptions(e) = SingleOption({full}) /\ IsLength({full})
        BY <1>4, <1>6, <2>3, <2>4 DEF IsLength
      <3> QED
        BY <3>1, SingleTyped
    <2>5. CASE ~(The(base) >= full)
      <3>1. WindowOptions(e) = two
        BY <1>4, <1>6, <2>5
      <3> DEFINE a == Option("default", The(base), costs)
                 b == Option("long_context", full, ~costs)
      <3>2. costs \in BOOLEAN
        OBVIOUS
      <3>3. a \in Windows /\ b \in Windows /\ (a.default \/ b.default)
        <4> HIDE DEF costs
        <4> QED
          BY <2>1, <2>3, <3>2 DEF Option, Windows
      <3>4. <<a, b>> \in Seq(Windows) /\ a \in ToSet(<<a, b>>) /\ b \in ToSet(<<a, b>>)
        <4> HIDE DEF a, b
        <4>1. <<a, b>> \in Seq(Windows) /\ Len(<<a, b>>) = 2 /\ <<a, b>>[1] = a /\ <<a, b>>[2] = b
          BY <3>3
        <4>2. \A v : v \in ToSet(<<a, b>>) <=> \E i \in 1..2 : <<a, b>>[i] = v
          BY <4>1, Members
        <4> QED
          BY <4>1, <4>2
      <3> QED
        BY <3>1, <3>3, <3>4 DEF Choice
    <2> QED
      BY <2>4, <2>5
  <1> QED
    BY <1>5, <1>6

LEMMA EntryTyped ==
    ASSUME NEW n \in Names
    PROVE  InfoTyped(InfoOf(Entries[n]))
  BY OptionsTyped, EntriesAssumption DEF InfoTyped, InfoOf

LEMMA OverrideTyped ==
    ASSUME NEW i, InfoTyped(i), NEW o, IsLength(o.prompt), IsLength(o.output), IsLength(o.window)
    PROVE  InfoTyped(WithOverrides(i, o))
  <1>1. IsLength(OneOf(o.prompt, i.prompt)) /\ IsLength(OneOf(o.output, i.output)) /\ IsLength(OneOf(o.window, i.window))
    BY OneOfTyped DEF InfoTyped
  <1>2. Choice(<<>>)
    BY DEF Choice
  <1> DEFINE j == WithOverrides(i, o)
  <1>3. /\ DOMAIN j = DOMAIN i
        /\ j.prompt = OneOf(o.prompt, i.prompt) /\ j.output = OneOf(o.output, i.output)
        /\ j.window = OneOf(o.window, i.window) /\ j.options \in {i.options, <<>>}
    BY DEF InfoTyped, WithOverrides
  <1> HIDE DEF j
  <1>4. Choice(j.options)
    BY <1>2, <1>3 DEF InfoTyped
  <1> QED
    BY <1>1, <1>3, <1>4 DEF InfoTyped, j

OverUpTo(f, info, overrides, n) ==
    f = [i \in 0..n |-> IF i = 0 THEN info ELSE WithOverrides(f[i - 1], overrides[i])]

LEMMA OverIsDefined ==
    ASSUME NEW info, NEW overrides, NEW m \in Nat
    PROVE  \E f : OverUpTo(f, info, overrides, m)
  <1> DEFINE N == {n \in Nat : \E f : OverUpTo(f, info, overrides, n)}
  <1>1. 0 \in N
    <2>1. OverUpTo([i \in 0..0 |-> info], info, overrides, 0)
      BY DEF OverUpTo
    <2> QED
      BY <2>1
  <1>2. ASSUME NEW n \in Nat, n \in N PROVE n + 1 \in N
    <2>1. PICK f : OverUpTo(f, info, overrides, n)
      BY <1>2
    <2> DEFINE g == [i \in 0..(n + 1) |-> IF i = n + 1 THEN WithOverrides(f[n], overrides[n + 1]) ELSE f[i]]
    <2>2. \A i \in 0..(n + 1) : g[i] = IF i = 0 THEN info ELSE WithOverrides(g[i - 1], overrides[i])
      <3> SUFFICES ASSUME NEW i \in 0..(n + 1)
                   PROVE  g[i] = IF i = 0 THEN info ELSE WithOverrides(g[i - 1], overrides[i])
        OBVIOUS
      <3>1. CASE i = n + 1
        BY <3>1
      <3>2. CASE i # n + 1
        <4>1. i \in 0..n /\ g[i] = f[i] /\ (i # 0 => i - 1 \in 0..(n + 1) /\ g[i - 1] = f[i - 1])
          BY <3>2
        <4>2. f[i] = IF i = 0 THEN info ELSE WithOverrides(f[i - 1], overrides[i])
          BY <2>1, <4>1 DEF OverUpTo
        <4> QED
          BY <4>1, <4>2
      <3> QED
        BY <3>1, <3>2
    <2>3. OverUpTo(g, info, overrides, n + 1)
      <3>1. g = [i \in 0..(n + 1) |-> g[i]]
        OBVIOUS
      <3> HIDE DEF g
      <3> QED
        BY <2>2, <3>1 DEF OverUpTo
    <2> QED
      BY <2>3
  <1>3. Nat \subseteq N
    <2> HIDE DEF N
    <2> QED
      BY <1>1, <1>2, Induction
  <1> QED
    BY <1>3

LEMMA OverriddenTyped ==
    ASSUME NEW info, InfoTyped(info), NEW O, NEW overrides \in Seq(O),
           \A o \in O : IsLength(o.prompt) /\ IsLength(o.output) /\ IsLength(o.window)
    PROVE  InfoTyped(Overridden(info, overrides))
  <1> DEFINE over == CHOOSE f : OverUpTo(f, info, overrides, Len(overrides))
  <1>1. Len(overrides) \in Nat /\ \A i \in 1..Len(overrides) : overrides[i] \in O
    OBVIOUS
  <1>2. OverUpTo(over, info, overrides, Len(overrides))
    BY <1>1, OverIsDefined
  <1>3. Overridden(info, overrides) = over[Len(overrides)]
    BY DEF Overridden, OverUpTo
  <1> HIDE DEF over
  <1> DEFINE N == {n \in Nat : n <= Len(overrides) => InfoTyped(over[n])}
  <1>4. 0 \in N
    BY <1>1, <1>2 DEF OverUpTo
  <1>5. ASSUME NEW n \in Nat, n \in N PROVE n + 1 \in N
    <2> SUFFICES ASSUME n + 1 <= Len(overrides) PROVE InfoTyped(over[n + 1])
      OBVIOUS
    <2>1. over[n + 1] = WithOverrides(over[n], overrides[n + 1])
      BY <1>1, <1>2 DEF OverUpTo
    <2>2. InfoTyped(over[n]) /\ overrides[n + 1] \in O
      BY <1>1, <1>5
    <2> QED
      BY <2>1, <2>2, OverrideTyped
  <1>6. Nat \subseteq N
    <2> HIDE DEF N
    <2> QED
      BY <1>4, <1>5, Induction
  <1> QED
    BY <1>1, <1>3, <1>6

LEMMA InfosTyped ==
    ASSUME settings \in Settings, NEW n \in Names
    PROVE  InfoTyped(Info(n))
  <1> DEFINE O == ToSet(settings.overrides)
  <1>1. settings.overrides \in Seq(O) /\ \A o \in O : IsLength(o.prompt) /\ IsLength(o.output) /\ IsLength(o.window)
    BY SettingsAssumption
  <1>2. Overrides(settings, n) \in Seq(O)
    <2> HIDE DEF O
    <2> QED
      BY <1>1, KeptPlaces DEF Overrides
  <1>3. InfoTyped(Overridden(InfoOf(Entries[n]), Overrides(settings, n)))
    BY <1>1, <1>2, EntryTyped, OverriddenTyped
  <1> QED
    BY <1>3 DEF Info, Infos

LEMMA LimitsBounded ==
    ASSUME NEW options \in Seq(Windows)
    PROVE  Bounded({w.limit : w \in ToSet(options)})
  <1> DEFINE s == [k \in 1..Len(options) |-> options[k].limit]
             limits == {w.limit : w \in ToSet(options)}
  <1>1. \A k \in 1..Len(options) : options[k].limit \in Nat
    <2>1. \A k \in 1..Len(options) : options[k] \in Windows
      OBVIOUS
    <2> QED
      BY <2>1 DEF Windows
  <1>2. s \in Seq(Nat) /\ Len(s) = Len(options)
    BY <1>1
  <1>3. \A v : v \in ToSet(s) <=> \E k \in 1..Len(s) : s[k] = v
    BY <1>2, Members
  <1>4. \A v : v \in ToSet(options) <=> \E k \in 1..Len(options) : options[k] = v
    BY Members
  <1>5. ToSet(s) = limits
    BY <1>2, <1>3, <1>4
  <1> HIDE DEF s, limits
  <1>6. Bounded(limits)
    BY <1>2, <1>5, SequenceIsBounded
  <1> QED
    BY <1>6 DEF limits

\* What a model has room for: no window that it advertises is larger.
LEMMA RoomTyped ==
    ASSUME settings \in Settings, NEW n \in Names
    PROVE  /\ IsLength(Room(n))
           /\ \A w \in ToSet(Advertised(Info(n))) : \E r \in Room(n) : w.limit <= r
  <1> DEFINE i == Info(n)
             spare == IF i.output = {} THEN 0 ELSE The(i.output)
             fits(w) == {r \in 1..w : r + spare = w}
             rest(w) == Max({1} \cup fits(w))
             prompts == OneOf(i.prompt, {rest(w) : w \in i.window})
             limits == {w.limit : w \in ToSet(Effective(i))}
  <1>1. InfoTyped(i)
    BY InfosTyped
  <1>2. Room(n) = Capacity(i)
    BY DEF Room, Rooms, Info
  <1> HIDE DEF i
  <1>3. \A w \in Nat : rest(w) \in Nat
    <2> SUFFICES ASSUME NEW w \in Nat PROVE rest(w) \in Nat
      OBVIOUS
    <2> DEFINE S == {1} \cup fits(w)
    <2>1. S \subseteq Nat /\ S # {} /\ \A r \in S : r <= w + 1
      OBVIOUS
    <2>2. Bounded(S)
      BY <2>1 DEF Bounded
    <2> HIDE DEF S
    <2>3. Max(S) \in Nat
      BY <2>1, <2>2, MaxOf
    <2> QED
      BY <2>3 DEF S
  <1>4. IsLength({rest(w) : w \in i.window})
    BY <1>1, <1>3 DEF InfoTyped, IsLength
  <1>5. IsLength(prompts)
    BY <1>1, <1>4, OneOfTyped DEF InfoTyped
  <1>6. Effective(i) = IF i.options # <<>> THEN i.options ELSE SingleOption(prompts)
    BY DEF Effective
  <1>7. Effective(i) \in Seq(Windows)
    <2> HIDE DEF prompts
    <2>1. Choice(SingleOption(prompts)) /\ Choice(i.options)
      BY <1>1, <1>5, SingleTyped DEF InfoTyped
    <2> QED
      BY <1>6, <2>1 DEF Choice
  <1>8. Bounded(limits)
    BY <1>7, LimitsBounded
  <1>9. CASE Effective(i) = <<>>
    <2>1. Room(n) = i.prompt
      BY <1>2, <1>9 DEF Capacity
    <2>2. i.options = <<>> /\ SingleOption(prompts) = <<>>
      BY <1>6, <1>9
    <2>3. prompts = {}
      <3> HIDE DEF prompts
      <3> QED
        BY <1>5, <2>2, SingleTyped
    <2>4. i.prompt = {}
      BY <2>3 DEF OneOf
    <2>5. SingleOption(i.prompt) = <<>>
      BY <1>1, <2>4, SingleTyped DEF InfoTyped
    <2>6. Advertised(i) = <<>> /\ ToSet(<<>>) = {}
      BY <2>2, <2>5 DEF Advertised, ToSet
    <2> QED
      BY <1>1, <2>1, <2>6 DEF InfoTyped, i
  <1>10. CASE Effective(i) # <<>>
    <2>1. Room(n) = {Max(limits)}
      BY <1>2, <1>10 DEF Capacity
    <2>2. limits # {}
      <3>1. 1 \in 1..Len(Effective(i))
        BY <1>7, <1>10
      <3>2. Effective(i)[1] \in ToSet(Effective(i))
        BY <1>7, <3>1, Members
      <3> QED
        BY <3>2
    <2>3. Max(limits) \in Nat /\ \A l \in limits : l <= Max(limits)
      <3> HIDE DEF limits
      <3> QED
        BY <1>8, <2>2, MaxOf
    <2>4. ToSet(Advertised(i)) \subseteq ToSet(Effective(i))
      <3>1. CASE i.options # <<>>
        BY <1>6, <3>1 DEF Advertised
      <3>2. CASE i.options = <<>> /\ i.prompt # {}
        <4>1. prompts = i.prompt
          BY <3>2 DEF OneOf
        <4> QED
          BY <1>6, <3>2, <4>1 DEF Advertised
      <3>3. CASE i.options = <<>> /\ i.prompt = {}
        <4>1. SingleOption(i.prompt) = <<>>
          BY <1>1, <3>3, SingleTyped DEF InfoTyped
        <4>2. Advertised(i) = <<>> /\ ToSet(<<>>) = {}
          BY <3>3, <4>1 DEF Advertised, ToSet
        <4> QED
          BY <4>2
      <3> QED
        BY <3>1, <3>2, <3>3
    <2>5. \A w \in ToSet(Advertised(i)) : w.limit \in limits
      BY <2>4
    <2> HIDE DEF limits
    <2>6. IsLength({Max(limits)})
      BY <2>3 DEF IsLength
    <2> QED
      BY <2>1, <2>3, <2>5, <2>6 DEF i
  <1> QED
    BY <1>9, <1>10

-----------------------------------------------------------------------------
(* The models that Auto takes.                                             *)

LEMMA ListedNames ==
    ASSUME catalog' \in Seq(Names)
    PROVE  UsableNames \subseteq Names /\ \A n : n \in UsableNames <=> ~Never(n)'
  <1>1. ToSet(catalog') \subseteq Names
    BY Members
  <1> QED
    BY <1>1 DEF UsableNames, Never

LEMMA RoomyAmong ==
    ASSUME NEW names
    PROVE  /\ Roomy(names) \subseteq names
           /\ \A n, m \in Roomy(names) : Safe(n) => Safe(m)
           /\ \A n \in names, m \in Roomy(names) : Safe(n) => Safe(m)
  <1> DEFINE safe == {n \in names : Safe(n)}
             unknown == {n \in names : Room(n) = {}}
             largest == Max(UNION {Room(n) : n \in names})
             most == {n \in names : \A w \in Room(n) : w = largest}
  <1>1. Roomy(names) = CASE safe # {} -> safe [] safe = {} /\ unknown # {} -> unknown [] OTHER -> most
    BY DEF Roomy
  <1>2. safe \subseteq names /\ unknown \subseteq names /\ most \subseteq names
    OBVIOUS
  <1>3. CASE safe # {}
    BY <1>1, <1>3
  <1>4. CASE safe = {}
    <2>1. Roomy(names) \in {unknown, most}
      BY <1>1, <1>4
    <2>2. \A n \in names : ~Safe(n)
      BY <1>4
    <2> HIDE DEF safe, unknown, most
    <2> QED
      BY <1>2, <2>1, <2>2
  <1> QED
    BY <1>3, <1>4

LEMMA RoomsBounded ==
    ASSUME settings \in Settings, NEW T, NEW s \in Seq(T), NEW names, names \subseteq ToSet(s) \cap Names
    PROVE  Bounded(UNION {Room(n) : n \in names})
  <1> DEFINE rooms == UNION {Room(n) : n \in names}
             known(n) == IF n \in Names /\ Room(n) # {} THEN The(Room(n)) ELSE 0
             r == [k \in 1..Len(s) |-> known(s[k])]
  <1>1. \A n \in Names : IsLength(Room(n))
    BY RoomTyped
  <1>2. \A n \in Names : Room(n) # {} => The(Room(n)) \in Nat /\ Room(n) = {The(Room(n))}
    BY <1>1, TheLength
  <1>3. \A n : known(n) \in Nat
    BY <1>2
  <1>4. r \in Seq(Nat) /\ Len(r) = Len(s)
    <2> HIDE DEF known
    <2>1. Len(s) \in Nat
      OBVIOUS
    <2> QED
      BY <1>3, <2>1
  <1>5. \A v \in rooms : v \in ToSet(r)
    <2> SUFFICES ASSUME NEW n \in names, NEW v \in Room(n) PROVE v \in ToSet(r)
      OBVIOUS
    <2>1. PICK k \in 1..Len(s) : s[k] = n
      BY Members
    <2>2. r[k] = v
      BY <1>2, <2>1
    <2> HIDE DEF r
    <2> QED
      BY <1>4, <2>2, Members
  <1>6. Bounded(ToSet(r))
    <2> HIDE DEF r
    <2> QED
      BY <1>4, SequenceIsBounded
  <1> HIDE DEF r, rooms
  <1>7. Bounded(rooms)
    BY <1>5, <1>6 DEF Bounded
  <1> QED
    BY <1>7 DEF rooms

\* Of some models, some have the most room.
LEMMA SomeAreRoomy ==
    ASSUME settings \in Settings, NEW T, NEW s \in Seq(T), NEW names, names \subseteq ToSet(s) \cap Names, names # {}
    PROVE  Roomy(names) # {}
  <1> DEFINE safe == {n \in names : Safe(n)}
             unknown == {n \in names : Room(n) = {}}
             rooms == UNION {Room(n) : n \in names}
             most == {n \in names : \A w \in Room(n) : w = Max(rooms)}
  <1>1. Roomy(names) = CASE safe # {} -> safe [] safe = {} /\ unknown # {} -> unknown [] OTHER -> most
    BY DEF Roomy
  <1>2. CASE safe # {} \/ unknown # {}
    <2> HIDE DEF safe, unknown, most
    <2> QED
      BY <1>1, <1>2
  <1>3. CASE safe = {} /\ unknown = {}
    <2>1. rooms # {}
      BY <1>3
    <2>2. Max(rooms) \in rooms
      <3>1. Bounded(rooms)
        BY RoomsBounded
      <3> HIDE DEF rooms
      <3> QED
        BY <2>1, <3>1, MaxOf
    <2>3. PICK n \in names : Max(rooms) \in Room(n)
      BY <2>2
    <2>4. IsLength(Room(n))
      BY RoomTyped
    <2>5. n \in most
      <3> HIDE DEF rooms
      <3> QED
        BY <2>3, <2>4 DEF IsLength
    <2> HIDE DEF safe, unknown, most
    <2> QED
      BY <1>1, <1>3, <2>5
  <1> QED
    BY <1>2, <1>3

\* A model that is taken fits.
LEMMA ChainTaken ==
    ASSUME UNCHANGED <<settings, request>>, settings.mode = "chain", catalog' \in Seq(Names),
           NEW n, AutoTakes(n, request.needs, FALSE)
    PROVE  n \in Names /\ n \in UsableNames /\ Fits(n)'
  <1>1. Info(n)' = Info(n) /\ settings' = settings /\ request' = request
    BY DEF Info
  <1>2. n \in UsableNames /\ n \in Names /\ ~Never(n)'
    BY ListedNames DEF AutoTakes, Usable
  <1>3. \A f \in request.needs : Info(n).features[f] = "no" => f = "files"
    BY DEF AutoTakes, Supports
  <1>4. \A most \in Info(n).output, asked \in request.output : asked <= most
    BY DEF AutoTakes
  <1> QED
    BY <1>1, <1>2, <1>3, <1>4 DEF Fits

LEMMA TaskTaken ==
    ASSUME UNCHANGED <<settings, request>>, settings.mode = "tasks", catalog' \in Seq(Names), NEW t \in ToSet(Tasks),
           AutoTakes(settings.tasks[t], StrictNeeds, settings.strict)
    PROVE  settings.tasks[t] \in Names /\ settings.tasks[t] \in UsableNames /\ Fits(settings.tasks[t])'
  <1> DEFINE n == settings.tasks[t]
  <1>1. Info(n)' = Info(n) /\ settings' = settings /\ request' = request
    BY DEF Info
  <1>2. n \in UsableNames /\ n \in Names /\ ~Never(n)'
    BY ListedNames DEF AutoTakes, Usable
  <1>3. \A f \in request.needs : Info(n).features[f] = "no" => f = "files" /\ ~settings.strict
    <2> SUFFICES ASSUME NEW f \in request.needs, Info(n).features[f] = "no" PROVE f = "files" /\ ~settings.strict
      OBVIOUS
    <2>1. n \in ToSet(catalog')
      BY <1>2 DEF UsableNames
    <2>2. Published(f)
      BY <2>1 DEF Published
    <2>3. f \in StrictNeeds
      BY <2>2 DEF StrictNeeds
    <2> QED
      BY <2>3 DEF AutoTakes, Supports
  <1>4. \A most \in Info(n).output, asked \in request.output : asked <= most
    BY DEF AutoTakes
  <1> HIDE DEF n
  <1>5. Fits(n)'
    BY <1>1, <1>2, <1>3, <1>4 DEF Fits
  <1> QED
    BY <1>2, <1>5 DEF n

LEMMA HeadAndTail ==
    ASSUME NEW T, NEW s \in Seq(T), s # <<>>
    PROVE  Head(s) \in ToSet(s) /\ Tail(s) \in Seq(T) /\ ToSet(Tail(s)) \subseteq ToSet(s)
  <1>1. /\ Head(s) = s[1] /\ 1 \in 1..Len(s) /\ Tail(s) \in Seq(T)
        /\ \A i \in 1..Len(Tail(s)) : i + 1 \in 1..Len(s) /\ Tail(s)[i] = s[i + 1]
    OBVIOUS
  <1>2. Head(s) \in ToSet(s)
    BY <1>1, Members
  <1>3. ASSUME NEW v \in ToSet(Tail(s)) PROVE v \in ToSet(s)
    <2>1. PICK i \in 1..Len(Tail(s)) : Tail(s)[i] = v
      BY <1>1, Members
    <2>2. \E k \in 1..Len(s) : s[k] = v
      BY <1>1, <2>1
    <2> QED
      BY <2>2, Members
  <1> QED
    BY <1>1, <1>2, <1>3

\* The chain: all that are planned fit, and all are safe as soon as one that is taken is; none
\* is planned only if none is taken.
LEMMA ChainChosen ==
    ASSUME settings \in Settings, UNCHANGED <<settings, request>>, settings.mode = "chain", catalog' \in Seq(Names)
    PROVE  /\ \A p \in ChainPlans : \A n \in {p.primary} \cup ToSet(p.fallbacks) :
                  /\ n \in ToSet(settings.chain) /\ Fits(n)'
                  /\ \A m \in {p.primary} \cup ToSet(p.fallbacks) : Safe(m) => Safe(n)
                  /\ \A m \in ToSet(settings.chain) : AutoTakes(m, request.needs, FALSE) /\ Safe(m) => Safe(n)
           /\ ChainPlans = {} => \A n \in ToSet(settings.chain) : ~AutoTakes(n, request.needs, FALSE)
  <1> DEFINE T == ToSet(settings.chain)
             taken == {n \in T : AutoTakes(n, request.needs, FALSE)}
             r == Kept(settings.chain, Roomy(taken))
  <1>1. settings.chain \in Seq(T)
    BY SettingsAssumption
  <1>2. taken \subseteq T /\ \A n \in taken : n \in Names /\ Fits(n)' /\ AutoTakes(n, request.needs, FALSE)
    BY ChainTaken
  <1>3. \A n : n \in T /\ AutoTakes(n, request.needs, FALSE) => n \in taken
    OBVIOUS
  <1>4. ChainPlans = {Plan(Head(roomy), Tail(roomy), FALSE, FALSE) : roomy \in {r} \ {<<>>}}
    BY DEF ChainPlans
  <1> HIDE DEF taken, T
  <1>5. /\ Roomy(taken) \subseteq taken
        /\ \A n \in Roomy(taken), m \in taken : Safe(m) => Safe(n)
    BY RoomyAmong
  <1>6. r \in Seq(T) /\ ToSet(r) = Roomy(taken)
    <2>1. r \in Seq(T) /\ ToSet(r) = ToSet(settings.chain) \cap Roomy(taken)
      BY <1>1, KeptSet
    <2> QED
      BY <1>2, <1>5, <2>1 DEF T
  <1> HIDE DEF r
  <1>7. ASSUME NEW p \in ChainPlans PROVE {p.primary} \cup ToSet(p.fallbacks) \subseteq Roomy(taken)
    <2>1. r # <<>> /\ p.primary = Head(r) /\ p.fallbacks = Tail(r)
      BY <1>4 DEF Plan
    <2>2. Head(r) \in ToSet(r) /\ ToSet(Tail(r)) \subseteq ToSet(r)
      BY <1>6, <2>1, HeadAndTail
    <2> QED
      BY <1>6, <2>1, <2>2
  <1>8. ASSUME ChainPlans = {} PROVE taken = {}
    <2>1. r # <<>> => Plan(Head(r), Tail(r), FALSE, FALSE) \in ChainPlans
      BY <1>4
    <2>2. ToSet(<<>>) = {}
      BY DEF ToSet
    <2>3. Roomy(taken) = {}
      BY <1>6, <1>8, <2>1, <2>2
    <2> QED
      BY <1>1, <1>2, <2>3, SomeAreRoomy DEF T
  <1>9. ASSUME NEW p \in ChainPlans, NEW n \in {p.primary} \cup ToSet(p.fallbacks)
        PROVE  /\ n \in T /\ Fits(n)'
               /\ \A m \in {p.primary} \cup ToSet(p.fallbacks) : Safe(m) => Safe(n)
               /\ \A m \in T : AutoTakes(m, request.needs, FALSE) /\ Safe(m) => Safe(n)
    <2>1. n \in Roomy(taken) /\ \A m \in {p.primary} \cup ToSet(p.fallbacks) : m \in taken
      BY <1>5, <1>7, <1>9
    <2> QED
      BY <1>2, <1>3, <1>5, <2>1
  <1>10. ChainPlans = {} => \A n \in T : ~AutoTakes(n, request.needs, FALSE)
    BY <1>3, <1>8
  <1> QED
    BY <1>9, <1>10 DEF T

LEMMA TasksTyped == Tasks \in Seq(ToSet(Tasks)) /\ ToSet(Tasks) = {"fast", "general", "coding", "deep_reasoning"}
  <1> DEFINE T == {"fast", "general", "coding", "deep_reasoning"}
  <1>1. /\ Tasks \in Seq(T) /\ Len(Tasks) = 4
        /\ Tasks[1] = "fast" /\ Tasks[2] = "general" /\ Tasks[3] = "coding" /\ Tasks[4] = "deep_reasoning"
    BY DEF Tasks
  <1>2. \A v : v \in ToSet(Tasks) <=> \E i \in 1..4 : Tasks[i] = v
    BY <1>1, Members
  <1>3. ToSet(Tasks) = T
    BY <1>1, <1>2
  <1> QED
    BY <1>1, <1>3

\* The tasks: the same of those that are left for the classifier.
LEMMA TasksChosen ==
    ASSUME settings \in Settings, UNCHANGED <<settings, request>>, settings.mode = "tasks", catalog' \in Seq(Names)
    PROVE  /\ EligibleTasks \in Seq(ToSet(Tasks))
           /\ \A t \in ToSet(EligibleTasks) :
                  /\ t \in ToSet(Tasks) /\ Fits(settings.tasks[t])' /\ settings.tasks[t] \in Names
                  /\ \A u \in ToSet(EligibleTasks) : Safe(settings.tasks[u]) => Safe(settings.tasks[t])
                  /\ \A u \in ToSet(Tasks) :
                         AutoTakes(settings.tasks[u], StrictNeeds, settings.strict) /\ Safe(settings.tasks[u]) =>
                             Safe(settings.tasks[t])
           /\ EligibleTasks = <<>> =>
                  \A t \in ToSet(Tasks) : ~AutoTakes(settings.tasks[t], StrictNeeds, settings.strict)
  <1> DEFINE hard == {t \in ToSet(Tasks) : AutoTakes(settings.tasks[t], StrictNeeds, settings.strict)}
             names == {settings.tasks[t] : t \in hard}
             left == {t \in hard : settings.tasks[t] \in Roomy(names)}
             eligible == Kept(Tasks, left)
             s == [i \in 1..4 |-> settings.tasks[Tasks[i]]]
  <1>1. EligibleTasks = eligible
    BY DEF EligibleTasks
  <1>2. /\ hard \subseteq ToSet(Tasks)
        /\ \A t \in hard : settings.tasks[t] \in Names /\ Fits(settings.tasks[t])'
    BY TaskTaken
  <1>3. \A t \in ToSet(Tasks) : AutoTakes(settings.tasks[t], StrictNeeds, settings.strict) <=> t \in hard
    OBVIOUS
  <1> HIDE DEF hard
  <1>4. names \subseteq Names /\ \A t \in hard : settings.tasks[t] \in names
    BY <1>2
  <1>5. \A n \in names : \E t \in hard : n = settings.tasks[t]
    OBVIOUS
  <1> HIDE DEF names
  <1>6. left \subseteq hard /\ \A t : t \in left <=> t \in hard /\ settings.tasks[t] \in Roomy(names)
    OBVIOUS
  <1> HIDE DEF left
  <1>7. eligible \in Seq(ToSet(Tasks)) /\ ToSet(eligible) = left
    <2>1. eligible \in Seq(ToSet(Tasks)) /\ ToSet(eligible) = ToSet(Tasks) \cap left
      BY TasksTyped, KeptSet
    <2> QED
      BY <1>2, <1>6, <2>1
  <1> HIDE DEF eligible
  <1>8. /\ Roomy(names) \subseteq names
        /\ \A n \in Roomy(names), m \in names : Safe(m) => Safe(n)
    BY RoomyAmong
  <1>9. ASSUME NEW t \in ToSet(eligible)
        PROVE  /\ t \in ToSet(Tasks) /\ Fits(settings.tasks[t])' /\ settings.tasks[t] \in Names
               /\ \A u \in ToSet(eligible) : Safe(settings.tasks[u]) => Safe(settings.tasks[t])
               /\ \A u \in ToSet(Tasks) :
                      AutoTakes(settings.tasks[u], StrictNeeds, settings.strict) /\ Safe(settings.tasks[u]) =>
                          Safe(settings.tasks[t])
    <2>1. t \in hard /\ settings.tasks[t] \in Roomy(names)
      BY <1>6, <1>7
    <2>2. \A u \in hard : Safe(settings.tasks[u]) => Safe(settings.tasks[t])
      BY <1>4, <1>8, <2>1
    <2> QED
      BY <1>2, <1>3, <1>6, <1>7, <2>1, <2>2
  <1>10. ASSUME eligible = <<>> PROVE hard = {}
    <2>1. left = {}
      BY <1>7, <1>10 DEF ToSet
    <2>2. Roomy(names) = {}
      BY <1>5, <1>6, <1>8, <2>1
    <2> DEFINE S == {settings.tasks[Tasks[i]] : i \in 1..4}
    <2>3. s \in Seq(S) /\ Len(s) = 4
      OBVIOUS
    <2>4. names \subseteq ToSet(s)
      <3> SUFFICES ASSUME NEW t \in hard PROVE settings.tasks[t] \in ToSet(s)
        BY <1>5
      <3>1. PICK i \in 1..4 : t = Tasks[i]
        <4>1. Len(Tasks) = 4
          BY DEF Tasks
        <4> QED
          BY <1>2, <4>1, TasksTyped, Members
      <3>2. s[i] = settings.tasks[t]
        BY <3>1
      <3> HIDE DEF s, S
      <3> QED
        BY <2>3, <3>2, Members
    <2> HIDE DEF s, S
    <2>5. names = {}
      BY <1>4, <2>2, <2>3, <2>4, SomeAreRoomy
    <2> QED
      BY <1>4, <2>5
  <1> QED
    BY <1>1, <1>3, <1>7, <1>9, <1>10

-----------------------------------------------------------------------------
(* What Auto refuses.                                                      *)

RequestTyped ==
    /\ DOMAIN request = {"name", "needs", "tokens", "output", "previous"}
    /\ request.tokens \in Nat /\ IsLength(request.output)

LEMMA RequestStep == RequestTyped /\ [Next]_vars => RequestTyped'
  <1> SUFFICES ASSUME RequestTyped, [Next]_vars PROVE RequestTyped'
    OBVIOUS
  <1>1. UNCHANGED request => RequestTyped'
    BY DEF RequestTyped
  <1>2. ASSUME NEW name, request' = [request EXCEPT !.name = name] PROVE RequestTyped'
    BY <1>2 DEF RequestTyped
  <1>3. CASE Outage \/ PlanChain \/ PlanTasks \/ PlanAlias \/ PlanExplicit \/ Resolve \/ Fail
    BY <1>1, <1>3 DEF Outage, PlanChain, PlanTasks, PlanAlias, PlanExplicit, Resolve, Fail
  <1>4. ASSUME NEW reply \in Replies, Classified(reply) PROVE RequestTyped'
    BY <1>1, <1>4 DEF Classified
  <1>5. ASSUME NEW n \in Names, Serve(n) PROVE RequestTyped'
    BY <1>1, <1>5 DEF Serve
  <1>6. ASSUME NEW name \in {AutoModel, request.name}, NEW sealed \in BOOLEAN, NEW other \in Settings,
               NEW gone \in {{}} \cup {{p} : p \in Providers}, Continue(name, sealed, other, gone)
        PROVE  RequestTyped'
    BY <1>2, <1>6 DEF Continue
  <1>7. CASE UNCHANGED vars
    BY <1>1, <1>7 DEF vars
  <1> QED
    BY <1>3, <1>4, <1>5, <1>6, <1>7 DEF Next

\* Why a model is not taken.
Denied(n) ==
    \/ Never(n)
    \/ \E f \in request.needs : Info(n).features[f] # "yes" /\ (f = "files" => Declared(f))
    \/ \E most \in Info(n).output, asked \in request.output : asked > most

LEMMA NotTaken ==
    ASSUME settings \in Settings, RequestTyped, UNCHANGED <<settings, request>>, catalog' \in Seq(Names),
           NEW n, NEW needs, NEW strict, ~AutoTakes(n, needs, strict),
           ~Supports(n, needs, strict) =>
               \E f \in request.needs : Info(n).features[f] # "yes" /\ (f = "files" => Declared(f)')
    PROVE  Denied(n)'
  <1>1. Info(n)' = Info(n) /\ request' = request
    BY DEF Info
  <1>2. CASE n \notin UsableNames
    BY <1>2, ListedNames DEF Denied
  <1>3. CASE n \in UsableNames /\ ~Supports(n, needs, strict)
    BY <1>1, <1>3 DEF Denied
  <1>4. CASE n \in UsableNames /\ Supports(n, needs, strict)
    <2>1. PICK most \in Info(n).output, asked \in request.output : ~(asked <= most)
      BY <1>4 DEF AutoTakes, Usable
    <2>2. most \in Nat /\ asked \in Nat
      BY <1>4, ListedNames, InfosTyped DEF InfoTyped, IsLength, RequestTyped
    <2>3. asked > most
      BY <2>1, <2>2
    <2> QED
      BY <1>1, <2>3 DEF Denied
  <1> QED
    BY <1>2, <1>3, <1>4

LEMMA ChainDenied ==
    ASSUME settings \in Settings, RequestTyped, UNCHANGED <<settings, request>>, settings.mode = "chain",
           catalog' \in Seq(Names), ChainPlans = {}, NEW n \in Profile'
    PROVE  Denied(n)'
  <1>1. n \in ToSet(settings.chain)
    BY DEF Profile
  <1>2. ~AutoTakes(n, request.needs, FALSE)
    BY <1>1, ChainChosen
  <1>3. ~Supports(n, request.needs, FALSE) => \E f \in request.needs : f # "files" /\ Info(n).features[f] = "no"
    BY DEF Supports
  <1> QED
    BY <1>2, <1>3, NotTaken

LEMMA TasksDenied ==
    ASSUME settings \in Settings, RequestTyped, UNCHANGED <<settings, request>>, settings.mode = "tasks",
           catalog' \in Seq(Names), EligibleTasks = <<>>, NEW n \in Profile'
    PROVE  Denied(n)'
  <1>1. PICK t \in ToSet(Tasks) : n = settings.tasks[t]
    BY DEF Profile
  <1>2. ~AutoTakes(n, StrictNeeds, settings.strict)
    BY <1>1, TasksChosen
  <1>3. ASSUME ~Supports(n, StrictNeeds, settings.strict)
        PROVE  \E f \in request.needs : Info(n).features[f] # "yes" /\ (f = "files" => Declared(f)')
    <2>1. PICK f \in StrictNeeds : Info(n).features[f] # "yes" /\ (f = "files" => settings.strict)
      BY <1>3 DEF Supports
    <2>2. f \in request.needs /\ (f = "files" => Published(f))
      BY <2>1 DEF StrictNeeds
    <2>3. Published(f) => Declared(f)'
      <3>1. \A m : Info(m)' = Info(m)
        BY DEF Info
      <3>2. \A u \in ToSet(Tasks) : settings.tasks[u] \in Profile'
        BY DEF Profile
      <3> QED
        BY <3>1, <3>2 DEF Published, Declared
    <2> QED
      BY <2>1, <2>2, <2>3
  <1> QED
    BY <1>2, <1>3, NotTaken

LEMMA RefusalStep == Typed /\ Planning /\ RequestTyped /\ AutoKeepsItsWord /\ [Next]_vars => AutoKeepsItsWord'
  <1> SUFFICES ASSUME Typed, Planning, RequestTyped, AutoKeepsItsWord, [Next]_vars PROVE AutoKeepsItsWord'
    OBVIOUS
  <1>1. pc' # "refused" => AutoKeepsItsWord'
    BY DEF AutoKeepsItsWord
  <1>2. (\A n \in Profile' : Denied(n)') => AutoKeepsItsWord'
    BY DEF AutoKeepsItsWord, Denied
  <1>3. ASSUME UNCHANGED <<request, bound>>, RequestedName # AutoModel PROVE AutoKeepsItsWord'
    <2>1. RequestedName' # AutoModel
      BY <1>3 DEF RequestedName
    <2> QED
      BY <2>1 DEF AutoKeepsItsWord
  <1>4. settings \in Settings
    BY DEF Typed, TypeOK
  <1>5. CASE PlanChain
    <2>1. UNCHANGED <<settings, request>> /\ settings.mode = "chain" /\ catalog' \in Seq(Names)
      BY <1>5, CacheTyped DEF PlanChain, Typed, TypeOK
    <2>2. CASE ChainPlans = {}
      BY <1>2, <1>4, <2>1, <2>2, ChainDenied
    <2>3. CASE ChainPlans # {}
      <3>1. pc' = "planned"
        BY <1>5, <2>3 DEF PlanChain, Planned
      <3> QED
        BY <1>1, <3>1
    <2> QED
      BY <2>2, <2>3
  <1>6. CASE PlanTasks
    <2>1. UNCHANGED <<settings, request>> /\ settings.mode = "tasks" /\ catalog' \in Seq(Names)
      BY <1>6, CacheTyped DEF PlanTasks, Typed, TypeOK
    <2>2. EligibleTasks = <<>> \/ pc' # "refused"
      BY <1>6 DEF PlanTasks, Planned, Unclassified
    <2>3. CASE EligibleTasks = <<>>
      BY <1>2, <1>4, <2>1, <2>3, TasksDenied
    <2> QED
      BY <1>1, <2>2, <2>3
  <1>7. CASE PlanAlias \/ PlanExplicit \/ Resolve
    BY <1>3, <1>7 DEF PlanAlias, PlanExplicit, Resolve, Planning
  <1>8. CASE Outage \/ Fail
    BY <1>1, <1>8 DEF Outage, Fail
  <1>9. ASSUME NEW reply \in Replies, Classified(reply) PROVE AutoKeepsItsWord'
    BY <1>1, <1>9 DEF Classified, Planned, Unclassified
  <1>10. ASSUME NEW n \in Names, Serve(n) PROVE AutoKeepsItsWord'
    BY <1>1, <1>10 DEF Serve
  <1>11. ASSUME NEW name \in {AutoModel, request.name}, NEW sealed \in BOOLEAN, NEW other \in Settings,
                NEW gone \in {{}} \cup {{p} : p \in Providers}, Continue(name, sealed, other, gone)
         PROVE  AutoKeepsItsWord'
    BY <1>1, <1>11 DEF Continue
  <1>12. CASE UNCHANGED vars
    <2>1. UNCHANGED <<catalog, signedIn, settings, request, bound, pc>>
      BY <1>12 DEF vars, worldVars
    <2>2. \A n : (Info(n)' = Info(n)) /\ (Never(n)' <=> Never(n))
      BY <2>1 DEF Info, Never
    <2>3. RequestedName' = RequestedName /\ Profile' = Profile
      BY <2>1 DEF RequestedName, Profile
    <2>4. \A f : Declared(f)' <=> Declared(f)
      BY <2>1, <2>2, <2>3 DEF Declared
    <2> QED
      BY <2>1, <2>2, <2>3, <2>4 DEF AutoKeepsItsWord
  <1> QED
    BY <1>5, <1>6, <1>7, <1>8, <1>9, <1>10, <1>11, <1>12 DEF Next

\* Auto refuses no request for its length, and none for files that no model says anything about:
\* every model of the profile is gone, does not declare the features or puts out less.
THEOREM AutoRefusesForCause == Spec => []AutoKeepsItsWord
  <1>1. Init => Planning /\ RequestTyped /\ AutoKeepsItsWord
    BY RequestsAssumption DEF Init, Planning, RequestTyped, AutoKeepsItsWord
  <1> QED
    BY <1>1, TypedAtFirst, TypedStep, PlanningStep, RequestStep, RefusalStep, PTL DEF Spec

-----------------------------------------------------------------------------
(* Larger windows.                                                         *)

Ascends(K, s) == \A i \in 1..Len(s) : \A j \in 1..(i - 1) : K[s[j]] <= K[s[i]]
UpToKey(K, s, n) == \A i \in 1..Len(s) : K[s[i]] \in Nat /\ K[s[i]] <= n

LEMMA JoinAscends ==
    ASSUME NEW T, NEW K, NEW n \in Nat, NEW a \in Seq(T), NEW b \in Seq(T),
           UpToKey(K, a, n), Ascends(K, a), \A i \in 1..Len(b) : K[b[i]] = n + 1
    PROVE  UpToKey(K, a \o b, n + 1) /\ Ascends(K, a \o b)
  <1>1. /\ Len(a) \in Nat /\ Len(b) \in Nat /\ Len(a \o b) = Len(a) + Len(b)
        /\ \A i \in 1..(Len(a) + Len(b)) : (a \o b)[i] = IF i <= Len(a) THEN a[i] ELSE b[i - Len(a)]
    BY ConcatProperties
  <1> DEFINE c == a \o b
  <1>2. ASSUME NEW i \in 1..Len(a) PROVE i \in 1..Len(c) /\ c[i] = a[i] /\ K[c[i]] \in Nat /\ K[c[i]] <= n
    <2>1. c[i] = a[i] /\ i \in 1..Len(c)
      BY <1>1
    <2> QED
      BY <2>1 DEF UpToKey
  <1>3. ASSUME NEW i \in 1..Len(c), i \notin 1..Len(a) PROVE K[c[i]] = n + 1
    <2>1. i - Len(a) \in 1..Len(b) /\ c[i] = b[i - Len(a)]
      BY <1>1, <1>3
    <2> QED
      BY <2>1
  <1> HIDE DEF c
  <1>4. UpToKey(K, c, n + 1)
    BY <1>2, <1>3 DEF UpToKey
  <1>5. ASSUME NEW i \in 1..Len(c), NEW j \in 1..(i - 1) PROVE K[c[j]] <= K[c[i]]
    <2>1. j \in 1..Len(c) /\ j < i
      BY <1>1 DEF c
    <2>2. CASE i \in 1..Len(a)
      <3>1. j \in 1..Len(a)
        BY <1>1, <2>1, <2>2
      <3>2. K[a[j]] <= K[a[i]]
        BY <2>2 DEF Ascends
      <3> QED
        BY <1>2, <2>2, <3>1, <3>2
    <2>3. CASE i \notin 1..Len(a)
      BY <1>3, <1>4, <2>1, <2>3 DEF UpToKey
    <2> QED
      BY <2>2, <2>3
  <1>6. Ascends(K, c)
    BY <1>5 DEF Ascends
  <1> QED
    BY <1>4, <1>6 DEF c

\* Groups of ascending keys stay in their order when they are joined.
LEMMA GroupsAscend ==
    ASSUME NEW T, NEW K, NEW seqs \in Seq(Seq(T)),
           \A i \in 1..Len(seqs) : \A k \in 1..Len(seqs[i]) : K[seqs[i][k]] = i
    PROVE  Ascends(K, FlattenSeq(seqs))
  <1>1. Len(seqs) \in Nat /\ \A i \in 1..Len(seqs) : seqs[i] \in Seq(T)
    OBVIOUS
  <1>2. CASE Len(seqs) = 0
    <2>1. FlattenSeq(seqs) = <<>> /\ Len(<<>>) = 0
      BY <1>2 DEF FlattenSeq
    <2> QED
      BY <2>1 DEF Ascends
  <1>3. CASE Len(seqs) # 0
    <2> DEFINE f == CHOOSE f : JoinedUpTo(f, seqs, Len(seqs))
    <2>1. JoinedUpTo(f, seqs, Len(seqs))
      BY <1>1, JoinIsDefined
    <2>2. FlattenSeq(seqs) = f[Len(seqs)]
      BY <1>3 DEF FlattenSeq, JoinedUpTo
    <2> HIDE DEF f
    <2> DEFINE joined(n) == f[n] \in Seq(T) /\ UpToKey(K, f[n], n) /\ Ascends(K, f[n])
               N == {n \in Nat : n \in 1..Len(seqs) => joined(n)}
    <2>3. 0 \in N
      OBVIOUS
    <2>4. ASSUME NEW n \in Nat, n \in N PROVE n + 1 \in N
      <3> SUFFICES ASSUME n + 1 \in 1..Len(seqs) PROVE joined(n + 1)
        OBVIOUS
      <3>1. f[n + 1] = IF n + 1 = 1 THEN seqs[n + 1] ELSE f[n] \o seqs[n + 1]
        <4>1. (n + 1) - 1 = n
          OBVIOUS
        <4> QED
          BY <2>1, <4>1 DEF JoinedUpTo
      <3>2. seqs[n + 1] \in Seq(T) /\ \A k \in 1..Len(seqs[n + 1]) : K[seqs[n + 1][k]] = n + 1
        BY <1>1
      <3>3. CASE n = 0
        <4>1. f[n + 1] = seqs[n + 1]
          BY <3>1, <3>3
        <4> DEFINE g == seqs[n + 1]
        <4>2. Len(g) \in Nat /\ \A k \in 1..Len(g) : K[g[k]] = n + 1
          BY <3>2
        <4> HIDE DEF g
        <4>3. \A i \in 1..Len(g) : \A j \in 1..(i - 1) : j \in 1..Len(g)
          BY <4>2
        <4>4. UpToKey(K, g, n + 1)
          BY <4>2 DEF UpToKey
        <4>5. Ascends(K, g)
          BY <4>2, <4>3 DEF Ascends
        <4> QED
          BY <3>2, <4>1, <4>4, <4>5 DEF g
      <3>4. CASE n # 0
        <4>1. n \in 1..Len(seqs) /\ n + 1 # 1
          BY <1>1, <3>4
        <4>2. f[n + 1] = f[n] \o seqs[n + 1] /\ joined(n)
          BY <2>4, <3>1, <4>1
        <4>3. UpToKey(K, f[n] \o seqs[n + 1], n + 1) /\ Ascends(K, f[n] \o seqs[n + 1])
          BY <3>2, <4>2, JoinAscends
        <4>4. f[n] \o seqs[n + 1] \in Seq(T)
          BY <3>2, <4>2, ConcatProperties
        <4> QED
          BY <4>2, <4>3, <4>4
      <3> QED
        BY <3>3, <3>4
    <2>5. Nat \subseteq N
      <3> HIDE DEF N
      <3> QED
        BY <2>3, <2>4, Induction
    <2>6. joined(Len(seqs))
      <3> HIDE DEF joined
      <3>1. Len(seqs) \in N /\ Len(seqs) \in 1..Len(seqs)
        BY <1>1, <1>3, <2>5
      <3> QED
        BY <3>1
    <2> QED
      BY <2>2, <2>6
  <1> QED
    BY <1>2, <1>3

LEMMA WindowTyped ==
    ASSUME settings \in Settings, NEW n \in Names
    PROVE  Window(n) \in Nat /\ \A w \in Room(n) : Window(n) = w
  <1> DEFINE S == Room(n) \cup {0}
  <1>1. IsLength(Room(n))
    BY RoomTyped
  <1>2. Bounded(Room(n)) /\ Bounded({0})
    <2>1. IsLength({0})
      BY DEF IsLength
    <2> QED
      BY <1>1, <2>1, LengthIsBounded
  <1>3. Bounded(S) /\ S # {}
    BY <1>2, BoundedTogether
  <1>4. Max(S) \in S /\ Max(S) \in Nat /\ \A x \in S : x <= Max(S)
    <2> HIDE DEF S
    <2> QED
      BY <1>3, MaxOf
  <1>5. \A w \in Room(n) : w \in Nat /\ (Max(S) = w \/ Max(S) = 0) /\ w <= Max(S)
    BY <1>1, <1>4 DEF IsLength
  <1>6. Window(n) = Max(S)
    BY DEF Window
  <1> HIDE DEF S
  <1> QED
    BY <1>4, <1>5, <1>6

\* The fallbacks of a task are models of the tasks that are left; they climb.
LEMMA OverflowClimbs ==
    ASSUME settings \in Settings, NEW among \in Seq(ToSet(Tasks)), NEW chosen \in ToSet(among),
           \A t \in ToSet(among) : settings.tasks[t] \in Names
    PROVE  LET selected == settings.tasks[chosen]
               f == OverflowFallbacks(among, selected)
           IN  /\ f \in Seq(Names) /\ \A n \in ToSet(f) : \E t \in ToSet(among) : n = settings.tasks[t]
               /\ \A i \in DOMAIN f : \A w \in Room(f[i]) :
                      /\ \A v \in Room(selected) :
                             v < w \/ (v = w /\ \A n \in {selected} \cup ToSet(f) : Window(n) <= w)
                      /\ \A j \in 1..(i - 1) : Room(f[j]) # {} /\ Window(f[j]) <= w
  <1> DEFINE selected == settings.tasks[chosen]
             listed == [i \in DOMAIN among |-> settings.tasks[among[i]]]
             models == Distinct(listed)
             widths == {Window(n) : n \in ToSet(models)}
             largest == Max(widths)
             climbs(n) ==
                 /\ n # selected
                 /\ CASE Room(selected) = {} -> Room(n) = {}
                      [] Room(selected) # {} /\ Room(n) = {} -> TRUE
                      [] OTHER -> Window(n) > Window(selected) \/ (Window(n) = Window(selected) /\ Window(n) = largest)
             larger == {n \in ToSet(models) : climbs(n)}
             known(w) == {n \in larger : Room(n) # {} /\ Window(n) = w}
             unknown == {n \in larger : Room(n) = {}}
             groups == [w \in 1..largest |-> Kept(models, known(w))]
             a == FlattenSeq(groups)
             b == Kept(models, unknown)
             f == a \o b
             K == [n \in Names |-> Window(n)]
  <1>1. OverflowFallbacks(among, selected) = f
    BY DEF OverflowFallbacks
  <1>2. /\ listed \in Seq(Names) /\ \A v : v \in ToSet(listed) <=> \E t \in ToSet(among) : v = settings.tasks[t]
    <2>1. \A t : t \in ToSet(among) <=> \E i \in 1..Len(among) : among[i] = t
      BY Members
    <2>2. DOMAIN among = 1..Len(among) /\ Len(among) \in Nat
      OBVIOUS
    <2> DEFINE at(i) == settings.tasks[among[i]]
    <2>3. \A i \in 1..Len(among) : at(i) \in Names
      BY <2>1
    <2>4. listed = [i \in 1..Len(among) |-> at(i)]
      BY <2>2
    <2>5. listed \in Seq(Names) /\ Len(listed) = Len(among) /\ \A i \in 1..Len(among) : listed[i] = at(i)
      <3> HIDE DEF listed, at
      <3> QED
        BY <2>2, <2>3, <2>4
    <2>6. \A v : v \in ToSet(listed) <=> \E i \in 1..Len(listed) : listed[i] = v
      <3> HIDE DEF listed
      <3> QED
        BY <2>5, Members
    <2> HIDE DEF listed
    <2> QED
      BY <2>1, <2>5, <2>6
  <1> HIDE DEF listed
  <1>3. models \in Seq(Names) /\ ToSet(models) = ToSet(listed)
    BY <1>2, DistinctInOrder
  <1>4. selected \in ToSet(models) /\ ToSet(models) \subseteq Names
    BY <1>2, <1>3
  <1> HIDE DEF models
  <1>5. \A n \in Names : Window(n) \in Nat /\ \A w \in Room(n) : Window(n) = w
    BY WindowTyped
  <1>6. largest \in Nat /\ \A n \in ToSet(models) : Window(n) <= largest
    <2> DEFINE r == [k \in 1..Len(models) |-> Window(models[k])]
    <2>1. Len(models) \in Nat /\ \A k \in 1..Len(models) : Window(models[k]) \in Nat
      BY <1>3, <1>5
    <2>2. r \in Seq(Nat) /\ Len(r) = Len(models) /\ \A k \in 1..Len(models) : r[k] = Window(models[k])
      BY <2>1
    <2>3. Bounded(ToSet(r)) /\ \A v : v \in ToSet(r) <=> \E k \in 1..Len(r) : r[k] = v
      <3> HIDE DEF r
      <3> QED
        BY <2>2, SequenceIsBounded, Members
    <2>4. ToSet(r) = widths
      <3>1. \A n : n \in ToSet(models) <=> \E k \in 1..Len(models) : models[k] = n
        BY <1>3, Members
      <3> HIDE DEF r
      <3> QED
        BY <2>2, <2>3, <3>1
    <2>5. widths # {} /\ \A n \in ToSet(models) : Window(n) \in widths
      BY <1>4
    <2> HIDE DEF r, widths
    <2> QED
      BY <2>3, <2>4, <2>5, MaxOf
  <1> HIDE DEF largest
  <1>7. larger \subseteq ToSet(models) /\ \A n \in larger : climbs(n)
    OBVIOUS
  <1> HIDE DEF larger
  <1>8. \A S : Kept(models, S) \in Seq(Names) /\ ToSet(Kept(models, S)) = ToSet(models) \cap S
    BY <1>3, KeptSet
  <1>9. groups \in Seq(Seq(Names)) /\ Len(groups) = largest /\ \A w \in 1..largest : groups[w] = Kept(models, known(w))
    <2>1. \A w : Kept(models, known(w)) \in Seq(Names)
      BY <1>8
    <2> HIDE DEF known
    <2> QED
      BY <1>6, <2>1
  <1> HIDE DEF groups
  <1>10. \A w \in 1..largest : \A v : v \in ToSet(groups[w]) => v \in larger /\ Room(v) # {} /\ Window(v) = w
    <2> SUFFICES ASSUME NEW w \in 1..largest, NEW v \in ToSet(groups[w]) PROVE v \in known(w)
      OBVIOUS
    <2>1. groups[w] = Kept(models, known(w))
      BY <1>9
    <2> HIDE DEF known
    <2> QED
      BY <1>8, <2>1
  <1>11. a \in Seq(Names) /\ \A v \in ToSet(a) : v \in larger /\ Room(v) # {}
    BY <1>9, <1>10, JoinedSet
  <1>12. Ascends(K, a)
    <2>1. \A i \in 1..Len(groups) : \A k \in 1..Len(groups[i]) : K[groups[i][k]] = i
      <3> SUFFICES ASSUME NEW i \in 1..Len(groups), NEW k \in 1..Len(groups[i]) PROVE K[groups[i][k]] = i
        OBVIOUS
      <3>1. groups[i] \in Seq(Names)
        BY <1>9
      <3>2. groups[i][k] \in ToSet(groups[i]) /\ groups[i][k] \in Names
        BY <3>1, Members
      <3> QED
        BY <1>9, <1>10, <3>2
    <2> HIDE DEF K
    <2> QED
      BY <1>9, <2>1, GroupsAscend
  <1> HIDE DEF a
  <1>13. b \in Seq(Names) /\ \A v \in ToSet(b) : v \in larger /\ Room(v) = {}
    BY <1>8
  <1> HIDE DEF b
  <1>14. /\ f \in Seq(Names) /\ Len(a) \in Nat /\ Len(b) \in Nat /\ Len(f) = Len(a) + Len(b)
         /\ \A i \in 1..(Len(a) + Len(b)) : f[i] = IF i <= Len(a) THEN a[i] ELSE b[i - Len(a)]
    BY <1>11, <1>13, ConcatProperties
  <1>15. \A v \in ToSet(f) : v \in larger
    BY <1>11, <1>13, JoinedMembers
  <1> HIDE DEF f
  <1>16. \A n \in ToSet(f) : \E t \in ToSet(among) : n = settings.tasks[t]
    BY <1>2, <1>3, <1>7, <1>15
  <1>17. ASSUME NEW i \in DOMAIN f, NEW w \in Room(f[i])
         PROVE  /\ \A v \in Room(selected) : v < w \/ (v = w /\ \A n \in {selected} \cup ToSet(f) : Window(n) <= w)
                /\ \A j \in 1..(i - 1) : Room(f[j]) # {} /\ Window(f[j]) <= w
    <2>1. i \in 1..Len(f)
      BY <1>14
    <2>2. i \in 1..Len(a)
      <3> SUFFICES ASSUME i \notin 1..Len(a) PROVE FALSE
        OBVIOUS
      <3>1. i - Len(a) \in 1..Len(b) /\ f[i] = b[i - Len(a)]
        BY <1>14, <2>1
      <3>2. f[i] \in ToSet(b)
        BY <1>13, <3>1, Members
      <3> QED
        BY <1>13, <3>2
    <2>3. \A j \in 1..i : j \in 1..Len(a) /\ f[j] = a[j] /\ a[j] \in ToSet(a) /\ a[j] \in Names
      <3>1. \A j \in 1..i : j \in 1..Len(a) /\ f[j] = a[j]
        BY <1>14, <2>2
      <3>2. \A j \in 1..Len(a) : a[j] \in ToSet(a) /\ a[j] \in Names
        BY <1>11, Members
      <3> QED
        BY <3>1, <3>2
    <2>4. i \in 1..i /\ f[i] \in larger /\ f[i] \in Names /\ Window(f[i]) = w /\ w \in Nat
      <3>1. i \in 1..i
        BY <2>2
      <3> QED
        BY <1>5, <1>11, <2>3, <3>1
    <2>5. ASSUME NEW j \in 1..(i - 1) PROVE Room(f[j]) # {} /\ Window(f[j]) <= w
      <3>1. j \in 1..i
        BY <2>2
      <3>2. K[a[j]] <= K[a[i]]
        <4> HIDE DEF K
        <4> QED
          BY <1>12, <2>2 DEF Ascends
      <3>3. Window(a[j]) <= Window(a[i])
        BY <2>3, <2>4, <3>1, <3>2
      <3> QED
        BY <1>11, <2>3, <2>4, <3>1, <3>3
    <2>6. ASSUME NEW v \in Room(selected)
          PROVE  v < w \/ (v = w /\ \A n \in {selected} \cup ToSet(f) : Window(n) <= w)
      <3>1. Window(selected) = v /\ v \in Nat
        BY <1>4, <1>5
      <3>2. Room(selected) # {} /\ Room(f[i]) # {}
        OBVIOUS
      <3>3. climbs(f[i])
        BY <1>7, <2>4
      <3>4. w > v \/ (w = v /\ w = largest)
        BY <2>4, <3>1, <3>2, <3>3
      <3>5. \A n \in {selected} \cup ToSet(f) : n \in ToSet(models)
        BY <1>4, <1>7, <1>15
      <3> QED
        BY <1>6, <2>4, <3>1, <3>4, <3>5
    <2> QED
      BY <2>5, <2>6
  <1> QED
    BY <1>1, <1>14, <1>16, <1>17

-----------------------------------------------------------------------------
(* What Auto plans.                                                        *)

\* The parts of AutoFits.
AsksAboutFitting ==
    /\ \A t \in ToSet(question.among) : Fits(settings.tasks[t])
    /\ Cardinality({settings.tasks[t] : t \in ToSet(question.among)}) > 1
    /\ ~Never(question.model)
PlansFitting ==
    /\ \A n \in Candidates : n \in Profile /\ Fits(n)
    /\ (\E n \in Candidates : ~Safe(n)) => \A n \in Candidates : ~Safe(n)
    /\ settings.mode = "tasks" =>
           \A i \in DOMAIN Fallbacks : \A w \in Room(Fallbacks[i]) :
               /\ \A v \in Room(plan.primary) : v < w \/ (v = w /\ \A n \in Candidates : Window(n) <= w)
               /\ \A j \in 1..(i - 1) : Room(Fallbacks[j]) # {} /\ Window(Fallbacks[j]) <= w

\* What a classification under way can tell apart: tasks, whose models are all safe or none.
Asked ==
    pc = "classifying" =>
        /\ settings.mode = "tasks" /\ question.among \in Seq(ToSet(Tasks))
        /\ \A t, u \in ToSet(question.among) : Safe(settings.tasks[u]) => Safe(settings.tasks[t])

LEMMA SameRooms ==
    ASSUME UNCHANGED <<settings, request>>, NEW n
    PROVE  Room(n)' = Room(n) /\ (Safe(n)' <=> Safe(n)) /\ Window(n)' = Window(n)
  <1>1. Room(n)' = Room(n) /\ request' = request
    BY DEF Room
  <1> QED
    BY <1>1 DEF Safe, Window

LEMMA ChainPlanFits ==
    ASSUME settings \in Settings, UNCHANGED <<settings, request>>, settings.mode = "chain", catalog' \in Seq(Names),
           plan' \in ChainPlans
    PROVE  PlansFitting'
  <1>1. Candidates' = {plan'.primary} \cup ToSet(plan'.fallbacks) /\ settings'.mode # "tasks"
    BY DEF Candidates
  <1>2. \A n \in Candidates' :
            n \in ToSet(settings.chain) /\ Fits(n)' /\ \A m \in Candidates' : Safe(m) => Safe(n)
    BY <1>1, ChainChosen
  <1>3. \A n : n \in ToSet(settings.chain) => n \in Profile'
    BY DEF Profile
  <1>4. \A n : Safe(n)' <=> Safe(n)
    BY SameRooms
  <1>5. (\A n \in Candidates : n \in Profile /\ Fits(n))'
    BY <1>2, <1>3
  <1>6. ((\E n \in Candidates : ~Safe(n)) => \A n \in Candidates : ~Safe(n))'
    BY <1>2, <1>4
  <1> QED
    BY <1>1, <1>5, <1>6 DEF PlansFitting

LEMMA TaskPlanFits ==
    ASSUME settings \in Settings, UNCHANGED <<settings, request>>, settings.mode = "tasks",
           NEW among \in Seq(ToSet(Tasks)), NEW task \in ToSet(among), plan' = TaskPlan(among, task),
           \A t \in ToSet(among) :
               /\ settings.tasks[t] \in Names /\ Fits(settings.tasks[t])'
               /\ \A u \in ToSet(among) : Safe(settings.tasks[u]) => Safe(settings.tasks[t])
    PROVE  PlansFitting'
  <1> DEFINE selected == settings.tasks[task]
             f == OverflowFallbacks(among, selected)
  <1>1. plan'.primary = selected /\ plan'.fallbacks = f
    BY DEF TaskPlan, Plan
  <1>2. /\ f \in Seq(Names) /\ \A n \in ToSet(f) : \E t \in ToSet(among) : n = settings.tasks[t]
        /\ \A i \in DOMAIN f : \A w \in Room(f[i]) :
               /\ \A v \in Room(selected) : v < w \/ (v = w /\ \A n \in {selected} \cup ToSet(f) : Window(n) <= w)
               /\ \A j \in 1..(i - 1) : Room(f[j]) # {} /\ Window(f[j]) <= w
    BY OverflowClimbs
  <1>3. selected = settings.tasks[task]
    OBVIOUS
  <1> HIDE DEF f, selected
  <1>4. Candidates' = {selected} \cup ToSet(f) /\ Fallbacks' = f
    BY <1>1 DEF Candidates, Fallbacks
  <1>5. \A n \in Candidates' : \E t \in ToSet(among) : n = settings.tasks[t]
    BY <1>2, <1>3, <1>4
  <1>6. \A t \in ToSet(among) : t \in ToSet(Tasks)
    BY Members
  <1>7. (\A n \in Candidates : n \in Profile /\ Fits(n))'
    BY <1>5, <1>6 DEF Profile
  <1>8. \A n : Safe(n)' <=> Safe(n)
    BY SameRooms
  <1>9. \A n, m \in Candidates' : Safe(n)' => Safe(m)'
    BY <1>5, <1>8
  <1>10. ((\E n \in Candidates : ~Safe(n)) => \A n \in Candidates : ~Safe(n))'
    BY <1>9
  <1>11. \A n : Room(n)' = Room(n) /\ Window(n)' = Window(n)
    BY SameRooms
  <1>12. (\A i \in DOMAIN Fallbacks : \A w \in Room(Fallbacks[i]) :
             /\ \A v \in Room(plan.primary) : v < w \/ (v = w /\ \A n \in Candidates : Window(n) <= w)
             /\ \A j \in 1..(i - 1) : Room(Fallbacks[j]) # {} /\ Window(Fallbacks[j]) <= w)'
    BY <1>1, <1>2, <1>4, <1>11
  <1> QED
    BY <1>7, <1>10, <1>12 DEF PlansFitting

\* A classification is asked for about tasks whose models fit.
LEMMA TasksAreAsked ==
    ASSUME settings \in Settings, UNCHANGED <<settings, request>>, settings.mode = "tasks", catalog' \in Seq(Names),
           Cardinality({settings.tasks[t] : t \in ToSet(EligibleTasks)}) > 1, Usable(settings.router),
           question' = ClassifierQuestion(EligibleTasks)
    PROVE  AsksAboutFitting' /\ Asked'
  <1> DEFINE eligible == EligibleTasks
             among == question'.among
  <1>1. /\ eligible \in Seq(ToSet(Tasks))
        /\ \A t \in ToSet(eligible) :
               Fits(settings.tasks[t])' /\ \A u \in ToSet(eligible) : Safe(settings.tasks[u]) => Safe(settings.tasks[t])
    BY TasksChosen
  <1>2. among = Distinct(eligible) /\ question'.model = settings.router
    BY DEF ClassifierQuestion
  <1> HIDE DEF eligible
  <1>3. among \in Seq(ToSet(Tasks)) /\ ToSet(among) = ToSet(eligible)
    BY <1>1, <1>2, DistinctInOrder
  <1>4. ~Never(settings.router)'
    BY ListedNames DEF Usable
  <1>5. \A n : Safe(n)' <=> Safe(n)
    BY SameRooms
  <1>6. Cardinality({settings.tasks[t] : t \in ToSet(eligible)}) > 1
    BY DEF eligible
  <1>7. AsksAboutFitting'
    BY <1>1, <1>2, <1>3, <1>4, <1>6 DEF AsksAboutFitting
  <1>8. Asked'
    BY <1>1, <1>3, <1>5 DEF Asked
  <1> QED
    BY <1>7, <1>8

LEMMA FitsParts ==
    AutoFits <=> /\ pc = "classifying" => AsksAboutFitting
                 /\ pc = "planned" /\ RequestedName = AutoModel => PlansFitting
  BY DEF AutoFits, AsksAboutFitting, PlansFitting

LEMMA FitsPartsLater ==
    AutoFits' <=> /\ pc' = "classifying" => AsksAboutFitting'
                  /\ pc' = "planned" /\ RequestedName' = AutoModel => PlansFitting'
  BY DEF AutoFits, AsksAboutFitting, PlansFitting

LEMMA FitsStep == Typed /\ Planning /\ Asked /\ AutoFits /\ [Next]_vars => Asked' /\ AutoFits'
  <1> SUFFICES ASSUME Typed, Planning, Asked, AutoFits, [Next]_vars PROVE Asked' /\ AutoFits'
    OBVIOUS
  <1>1. pc' \notin {"classifying", "planned"} => Asked' /\ AutoFits'
    BY FitsPartsLater DEF Asked
  <1>2. pc' = "planned" /\ (RequestedName' = AutoModel => PlansFitting') => Asked' /\ AutoFits'
    BY FitsPartsLater DEF Asked
  <1>3. settings \in Settings
    BY DEF Typed, TypeOK
  <1>4. CASE PlanChain
    <2>1. UNCHANGED <<settings, request>> /\ settings.mode = "chain" /\ catalog' \in Seq(Names)
      BY <1>4, CacheTyped DEF PlanChain, Typed, TypeOK
    <2>2. CASE ChainPlans = {}
      BY <1>1, <1>4, <2>2 DEF PlanChain, Refused
    <2>3. CASE ChainPlans # {}
      <3>1. pc' = "planned" /\ plan' \in ChainPlans
        BY <1>4, <2>3 DEF PlanChain, Planned
      <3> QED
        BY <1>2, <1>3, <2>1, <3>1, ChainPlanFits
    <2> QED
      BY <2>2, <2>3
  <1>5. CASE PlanTasks
    <2> DEFINE eligible == EligibleTasks
               models == {settings.tasks[t] : t \in ToSet(eligible)}
    <2>1. UNCHANGED <<settings, request>> /\ settings.mode = "tasks" /\ catalog' \in Seq(Names)
      BY <1>5, CacheTyped DEF PlanTasks, Typed, TypeOK
    <2>2. \/ pc' \in {"refused", "unclassified"}
          \/ Cardinality(models) = 1 /\ pc' = "planned" /\ plan' = TaskPlan(eligible, Head(eligible))
          \/ /\ Cardinality(models) > 1 /\ Usable(settings.router)
             /\ question' = ClassifierQuestion(eligible) /\ pc' = "classifying"
      BY <1>5 DEF PlanTasks, Refused, Planned, Unclassified
    <2>3. CASE pc' \in {"refused", "unclassified"}
      BY <1>1, <2>3
    <2>4. CASE Cardinality(models) = 1 /\ pc' = "planned" /\ plan' = TaskPlan(eligible, Head(eligible))
      <3>1. eligible # <<>>
        <4> SUFFICES ASSUME eligible = <<>> PROVE FALSE
          OBVIOUS
        <4>1. ToSet(eligible) = {}
          BY DEF ToSet
        <4>2. models = {}
          BY <4>1
        <4> HIDE DEF models
        <4>3. Cardinality(models) = 0
          BY <4>2, FS_EmptySet
        <4> QED
          BY <2>4, <4>3
      <3>2. /\ eligible \in Seq(ToSet(Tasks))
            /\ \A t \in ToSet(eligible) :
                   /\ settings.tasks[t] \in Names /\ Fits(settings.tasks[t])'
                   /\ \A u \in ToSet(eligible) : Safe(settings.tasks[u]) => Safe(settings.tasks[t])
        BY <1>3, <2>1, TasksChosen
      <3> HIDE DEF eligible
      <3>3. Head(eligible) \in ToSet(eligible)
        BY <3>1, <3>2, HeadAndTail
      <3>4. PlansFitting'
        BY <1>3, <2>1, <2>4, <3>2, <3>3, TaskPlanFits
      <3> QED
        BY <1>2, <2>4, <3>4
    <2>5. CASE /\ Cardinality(models) > 1 /\ Usable(settings.router)
               /\ question' = ClassifierQuestion(eligible) /\ pc' = "classifying"
      <3>1. AsksAboutFitting' /\ Asked'
        BY <1>3, <2>1, <2>5, TasksAreAsked
      <3> QED
        BY <2>5, <3>1, FitsPartsLater
    <2> QED
      BY <2>2, <2>3, <2>4, <2>5
  <1>6. ASSUME NEW reply \in Replies, Classified(reply) PROVE Asked' /\ AutoFits'
    <2> DEFINE among == question.among
    <2>1. pc = "classifying" /\ UNCHANGED <<catalog, signedIn, settings, request>>
      BY <1>6 DEF Classified, worldVars
    <2>2. settings.mode = "tasks" /\ among \in Seq(ToSet(Tasks)) /\ \A t \in ToSet(among) : Fits(settings.tasks[t])
      BY <2>1, FitsParts DEF Asked, AsksAboutFitting
    <2>3. \A t, u \in ToSet(among) : Safe(settings.tasks[u]) => Safe(settings.tasks[t])
      BY <2>1 DEF Asked
    <2>4. \A n : (Fits(n)' <=> Fits(n)) /\ (Fits(n) => n \in Names)
      <3>1. \A n : (Info(n)' = Info(n)) /\ (Never(n)' <=> Never(n)) /\ settings' = settings /\ request' = request
        BY <2>1 DEF Info, Never
      <3>2. \A n : Fits(n) => n \in Names
        BY DEF Fits, Never, Typed, TypeOK
      <3> QED
        BY <3>1, <3>2 DEF Fits
    <2>5. CASE ClassifierResult(reply, among) = {}
      BY <1>1, <1>6, <2>5 DEF Classified, Unclassified
    <2>6. CASE ClassifierResult(reply, among) # {}
      <3>1. PICK task \in ClassifierResult(reply, among) : Planned(TaskPlan(among, task))
        BY <1>6, <2>6 DEF Classified
      <3>2. task \in ToSet(among) /\ pc' = "planned" /\ plan' = TaskPlan(among, task)
        BY <3>1 DEF ClassifierResult, Planned
      <3>3. PlansFitting'
        BY <1>3, <2>1, <2>2, <2>3, <2>4, <3>2, TaskPlanFits
      <3> QED
        BY <1>2, <3>2, <3>3
    <2> QED
      BY <2>5, <2>6
  <1>7. ASSUME UNCHANGED <<request, bound>>, RequestedName # AutoModel, pc' # "classifying" PROVE Asked' /\ AutoFits'
    <2>1. RequestedName' # AutoModel
      BY <1>7 DEF RequestedName
    <2> QED
      BY <1>1, <1>2, <1>7, <2>1
  <1>8. CASE PlanAlias \/ PlanExplicit \/ Resolve
    <2>1. UNCHANGED <<request, bound>> /\ RequestedName # AutoModel
      BY <1>8 DEF PlanAlias, PlanExplicit, Resolve, Planning
    <2>2. pc' # "classifying"
      BY <1>8 DEF PlanAlias, PlanExplicit, Resolve, Planned, Refused
    <2> QED
      BY <1>7, <2>1, <2>2
  <1>9. CASE Outage \/ Fail
    BY <1>1, <1>9 DEF Outage, Fail
  <1>10. ASSUME NEW n \in Names, Serve(n) PROVE Asked' /\ AutoFits'
    BY <1>1, <1>10 DEF Serve
  <1>11. ASSUME NEW name \in {AutoModel, request.name}, NEW sealed \in BOOLEAN, NEW other \in Settings,
                NEW gone \in {{}} \cup {{p} : p \in Providers}, Continue(name, sealed, other, gone)
         PROVE  Asked' /\ AutoFits'
    BY <1>1, <1>11 DEF Continue
  <1>12. CASE UNCHANGED vars
    <2>1. UNCHANGED <<catalog, signedIn, settings, request, bound, pc, plan, question>>
      BY <1>12 DEF vars, worldVars
    <2>2. \A n : (Info(n)' = Info(n)) /\ (Never(n)' <=> Never(n))
      BY <2>1 DEF Info, Never
    <2>3. \A n : Fits(n)' <=> Fits(n)
      BY <2>1, <2>2 DEF Fits
    <2>4. \A n : Room(n)' = Room(n) /\ (Safe(n)' <=> Safe(n)) /\ Window(n)' = Window(n)
      BY <2>1, SameRooms
    <2>5. RequestedName' = RequestedName /\ Profile' = Profile /\ Candidates' = Candidates /\ Fallbacks' = Fallbacks
      BY <2>1 DEF RequestedName, Profile, Candidates, Fallbacks
    <2>6. Asked'
      BY <2>1, <2>4 DEF Asked
    <2>7. AsksAboutFitting' <=> AsksAboutFitting
      BY <2>1, <2>2, <2>3 DEF AsksAboutFitting
    <2>8. PlansFitting' <=> PlansFitting
      BY <2>1, <2>3, <2>4, <2>5 DEF PlansFitting
    <2> QED
      BY <2>1, <2>5, <2>6, <2>7, <2>8, FitsParts, FitsPartsLater
  <1> QED
    BY <1>4, <1>5, <1>6, <1>8, <1>9, <1>10, <1>11, <1>12 DEF Next

\* Auto sends a request only to models of its profile that fit it, and, while one of them has
\* room for it, to none that it would fill beyond 70 %; a request that overflows a window goes to
\* ever larger ones; and the classifier is asked only about models that fit, of which there is
\* more than one.
THEOREM AutoPlansFit == Spec => []AutoFits
  <1>1. Init => Planning /\ Asked /\ AutoFits
    BY DEF Init, Planning, Asked, AutoFits
  <1> QED
    BY <1>1, TypedAtFirst, TypedStep, PlanningStep, FitsStep, PTL DEF Spec

-----------------------------------------------------------------------------
(* What is told of Auto.                                                   *)

ToldOptions(infos) == UNION {ToSet(Advertised(i)) : i \in infos}
ToldLimits(infos) == {o.limit : o \in ToldOptions(infos)}

\* Of the windows that some models have, the best of each kind are told, and one of them is the
\* default.
LEMMA OneDefault ==
    ASSUME NEW infos, ToldOptions(infos) \subseteq Windows, Bounded(ToldLimits(infos)),
           ToldOptions(infos) # {} => \E o \in ToldOptions(infos) : o.default
    PROVE  /\ AutoWindows(infos) # {} => Cardinality({o \in AutoWindows(infos) : o.default}) = 1
           /\ \A o \in AutoWindows(infos) : \E p \in ToldOptions(infos) : p.limit = o.limit
  <1> DEFINE options == ToldOptions(infos)
             limits(tier) == {o.limit : o \in {p \in options : p.tier = tier}}
             best(tier) == Max(limits(tier))
             default == {o.tier : o \in {p \in options : p.default}}
             tiers == {o.tier : o \in options}
             chosen == CHOOSE t \in default : \A u \in default : best(u) <= best(t)
             marked(tier) == default # {} /\ tier = chosen
             windows == {Option(tier, best(tier), marked(tier)) : tier \in tiers}
  <1>1. AutoWindows(infos) = windows
    BY DEF AutoWindows, ToldOptions
  <1> HIDE DEF options
  <1>2. \A t \in tiers : best(t) \in Nat /\ \E p \in options : p.limit = best(t)
    <2> SUFFICES ASSUME NEW t \in tiers PROVE best(t) \in Nat /\ best(t) \in limits(t)
      OBVIOUS
    <2>1. limits(t) # {} /\ limits(t) \subseteq {o.limit : o \in options}
      OBVIOUS
    <2>2. Bounded(limits(t))
      <3> DEFINE all == {o.limit : o \in options}
      <3> HIDE DEF limits
      <3>1. limits(t) \subseteq all /\ Bounded(all)
        BY <2>1 DEF ToldLimits, options
      <3> HIDE DEF all
      <3> QED
        BY <3>1 DEF Bounded
    <2> HIDE DEF limits
    <2> QED
      BY <2>1, <2>2, MaxOf
  <1>3. default \subseteq tiers /\ tiers \subseteq {"default", "long_context"}
    BY DEF Windows, options
  <1>4. options # {} => default # {}
    BY DEF options
  <1>5. options = {} => tiers = {}
    OBVIOUS
  <1> HIDE DEF limits, best, default, tiers
  <1>6. default # {} => chosen \in default
    <2> SUFFICES ASSUME default # {} PROVE \E t \in default : \A u \in default : best(u) <= best(t)
      OBVIOUS
    <2>1. \A t \in default : best(t) \in Nat /\ t \in {"default", "long_context"}
      BY <1>2, <1>3
    <2>2. CASE "default" \in default /\ "long_context" \in default
      <3> DEFINE a == best("default")
                 b == best("long_context")
      <3>1. a \in Nat /\ b \in Nat
        BY <2>1, <2>2
      <3>2. CASE a <= b
        <4>1. \A u \in default : best(u) <= best("long_context")
          BY <2>1, <3>1, <3>2
        <4> QED
          BY <2>2, <4>1
      <3>3. CASE b <= a
        <4>1. \A u \in default : best(u) <= best("default")
          BY <2>1, <3>1, <3>3
        <4> QED
          BY <2>2, <4>1
      <3> QED
        BY <3>1, <3>2, <3>3
    <2>3. CASE ~("default" \in default /\ "long_context" \in default)
      <3>1. PICK t \in default : \A u \in default : u = t
        BY <2>1, <2>3
      <3>2. \A u \in default : best(u) <= best(t)
        BY <2>1, <3>1
      <3> QED
        BY <3>2
    <2> QED
      BY <2>2, <2>3
  <1> HIDE DEF chosen, marked
  <1>7. ASSUME AutoWindows(infos) # {} PROVE Cardinality({o \in AutoWindows(infos) : o.default}) = 1
    <2> DEFINE it == Option(chosen, best(chosen), TRUE)
    <2>1. default # {} /\ chosen \in tiers
      BY <1>1, <1>3, <1>4, <1>5, <1>6, <1>7
    <2>2. \A tier \in tiers : marked(tier) = (tier = chosen)
      BY <2>1 DEF marked
    <2>3. \A o \in windows : o.default <=> o = it
      <3> SUFFICES ASSUME NEW tier \in tiers PROVE Option(tier, best(tier), marked(tier)).default <=> Option(tier, best(tier), marked(tier)) = it
        OBVIOUS
      <3>1. CASE tier = chosen
        <4>1. marked(tier) = TRUE
          BY <2>2, <3>1
        <4> QED
          BY <3>1, <4>1 DEF Option
      <3>2. CASE tier # chosen
        <4>1. marked(tier) = FALSE
          BY <2>2, <3>2
        <4> QED
          BY <4>1 DEF Option
      <3> QED
        BY <3>1, <3>2
    <2>4. it \in windows
      <3>1. marked(chosen) = TRUE
        BY <2>1, <2>2
      <3> QED
        BY <2>1, <3>1
    <2> HIDE DEF windows, it
    <2>5. {o \in AutoWindows(infos) : o.default} = {it}
      BY <1>1, <2>3, <2>4
    <2>6. Cardinality({it}) = 1
      BY FS_Singleton
    <2> QED
      BY <2>5, <2>6, Zenon
  <1>8. \A o \in AutoWindows(infos) : \E p \in options : p.limit = o.limit
    <2> SUFFICES ASSUME NEW tier \in tiers PROVE \E p \in options : p.limit = Option(tier, best(tier), marked(tier)).limit
      BY <1>1
    <2> QED
      BY <1>2 DEF Option
  <1> QED
    BY <1>7, <1>8 DEF options

\* No window is told that a model of the profile does not have room for.
LEMMA ToldHasRoom ==
    ASSUME Typed
    PROVE  /\ Advertisement.windows # {} => Cardinality({o \in Advertisement.windows : o.default}) = 1
           /\ \A o \in Advertisement.windows : \E n \in Profile \cap ToSet(catalog) :
                  o.limit \in Nat /\ \E r \in Room(n) : o.limit <= r
  <1> DEFINE names == Profile \cap ToSet(catalog)
             infos == {Info(n) : n \in names}
             options == ToldOptions(infos)
             limits == ToldLimits(infos)
  <1>1. settings \in Settings /\ catalog \in Seq(Names) /\ names \subseteq ToSet(catalog) \cap Names
    BY DEF Typed, TypeOK
  <1>2. Advertisement.windows = AutoWindows(infos)
    BY DEF Advertisement, AutoInfo
  <1> HIDE DEF names
  <1>3. \A n \in names :
            /\ ToSet(Advertised(Info(n))) \subseteq Windows
            /\ ToSet(Advertised(Info(n))) # {} => \E o \in ToSet(Advertised(Info(n))) : o.default
    <2> SUFFICES ASSUME NEW n \in names
                 PROVE  /\ ToSet(Advertised(Info(n))) \subseteq Windows
                        /\ ToSet(Advertised(Info(n))) # {} => \E o \in ToSet(Advertised(Info(n))) : o.default
      OBVIOUS
    <2> DEFINE i == Info(n)
    <2>1. InfoTyped(i)
      BY <1>1, InfosTyped
    <2> HIDE DEF i
    <2>2. Choice(i.options) /\ Choice(SingleOption(i.prompt))
      BY <2>1, SingleTyped DEF InfoTyped
    <2>3. Choice(Advertised(i))
      BY <2>2 DEF Advertised
    <2>4. ToSet(Advertised(i)) \subseteq Windows /\ (Advertised(i) = <<>> => ToSet(Advertised(i)) = {})
      <3>1. ToSet(Advertised(i)) \subseteq Windows
        BY <2>3, Members DEF Choice
      <3>2. ToSet(<<>>) = {}
        BY DEF ToSet
      <3> QED
        BY <3>1, <3>2
    <2> QED
      BY <2>3, <2>4 DEF Choice, i
  <1>4. options \subseteq Windows /\ (options # {} => \E o \in options : o.default)
    <2>1. \A o : o \in options <=> \E n \in names : o \in ToSet(Advertised(Info(n)))
      BY DEF ToldOptions
    <2> HIDE DEF options, infos
    <2> QED
      BY <1>3, <2>1
  <1>5. \A o \in options : \E n \in names : \E r \in Room(n) : o.limit <= r
    BY <1>1, RoomTyped DEF ToldOptions
  <1>6. \A o \in options : o.limit \in Nat
    BY <1>4 DEF Windows
  <1>7. Bounded(limits)
    <2> DEFINE rooms == UNION {Room(n) : n \in names}
    <2>1. Bounded(rooms)
      BY <1>1, RoomsBounded
    <2>2. \A o \in options : \E r \in rooms : o.limit <= r
      BY <1>5
    <2> HIDE DEF rooms
    <2>3. PICK b \in Nat : \A r \in rooms : r \in Nat /\ r <= b
      BY <2>1 DEF Bounded
    <2> HIDE DEF options
    <2>4. \A o \in options : o.limit <= b
      BY <1>6, <2>2, <2>3
    <2>5. limits \subseteq Nat /\ \A x \in limits : x <= b
      BY <1>6, <2>4 DEF ToldLimits, options
    <2> QED
      BY <2>3, <2>5 DEF Bounded
  <1>8. /\ AutoWindows(infos) # {} => Cardinality({o \in AutoWindows(infos) : o.default}) = 1
        /\ \A o \in AutoWindows(infos) : \E p \in options : p.limit = o.limit
    <2> HIDE DEF infos
    <2> QED
      BY <1>4, <1>7, OneDefault
  <1> HIDE DEF infos, options
  <1>9. \A o \in AutoWindows(infos) : \E n \in names : o.limit \in Nat /\ \E r \in Room(n) : o.limit <= r
    BY <1>5, <1>6, <1>8
  <1> QED
    BY <1>2, <1>8, <1>9, Zenon DEF names

\* All that Auto may choose fits and declares what the request needs.
AllFit == \A n \in Profile : Fits(n) /\ \A f \in request.needs : Info(n).features[f] = "yes"
SomeSafe == \E n \in Profile \cap ToSet(catalog) : Safe(n)

LEMMA ToldIsSafe ==
    ASSUME Typed, RequestTyped, NEW o \in Advertisement.windows, request.tokens * 10 < o.limit * 7
    PROVE  SomeSafe
  <1>1. PICK n \in Profile \cap ToSet(catalog) : o.limit \in Nat /\ \E r \in Room(n) : o.limit <= r
    BY ToldHasRoom
  <1>2. settings \in Settings /\ n \in Names
    BY DEF Typed, TypeOK
  <1>3. PICK r \in Room(n) : o.limit <= r
    BY <1>1
  <1>4. \A w \in Room(n) : w = r /\ w \in Nat
    BY <1>2, <1>3, RoomTyped DEF IsLength
  <1>5. request.tokens \in Nat
    BY DEF RequestTyped
  <1>6. request.tokens * 10 < r * 7
    BY <1>1, <1>3, <1>4, <1>5
  <1>7. Safe(n)
    BY <1>4, <1>6 DEF Safe
  <1> QED
    BY <1>7 DEF SomeSafe

LEMMA WouldBeTaken ==
    ASSUME UNCHANGED <<settings, request>>, catalog' \in Seq(Names), AllFit', NEW n \in Profile'
    PROVE  /\ AutoTakes(n, request.needs, FALSE)
           /\ AutoTakes(n, StrictNeeds, settings.strict)
  <1>1. Info(n)' = Info(n) /\ settings' = settings /\ request' = request
    BY DEF Info
  <1>2. Fits(n)' /\ \A f \in request.needs : Info(n).features[f] = "yes"
    BY <1>1 DEF AllFit
  <1>3. Usable(n) /\ \A most \in Info(n).output, asked \in request.output : asked <= most
    BY <1>1, <1>2, ListedNames DEF Fits, Usable
  <1>4. StrictNeeds \subseteq request.needs
    BY DEF StrictNeeds
  <1>5. Supports(n, request.needs, FALSE) /\ Supports(n, StrictNeeds, settings.strict)
    BY <1>2, <1>4 DEF Supports
  <1> QED
    BY <1>3, <1>5 DEF AutoTakes

\* The promise: with every model fit, a request that one of them has room for is safe where it
\* is planned, and at every task that the classifier is asked about.
Promise ==
    AllFit /\ SomeSafe =>
        /\ pc = "planned" /\ RequestedName = AutoModel => Safe(plan.primary)
        /\ pc = "classifying" => \A t \in ToSet(question.among) : Safe(settings.tasks[t])

LEMMA PromiseStep == Typed /\ Planning /\ Asked /\ Promise /\ [Next]_vars => Promise'
  <1> SUFFICES ASSUME Typed, Planning, Asked, Promise, [Next]_vars, AllFit', SomeSafe'
               PROVE  /\ pc' = "planned" /\ RequestedName' = AutoModel => Safe(plan.primary)'
                      /\ pc' = "classifying" => \A t \in ToSet(question'.among) : Safe(settings.tasks[t])'
    BY DEF Promise
  <1> DEFINE goal == /\ pc' = "planned" /\ RequestedName' = AutoModel => Safe(plan.primary)'
                     /\ pc' = "classifying" => \A t \in ToSet(question'.among) : Safe(settings.tasks[t])'
  <1>1. pc' \notin {"classifying", "planned"} => goal
    OBVIOUS
  <1>2. settings \in Settings
    BY DEF Typed, TypeOK
  <1>3. ASSUME UNCHANGED <<settings, request>>
        PROVE  /\ \A n : Safe(n)' <=> Safe(n)
               /\ Safe(plan.primary)' <=> Safe(plan'.primary)
               /\ (\A t : Safe(settings.tasks[t])' <=> Safe(settings.tasks[t]))
    <2>1. \A n : Safe(n)' <=> Safe(n)
      BY <1>3, SameRooms
    <2>2. \A n : (Room(n)' = Room(n)) /\ request' = request /\ settings' = settings
      BY <1>3 DEF Room
    <2>3. Safe(plan.primary)' <=> Safe(plan'.primary)
      BY <1>3 DEF Safe, Room
    <2>4. \A t : Safe(settings.tasks[t])' <=> Safe(settings.tasks[t])
      BY <1>3 DEF Safe, Room
    <2> QED
      BY <2>1, <2>3, <2>4
  <1>4. CASE PlanChain
    <2>1. UNCHANGED <<settings, request>> /\ settings.mode = "chain" /\ catalog' \in Seq(Names)
      BY <1>4, CacheTyped DEF PlanChain, Typed, TypeOK
    <2>2. PICK n \in Profile' : Safe(n)
      BY <1>3, <2>1 DEF SomeSafe
    <2>3. n \in ToSet(settings.chain) /\ AutoTakes(n, request.needs, FALSE)
      BY <2>1, <2>2, WouldBeTaken DEF Profile
    <2>4. CASE ChainPlans = {}
      BY <1>1, <1>4, <2>4 DEF PlanChain, Refused
    <2>5. CASE ChainPlans # {}
      <3>1. pc' = "planned" /\ plan' \in ChainPlans
        BY <1>4, <2>5 DEF PlanChain, Planned
      <3>2. Safe(plan'.primary)
        BY <1>2, <2>1, <2>2, <2>3, <3>1, ChainChosen
      <3> QED
        BY <1>3, <2>1, <3>1, <3>2
    <2> QED
      BY <2>4, <2>5
  <1>5. CASE PlanTasks
    <2> DEFINE eligible == EligibleTasks
               models == {settings.tasks[t] : t \in ToSet(eligible)}
    <2>1. UNCHANGED <<settings, request>> /\ settings.mode = "tasks" /\ catalog' \in Seq(Names)
      BY <1>5, CacheTyped DEF PlanTasks, Typed, TypeOK
    <2>2. PICK n \in Profile' : Safe(n)
      BY <1>3, <2>1 DEF SomeSafe
    <2>3. PICK u \in ToSet(Tasks) : n = settings.tasks[u]
      BY <2>1 DEF Profile
    <2>4. AutoTakes(settings.tasks[u], StrictNeeds, settings.strict) /\ Safe(settings.tasks[u])
      BY <2>1, <2>2, <2>3, WouldBeTaken
    <2>5. eligible \in Seq(ToSet(Tasks)) /\ \A t \in ToSet(eligible) : Safe(settings.tasks[t])
      BY <1>2, <2>1, <2>4, TasksChosen
    <2>6. \/ pc' \in {"refused", "unclassified"}
          \/ Cardinality(models) = 1 /\ pc' = "planned" /\ plan' = TaskPlan(eligible, Head(eligible))
          \/ question' = ClassifierQuestion(eligible) /\ pc' = "classifying"
      BY <1>5 DEF PlanTasks, Refused, Planned, Unclassified
    <2>7. CASE pc' \in {"refused", "unclassified"}
      BY <1>1, <2>7
    <2>8. CASE Cardinality(models) = 1 /\ pc' = "planned" /\ plan' = TaskPlan(eligible, Head(eligible))
      <3>1. eligible # <<>>
        <4> SUFFICES ASSUME eligible = <<>> PROVE FALSE
          OBVIOUS
        <4>1. ToSet(eligible) = {}
          BY DEF ToSet
        <4>2. models = {}
          BY <4>1
        <4> HIDE DEF models
        <4>3. Cardinality(models) = 0
          BY <4>2, FS_EmptySet
        <4> QED
          BY <2>8, <4>3
      <3> HIDE DEF eligible
      <3>2. plan'.primary = settings.tasks[Head(eligible)] /\ Head(eligible) \in ToSet(eligible)
        BY <2>5, <2>8, <3>1, HeadAndTail DEF TaskPlan, Plan
      <3> QED
        BY <1>3, <2>1, <2>5, <2>8, <3>2
    <2>9. CASE question' = ClassifierQuestion(eligible) /\ pc' = "classifying"
      <3> HIDE DEF eligible
      <3>1. ToSet(question'.among) = ToSet(eligible)
        BY <2>5, <2>9, DistinctInOrder DEF ClassifierQuestion
      <3> QED
        BY <1>3, <2>1, <2>5, <2>9, <3>1
    <2> QED
      BY <2>6, <2>7, <2>8, <2>9
  <1>6. ASSUME UNCHANGED <<catalog, signedIn, settings, request>> PROVE AllFit /\ SomeSafe
    <2>1. \A n : (Info(n)' = Info(n)) /\ (Never(n)' <=> Never(n)) /\ (Safe(n)' <=> Safe(n))
      BY <1>3, <1>6 DEF Info, Never
    <2>2. \A n : Fits(n)' <=> Fits(n)
      BY <1>6, <2>1 DEF Fits
    <2>3. Profile' = Profile
      BY <1>6 DEF Profile
    <2> QED
      BY <1>6, <2>1, <2>2, <2>3 DEF AllFit, SomeSafe
  <1>7. ASSUME NEW reply \in Replies, Classified(reply) PROVE goal
    <2> DEFINE among == question.among
    <2>1. pc = "classifying" /\ UNCHANGED <<catalog, signedIn, settings, request>>
      BY <1>7 DEF Classified, worldVars
    <2>2. \A t \in ToSet(among) : Safe(settings.tasks[t])
      BY <1>6, <2>1 DEF Promise
    <2>3. CASE ClassifierResult(reply, among) = {}
      BY <1>1, <1>7, <2>3 DEF Classified, Unclassified
    <2>4. CASE ClassifierResult(reply, among) # {}
      <3>1. PICK task \in ClassifierResult(reply, among) : Planned(TaskPlan(among, task))
        BY <1>7, <2>4 DEF Classified
      <3>2. task \in ToSet(among) /\ pc' = "planned" /\ plan'.primary = settings.tasks[task]
        BY <3>1 DEF ClassifierResult, Planned, TaskPlan, Plan
      <3> QED
        BY <1>3, <2>1, <2>2, <3>2
    <2> QED
      BY <2>3, <2>4
  <1>8. CASE PlanAlias \/ PlanExplicit \/ Resolve
    <2>1. RequestedName' # AutoModel
      BY <1>8 DEF PlanAlias, PlanExplicit, Resolve, Planning, RequestedName
    <2>2. pc' # "classifying"
      BY <1>8 DEF PlanAlias, PlanExplicit, Resolve, Planned, Refused
    <2> QED
      BY <2>1, <2>2
  <1>9. CASE Outage \/ Fail
    BY <1>1, <1>9 DEF Outage, Fail
  <1>10. ASSUME NEW n \in Names, Serve(n) PROVE goal
    BY <1>1, <1>10 DEF Serve
  <1>11. ASSUME NEW name \in {AutoModel, request.name}, NEW sealed \in BOOLEAN, NEW other \in Settings,
                NEW gone \in {{}} \cup {{p} : p \in Providers}, Continue(name, sealed, other, gone)
         PROVE  goal
    BY <1>1, <1>11 DEF Continue
  <1>12. CASE UNCHANGED vars
    <2>1. UNCHANGED <<catalog, signedIn, settings, request, bound, pc, plan, question>>
      BY <1>12 DEF vars, worldVars
    <2>2. RequestedName' = RequestedName
      BY <2>1 DEF RequestedName
    <2> QED
      BY <1>3, <1>6, <2>1, <2>2 DEF Promise
  <1> QED
    BY <1>4, <1>5, <1>7, <1>8, <1>9, <1>10, <1>11, <1>12 DEF Next

\* The list of models does not promise more of Auto than a model of the profile keeps: it tells
\* one default window, and a request that fills less than 70 % of the largest that it tells goes,
\* with every model fit, to one that has that room.
THEOREM AutoAdvertises == Spec => []AutoIsAsAdvertised
  <1>1. Init => Planning /\ RequestTyped /\ Asked /\ AutoFits /\ Promise
    BY RequestsAssumption DEF Init, Planning, RequestTyped, Asked, AutoFits, Promise
  <1>2. Typed /\ RequestTyped /\ Promise => AutoIsAsAdvertised
    <2> SUFFICES ASSUME Typed, RequestTyped, Promise PROVE AutoIsAsAdvertised
      OBVIOUS
    <2>1. Advertisement.windows # {} => Cardinality({o \in Advertisement.windows : o.default}) = 1
      BY ToldHasRoom
    <2>2. (\E o \in Advertisement.windows : request.tokens * 10 < o.limit * 7) => SomeSafe
      BY ToldIsSafe
    <2> QED
      BY <2>1, <2>2 DEF AutoIsAsAdvertised, Promise, AllFit
  <1> QED
    BY <1>1, <1>2, TypedAtFirst, TypedStep, PlanningStep, RequestStep, FitsStep, PromiseStep, PTL DEF Spec

\* What Auto promises of the models it sends a request to, when it refuses one, and what it
\* tells its clients beforehand.
THEOREM AutoChoosesWell == Spec => []AutoChooses
  <1>1. AutoFits /\ AutoKeepsItsWord /\ AutoIsAsAdvertised => AutoChooses
    BY DEF AutoChooses
  <1> QED
    BY <1>1, AutoPlansFit, AutoRefusesForCause, AutoAdvertises, PTL

-----------------------------------------------------------------------------
(* What the user sets.                                                     *)

LEMMA LastKept ==
    ASSUME NEW T, NEW s \in Seq(T), NEW S, Kept(s, S) # <<>>
    PROVE  \E j \in 1..Len(s) :
               /\ s[j] = Kept(s, S)[Len(Kept(s, S))] /\ s[j] \in S
               /\ \A i \in 1..Len(s) : i > j => s[i] \notin S
  <1> DEFINE t == Kept(s, S)
  <1>1. t \in Seq(T)
    BY KeptPlaces
  <1>2. PICK e : PlacedBy(e, t, s, S, Len(s))
    BY KeptPlaces
  <1> HIDE DEF t
  <1>3. t # <<>>
    BY DEF t
  <1>4. Len(t) \in 1..Len(t) /\ Len(s) \in Nat
    BY <1>1, <1>3
  <1> DEFINE j == e[Len(t)]
  <1>5. j \in 1..Len(s) /\ t[Len(t)] = s[j] /\ s[j] \in S
    BY <1>2, <1>4 DEF PlacedBy
  <1>6. ASSUME NEW i \in 1..Len(s), i > j PROVE s[i] \notin S
    <2> SUFFICES ASSUME s[i] \in S PROVE FALSE
      OBVIOUS
    <2>1. PICK k \in 1..Len(t) : e[k] = i
      BY <1>2 DEF PlacedBy
    <2>2. k = Len(t) \/ k < Len(t)
      BY <1>4
    <2>3. k < Len(t) => e[k] < e[Len(t)]
      BY <1>2, <1>4 DEF PlacedBy
    <2> QED
      BY <1>5, <1>6, <2>1, <2>2, <2>3
  <1> QED
    BY <1>5, <1>6 DEF t

\* The last limit of the prompt is the one that counts, and no listed window does.
LEMMA LastLimitCounts ==
    ASSUME NEW info, InfoTyped(info), NEW O, NEW overrides \in Seq(O),
           \A o \in O : IsLength(o.prompt) /\ IsLength(o.output) /\ IsLength(o.window),
           NEW j \in 1..Len(overrides), overrides[j].prompt # {},
           \A i \in 1..Len(overrides) : i > j => overrides[i].prompt = {}
    PROVE  LET over == Overridden(info, overrides)
           IN over.prompt = overrides[j].prompt /\ over.options = <<>>
  <1> DEFINE over == CHOOSE f : OverUpTo(f, info, overrides, Len(overrides))
             Counts(k) == over[k].prompt = overrides[j].prompt /\ over[k].options = <<>>
  <1>1. Len(overrides) \in Nat /\ \A i \in 1..Len(overrides) : overrides[i] \in O
    OBVIOUS
  <1>2. OverUpTo(over, info, overrides, Len(overrides))
    BY <1>1, OverIsDefined
  <1>3. Overridden(info, overrides) = over[Len(overrides)]
    BY DEF Overridden, OverUpTo
  <1> HIDE DEF over
  <1> DEFINE N == {n \in Nat : n <= Len(overrides) => InfoTyped(over[n]) /\ (n >= j => Counts(n))}
  <1>4. 0 \in N
    BY <1>1, <1>2 DEF OverUpTo
  <1>5. ASSUME NEW n \in Nat, n \in N PROVE n + 1 \in N
    <2> SUFFICES ASSUME n + 1 <= Len(overrides)
                 PROVE  InfoTyped(over[n + 1]) /\ (n + 1 >= j => Counts(n + 1))
      OBVIOUS
    <2> DEFINE was == over[n]
               o == overrides[n + 1]
               is == over[n + 1]
    <2>1. is = WithOverrides(was, o)
      BY <1>1, <1>2 DEF OverUpTo
    <2>2. InfoTyped(was) /\ o \in O /\ (n >= j => Counts(n))
      BY <1>1, <1>5
    <2>3. InfoTyped(is)
      BY <2>1, <2>2, OverrideTyped
    <2>4. /\ is.prompt = OneOf(o.prompt, was.prompt)
          /\ is.options = IF o.prompt \cup o.output \cup o.window = {} THEN was.options ELSE <<>>
      BY <2>1, <2>2 DEF InfoTyped, WithOverrides
    <2>5. CASE n + 1 = j
      BY <2>3, <2>4, <2>5 DEF OneOf
    <2>6. CASE n + 1 > j
      BY <2>2, <2>3, <2>4, <2>6 DEF OneOf
    <2>7. CASE n + 1 < j
      BY <2>3, <2>7
    <2> QED
      BY <2>5, <2>6, <2>7
  <1>6. Nat \subseteq N
    <2> HIDE DEF N
    <2> QED
      BY <1>4, <1>5, Induction
  <1>7. Counts(Len(overrides))
    BY <1>1, <1>6
  <1> QED
    BY <1>3, <1>7

\* A model that is listed with no windows has room for its prompt.
LEMMA PromptIsRoom ==
    ASSUME NEW info, IsLength(info.prompt), info.prompt # {}, info.options = <<>>
    PROVE  Capacity(info) = info.prompt
  <1> DEFINE v == The(info.prompt)
             o == Option("default", v, TRUE)
  <1>1. v \in Nat /\ info.prompt = {v}
    BY TheLength
  <1>2. Effective(info) = SingleOption(info.prompt)
    BY DEF Effective, OneOf
  <1>3. SingleOption(info.prompt) = <<o>>
    BY <1>1, SingleTyped
  <1>4. o \in Windows /\ o.limit = v
    BY <1>1 DEF Option, Windows
  <1> HIDE DEF o, v
  <1>5. <<o>> # <<>> /\ ToSet(<<o>>) = {o}
    BY <1>4, OneMember
  <1>6. {w.limit : w \in ToSet(<<o>>)} = {v}
    BY <1>4, <1>5
  <1>7. Bounded({v})
    BY <1>1 DEF Bounded
  <1>8. Max({v}) = v
    BY <1>7, MaxOf
  <1> QED
    BY <1>1, <1>2, <1>3, <1>5, <1>6, <1>8 DEF Capacity

\* The room that the windows of an entry leave is its own number, or the largest of its numbers.
LEMMA LargestListed ==
    ASSUME NEW n \in Names, WindowOptions(Entries[n]) # <<>>
    PROVE  LET e == Entries[n]
               windows == {UsablePrompt(w, e.output, w) : w \in e.window}
               base == UNION {TierLimit(t) : t \in e.prices.default}
               all == base \cup (IF e.window # {} THEN windows
                                 ELSE e.prompt \cup UNION {TierLimit(t) : t \in e.prices.long})
           IN  /\ base = {} => Capacity(InfoOf(e)) = OneOf(e.prompt, windows)
               /\ base # {} => Capacity(InfoOf(e)) = {Max(all)} /\ Bounded(all)
  <1> DEFINE e == Entries[n]
             usable(w) == UsablePrompt(w, e.output, w)
             windows == {usable(w) : w \in e.window}
             whole == OneOf(e.prompt, windows)
             base == UNION {TierLimit(t) : t \in e.prices.default}
             long == UNION {TierLimit(t) : t \in e.prices.long}
             all == base \cup (IF e.window # {} THEN windows ELSE e.prompt \cup long)
             full == Max(all)
             costs == \E d \in e.prices.default, l \in e.prices.long : Surcharge(d, l)
             two == <<Option("default", The(base), costs), Option("long_context", full, ~costs)>>
             options == WindowOptions(e)
             limits == {o.limit : o \in ToSet(options)}
  <1>1. IsLength(e.prompt) /\ IsLength(e.output) /\ IsLength(e.window)
    BY EntriesAssumption
  <1>2. IsLength(base) /\ IsLength(long)
    <2>1. \A tiers \in {e.prices.default, e.prices.long} :
              (\A t, u \in tiers : t = u) /\ \A t \in tiers : IsLength(t.prompt) /\ IsLength(t.context)
      BY EntriesAssumption
    <2> QED
      BY <2>1, TiersTyped
  <1>3. IsLength(windows)
    BY <1>1, UsableTyped DEF IsLength
  <1>4. options = CASE base = {} -> SingleOption(whole)
                    [] base # {} /\ The(base) >= full -> SingleOption({full})
                    [] OTHER -> two
    BY DEF WindowOptions
  <1>5. Capacity(InfoOf(e)) = {Max(limits)}
    <2>1. InfoOf(e).options = options
      BY DEF InfoOf
    <2>2. Effective(InfoOf(e)) = options
      BY <2>1 DEF Effective
    <2> QED
      BY <2>2 DEF Capacity
  <1>6. ASSUME NEW v \in Nat, options = SingleOption({v}) PROVE Max(limits) = v
    <2> DEFINE o == Option("default", v, TRUE)
    <2>1. options = <<o>>
      <3>1. IsLength({v})
        BY DEF IsLength
      <3> QED
        BY <1>6, <3>1, SingleTyped
    <2>2. o \in Windows /\ o.limit = v
      BY DEF Option, Windows
    <2> HIDE DEF o
    <2>3. ToSet(<<o>>) = {o}
      BY <2>2, OneMember
    <2>4. limits = {v}
      BY <2>1, <2>2, <2>3
    <2>5. Bounded({v}) /\ {v} # {}
      BY DEF Bounded
    <2>6. Max({v}) = v
      BY <2>5, MaxOf
    <2> QED
      BY <2>4, <2>6
  <1>7. CASE base = {}
    <2>1. options = SingleOption(whole) /\ IsLength(whole)
      BY <1>1, <1>3, <1>4, <1>7, OneOfTyped
    <2>2. whole # {}
      BY <2>1, SingleTyped
    <2>3. The(whole) \in Nat /\ whole = {The(whole)}
      <3> HIDE DEF whole
      <3> QED
        BY <2>1, <2>2, TheLength
    <2>4. Capacity(InfoOf(e)) = whole
      <3> HIDE DEF options, limits, whole
      <3> QED
        BY <1>5, <1>6, <2>1, <2>3
    <2> QED
      BY <1>7, <2>4
  <1>8. CASE base # {}
    <2>1. The(base) \in Nat /\ base = {The(base)}
      BY <1>2, <1>8, TheLength
    <2>2. Bounded(all) /\ all # {} /\ The(base) \in all
      <3>1. Bounded(base) /\ Bounded(windows) /\ Bounded(e.prompt) /\ Bounded(long)
        BY <1>1, <1>2, <1>3, LengthIsBounded
      <3> HIDE DEF base, windows, long
      <3> QED
        BY <1>8, <2>1, <3>1, BoundedTogether
    <2>3. full \in Nat /\ The(base) <= full
      <3> HIDE DEF all
      <3> QED
        BY <2>2, MaxOf
    <2> HIDE DEF base, full, options, limits
    <2>4. ASSUME The(base) >= full PROVE Capacity(InfoOf(e)) = {full}
      <3>1. options = SingleOption({full})
        BY <1>4, <1>8, <2>4
      <3> QED
        BY <1>5, <1>6, <2>3, <3>1
    <2>5. ASSUME ~(The(base) >= full) PROVE Capacity(InfoOf(e)) = {full}
      <3> DEFINE a == Option("default", The(base), costs)
                 b == Option("long_context", full, ~costs)
      <3>1. options = <<a, b>>
        BY <1>4, <1>8, <2>5
      <3>2. a.limit = The(base) /\ b.limit = full
        BY DEF Option
      <3>3. ToSet(<<a, b>>) = {a, b}
        <4> HIDE DEF a, b
        <4>1. <<a, b>> \in Seq({a, b}) /\ Len(<<a, b>>) = 2 /\ <<a, b>>[1] = a /\ <<a, b>>[2] = b
          OBVIOUS
        <4>2. \A v : v \in ToSet(<<a, b>>) <=> \E i \in 1..2 : <<a, b>>[i] = v
          BY <4>1, Members
        <4> QED
          BY <4>1, <4>2
      <3> HIDE DEF a, b
      <3>4. limits = {The(base), full}
        BY <3>1, <3>2, <3>3 DEF limits
      <3>5. Bounded({The(base), full}) /\ {The(base), full} # {}
        BY <2>1, <2>3 DEF Bounded
      <3>6. Max({The(base), full}) \in {The(base), full} /\ full <= Max({The(base), full})
        BY <3>5, MaxOf
      <3>7. Max({The(base), full}) = full
        BY <2>1, <2>3, <3>6
      <3> QED
        BY <1>5, <3>4, <3>7
    <2>6. Capacity(InfoOf(e)) = {full}
      BY <2>4, <2>5
    <2> QED
      BY <1>8, <2>2, <2>6 DEF base, full
  <1> QED
    BY <1>7, <1>8

\* Numbers that agree leave the room that the total does, or less, and the listed prompt.
LEMMA AgreedRoom ==
    ASSUME NEW n \in Names, Agrees(Entries[n]), NEW r \in Capacity(InfoOf(Entries[n]))
    PROVE  /\ \A w \in Entries[n].window : r <= UsablePrompt(w, Entries[n].output, w)
           /\ \A p \in Entries[n].prompt : p <= r
  <1> DEFINE e == Entries[n]
             usable(w) == UsablePrompt(w, e.output, w)
             windows == {usable(w) : w \in e.window}
             base == UNION {TierLimit(t) : t \in e.prices.default}
             long == UNION {TierLimit(t) : t \in e.prices.long}
             all == base \cup (IF e.window # {} THEN windows ELSE e.prompt \cup long)
  <1>1. IsLength(e.prompt) /\ IsLength(e.output) /\ IsLength(e.window)
    BY EntriesAssumption
  <1>2. \A w \in e.window : usable(w) \in Nat /\ \A v \in e.window : v = w
    BY <1>1, UsableTyped DEF IsLength
  <1>3. \A p \in e.prompt : p \in Nat /\ \A q \in e.prompt : q = p
    BY <1>1 DEF IsLength
  <1>4. \A w \in e.window : \A l \in e.prompt \cup base : l <= usable(w)
    BY DEF Agrees
  <1>5. CASE WindowOptions(e) = <<>>
    <2>1. base = {} /\ SingleOption(OneOf(e.prompt, windows)) = <<>>
      <3> DEFINE full == Max(all)
                 costs == \E d \in e.prices.default, l \in e.prices.long : Surcharge(d, l)
                 two == <<Option("default", The(base), costs), Option("long_context", full, ~costs)>>
                 whole == OneOf(e.prompt, windows)
      <3>1. WindowOptions(e) = CASE base = {} -> SingleOption(whole)
                                 [] base # {} /\ The(base) >= full -> SingleOption({full})
                                 [] OTHER -> two
        BY DEF WindowOptions
      <3>2. two # <<>>
        OBVIOUS
      <3>3. SingleOption({full}) # <<>>
        <4> DEFINE o == Option("default", The({full}), TRUE)
        <4> HIDE DEF full
        <4>1. SingleOption({full}) = [i \in 1..1 |-> o]
          BY FS_Singleton DEF SingleOption
        <4> HIDE DEF o
        <4>2. o \in {o}
          OBVIOUS
        <4> QED
          BY <4>1, <4>2, OneMember
      <3> HIDE DEF base, full, two, whole
      <3>4. base = {} /\ SingleOption(whole) = <<>>
        BY <1>5, <3>1, <3>2, <3>3
      <3> QED
        BY <3>4 DEF whole
    <2>2. IsLength(windows)
      BY <1>2 DEF IsLength
    <2>3. OneOf(e.prompt, windows) = {}
      BY <1>1, <2>1, <2>2, OneOfTyped, SingleTyped
    <2> QED
      BY <2>3 DEF OneOf
  <1>6. CASE WindowOptions(e) # <<>>
    <2>1. /\ base = {} => r \in OneOf(e.prompt, windows)
          /\ base # {} => r = Max(all) /\ Bounded(all)
      BY <1>6, LargestListed
    <2>2. CASE base = {}
      <3>1. CASE e.prompt # {}
        BY <1>3, <1>4, <2>1, <2>2, <3>1 DEF OneOf
      <3>2. CASE e.prompt = {}
        BY <1>2, <2>1, <2>2, <3>2 DEF OneOf
      <3> QED
        BY <3>1, <3>2
    <2>3. CASE base # {}
      <3>1. r \in all /\ r \in Nat /\ \A x \in all : x \in Nat /\ x <= r
        <4> HIDE DEF all
        <4>1. all # {}
          BY <2>3 DEF all
        <4> QED
          BY <2>1, <2>3, <4>1, MaxOf DEF Bounded
      <3>2. CASE e.window # {}
        <4>1. \A w \in e.window : usable(w) \in all /\ (r \in base \/ r = usable(w))
          BY <1>2, <3>1, <3>2
        <4> HIDE DEF usable, base, all
        <4> QED
          BY <1>2, <1>3, <1>4, <3>1, <3>2, <4>1 DEF usable
      <3>3. CASE e.window = {}
        <4>1. \A p \in e.prompt : p \in all
          BY <3>3
        <4> QED
          BY <3>1, <3>3, <4>1
      <3> QED
        BY <3>2, <3>3
    <2> QED
      BY <2>2, <2>3
  <1> QED
    BY <1>5, <1>6

\* Without an override the listing is what counts.
LEMMA ListedLimitsAreKept == Typed => ListedLimitsHold
  <1> SUFFICES ASSUME Typed, NEW n \in ToSet(catalog), Overrides(settings, n) = <<>>, Agrees(Entries[n])
               PROVE  \A r \in Room(n) :
                          /\ \A w \in Entries[n].window : r <= UsablePrompt(w, Entries[n].output, w)
                          /\ \A p \in Entries[n].prompt : p <= r
    BY DEF ListedLimitsHold
  <1>1. settings \in Settings /\ n \in Names
    BY DEF Typed, TypeOK
  <1>2. Room(n) = Capacity(Overridden(InfoOf(Entries[n]), <<>>))
    BY <1>1 DEF Room, Rooms, Infos
  <1> DEFINE over == CHOOSE f : OverUpTo(f, InfoOf(Entries[n]), <<>>, Len(<<>>))
  <1>3. OverUpTo(over, InfoOf(Entries[n]), <<>>, Len(<<>>))
    <2>1. <<>> \in Seq(Nat) /\ Len(<<>>) \in Nat
      OBVIOUS
    <2> QED
      BY <2>1, OverIsDefined
  <1>4. Overridden(InfoOf(Entries[n]), <<>>) = over[Len(<<>>)]
    BY DEF Overridden, OverUpTo
  <1> HIDE DEF over
  <1>5. over[Len(<<>>)] = InfoOf(Entries[n])
    BY <1>3 DEF OverUpTo
  <1> QED
    BY <1>1, <1>2, <1>4, <1>5, AgreedRoom

\* A limit that the user sets for the prompts of a model, the last one that names it, is all
\* the room it has, whatever its listing says.  Where the user sets none and the numbers of the
\* listing agree, it is what the listed total leaves, or less, and no less than the prompt.
THEOREM LimitsStand == Spec => [](UserLimitsHold /\ ListedLimitsHold)
  <1>1. Typed => UserLimitsHold
    <2> SUFFICES ASSUME Typed, NEW n \in ToSet(catalog),
                        Kept(Overrides(settings, n), {o \in ToSet(settings.overrides) : o.prompt # {}}) # <<>>
                 PROVE  LET set == Kept(Overrides(settings, n), {o \in ToSet(settings.overrides) : o.prompt # {}})
                        IN Room(n) = set[Len(set)].prompt
      BY DEF UserLimitsHold
    <2> DEFINE O == ToSet(settings.overrides)
               S == {o \in O : o.prompt # {}}
               overrides == Overrides(settings, n)
               over == Overridden(InfoOf(Entries[n]), overrides)
    <2>1. settings \in Settings /\ n \in Names
      BY DEF Typed, TypeOK
    <2>2. settings.overrides \in Seq(O) /\ \A o \in O : IsLength(o.prompt) /\ IsLength(o.output) /\ IsLength(o.window)
      BY <2>1, SettingsAssumption
    <2>3. overrides \in Seq(O)
      <3> HIDE DEF O
      <3> QED
        BY <2>2, KeptPlaces DEF Overrides
    <2>4. Room(n) = Capacity(over)
      BY <2>1 DEF Room, Rooms, Infos
    <2>5. InfoTyped(InfoOf(Entries[n]))
      BY <2>1, EntryTyped
    <2> HIDE DEF O, overrides
    <2>6. Kept(overrides, S) # <<>>
      BY DEF O, overrides
    <2>7. PICK j \in 1..Len(overrides) :
              /\ overrides[j] = Kept(overrides, S)[Len(Kept(overrides, S))] /\ overrides[j] \in S
              /\ \A i \in 1..Len(overrides) : i > j => overrides[i] \notin S
      <3> HIDE DEF S
      <3> QED
        BY <2>3, <2>6, LastKept
    <2>8. \A i \in 1..Len(overrides) : i > j => overrides[i].prompt = {}
      BY <2>3, <2>7
    <2>9. over.prompt = overrides[j].prompt /\ over.options = <<>>
      BY <2>2, <2>3, <2>5, <2>7, <2>8, LastLimitCounts
    <2>10. IsLength(over.prompt) /\ over.prompt # {}
      BY <2>2, <2>7, <2>9
    <2>11. Capacity(over) = over.prompt
      <3> HIDE DEF over
      <3> QED
        BY <2>9, <2>10, PromptIsRoom
    <2> QED
      BY <2>4, <2>7, <2>9, <2>11 DEF O, overrides
  <1> QED
    BY <1>1, ListedLimitsAreKept, TypedAtFirst, TypedStep, PTL DEF Spec
=============================================================================
