------------------------ MODULE GenerationStreamProofs ------------------------
(***************************************************************************)
(* Proofs about GenerationStream, for streams and frames of any length.    *)
(***************************************************************************)
EXTENDS GenerationStream, FiniteSetTheorems, TLAPS

Shown == {"data", "usage"} \union Terminal

LEMMA PayloadIsNat ==
    ASSUME NEW batch \in Seq(Events)
    PROVE  PayloadOf(batch) \in Nat
  <1>1. IsFiniteSet(1..Len(batch))
    BY FS_Interval
  <1>2. {i \in DOMAIN batch : batch[i] \in Payload} \subseteq 1..Len(batch)
    OBVIOUS
  <1>3. IsFiniteSet({i \in DOMAIN batch : batch[i] \in Payload})
    BY <1>1, <1>2, FS_Subset
  <1> QED
    BY <1>3, FS_CardinalityType DEF PayloadOf

LEMMA FlushedIsData ==
    ASSUME calls \in Nat
    PROVE  /\ Flushed \in Seq({"data"})
           /\ \A i \in DOMAIN Flushed : Flushed[i] = "data"
  BY DEF Flushed

LEMMA BatchIsSeq ==
    ASSUME NEW batch, batch \in RawFrames(plan) \/ batch \in SemanticFrames
    PROVE  batch \in Seq(Events)
  <1>1. CASE batch \in RawFrames(plan)
    <2>1. batch \in {<<"data">>, <<"finish">>, <<"error">>, <<"usage">>, <<"usage", "finish">>}
      BY <1>1, Zenon DEF RawFrames
    <2>2. {"data", "finish", "error", "usage"} \subseteq Events
      BY DEF Events, Terminal, Payload
    <2>3. \A a, b \in Events : <<a>> \in Seq(Events) /\ <<a, b>> \in Seq(Events)
      OBVIOUS
    <2> QED
      BY <2>1, <2>2, <2>3, Zenon
  <1>2. CASE batch \in SemanticFrames
    <2>1. MaxBatch \in Nat
      BY StreamAssumption
    <2>2. PICK m \in 0..MaxBatch : batch \in [1..m -> Events]
      BY <1>2, <2>1 DEF SemanticFrames, BoundedSeq, SeqOf
    <2> QED
      BY <2>1, <2>2
  <1> QED
    BY <1>1, <1>2

\* What the encoder makes of an event, and what the route is given of a frame.
LEMMA EncodedIsShown ==
    ASSUME TypeOK, NEW event \in Events \ Terminal
    PROVE  /\ Encoded(event) \in Seq(Shown)
           /\ \A i \in DOMAIN Encoded(event) : Encoded(event)[i] \notin Terminal
  <1>1. Flushed \in Seq({"data"}) /\ \A i \in DOMAIN Flushed : Flushed[i] = "data"
    BY FlushedIsData DEF TypeOK
  <1>2. Append(Flushed, "usage") \in Seq(Shown)
        /\ \A i \in DOMAIN Append(Flushed, "usage") : Append(Flushed, "usage")[i] \notin Terminal
    BY <1>1 DEF Shown, Terminal
  <1>3. <<"data">> \in Seq(Shown) /\ <<"usage">> \in Seq(Shown) /\ <<>> \in Seq(Shown)
    BY DEF Shown
  <1>4. CASE event = "fault" \/ HeldBack(event)
    BY <1>3, <1>4 DEF Encoded, HeldBack, Payload
  <1>5. CASE event \in Payload /\ ~HeldBack(event)
    BY <1>3, <1>5 DEF Encoded, HeldBack, Payload, Terminal
  <1>6. CASE event = "usage"
    BY <1>2, <1>3, <1>6 DEF Encoded, HeldBack, Payload, Terminal, TypeOK, Plans, Ingress
  <1> QED
    BY <1>4, <1>5, <1>6 DEF Events, Payload, Terminal
-----------------------------------------------------------------------------
(* The inductive invariant: what holds while the bridge works, and once it *)
(* is over.                                                                *)

At(places) == phase \in places \/ (phase = "send" /\ then \in places)
Working == phase = "eof" \/ At({"read", "encode"})

\* The frames so far, and what is held back.
HeldInv ==
    /\ HeldTillEnd => NothingAfterTerminal
    /\ HeldTillEnd /\ Working => ~ToldTerminal
    /\ kept => plan.ingress = "chat" /\ terminal = "finish"
    /\ kept /\ Working => plan.raw
    /\ kept /\ At({"end"}) => ~ToldTerminal

\* The end is told.
ToldInv ==
    /\ At({"end"}) => kept \/ ToldTerminal
    /\ At({"return", "final"}) \/ outcome = "completed" => ToldTerminal
    /\ plan.raw /\ Working /\ terminal # "none" => kept \/ ToldTerminal

\* What is told is true.
MeantInv ==
    /\ FinishIsMeant
    /\ Working /\ broken => fault \/ (phase = "eof" /\ terminal = "none")
    /\ HeldTillEnd /\ kept /\ At({"end"}) => ~broken

SourceInv ==
    /\ phase = "eof" \/ At({"end", "final"}) => source = "closed"
    /\ LeaseOutlivesStream
    /\ outcome = "completed" => phase = "done"

PlaceInv ==
    /\ plan.raw => ~fault /\ phase # "encode" /\ then # "encode"
    /\ At({"encode"}) => queue # <<>>

IInv == TypeOK /\ PlaceInv /\ HeldInv /\ ToldInv /\ MeantInv /\ SourceInv

-----------------------------------------------------------------------------
(* Writing to the client.                                                  *)

Clean(s) == \A i, j \in DOMAIN s : i < j /\ s[i] \in Terminal => s[j] = "usage"
ToldFinish == Told("finish")

LEMMA AppendFacts ==
    ASSUME NEW s \in Seq(Shown), NEW w \in Seq(Shown)
    PROVE  /\ s \o w \in Seq(Shown)
           /\ \A K : InFrame(s \o w, K) <=> InFrame(s, K) \/ InFrame(w, K)
           /\ Clean(s) /\ Clean(w) /\ (~InFrame(s, Terminal) \/ \A i \in DOMAIN w : w[i] = "usage")
                 => Clean(s \o w)
  <1>1. /\ s \o w \in Seq(Shown) /\ Len(s \o w) = Len(s) + Len(w)
        /\ \A i \in 1..Len(s) : (s \o w)[i] = s[i]
        /\ \A i \in 1..Len(w) : (s \o w)[Len(s) + i] = w[i]
    OBVIOUS
  <1>2. \A i \in 1..Len(s) + Len(w) : i \in 1..Len(s) \/ i - Len(s) \in 1..Len(w)
    OBVIOUS
  <1>3. ASSUME NEW K
        PROVE  InFrame(s \o w, K) <=> InFrame(s, K) \/ InFrame(w, K)
    <2>1. ASSUME InFrame(s \o w, K)  PROVE InFrame(s, K) \/ InFrame(w, K)
      <3>1. PICK i \in 1..Len(s) + Len(w) : (s \o w)[i] \in K
        BY <1>1, <2>1 DEF InFrame
      <3>2. CASE i \in 1..Len(s)
        BY <1>1, <3>1, <3>2 DEF InFrame
      <3>3. CASE i - Len(s) \in 1..Len(w)
        <4>1. (s \o w)[i] = w[i - Len(s)]
          BY <1>1, <3>3
        <4> QED
          BY <3>1, <3>3, <4>1 DEF InFrame
      <3> QED
        BY <1>2, <3>2, <3>3
    <2>2. ASSUME InFrame(s, K)  PROVE InFrame(s \o w, K)
      BY <1>1, <2>2 DEF InFrame
    <2>3. ASSUME InFrame(w, K)  PROVE InFrame(s \o w, K)
      <3>1. PICK i \in 1..Len(w) : w[i] \in K
        BY <2>3 DEF InFrame
      <3>2. Len(s) + i \in 1..Len(s \o w)
        BY <1>1
      <3> QED
        BY <1>1, <3>1, <3>2 DEF InFrame
    <2> QED
      BY <2>1, <2>2, <2>3
  <1>4. ASSUME Clean(s), Clean(w), ~InFrame(s, Terminal) \/ \A i \in DOMAIN w : w[i] = "usage"
        PROVE  Clean(s \o w)
    <2> SUFFICES ASSUME NEW i \in 1..Len(s) + Len(w), NEW j \in 1..Len(s) + Len(w),
                        i < j, (s \o w)[i] \in Terminal
                 PROVE  (s \o w)[j] = "usage"
      BY <1>1 DEF Clean
    <2>1. CASE j \in 1..Len(s)
      BY <1>1, <1>4, <2>1 DEF Clean
    <2>2. CASE j - Len(s) \in 1..Len(w)
      <3>1. (s \o w)[j] = w[j - Len(s)]
        BY <1>1, <2>2
      <3>2. CASE i \in 1..Len(s)
        BY <1>1, <1>4, <2>2, <3>1, <3>2 DEF InFrame
      <3>3. CASE i - Len(s) \in 1..Len(w)
        <4>1. (s \o w)[i] = w[i - Len(s)]
          BY <1>1, <3>3
        <4> QED
          BY <1>4, <2>2, <3>1, <3>3, <4>1 DEF Clean
      <3> QED
        BY <1>2, <3>2, <3>3
    <2> QED
      BY <1>2, <2>1, <2>2
  <1> QED
    BY <1>1, <1>3, <1>4

\* The predicates on what was told, when w more is told.
LEMMA ToldMore ==
    ASSUME TypeOK, NEW w \in Seq(Shown), told' = told \o w
    PROVE  /\ told' \in Seq(Shown)
           /\ ToldTerminal' <=> ToldTerminal \/ InFrame(w, Terminal)
           /\ ToldFinish' <=> ToldFinish \/ InFrame(w, {"finish"})
           /\ NothingAfterTerminal /\ Clean(w)
                /\ (~ToldTerminal \/ \A i \in DOMAIN w : w[i] = "usage") => NothingAfterTerminal'
  <1>1. told \in Seq(Shown)
    BY DEF TypeOK, Shown
  <1>2. /\ ToldTerminal <=> InFrame(told, Terminal)
        /\ ToldTerminal' <=> InFrame(told', Terminal)
    BY DEF ToldTerminal, InFrame
  <1>3. /\ ToldFinish <=> InFrame(told, {"finish"})
        /\ ToldFinish' <=> InFrame(told', {"finish"})
    BY DEF ToldFinish, Told, InFrame
  <1>4. /\ NothingAfterTerminal <=> Clean(told)
        /\ NothingAfterTerminal' <=> Clean(told')
    BY DEF NothingAfterTerminal, Clean
  <1>5. /\ told \o w \in Seq(Shown)
        /\ \A K : InFrame(told \o w, K) <=> InFrame(told, K) \/ InFrame(w, K)
        /\ Clean(told) /\ Clean(w)
             /\ (~InFrame(told, Terminal) \/ \A i \in DOMAIN w : w[i] = "usage")
               => Clean(told \o w)
    BY <1>1, AppendFacts
  <1> QED
    BY <1>2, <1>3, <1>4, <1>5, Zenon

LEMMA ToldNoMore ==
    ASSUME told' = told
    PROVE  /\ ToldTerminal' <=> ToldTerminal
           /\ ToldFinish' <=> ToldFinish
           /\ NothingAfterTerminal' <=> NothingAfterTerminal
  BY DEF ToldTerminal, ToldFinish, Told, NothingAfterTerminal

\* Frames that consist of one event.
LEMMA SingleFacts ==
    ASSUME NEW e \in Shown
    PROVE  /\ <<e>> \in Seq(Shown) /\ <<e>> # <<>>
           /\ \A K : InFrame(<<e>>, K) <=> e \in K
           /\ Clean(<<e>>)
           /\ e = "usage" => \A i \in DOMAIN <<e>> : <<e>>[i] = "usage"
  BY DEF InFrame, Clean

\* What the encoder makes of the terminal.
LEMMA TerminalFacts ==
    ASSUME TypeOK, NEW t \in Terminal
    PROVE  /\ EncodedTerminal(t) \in Seq(Shown) /\ EncodedTerminal(t) # <<>>
           /\ Clean(EncodedTerminal(t))
           /\ InFrame(EncodedTerminal(t), Terminal)
           /\ ~InFrame(EncodedTerminal(t), {"usage"})
           /\ InFrame(EncodedTerminal(t), {"finish"}) <=> ~fault /\ t = "finish"
           /\ InFrame(EncodedTerminal(t), {"error"}) <=> fault \/ t = "error"
  <1>1. Flushed \in Seq({"data"}) /\ \A i \in DOMAIN Flushed : Flushed[i] = "data"
    BY FlushedIsData DEF TypeOK
  <1>2. CASE fault \/ t = "error"
    <2>1. EncodedTerminal(t) = <<"error">>
      BY <1>2 DEF EncodedTerminal
    <2>2. "error" \in Shown /\ "error" \in Terminal
      BY DEF Shown, Terminal
    <2> QED
      BY <1>2, <2>1, <2>2, SingleFacts, Zenon
  <1>3. CASE ~fault /\ t = "finish"
    <2> DEFINE e == Append(Flushed, "finish")
    <2>1. EncodedTerminal(t) = e
      BY <1>3 DEF EncodedTerminal
    <2>2. /\ e \in Seq(Shown) /\ Len(e) = Len(Flushed) + 1
          /\ e[Len(e)] = "finish" /\ Len(e) \in DOMAIN e
          /\ \A i \in DOMAIN e : i = Len(e) \/ e[i] = "data"
      BY <1>1 DEF Shown, Terminal
    <2> HIDE DEF e
    <2>3. Clean(e) /\ e # <<>>
      BY <2>2 DEF Clean, Terminal
    <2>4. InFrame(e, Terminal) /\ ~InFrame(e, {"usage"}) /\ InFrame(e, {"finish"}) /\ ~InFrame(e, {"error"})
      BY <2>2 DEF InFrame, Terminal
    <2> QED
      BY <1>3, <2>1, <2>2, <2>3, <2>4
  <1> QED
    BY <1>2, <1>3 DEF Terminal, TypeOK

\* The raw frames, and what the route and the bridge read off them.
LEMMA RawFacts ==
    ASSUME NEW batch \in RawFrames(plan)
    PROVE  /\ batch \in Seq(Shown) /\ batch # <<>> /\ Clean(batch)
           /\ \/ /\ Last(batch) \in Terminal
                 /\ InFrame(batch, Terminal)
                 /\ InFrame(batch, {"finish"}) <=> Last(batch) = "finish"
                 /\ InFrame(batch, {"error"}) <=> Last(batch) = "error"
                 /\ InFrame(batch, {"usage"}) => Last(batch) = "finish"
              \/ /\ Last(batch) \notin Terminal
                 /\ \A K \in {Terminal, {"finish"}, {"error"}} : ~InFrame(batch, K)
           /\ batch = <<"usage">> => \A i \in DOMAIN batch : batch[i] = "usage"
  <1>1. batch \in {<<"data">>, <<"finish">>, <<"error">>, <<"usage">>, <<"usage", "finish">>}
    BY Zenon DEF RawFrames
  <1>2. {"data", "finish", "error", "usage"} \subseteq Shown
    BY DEF Shown, Terminal
  <1>3. ASSUME NEW e \in {"data", "finish", "error", "usage"}, batch = <<e>>
        PROVE  Last(batch) = e
    BY <1>3 DEF Last
  <1>4. ASSUME NEW e \in {"data", "finish", "error", "usage"}, batch = <<e>>
        PROVE  /\ batch \in Seq(Shown) /\ batch # <<>> /\ Clean(batch)
               /\ \A K : InFrame(batch, K) <=> e \in K
               /\ batch = <<"usage">> => \A i \in DOMAIN batch : batch[i] = "usage"
    BY <1>2, <1>4, SingleFacts DEF Last
  <1>5. CASE batch = <<"usage", "finish">>
    <2>1. batch \in Seq(Shown) /\ batch # <<>> /\ Last(batch) = "finish" /\ batch # <<"usage">>
      BY <1>2, <1>5 DEF Last
    <2>2. Clean(batch)
      BY <1>5 DEF Clean, Terminal
    <2>3. InFrame(batch, Terminal) /\ InFrame(batch, {"finish"}) /\ ~InFrame(batch, {"error"})
      BY <1>5 DEF InFrame, Terminal
    <2> QED
      BY <2>1, <2>2, <2>3 DEF Terminal
  <1>6. ASSUME NEW e \in {"data", "finish", "error", "usage"}, batch = <<e>>
        PROVE  \/ /\ Last(batch) \in Terminal
                  /\ InFrame(batch, Terminal)
                  /\ InFrame(batch, {"finish"}) <=> Last(batch) = "finish"
                  /\ InFrame(batch, {"error"}) <=> Last(batch) = "error"
                  /\ InFrame(batch, {"usage"}) => Last(batch) = "finish"
               \/ /\ Last(batch) \notin Terminal
                  /\ \A K \in {Terminal, {"finish"}, {"error"}} : ~InFrame(batch, K)
    BY <1>3, <1>4, <1>6 DEF Terminal
  <1> QED
    BY <1>1, <1>4, <1>5, <1>6, Zenon

-----------------------------------------------------------------------------
(* The invariant is inductive.                                             *)

LEMMA InitInv == Init => IInv
  <1> SUFFICES ASSUME Init  PROVE IInv
    OBVIOUS
  <1> USE DEF Init
  <1>1. TypeOK
    <2>1. plan \in Plans /\ (plan.raw => plan.chatSource = (plan.ingress = "chat"))
      BY Zenon
    <2>2. <<>> \in Seq(Events) /\ <<>> \in Seq({"data", "usage"} \union Terminal)
      OBVIOUS
    <2>3. frames \in 0..MaxFrames /\ calls \in Nat /\ due \in Nat
      BY StreamAssumption
    <2>4. {tail, fault, kept, usageKept, broken} \subseteq BOOLEAN
      BY Zenon
    <2>5. queue \in Seq(Events) /\ told \in Seq({"data", "usage"} \union Terminal)
      BY <2>2, Zenon
    <2> QED
      BY <2>1, <2>3, <2>4, <2>5 DEF TypeOK
  <1>2. ~ToldTerminal /\ ~ToldFinish /\ NothingAfterTerminal
    BY DEF ToldTerminal, ToldFinish, Told, NothingAfterTerminal
  <1>3. FinishIsMeant
    BY <1>2 DEF FinishIsMeant, ToldFinish
  <1> QED
    BY <1>1, <1>2, <1>3
    DEF IInv, PlaceInv, HeldInv, ToldInv, MeantInv, SourceInv, LeaseOutlivesStream, At, Working

\* A bridge that raises has told no terminal that was to be held back.
LEMMA RaisesKeeps ==
    ASSUME IInv, Raises, phase \in {"read", "encode", "eof"}, due' \in Nat, frames' \in 0..MaxFrames
    PROVE  IInv'
  <1>1. "error" \in Shown /\ "error" \in Terminal
    BY DEF Shown, Terminal
  <1>2. /\ told' \in Seq(Shown) /\ ToldTerminal' /\ (ToldFinish' <=> ToldFinish)
        /\ NothingAfterTerminal /\ ~ToldTerminal => NothingAfterTerminal'
    BY <1>1, ToldMore, SingleFacts, Zenon DEF IInv, Raises, Sends
  <1>3. TypeOK'
    BY <1>2 DEF IInv, TypeOK, Raises, Sends, Shown, encoderVars, endVars
  <1>4. Working /\ ~Working' /\ phase' = "send" /\ then' = "final"
    BY DEF Working, At, Raises, Sends
  <1>5. FinishIsMeant'
    BY <1>2, <1>4 DEF IInv, MeantInv, HeldInv, FinishIsMeant, ToldFinish, ToldTerminal, Told, Terminal, HeldTillEnd, Raises
  <1> QED
    BY <1>2, <1>3, <1>4, <1>5
    DEF IInv, PlaceInv, HeldInv, ToldInv, MeantInv, SourceInv, LeaseOutlivesStream, At, HeldTillEnd, Raises, Sends, encoderVars, endVars

\* What the route does with frames of the bridge, when it holds them back and
\* when it writes them.
LEMMA RouteFacts ==
    ASSUME IInv, NEW got \in Seq(Shown), Clean(got), NEW place, RouteGets(got, place)
    PROVE  /\ told' \in Seq(Shown) /\ {kept', usageKept'} \subseteq BOOLEAN
           /\ \/ /\ got = <<>> \/ Hidden(got)
                 /\ phase' = place /\ then' = then
                 /\ kept' = (kept \/ (Hidden(got) /\ InFrame(got, {"finish"})))
                 /\ ToldTerminal' <=> ToldTerminal
                 /\ ToldFinish' <=> ToldFinish
                 /\ NothingAfterTerminal' <=> NothingAfterTerminal
              \/ /\ ~Hidden(got)
                 /\ phase' = "send" /\ kept' = kept
                 /\ then' = IF plan.ingress = "chat" /\ InFrame(got, {"error"})
                            THEN "return" ELSE place
                 /\ ToldTerminal' <=> ToldTerminal \/ InFrame(got, Terminal)
                 /\ ToldFinish' <=> ToldFinish \/ InFrame(got, {"finish"})
                 /\ NothingAfterTerminal /\ ~ToldTerminal => NothingAfterTerminal'
  <1>1. TypeOK /\ told \in Seq(Shown) /\ kept \in BOOLEAN /\ usageKept \in BOOLEAN
    BY DEF IInv, TypeOK, Shown
  <1>2. Hidden(got) \in BOOLEAN /\ \A K : InFrame(got, K) \in BOOLEAN
    BY DEF Hidden, InFrame
  <1>3. {kept', usageKept'} \subseteq BOOLEAN
    BY <1>1, <1>2 DEF RouteGets
  <1>4. CASE got = <<>> \/ Hidden(got)
    BY <1>1, <1>3, <1>4, ToldNoMore DEF RouteGets
  <1>5. CASE ~(got = <<>> \/ Hidden(got))
    <2>1. told' = told \o got
      BY <1>5 DEF RouteGets, Sends
    <2>2. /\ told' \in Seq(Shown)
          /\ ToldTerminal' <=> ToldTerminal \/ InFrame(got, Terminal)
          /\ ToldFinish' <=> ToldFinish \/ InFrame(got, {"finish"})
          /\ NothingAfterTerminal /\ ~ToldTerminal => NothingAfterTerminal'
      BY <1>1, <2>1, ToldMore
    <2>3. kept' = kept /\ phase' = "send"
          /\ then' = IF plan.ingress = "chat" /\ InFrame(got, {"error"}) THEN "return" ELSE place
      BY <1>1, <1>5 DEF RouteGets, Sends
    <2> QED
      BY <1>3, <1>5, <2>2, <2>3
  <1> QED
    BY <1>4, <1>5

\* A raw frame that is accepted.
LEMMA RawFrameKeeps ==
    ASSUME IInv, plan.raw, NEW batch \in RawFrames(plan), Frame(batch), ~Refused(batch)
    PROVE  IInv'
  <1>1. batch \in Seq(Shown) /\ Clean(batch) /\ batch # <<>>
    BY RawFacts
  <1>2. batch \in Seq(Events) /\ PayloadOf(batch) \in Nat
    BY BatchIsSeq, PayloadIsNat
  <1>3. /\ RouteGets(batch, "read")
        /\ phase = "read" /\ frames < MaxFrames /\ frames' = frames + 1
        /\ tail' \in BOOLEAN /\ due' = due + PayloadOf(batch)
        /\ terminal' = IF Last(batch) \in Terminal THEN Last(batch) ELSE terminal
        /\ UNCHANGED <<plan, queue, fault, calls, source, lease, outcome, broken>>
    BY DEF Frame, encoderVars, endVars, TailAfter, InFrame
  <1>4. terminal = "none" \/ batch = <<"usage">>
    BY DEF Refused
  <1>5. TypeOK /\ Terminal \subseteq {"finish", "error"} /\ Working
    BY DEF IInv, Terminal, Working, At, Frame
  <1>6. /\ told' \in Seq(Shown) /\ {kept', usageKept'} \subseteq BOOLEAN
        /\ phase' \in {"read", "send"} /\ then' \in {then, "read", "return"}
    BY <1>1, <1>3, RouteFacts
  <1>7. ASSUME terminal' \in Terminal \union {"none"}  PROVE TypeOK'
    <2>1. frames' \in 0..MaxFrames /\ due' \in Nat
      BY <1>2, <1>3, <1>5, StreamAssumption DEF TypeOK
    <2> QED
      BY <1>3, <1>5, <1>6, <1>7, <2>1 DEF TypeOK, Shown
  <1>8. CASE Last(batch) \in Terminal
    <2>1. batch # <<"usage">>
      BY <1>8 DEF Last, Terminal
    <2>2. /\ terminal = "none" /\ terminal' = Last(batch)
          /\ InFrame(batch, Terminal)
          /\ InFrame(batch, {"finish"}) <=> Last(batch) = "finish"
          /\ InFrame(batch, {"error"}) <=> Last(batch) = "error"
          /\ InFrame(batch, {"usage"}) => Last(batch) = "finish"
      BY <1>3, <1>4, <1>8, <2>1, RawFacts
    <2>3. Hidden(batch) <=> plan.ingress = "chat" /\ Last(batch) = "finish"
      BY <2>2 DEF Hidden, InFrame
    <2>4. TypeOK'
      BY <1>8, <1>7, <2>2
    <2>5. ~kept
      BY <2>2 DEF IInv, HeldInv
    <2>6. CASE plan.ingress = "chat" /\ Last(batch) = "finish"
      <3>1. /\ phase' = "read" /\ then' = then /\ kept'
            /\ ToldTerminal' <=> ToldTerminal
            /\ ToldFinish' <=> ToldFinish
            /\ NothingAfterTerminal' <=> NothingAfterTerminal
        BY <1>1, <1>3, <2>2, <2>3, <2>6, RouteFacts
      <3> QED
        BY <1>3, <1>5, <2>2, <2>4, <2>6, <3>1
        DEF IInv, PlaceInv, HeldInv, ToldInv, MeantInv, SourceInv, LeaseOutlivesStream, At, Working,
            FinishIsMeant, ToldFinish, HeldTillEnd
    <2>7. CASE ~(plan.ingress = "chat" /\ Last(batch) = "finish")
      <3>1. /\ phase' = "send" /\ kept' = kept
            /\ then' = IF plan.ingress = "chat" THEN "return" ELSE "read"
            /\ ToldTerminal'
            /\ ToldFinish' <=> ToldFinish \/ Last(batch) = "finish"
            /\ NothingAfterTerminal /\ ~ToldTerminal => NothingAfterTerminal'
        BY <1>1, <1>3, <1>8, <2>2, <2>3, <2>7, RouteFacts DEF Terminal
      <3> QED
        BY <1>3, <1>5, <1>8, <2>2, <2>4, <2>5, <2>7, <3>1
        DEF IInv, PlaceInv, HeldInv, ToldInv, MeantInv, SourceInv, LeaseOutlivesStream, At, Working,
            FinishIsMeant, ToldFinish, HeldTillEnd
    <2> QED
      BY <2>6, <2>7
  <1>9. CASE Last(batch) \notin Terminal
    <2>1. /\ terminal' = terminal
          /\ ~InFrame(batch, Terminal) /\ ~InFrame(batch, {"finish"}) /\ ~InFrame(batch, {"error"})
      BY <1>3, <1>9, RawFacts
    <2>2. TypeOK'
      BY <1>5, <1>7, <2>1 DEF TypeOK
    <2>3. \/ /\ phase' = "read" /\ then' = then /\ kept' = kept
             /\ ToldTerminal' <=> ToldTerminal
             /\ ToldFinish' <=> ToldFinish
             /\ NothingAfterTerminal' <=> NothingAfterTerminal
          \/ /\ phase' = "send" /\ then' = "read" /\ kept' = kept
             /\ ToldTerminal' <=> ToldTerminal
             /\ ToldFinish' <=> ToldFinish
             /\ NothingAfterTerminal /\ ~ToldTerminal => NothingAfterTerminal'
      BY <1>1, <1>3, <1>5, <2>1, RouteFacts DEF TypeOK
    <2> QED
      BY <1>3, <1>5, <2>1, <2>2, <2>3
      DEF IInv, PlaceInv, HeldInv, ToldInv, MeantInv, SourceInv, LeaseOutlivesStream, At, Working,
          FinishIsMeant, ToldFinish, HeldTillEnd
  <1> QED
    BY <1>8, <1>9

LEMMA FrameKeeps ==
    ASSUME IInv, NEW batch \in IF plan.raw THEN RawFrames(plan) ELSE SemanticFrames, Frame(batch)
    PROVE  IInv'
  <1>1. batch \in Seq(Events) /\ PayloadOf(batch) \in Nat
    BY BatchIsSeq, PayloadIsNat
  <1>2. /\ TypeOK /\ phase = "read"
        /\ frames' = frames + 1 /\ frames' \in 0..MaxFrames
    BY StreamAssumption DEF Frame, IInv, TypeOK
  <1>3. CASE Refused(batch)
    <2>1. Raises /\ due' = due
      BY <1>3 DEF Frame
    <2> QED
      BY <1>2, <2>1, RaisesKeeps DEF TypeOK
  <1>4. CASE ~Refused(batch) /\ plan.raw
    BY <1>4, RawFrameKeeps
  <1>5. CASE ~Refused(batch) /\ ~plan.raw
    <2>1. /\ queue' = batch
          /\ phase' = IF batch = <<>> THEN "read" ELSE "encode"
          /\ tail' \in BOOLEAN /\ due' = due + PayloadOf(batch)
          /\ UNCHANGED <<plan, then, terminal, fault, calls, kept, usageKept, told, source, lease, outcome, broken>>
      BY <1>5 DEF Frame, encoderVars, endVars, routeVars, TailAfter, InFrame
    <2>2. TypeOK'
      <3>1. due' \in Nat
        BY <1>1, <1>2, <2>1 DEF TypeOK
      <3> QED
        BY <1>1, <1>2, <2>1, <3>1 DEF TypeOK
    <2>3. (ToldTerminal' <=> ToldTerminal) /\ (ToldFinish' <=> ToldFinish)
          /\ (NothingAfterTerminal' <=> NothingAfterTerminal)
      BY <2>1, ToldNoMore
    <2> QED
      BY <1>2, <1>5, <2>1, <2>2, <2>3
      DEF IInv, PlaceInv, HeldInv, ToldInv, MeantInv, SourceInv, LeaseOutlivesStream, At, Working,
          FinishIsMeant, ToldFinish, HeldTillEnd
  <1> QED
    BY <1>3, <1>4, <1>5

LEMMA EncodeKeeps ==
    ASSUME IInv, Encode
    PROVE  IInv'
  <1>1. TypeOK /\ ~plan.raw /\ ~kept /\ HeldTillEnd /\ ~ToldTerminal /\ Working
    BY DEF IInv, PlaceInv, HeldInv, ToldInv, MeantInv, SourceInv, LeaseOutlivesStream, At, Working, HeldTillEnd, Encode
  <1>2. /\ queue # <<>> /\ Head(queue) \in Events
        /\ queue' \in Seq(Events) /\ (AfterEvent = "encode" => queue' # <<>>)
        /\ AfterEvent \in {"read", "encode"}
    <2>1. queue \in Seq(Events) /\ queue # <<>> /\ queue' = Tail(queue)
      BY <1>1 DEF Encode, TypeOK
    <2>2. Len(queue) \in Nat /\ Len(queue) > 0 /\ Head(queue) = queue[1] /\ queue[1] \in Events
      BY <2>1
    <2>3. Tail(queue) \in Seq(Events) /\ Len(Tail(queue)) = Len(queue) - 1
      BY <2>1
    <2>4. Len(queue) # 1 => Tail(queue) # <<>>
      <3>1. Len(<<>>) = 0
        OBVIOUS
      <3>2. ASSUME Tail(queue) = <<>>  PROVE Len(Tail(queue)) = 0
        BY <3>1, <3>2, Zenon
      <3> DEFINE l == Len(Tail(queue))
      <3>3. l = Len(queue) - 1 /\ (Tail(queue) = <<>> => l = 0)
        BY <2>3, <3>2
      <3> HIDE DEF l
      <3> QED
        BY <2>2, <3>3
    <2> QED
      BY <2>1, <2>2, <2>3, <2>4 DEF AfterEvent
  <1>3. CASE Head(queue) \in Terminal
    <2>1. /\ terminal' = Head(queue) /\ phase' = AfterEvent
          /\ broken' = broken
          /\ UNCHANGED <<plan, then, frames, tail, fault, calls, kept, usageKept, told, source, lease, outcome, due>>
      BY <1>1, <1>3 DEF Encode, encoderVars, routeVars, endVars, Terminal, TypeOK
    <2>2. TypeOK'
      BY <1>1, <1>2, <1>3, <2>1 DEF TypeOK, Encode
    <2>3. (ToldTerminal' <=> ToldTerminal) /\ (ToldFinish' <=> ToldFinish)
          /\ (NothingAfterTerminal' <=> NothingAfterTerminal)
      BY <2>1, ToldNoMore
    <2>4. ~ToldFinish
      BY <1>1 DEF ToldFinish, Told, ToldTerminal, Terminal
    <2> QED
      BY <1>1, <1>2, <1>3, <2>1, <2>2, <2>3, <2>4
      DEF IInv, PlaceInv, HeldInv, ToldInv, MeantInv, SourceInv, LeaseOutlivesStream, At, Working,
          FinishIsMeant, ToldFinish, HeldTillEnd, Encode
  <1>4. CASE Head(queue) \notin Terminal
    <2> DEFINE got == Encoded(Head(queue))
    <2>1. got \in Seq(Shown) /\ \A i \in DOMAIN got : got[i] \notin Terminal
      BY <1>1, <1>2, <1>4, EncodedIsShown
    <2>2. /\ RouteGets(got, AfterEvent)
          /\ fault' = (fault \/ Head(queue) = "fault") /\ broken' = (broken \/ Head(queue) = "fault")
          /\ calls' \in Nat
          /\ UNCHANGED <<plan, terminal, frames, tail, source, lease, outcome, due>>
      BY <1>1, <1>4 DEF Encode, endVars, TypeOK
    <2> HIDE DEF got
    <2>3. /\ Clean(got) /\ ~InFrame(got, Terminal)
          /\ ~InFrame(got, {"finish"}) /\ ~InFrame(got, {"error"})
      BY <2>1 DEF Clean, InFrame, Terminal
    <2>4. /\ told' \in Seq(Shown) /\ {kept', usageKept'} \subseteq BOOLEAN /\ ~kept'
          /\ ~ToldTerminal' /\ (ToldFinish' <=> ToldFinish) /\ NothingAfterTerminal'
          /\ \/ phase' = AfterEvent /\ then' = then
             \/ phase' = "send" /\ then' = AfterEvent
      BY <1>1, <2>1, <2>2, <2>3, RouteFacts DEF IInv, HeldInv
    <2>5. TypeOK'
      <3>1. phase = "encode"
        BY DEF Encode
      <3>2. {tail', fault', broken'} \subseteq BOOLEAN
        BY <1>1, <2>2 DEF TypeOK
      <3>3. /\ phase' \in {"read", "encode", "send"} /\ then' \in {then, "read", "encode"}
            /\ phase' = "encode" => queue' # <<>>
        BY <1>2, <2>4
      <3> QED
        BY <1>1, <1>2, <2>2, <2>4, <3>1, <3>2, <3>3 DEF TypeOK, Shown
    <2>6. ~ToldFinish' /\ phase = "encode" /\ outcome # "completed"
      <3>1. ~ToldFinish
        BY <1>1 DEF ToldFinish, Told, ToldTerminal, Terminal
      <3> QED
        BY <2>4, <3>1 DEF IInv, SourceInv, Encode
    <2> QED
      BY <1>1, <1>2, <2>2, <2>4, <2>5, <2>6
      DEF IInv, PlaceInv, HeldInv, ToldInv, MeantInv, SourceInv, LeaseOutlivesStream, At, Working,
          FinishIsMeant, ToldFinish, HeldTillEnd
  <1> QED
    BY <1>3, <1>4

LEMMA BridgeEndsKeeps ==
    ASSUME IInv, BridgeEnds
    PROVE  IInv'
  <1>1. /\ TypeOK /\ phase = "eof" /\ Working /\ source = "closed" /\ calls' = 0
        /\ UNCHANGED <<plan, frames, queue, terminal, tail, fault, source, lease, outcome, due, broken>>
    BY DEF IInv, SourceInv, Working, BridgeEnds, bridgeVars, endVars, history
  <1>2. CASE plan.raw /\ terminal # "none"
    <2>1. phase' = "end" /\ UNCHANGED <<then, kept, usageKept, told>>
      BY <1>2 DEF BridgeEnds, routeVars
    <2>2. TypeOK'
      BY <1>1, <2>1 DEF TypeOK
    <2>3. (ToldTerminal' <=> ToldTerminal) /\ (ToldFinish' <=> ToldFinish)
          /\ (NothingAfterTerminal' <=> NothingAfterTerminal)
      BY <2>1, ToldNoMore
    <2> QED
      BY <1>1, <1>2, <2>1, <2>2, <2>3
      DEF IInv, PlaceInv, HeldInv, ToldInv, MeantInv, SourceInv, LeaseOutlivesStream, At, Working,
          FinishIsMeant, ToldFinish, HeldTillEnd
  <1>3. CASE ~(plan.raw /\ terminal # "none")
    <2> DEFINE got == IF terminal = "none" THEN <<"error">> ELSE EncodedTerminal(terminal)
    <2>1. RouteGets(got, "end")
      BY <1>3 DEF BridgeEnds
    <2>2. "error" \in Shown /\ "error" \in Terminal
      BY DEF Shown, Terminal
    <2>3. /\ got \in Seq(Shown) /\ got # <<>> /\ Clean(got)
          /\ InFrame(got, Terminal) /\ ~InFrame(got, {"usage"})
          /\ InFrame(got, {"finish"}) <=> terminal = "finish" /\ ~fault
          /\ InFrame(got, {"error"}) <=> ~(terminal = "finish" /\ ~fault)
      <3>1. CASE terminal = "none"
        BY <2>2, <3>1, SingleFacts, Zenon
      <3>2. CASE terminal # "none"
        BY <1>1, <3>2, TerminalFacts DEF TypeOK, Terminal
      <3> QED
        BY <3>1, <3>2
    <2> HIDE DEF got
    <2>4. Hidden(got) <=> plan.ingress = "chat" /\ terminal = "finish" /\ ~fault
      BY <2>3 DEF Hidden, InFrame
    <2>5. ~kept
      BY <1>1, <1>3 DEF IInv, HeldInv
    <2>6. told' \in Seq(Shown) /\ {kept', usageKept'} \subseteq BOOLEAN
          /\ phase' \in {"end", "send"} /\ then' \in {then, "end", "return"}
      BY <2>1, <2>3, RouteFacts
    <2>7. TypeOK'
      BY <1>1, <2>6 DEF TypeOK, Shown
    <2>8. CASE Hidden(got)
      <3>1. /\ phase' = "end" /\ then' = then /\ kept'
            /\ ToldTerminal' <=> ToldTerminal
            /\ ToldFinish' <=> ToldFinish
            /\ NothingAfterTerminal' <=> NothingAfterTerminal
        BY <2>1, <2>3, <2>4, <2>8, RouteFacts
      <3> QED
        BY <1>1, <1>3, <2>4, <2>7, <2>8, <3>1
        DEF IInv, PlaceInv, HeldInv, ToldInv, MeantInv, SourceInv, LeaseOutlivesStream, At, Working,
            FinishIsMeant, ToldFinish, HeldTillEnd
    <2>9. CASE ~Hidden(got)
      <3>1. /\ phase' = "send" /\ kept' = kept
            /\ then' \in {"end", "return"}
            /\ ToldTerminal'
            /\ ToldFinish' <=> ToldFinish \/ (terminal = "finish" /\ ~fault)
            /\ NothingAfterTerminal /\ ~ToldTerminal => NothingAfterTerminal'
        BY <2>1, <2>3, <2>9, RouteFacts
      <3> QED
        BY <1>1, <1>3, <2>5, <2>7, <3>1
        DEF IInv, PlaceInv, HeldInv, ToldInv, MeantInv, SourceInv, LeaseOutlivesStream, At, Working,
            FinishIsMeant, ToldFinish, HeldTillEnd
    <2> QED
      BY <2>8, <2>9
  <1> QED
    BY <1>2, <1>3

LEMMA RouteEndsKeeps ==
    ASSUME IInv, RouteEnds
    PROVE  IInv'
  <1>1. /\ TypeOK /\ phase = "end"
        /\ UNCHANGED <<plan, frames, queue, terminal, tail, fault, calls, source, lease, outcome, due, broken>>
    BY DEF IInv, RouteEnds, bridgeVars, encoderVars, endVars, history
  <1>2. {"finish", "usage"} \subseteq Shown /\ "finish" \in Terminal /\ "usage" \notin Terminal
    BY DEF Shown, Terminal
  <1>3. CASE /\ kept /\ kept' = FALSE /\ usageKept' = usageKept
             /\ Sends(<<"finish">>, "end")
    <2>1. /\ told' \in Seq(Shown) /\ ToldTerminal' /\ ToldFinish'
          /\ NothingAfterTerminal /\ ~ToldTerminal => NothingAfterTerminal'
      BY <1>1, <1>2, <1>3, ToldMore, SingleFacts, Zenon DEF Sends
    <2>2. TypeOK'
      BY <1>1, <1>3, <2>1 DEF TypeOK, Sends, Shown
    <2> QED
      BY <1>1, <1>3, <2>1, <2>2
      DEF Sends, IInv, PlaceInv, HeldInv, ToldInv, MeantInv, SourceInv, LeaseOutlivesStream, At, Working,
            FinishIsMeant, ToldFinish, HeldTillEnd
  <1>4. CASE /\ ~kept /\ kept' = kept /\ usageKept' = FALSE
             /\ Sends(<<"usage">>, "end")
    <2>1. /\ told' \in Seq(Shown) /\ (ToldTerminal' <=> ToldTerminal) /\ (ToldFinish' <=> ToldFinish)
          /\ NothingAfterTerminal => NothingAfterTerminal'
      <3>1. told' = told \o <<"usage">>
        BY <1>4 DEF Sends
      <3>2. /\ <<"usage">> \in Seq(Shown) /\ Clean(<<"usage">>)
            /\ ~InFrame(<<"usage">>, Terminal) /\ ~InFrame(<<"usage">>, {"finish"})
            /\ \A i \in DOMAIN <<"usage">> : <<"usage">>[i] = "usage"
        BY <1>2, SingleFacts
      <3> QED
        BY <1>1, <3>1, <3>2, ToldMore, Zenon
    <2>2. TypeOK'
      BY <1>1, <1>4, <2>1 DEF TypeOK, Sends, Shown
    <2> QED
      BY <1>1, <1>4, <2>1, <2>2
      DEF Sends, IInv, PlaceInv, HeldInv, ToldInv, MeantInv, SourceInv, LeaseOutlivesStream, At, Working,
            FinishIsMeant, ToldFinish, HeldTillEnd
  <1>5. CASE /\ ~kept /\ phase' = "final"
             /\ UNCHANGED <<kept, usageKept, told, then>>
    <2>1. TypeOK'
      BY <1>1, <1>5 DEF TypeOK
    <2> QED
      BY <1>1, <1>5, <2>1, ToldNoMore
      DEF IInv, PlaceInv, HeldInv, ToldInv, MeantInv, SourceInv, LeaseOutlivesStream, At, Working,
            FinishIsMeant, ToldFinish, HeldTillEnd
  <1> QED
    BY <1>3, <1>4, <1>5 DEF RouteEnds

\* Steps that tell the client nothing and move nothing held back.
LEMMA QuietStepKeeps ==
    ASSUME IInv,
           \/ UpstreamEnds \/ RouteReturns \/ Sent \/ BodyEnds \/ ReadCancelled
           \/ SendFails \/ Abandoned \/ DroppedClosed \/ UNCHANGED vars
    PROVE  IInv'
  <1>1. (ToldTerminal' <=> ToldTerminal) /\ (ToldFinish' <=> ToldFinish)
        /\ (NothingAfterTerminal' <=> NothingAfterTerminal)
    BY ToldNoMore
    DEF UpstreamEnds, RouteReturns, Sent, BodyEnds, ReadCancelled, SendFails, Abandoned, DroppedClosed, vars
  <1> USE DEF bridgeVars, encoderVars, routeVars, endVars, history
  <1>2. CASE UpstreamEnds
    <2>1. TypeOK'
      BY <1>2 DEF IInv, TypeOK, UpstreamEnds
    <2> QED
      BY <1>1, <1>2, <2>1
      DEF UpstreamEnds, IInv, PlaceInv, HeldInv, ToldInv, MeantInv, SourceInv, LeaseOutlivesStream, At, Working,
            FinishIsMeant, ToldFinish, HeldTillEnd
  <1>3. CASE RouteReturns
    <2>1. TypeOK'
      BY <1>3 DEF IInv, TypeOK, RouteReturns
    <2> QED
      BY <1>1, <1>3, <2>1
      DEF RouteReturns, IInv, PlaceInv, HeldInv, ToldInv, MeantInv, SourceInv, LeaseOutlivesStream, At, Working,
            FinishIsMeant, ToldFinish, HeldTillEnd
  <1>4. CASE Sent
    <2>1. TypeOK'
      BY <1>4 DEF IInv, TypeOK, Sent, PlaceInv, At
    <2>2. then \in {"read", "encode", "end", "return", "final"} /\ phase = "send" /\ phase' = then
          /\ UNCHANGED <<plan, then, queue, terminal, fault, kept, told, source, outcome, broken>>
      BY <1>4 DEF Sent, IInv, TypeOK
    <2> QED
      BY <1>1, <2>1, <2>2
      DEF IInv, PlaceInv, HeldInv, ToldInv, MeantInv, SourceInv, LeaseOutlivesStream, At, Working,
            FinishIsMeant, ToldFinish, HeldTillEnd
  <1>5. CASE BodyEnds
    <2>1. TypeOK'
      BY <1>5 DEF IInv, TypeOK, BodyEnds
    <2> QED
      BY <1>1, <1>5, <2>1
      DEF BodyEnds, IInv, PlaceInv, HeldInv, ToldInv, MeantInv, SourceInv, LeaseOutlivesStream, At, Working,
            FinishIsMeant, ToldFinish, HeldTillEnd
  <1>6. CASE ReadCancelled
    <2>1. TypeOK'
      BY <1>6 DEF IInv, TypeOK, ReadCancelled
    <2> QED
      BY <1>1, <1>6, <2>1
      DEF ReadCancelled, IInv, PlaceInv, HeldInv, ToldInv, MeantInv, SourceInv, LeaseOutlivesStream, At, Working,
            FinishIsMeant, ToldFinish, HeldTillEnd
  <1>7. CASE SendFails
    <2>1. TypeOK'
      BY <1>7 DEF IInv, TypeOK, SendFails
    <2> QED
      BY <1>1, <1>7, <2>1
      DEF SendFails, IInv, PlaceInv, HeldInv, ToldInv, MeantInv, SourceInv, LeaseOutlivesStream, At, Working,
            FinishIsMeant, ToldFinish, HeldTillEnd
  <1>8. CASE Abandoned
    <2>1. TypeOK'
      BY <1>8 DEF IInv, TypeOK, Abandoned
    <2> QED
      BY <1>1, <1>8, <2>1
      DEF Abandoned, IInv, PlaceInv, HeldInv, ToldInv, MeantInv, SourceInv, LeaseOutlivesStream, At, Working,
            FinishIsMeant, ToldFinish, HeldTillEnd
  <1>9. CASE DroppedClosed
    <2>1. TypeOK'
      BY <1>9 DEF IInv, TypeOK, DroppedClosed
    <2> QED
      BY <1>1, <1>9, <2>1
      DEF DroppedClosed, IInv, PlaceInv, HeldInv, ToldInv, MeantInv, SourceInv, LeaseOutlivesStream, At, Working,
            FinishIsMeant, ToldFinish, HeldTillEnd
  <1>10. CASE UNCHANGED vars
    <2>1. TypeOK'
      BY <1>10 DEF IInv, TypeOK, vars
    <2> QED
      BY <1>1, <1>10, <2>1
      DEF vars, IInv, PlaceInv, HeldInv, ToldInv, MeantInv, SourceInv, LeaseOutlivesStream, At, Working,
            FinishIsMeant, ToldFinish, HeldTillEnd
  <1> QED
    BY <1>2, <1>3, <1>4, <1>5, <1>6, <1>7, <1>8, <1>9, <1>10

LEMMA StepInv == IInv /\ [Next]_vars => IInv'
  <1> SUFFICES ASSUME IInv, [Next]_vars  PROVE IInv'
    OBVIOUS
  <1>1. TypeOK /\ due \in Nat /\ frames \in 0..MaxFrames
    BY DEF IInv, TypeOK
  <1>2. ASSUME NEW batch \in IF plan.raw THEN RawFrames(plan) ELSE SemanticFrames, Frame(batch)
        PROVE  IInv'
    BY <1>2, FrameKeeps
  <1>3. CASE Malformed
    <2>1. /\ Raises /\ phase = "read" /\ due' = due
          /\ frames' \in 0..MaxFrames
      BY <1>1, <1>3, StreamAssumption DEF Malformed
    <2> QED
      BY <1>1, <2>1, RaisesKeeps
  <1>4. CASE Encode
    BY <1>4, EncodeKeeps
  <1>5. CASE EncoderRejects \/ UpstreamFails
    BY <1>1, <1>5, RaisesKeeps DEF EncoderRejects, UpstreamFails
  <1>6. CASE BridgeEnds
    BY <1>6, BridgeEndsKeeps
  <1>7. CASE RouteEnds
    BY <1>7, RouteEndsKeeps
  <1>8. CASE \/ UpstreamEnds \/ RouteReturns \/ Sent \/ BodyEnds \/ ReadCancelled
             \/ SendFails \/ Abandoned \/ DroppedClosed \/ UNCHANGED vars
    BY <1>8, QuietStepKeeps
  <1> QED
    BY <1>2, <1>3, <1>4, <1>5, <1>6, <1>7, <1>8 DEF Next

-----------------------------------------------------------------------------
(* The payload on its way.  While the bridge works, every payload event    *)
(* that was accepted has been told, is held back by the encoder as a call, *)
(* or waits in the queue.                                                  *)

DataIn(s) == {j \in DOMAIN s : s[j] = "data"}
Count(s) == Cardinality(DataIn(s))
Pending == IF At({"encode"}) THEN PayloadOf(queue) ELSE 0

CountInv ==
    /\ FinishIsWhole
    /\ calls > 0 => plan.ingress = "gemini" /\ ~plan.raw
    /\ Working => Count(told) + calls + Pending = due
    /\ kept /\ At({"end"}) => Count(told) = due

\* Frames that are n pieces of data, then none.
Adds(w, n) ==
    /\ n \in 0..Len(w)
    /\ \A i \in 1..n : w[i] = "data"
    /\ \A i \in n + 1..Len(w) : w[i] # "data"

LEMMA CountIsNat ==
    ASSUME NEW s \in Seq(Shown)
    PROVE  IsFiniteSet(DataIn(s)) /\ Count(s) \in Nat
  <1>1. IsFiniteSet(1..Len(s)) /\ DataIn(s) \subseteq 1..Len(s)
    BY FS_Interval DEF DataIn
  <1>2. IsFiniteSet(DataIn(s))
    BY <1>1, FS_Subset
  <1> QED
    BY <1>2, FS_CardinalityType DEF Count

\* A set with an interval beside it has as many members more.
LEMMA CountAdds ==
    ASSUME NEW s \in Seq(Shown), NEW w \in Seq(Shown), NEW n, Adds(w, n)
    PROVE  Count(s \o w) = Count(s) + n
  <1>1. PICK k \in Nat, m \in Nat : k = Len(s) /\ m = Len(w)
    OBVIOUS
  <1>2. /\ n \in 0..m /\ DOMAIN s = 1..k /\ DOMAIN (s \o w) = 1..k + m
        /\ \A i \in 1..k : (s \o w)[i] = s[i]
        /\ \A i \in 1..m : (s \o w)[k + i] = w[i]
        /\ \A i \in 1..n : w[i] = "data"
        /\ \A i \in n + 1..m : w[i] # "data"
    BY <1>1 DEF Adds
  <1> DEFINE added == k + 1..k + n
  <1>3. \A i \in DataIn(s) : i \in 1..k
    BY <1>2 DEF DataIn
  <1>4. DataIn(s \o w) = DataIn(s) \union added
    <2>1. ASSUME NEW i \in DataIn(s \o w)  PROVE i \in DataIn(s) \union added
      <3>1. i \in 1..k + m /\ (s \o w)[i] = "data"
        BY <1>2, <2>1 DEF DataIn
      <3>2. CASE i \in 1..k
        BY <1>2, <3>1, <3>2 DEF DataIn
      <3>3. CASE i \notin 1..k
        <4>1. PICK j \in 1..m : i = k + j
          <5>1. i - k \in 1..m /\ i = k + (i - k)
            BY <3>1, <3>3
          <5> QED
            BY <5>1
        <4>2. w[j] = "data"
          BY <1>2, <3>1, <4>1
        <4>3. j \in 1..n
          BY <1>2, <4>2
        <4> QED
          BY <1>2, <4>1, <4>3
      <3> QED
        BY <3>2, <3>3
    <2>2. ASSUME NEW i \in DataIn(s)  PROVE i \in DataIn(s \o w)
      BY <1>2, <2>2 DEF DataIn
    <2>3. ASSUME NEW i \in added  PROVE i \in DataIn(s \o w)
      <3>1. PICK j \in 1..n : i = k + j
        <4>1. i - k \in 1..n /\ i = k + (i - k)
          BY <1>2, <2>3
        <4> QED
          BY <4>1
      <3>2. j \in 1..m /\ i \in 1..k + m
        BY <1>2, <3>1
      <3> QED
        BY <1>2, <3>1, <3>2 DEF DataIn
    <2> QED
      BY <2>1, <2>2, <2>3
  <1>5. IsFiniteSet(added) /\ Cardinality(added) = n
    <2>1. k + 1 \in Int /\ k + n \in Int /\ (k + n) - (k + 1) + 1 = n /\ (k + 1 > k + n <=> n = 0)
      BY <1>2
    <2>2. /\ IsFiniteSet(k + 1..k + n)
          /\ Cardinality(k + 1..k + n) = IF k + 1 > k + n THEN 0 ELSE (k + n) - (k + 1) + 1
      BY <2>1, FS_Interval, Zenon
    <2> QED
      BY <2>1, <2>2
  <1>6. DataIn(s) \intersect added = {}
    BY <1>2, <1>3
  <1>7. IsFiniteSet(DataIn(s)) /\ Cardinality(DataIn(s)) \in Nat
    BY CountIsNat DEF Count
  <1> HIDE DEF added
  <1>8. Cardinality(DataIn(s) \union added)
          = Cardinality(DataIn(s)) + Cardinality(added) - Cardinality(DataIn(s) \intersect added)
    BY <1>5, <1>7, FS_Union
  <1>9. Cardinality(DataIn(s) \intersect added) = 0
    BY <1>6, FS_EmptySet
  <1> QED
    BY <1>2, <1>4, <1>5, <1>7, <1>8, <1>9 DEF Count

\* Where the word that it is over comes with or after the last piece of data, everything is told.
LEMMA ToldAdds ==
    ASSUME TypeOK, NEW w \in Seq(Shown), NEW n, Adds(w, n), told' = told \o w,
           FinishIsWhole, ToldFinish => due' = due,
           InFrame(w, {"finish"}) => Count(told) + n = due'
    PROVE  Count(told') = Count(told) + n /\ FinishIsWhole'
  <1>1. told \in Seq(Shown)
    BY DEF TypeOK, Shown
  <1>2. Count(told') = Count(told) + n
    BY <1>1, CountAdds
  <1>3. /\ Len(told') = Len(told) + Len(w) /\ Len(told) \in Nat /\ Len(w) \in Nat
        /\ DOMAIN told' = 1..Len(told) + Len(w)
        /\ \A i \in 1..Len(told) : told'[i] = told[i]
        /\ \A i \in 1..Len(w) : told'[Len(told) + i] = w[i]
    BY <1>1
  <1>4. ASSUME NEW i \in DOMAIN told', told'[i] = "finish"
        PROVE  Cardinality({j \in 1..i : told'[j] = "data"}) = due'
    <2>1. CASE i \in 1..Len(told)
      <3>1. {j \in 1..i : told'[j] = "data"} = {j \in 1..i : told[j] = "data"}
        BY <1>3, <2>1
      <3>2. told[i] = "finish" /\ i \in DOMAIN told
        BY <1>1, <1>3, <1>4, <2>1
      <3>3. due' = due
        BY <3>2 DEF ToldFinish, Told
      <3> QED
        BY <3>1, <3>2, <3>3 DEF FinishIsWhole
    <2>2. CASE i \notin 1..Len(told)
      <3>1. i - Len(told) \in 1..Len(w) /\ w[i - Len(told)] = "finish"
        BY <1>3, <1>4, <2>2
      <3>2. InFrame(w, {"finish"})
        BY <3>1 DEF InFrame
      <3>3. n \in Nat /\ i - Len(told) > n
        BY <3>1 DEF Adds
      <3>4. ASSUME NEW j \in DOMAIN told', told'[j] = "data"  PROVE j <= i
        <4>1. CASE j \in 1..Len(told)
          BY <1>3, <3>1, <4>1
        <4>2. CASE j \notin 1..Len(told)
          <5>1. j - Len(told) \in 1..Len(w) /\ w[j - Len(told)] = "data"
            BY <1>3, <3>4, <4>2
          <5>2. j - Len(told) <= n
            BY <5>1 DEF Adds
          <5> QED
            BY <1>3, <3>1, <3>3, <5>1, <5>2
        <4> QED
          BY <4>1, <4>2
      <3>5. {j \in 1..i : told'[j] = "data"} = DataIn(told')
        BY <1>3, <3>4 DEF DataIn
      <3> QED
        BY <1>2, <3>2, <3>5 DEF Count
    <2> QED
      BY <2>1, <2>2
  <1> QED
    BY <1>2, <1>4 DEF FinishIsWhole

\* The frames that the chain writes.
LEMMA AddsFacts ==
    ASSUME TypeOK
    PROVE  /\ Adds(<<"data">>, 1) /\ Adds(<<>>, 0) /\ Adds(<<"usage", "finish">>, 0)
           /\ \A e \in Shown \ {"data"} : Adds(<<e>>, 0) /\ Adds(Append(Flushed, e), calls)
  <1>1. Flushed \in Seq({"data"}) /\ Len(Flushed) = calls /\ calls \in Nat
    BY DEF Flushed, TypeOK
  <1>2. ASSUME NEW e \in Shown \ {"data"}  PROVE Adds(Append(Flushed, e), calls)
    <2>1. /\ Len(Append(Flushed, e)) = calls + 1 /\ Append(Flushed, e)[calls + 1] = e
          /\ \A i \in 1..calls : Append(Flushed, e)[i] = "data"
      BY <1>1 DEF Shown, Terminal
    <2> QED
      BY <1>1, <2>1 DEF Adds
  <1>3. \A e \in Shown \ {"data"} : Adds(<<e>>, 0)
    BY DEF Adds
  <1>4. Adds(<<"data">>, 1) /\ Adds(<<>>, 0) /\ Adds(<<"usage", "finish">>, 0)
    BY DEF Adds
  <1> QED
    BY <1>2, <1>3, <1>4

\* What encoding the first event of the queue leaves to be encoded.
LEMMA PayloadFacts ==
    /\ PayloadOf(<<>>) = 0
    /\ \A e : PayloadOf(<<e>>) = IF e \in Payload THEN 1 ELSE 0
    /\ PayloadOf(<<"usage", "finish">>) = 0
    /\ \A q \in Seq(Events) : q # <<>> =>
          PayloadOf(q) = PayloadOf(Tail(q)) + IF Head(q) \in Payload THEN 1 ELSE 0
  <1>1. PayloadOf(<<>>) = 0
    <2>1. {i \in DOMAIN <<>> : <<>>[i] \in Payload} = {}
      OBVIOUS
    <2> QED
      BY <2>1, FS_EmptySet DEF PayloadOf
  <1>2. ASSUME NEW e  PROVE PayloadOf(<<e>>) = IF e \in Payload THEN 1 ELSE 0
    <2>1. {i \in DOMAIN <<e>> : <<e>>[i] \in Payload} = IF e \in Payload THEN {1} ELSE {}
      OBVIOUS
    <2> QED
      BY <2>1, FS_EmptySet, FS_Singleton DEF PayloadOf
  <1>3. PayloadOf(<<"usage", "finish">>) = 0
    <2>1. {i \in DOMAIN <<"usage", "finish">> : <<"usage", "finish">>[i] \in Payload} = {}
      BY DEF Payload
    <2> QED
      BY <2>1, FS_EmptySet DEF PayloadOf
  <1>4. ASSUME NEW q \in Seq(Events), q # <<>>
        PROVE  PayloadOf(q) = PayloadOf(Tail(q)) + IF Head(q) \in Payload THEN 1 ELSE 0
    <2> DEFINE S == {i \in DOMAIN q : q[i] \in Payload}
               T == {i \in DOMAIN Tail(q) : Tail(q)[i] \in Payload}
               R == {i \in S : i # 1}
               next == [i \in T |-> i + 1]
    <2>1. /\ Len(q) \in Nat /\ Len(q) > 0 /\ Head(q) = q[1]
          /\ DOMAIN q = 1..Len(q) /\ DOMAIN Tail(q) = 1..Len(q) - 1
          /\ \A i \in 1..Len(q) - 1 : Tail(q)[i] = q[i + 1]
      <3>1. Len(q) \in Nat /\ Len(q) > 0 /\ Head(q) = q[1] /\ DOMAIN q = 1..Len(q)
        BY <1>4
      <3>2. Tail(q) \in Seq(Events) /\ Len(Tail(q)) = Len(q) - 1
        BY <1>4
      <3>3. DOMAIN Tail(q) = 1..Len(q) - 1
        BY <3>2
      <3>4. \A i \in 1..Len(q) - 1 : Tail(q)[i] = q[i + 1]
        BY <1>4
      <3> QED
        BY <3>1, <3>3, <3>4
    <2>2. T \subseteq 1..Len(q) - 1 /\ IsFiniteSet(1..Len(q) - 1)
      BY <2>1, FS_Interval
    <2>3. IsFiniteSet(T) /\ Cardinality(T) \in Nat
      BY <2>2, FS_Subset, FS_CardinalityType
    <2>4. next \in Bijection(T, R)
      <3>1. \A i \in T : i \in Nat /\ i + 1 \in R
        BY <2>1
      <3>2. \A k \in R : k - 1 \in T /\ k = (k - 1) + 1
        BY <2>1
      <3> HIDE DEF T, R
      <3>3. next \in [T -> R] /\ \A i \in T : next[i] = i + 1
        BY <3>1
      <3>4. \A a, b \in T : next[a] = next[b] => a = b
        BY <3>1, <3>3
      <3>5. \A k \in R : \E i \in T : next[i] = k
        BY <3>2, <3>3
      <3> QED
        BY <3>3, <3>4, <3>5 DEF Bijection, Injection, Surjection, IsInjective
    <2>5. IsFiniteSet(R) /\ Cardinality(R) = Cardinality(T)
      <3>1. ExistsBijection(T, R)
        BY <2>4 DEF ExistsBijection
      <3> HIDE DEF T, R, next
      <3> QED
        BY <2>3, <3>1, FS_Bijection
    <2>6. S = IF q[1] \in Payload THEN R \union {1} ELSE R
      BY <2>1
    <2>7. 1 \notin R
      OBVIOUS
    <2>8. PayloadOf(q) = Cardinality(S) /\ PayloadOf(Tail(q)) = Cardinality(T)
      BY DEF PayloadOf
    <2> HIDE DEF S, T, R, next
    <2>9. Cardinality(R \union {1}) = Cardinality(T) + 1
      BY <2>5, <2>7, FS_AddElement
    <2>10. CASE q[1] \in Payload
      BY <2>1, <2>6, <2>8, <2>9, <2>10
    <2>11. CASE q[1] \notin Payload
      BY <2>1, <2>3, <2>5, <2>6, <2>8, <2>11
    <2> QED
      BY <2>10, <2>11
  <1> QED
    BY <1>1, <1>2, <1>3, <1>4

\* What the route does with n pieces of data, none of which it holds back.
LEMMA RouteCounts ==
    ASSUME TypeOK, FinishIsWhole, NEW got \in Seq(Shown), NEW n, Adds(got, n),
           NEW place, RouteGets(got, place), Hidden(got) => n = 0, ToldFinish => due' = due,
           InFrame(got, {"finish"}) /\ ~Hidden(got) => Count(told) + n = due'
    PROVE  Count(told') = Count(told) + n /\ FinishIsWhole'
  <1>1. told \in Seq(Shown) /\ Count(told) \in Nat
    BY CountIsNat DEF TypeOK, Shown
  <1>2. CASE got = <<>> \/ Hidden(got)
    <2>1. told' = told
      BY <1>2 DEF RouteGets
    <2>2. n = 0
      BY <1>2 DEF Adds
    <2>3. FinishIsWhole'
      BY <2>1 DEF FinishIsWhole, ToldFinish, Told
    <2> QED
      BY <1>1, <2>1, <2>2, <2>3
  <1>3. CASE ~(got = <<>> \/ Hidden(got))
    <2>1. told' = told \o got
      BY <1>3 DEF RouteGets, Sends
    <2> QED
      BY <1>3, <2>1, ToldAdds
  <1> QED
    BY <1>2, <1>3

LEMMA CountInit == Init => CountInv
  <1> SUFFICES ASSUME Init  PROVE CountInv
    OBVIOUS
  <1>1. DataIn(told) = {}
    BY DEF Init, DataIn
  <1>2. Count(told) = 0
    BY <1>1, FS_EmptySet DEF Count
  <1>3. FinishIsWhole
    BY DEF Init, FinishIsWhole
  <1> QED
    BY <1>2, <1>3 DEF Init, CountInv, Pending, At, Working

LEMMA RaisesCounts ==
    ASSUME IInv, CountInv, Raises, due' = due
    PROVE  CountInv'
  <1>1. "error" \in Shown \ {"data"}
    BY DEF Shown, Terminal
  <1>2. /\ <<"error">> \in Seq(Shown) /\ Adds(<<"error">>, 0)
        /\ ~InFrame(<<"error">>, {"finish"}) /\ told' = told \o <<"error">>
    BY <1>1, AddsFacts, SingleFacts DEF IInv, Raises, Sends
  <1>3. FinishIsWhole'
    BY <1>2, ToldAdds DEF IInv, CountInv
  <1> QED
    BY <1>3 DEF CountInv, Raises, Sends, At, Working, encoderVars

LEMMA FrameCounts ==
    ASSUME IInv, CountInv,
           NEW batch \in IF plan.raw THEN RawFrames(plan) ELSE SemanticFrames, Frame(batch)
    PROVE  CountInv'
  <1>1. /\ TypeOK /\ phase = "read" /\ Working /\ Pending = 0 /\ due \in Nat /\ calls \in Nat
        /\ Count(told) + calls = due /\ Count(told) \in Nat
    <2>1. TypeOK /\ phase = "read" /\ Working /\ Pending = 0
      BY DEF IInv, Frame, Working, At, Pending
    <2>2. due \in Nat /\ calls \in Nat /\ told \in Seq(Shown)
      BY <2>1 DEF TypeOK, Shown
    <2>3. Count(told) \in Nat
      BY <2>2, CountIsNat
    <2> QED
      BY <2>1, <2>2, <2>3 DEF CountInv
  <1>2. batch \in Seq(Events) /\ PayloadOf(batch) \in Nat
    BY BatchIsSeq, PayloadIsNat
  <1>3. CASE Refused(batch)
    <2>1. Raises /\ due' = due
      BY <1>3 DEF Frame
    <2> QED
      BY <2>1, RaisesCounts
  <1>4. CASE ~Refused(batch) /\ plan.raw
    <2>1. /\ batch \in RawFrames(plan) /\ RouteGets(batch, "read")
          /\ due' = due + PayloadOf(batch) /\ UNCHANGED <<plan, calls>>
          /\ terminal = "none" \/ batch = <<"usage">>
      BY <1>4 DEF Frame, encoderVars, Refused
    <2>2. batch \in {<<"data">>, <<"finish">>, <<"error">>, <<"usage">>, <<"usage", "finish">>}
      BY <2>1, Zenon DEF RawFrames
    <2>3. {"finish", "error", "usage"} \subseteq Shown \ {"data"}
          /\ "data" \in Payload /\ {"finish", "error", "usage"} \intersect Payload = {}
      BY DEF Shown, Terminal, Payload
    <2>4. Adds(batch, PayloadOf(batch))
      BY <1>1, <2>2, <2>3, AddsFacts, PayloadFacts, Zenon
    <2>5. InFrame(batch, {"usage"}) \/ InFrame(batch, {"finish"}) => PayloadOf(batch) = 0
      <3>1. batch = <<"data">> => ~InFrame(batch, {"usage"}) /\ ~InFrame(batch, {"finish"})
        BY DEF InFrame
      <3>2. batch # <<"data">> => PayloadOf(batch) = 0
        BY <2>2, <2>3, PayloadFacts
      <3> QED
        BY <3>1, <3>2
    <2>6. Hidden(batch) => PayloadOf(batch) = 0
      BY <2>5 DEF Hidden, InFrame
    <2>7. ToldFinish => PayloadOf(batch) = 0
      <3>1. ASSUME ToldFinish  PROVE batch = <<"usage">>
        BY <2>1, <3>1 DEF IInv, MeantInv, FinishIsMeant, ToldFinish
      <3> QED
        BY <2>3, <3>1, PayloadFacts
    <2>8. calls = 0
      BY <1>1, <1>4 DEF CountInv
    <2>9. batch \in Seq(Shown)
      BY <2>1, RawFacts
    <2> HIDE DEF CountInv
    <2>10. Count(told') = Count(told) + PayloadOf(batch) /\ FinishIsWhole'
      <3>1. FinishIsWhole
        BY DEF CountInv
      <3>2. ToldFinish => due' = due
        BY <1>1, <2>1, <2>7
      <3>3. Count(told) + PayloadOf(batch) = due'
        BY <1>1, <2>1, <2>8
      <3> QED
        BY <1>1, <2>1, <2>4, <2>6, <2>9, <3>1, <3>2, <3>3, RouteCounts
    <2>11. ~At({"encode"})' /\ ~At({"end"})'
      BY <1>1, <2>1 DEF At, RouteGets, Sends
    <2>12. Pending' = 0
      BY <2>11 DEF Pending
    <2>13. calls' > 0 => FALSE
      BY <2>1, <2>8
    <2>14. Count(told') + calls' + Pending' = due'
      BY <1>1, <1>2, <2>1, <2>8, <2>10, <2>12
    <2> QED
      BY <2>10, <2>11, <2>13, <2>14 DEF CountInv
  <1>5. CASE ~Refused(batch) /\ ~plan.raw
    <2>1. /\ queue' = batch
          /\ phase' = IF batch = <<>> THEN "read" ELSE "encode"
          /\ due' = due + PayloadOf(batch)
          /\ UNCHANGED <<plan, calls, kept, told>>
      BY <1>5 DEF Frame, encoderVars, endVars, routeVars
    <2>2. ~Told("finish")
      BY <1>1, <1>5 DEF IInv, HeldInv, HeldTillEnd, ToldTerminal, Told, Terminal
    <2>3. FinishIsWhole' /\ ~At({"end"})'
      BY <2>1, <2>2 DEF FinishIsWhole, Told, At
    <2>4. Pending' = PayloadOf(batch)
      BY <2>1, PayloadFacts DEF Pending, At
    <2>5. Count(told') = Count(told)
      BY <2>1
    <2>6. Count(told') + calls' + Pending' = due'
      BY <1>1, <1>2, <2>1, <2>4, <2>5
    <2>7. calls' > 0 => plan'.ingress = "gemini" /\ ~plan'.raw
      BY <2>1 DEF CountInv
    <2> QED
      BY <2>3, <2>6, <2>7 DEF CountInv
  <1> QED
    BY <1>3, <1>4, <1>5

LEMMA EncodeCounts ==
    ASSUME IInv, CountInv, Encode
    PROVE  CountInv'
  <1> DEFINE event == Head(queue)
             rest == PayloadOf(Tail(queue))
  <1>1. /\ TypeOK /\ ~plan.raw /\ phase = "encode" /\ Working /\ ~ToldFinish
        /\ due \in Nat /\ calls \in Nat /\ told \in Seq(Shown)
        /\ UNCHANGED <<plan, due>> /\ queue' = Tail(queue)
    <2>1. /\ TypeOK /\ ~plan.raw /\ phase = "encode" /\ Working
          /\ UNCHANGED <<plan, due>> /\ queue' = Tail(queue)
      BY DEF IInv, PlaceInv, Encode, Working, At
    <2>2. ~ToldFinish
      BY <2>1 DEF IInv, HeldInv, HeldTillEnd, ToldTerminal, ToldFinish, Told, Terminal
    <2> QED
      BY <2>1, <2>2 DEF TypeOK, Shown
  <1>2. /\ queue \in Seq(Events) /\ queue # <<>> /\ event \in Events
        /\ Tail(queue) \in Seq(Events) /\ rest \in Nat
    <2>1. queue \in Seq(Events) /\ queue # <<>>
      BY <1>1 DEF TypeOK
    <2>2. event \in Events /\ Tail(queue) \in Seq(Events)
      BY <2>1
    <2> QED
      BY <2>1, <2>2, PayloadIsNat
  <1>0. PICK one \in {0, 1} : one = IF event \in Payload THEN 1 ELSE 0
    OBVIOUS
  <1>3. Count(told) + calls + rest + one = due /\ Count(told) \in Nat
    <2>1. Pending = rest + one
      BY <1>0, <1>1, <1>2, PayloadFacts DEF Pending, At
    <2>2. Count(told) \in Nat
      BY <1>1, CountIsNat
    <2>3. Count(told) + calls + Pending = due
      BY <1>1 DEF CountInv
    <2> QED
      BY <1>1, <1>2, <2>1, <2>2, <2>3
  <1>4. AfterEvent \in {"read", "encode"} /\ (AfterEvent = "read" => rest = 0)
    <2>1. ASSUME Len(queue) = 1  PROVE Tail(queue) = <<>>
      <3>1. Len(Tail(queue)) = 0
        BY <1>2, <2>1
      <3>2. \A s \in Seq(Events) : Len(s) = 0 => s = <<>>
        OBVIOUS
      <3> QED
        BY <1>2, <3>1, <3>2
    <2> QED
      BY <2>1, PayloadFacts DEF AfterEvent
  <1>5. ASSUME phase' = AfterEvent \/ (phase' = "send" /\ then' = AfterEvent)
        PROVE  Pending' = rest /\ Working' /\ ~At({"end"})'
    BY <1>1, <1>4, <1>5 DEF Pending, Working, At
  <1>6. FinishIsWhole /\ (calls > 0 => plan.ingress = "gemini")
    BY DEF CountInv
  <1> HIDE DEF event, rest
  <1>7. ASSUME NEW n \in Nat, Count(told') = Count(told) + n, FinishIsWhole', calls' \in Nat,
               calls' > 0 => plan.ingress = "gemini",
               phase' = AfterEvent \/ (phase' = "send" /\ then' = AfterEvent),
               n + calls' = calls + one
        PROVE  CountInv'
    <2>1. Pending' = rest /\ ~At({"end"})'
      BY <1>5, <1>7
    <2>2. Count(told) + n + calls' + rest = due
      <3>1. /\ calls \in Nat /\ rest \in Nat /\ Count(told) \in Nat /\ calls' \in Nat
            /\ Count(told) + calls + rest + one = due /\ n + calls' = calls + one
        BY <1>1, <1>2, <1>3, <1>7
      <3>2. PICK s \in Nat, r \in Nat, c \in Nat, m \in Nat :
                s = Count(told) /\ r = rest /\ c = calls /\ m = calls'
        BY <3>1
      <3>3. s + c + r + one = due /\ n + m = c + one
        BY <3>1, <3>2, Zenon
      <3>4. s + n + m + r = due
        <4>1. one \in Nat
          OBVIOUS
        <4>2. s + n + m + r = s + c + r + one
          BY <3>3, <4>1
        <4> QED
          BY <3>3, <4>2
      <3> QED
        BY <3>2, <3>4, Zenon
    <2>3. Count(told') + calls' + Pending' = due'
      BY <1>1, <1>7, <2>1, <2>2, Zenon
    <2> QED
      BY <1>1, <1>7, <2>1, <2>3 DEF CountInv
  <1>8. CASE event \in Terminal
    <2>1. phase' = AfterEvent /\ UNCHANGED <<told, calls>>
      BY <1>8 DEF event, Encode, encoderVars, routeVars
    <2>2. event \notin Payload /\ one = 0
      BY <1>0, <1>8 DEF Terminal, Payload
    <2>3. FinishIsWhole'
      BY <1>1, <1>6, <2>1 DEF FinishIsWhole
    <2>4. Count(told') = Count(told) + 0
      BY <1>3, <2>1
    <2> QED
      BY <1>1, <1>6, <1>7, <2>1, <2>2, <2>3, <2>4
  <1>9. CASE event \notin Terminal
    <2> DEFINE got == Encoded(event)
    <2>1. got \in Seq(Shown) /\ \A i \in DOMAIN got : got[i] \notin Terminal
      BY <1>1, <1>2, <1>9, EncodedIsShown
    <2>2. /\ RouteGets(got, AfterEvent)
          /\ calls' = IF HeldBack(event) THEN calls + 1 ELSE IF event = "usage" THEN 0 ELSE calls
      BY <1>9 DEF event, Encode
    <2>3. "usage" \in Shown \ {"data"} /\ Payload \intersect {"usage", "fault"} = {}
          /\ "finish" \in Terminal /\ "error" \in Terminal
      BY DEF Shown, Payload, Terminal
    <2>4. PICK n \in Nat : /\ Adds(got, n) /\ (plan.ingress = "chat" /\ event = "usage" => n = 0)
                           /\ n + calls' = calls + one
                           /\ calls' \in Nat /\ (calls' > 0 => plan.ingress = "gemini")
      <3>1. CASE HeldBack(event)
        <4>1. got = <<>> /\ Adds(got, 0) /\ event \in Payload /\ plan.ingress = "gemini"
              /\ calls' = calls + 1 /\ event # "usage"
          BY <1>1, <2>2, <3>1, AddsFacts DEF Encoded, HeldBack, Payload
        <4> QED
          BY <1>0, <1>1, <4>1
      <3>2. CASE event = "fault"
        <4>1. got = <<>> /\ Adds(got, 0) /\ event \notin Payload /\ calls' = calls
              /\ event # "usage"
          BY <1>1, <2>2, <3>2, AddsFacts DEF Encoded, HeldBack, Payload
        <4> QED
          BY <1>0, <1>1, <1>6, <4>1
      <3>3. CASE event \in Payload /\ ~HeldBack(event)
        <4>1. event # "fault" /\ event # "usage"
          BY <2>3, <3>3
        <4>2. got = <<"data">> /\ Adds(got, 1) /\ calls' = calls
          BY <1>1, <2>2, <3>3, <4>1, AddsFacts DEF Encoded
        <4> QED
          BY <1>0, <1>1, <1>6, <3>3, <4>1, <4>2
      <3>4. CASE event = "usage"
        <4>1. event \notin Payload /\ ~HeldBack(event) /\ calls' = 0
          BY <2>2, <3>4 DEF HeldBack, Payload
        <4>2. CASE plan.ingress = "gemini"
          <5>1. got = Append(Flushed, "usage") /\ Adds(got, calls)
            BY <1>1, <2>3, <3>4, <4>1, <4>2, AddsFacts DEF Encoded, HeldBack, Payload
          <5> QED
            BY <1>0, <1>1, <4>1, <4>2, <5>1
        <4>3. CASE plan.ingress # "gemini"
          <5>1. calls = 0
            BY <1>1, <1>6, <4>3
          <5>2. got \in {<<"usage">>, <<>>}
            BY <1>1, <3>4, <4>1, <4>3 DEF Encoded, HeldBack, Payload, TypeOK, Plans, Ingress
          <5>3. Adds(got, 0)
            BY <1>1, <2>3, <5>2, AddsFacts
          <5> QED
            BY <1>0, <4>1, <5>1, <5>3
        <4> QED
          BY <4>2, <4>3
      <3> QED
        BY <1>2, <1>9, <3>1, <3>2, <3>3, <3>4 DEF Events
    <2>5. Hidden(got) => n = 0
      <3>1. ASSUME Hidden(got), event # "usage"  PROVE FALSE
        <4>1. got = <<>> \/ got = <<"data">>
          BY <1>2, <1>9, <3>1 DEF Encoded, Events
        <4> QED
          BY <3>1, <4>1 DEF Hidden, InFrame
      <3> QED
        BY <2>4, <3>1 DEF Hidden
    <2>6. ~InFrame(got, {"finish"}) /\ ~InFrame(got, {"error"}) /\ Clean(got)
      BY <2>1, <2>3 DEF InFrame, Clean
    <2> HIDE DEF got
    <2>7. Count(told') = Count(told) + n /\ FinishIsWhole'
      BY <1>1, <1>6, <2>1, <2>2, <2>4, <2>5, <2>6, RouteCounts
    <2>8. phase' = AfterEvent \/ (phase' = "send" /\ then' = AfterEvent)
      BY <2>2, <2>6 DEF RouteGets, Sends
    <2> QED
      BY <1>7, <2>4, <2>7, <2>8
  <1> QED
    BY <1>8, <1>9

LEMMA BridgeEndsCounts ==
    ASSUME IInv, CountInv, BridgeEnds
    PROVE  CountInv'
  <1>1. /\ TypeOK /\ phase = "eof" /\ Working /\ Pending = 0 /\ calls' = 0
        /\ UNCHANGED <<plan, queue, terminal, fault, due>>
    BY DEF IInv, Working, Pending, At, BridgeEnds, bridgeVars, history
  <1>2. /\ calls \in Nat /\ due \in Nat /\ told \in Seq(Shown) /\ Count(told) \in Nat
        /\ Count(told) + calls = due /\ FinishIsWhole
        /\ plan.ingress # "gemini" \/ plan.raw => calls = 0
    <2>1. calls \in Nat /\ due \in Nat /\ told \in Seq(Shown)
      BY <1>1 DEF TypeOK, Shown
    <2>2. Count(told) \in Nat
      BY <2>1, CountIsNat
    <2> QED
      BY <1>1, <2>1, <2>2 DEF CountInv
  <1>3. CASE plan.raw /\ terminal # "none"
    <2>1. phase' = "end" /\ UNCHANGED <<kept, told>>
      BY <1>3 DEF BridgeEnds, routeVars
    <2>2. FinishIsWhole'
      BY <1>1, <1>2, <2>1 DEF FinishIsWhole
    <2>3. Count(told') = due'
      BY <1>1, <1>2, <1>3, <2>1
    <2> QED
      BY <1>1, <2>1, <2>2, <2>3 DEF CountInv, Working, At
  <1>4. CASE ~(plan.raw /\ terminal # "none")
    <2> DEFINE got == IF terminal = "none" THEN <<"error">> ELSE EncodedTerminal(terminal)
    <2>1. RouteGets(got, "end")
      BY <1>4 DEF BridgeEnds
    <2>2. {"error", "finish"} \subseteq Shown \ {"data"}
      BY DEF Shown, Terminal
    <2>3. got = <<"error">> \/ got = Append(Flushed, "finish")
      BY DEF EncodedTerminal
    <2>4. got \in Seq(Shown)
      <3>1. terminal # "none" => terminal \in Terminal
        BY <1>1 DEF TypeOK
      <3>2. <<"error">> \in Seq(Shown)
        BY <2>2, SingleFacts
      <3> QED
        BY <1>1, <3>1, <3>2, TerminalFacts
    <2>5. got = <<"error">> => Adds(got, 0) /\ ~InFrame(got, {"finish", "usage"})
                               /\ ~InFrame(got, {"finish"}) /\ ~InFrame(got, {"usage"})
      BY <1>1, <2>2, AddsFacts, SingleFacts
    <2>6. got # <<"error">> => Adds(got, calls)
      BY <1>1, <2>2, <2>3, AddsFacts
    <2> HIDE DEF got
    <2>7. ~kept
      BY <1>1, <1>4 DEF IInv, HeldInv
    <2>8. phase' = "end" \/ (phase' = "send" /\ then' \in {"end", "return"})
      BY <2>1 DEF RouteGets, Sends
    <2>9. CASE got = <<"error">>
      <3>1. ~Hidden(got) /\ ~kept'
        BY <2>1, <2>5, <2>7, <2>9 DEF RouteGets, Hidden
      <3>2. FinishIsWhole'
        BY <1>1, <1>2, <2>1, <2>4, <2>5, <2>9, <3>1, RouteCounts
      <3> QED
        BY <1>1, <2>8, <3>1, <3>2 DEF CountInv, Working, At
    <2>10. CASE got # <<"error">>
      <3>1. Hidden(got) => calls = 0
        BY <1>2 DEF Hidden
      <3>2. Count(told) + calls = due'
        BY <1>1, <1>2
      <3>3. Count(told') = Count(told) + calls /\ FinishIsWhole'
        BY <1>1, <1>2, <2>1, <2>4, <2>6, <2>10, <3>1, <3>2, RouteCounts
      <3>4. Count(told') = due'
        BY <3>2, <3>3
      <3> QED
        BY <1>1, <2>8, <3>3, <3>4 DEF CountInv, Working, At
    <2> QED
      BY <2>9, <2>10
  <1> QED
    BY <1>3, <1>4

LEMMA RouteEndsCounts ==
    ASSUME IInv, CountInv, RouteEnds
    PROVE  CountInv'
  <1>1. /\ TypeOK /\ phase = "end" /\ UNCHANGED <<plan, calls, due>>
        /\ told \in Seq(Shown) /\ Count(told) \in Nat /\ FinishIsWhole
    <2>1. TypeOK /\ phase = "end" /\ UNCHANGED <<plan, calls, due>>
      BY DEF IInv, RouteEnds, encoderVars, history
    <2> QED
      BY <2>1, CountIsNat DEF TypeOK, Shown, CountInv
  <1>2. {"finish", "usage"} \subseteq Shown \ {"data"}
    BY DEF Shown, Terminal
  <1>3. CASE kept /\ kept' = FALSE /\ Sends(<<"finish">>, "end")
    <2>1. Count(told) + 0 = due'
      BY <1>1, <1>3 DEF CountInv, At
    <2>2. <<"finish">> \in Seq(Shown) /\ Adds(<<"finish">>, 0) /\ told' = told \o <<"finish">>
      BY <1>1, <1>2, <1>3, AddsFacts, SingleFacts DEF Sends
    <2>3. FinishIsWhole'
      BY <1>1, <2>1, <2>2, ToldAdds
    <2> QED
      BY <1>1, <1>3, <2>3 DEF CountInv, Sends, Working, At
  <1>4. CASE ~kept /\ kept' = kept /\ Sends(<<"usage">>, "end")
    <2>1. /\ <<"usage">> \in Seq(Shown) /\ Adds(<<"usage">>, 0) /\ told' = told \o <<"usage">>
          /\ ~InFrame(<<"usage">>, {"finish"})
      BY <1>1, <1>2, <1>4, AddsFacts, SingleFacts DEF Sends
    <2>2. FinishIsWhole'
      BY <1>1, <2>1, ToldAdds
    <2> QED
      BY <1>1, <1>4, <2>2 DEF CountInv, Sends, Working, At
  <1>5. CASE ~kept /\ phase' = "final" /\ UNCHANGED <<kept, told>>
    <2>1. FinishIsWhole'
      BY <1>1, <1>5 DEF FinishIsWhole
    <2> QED
      BY <1>1, <1>5, <2>1 DEF CountInv, Working, At
  <1> QED
    BY <1>3, <1>4, <1>5 DEF RouteEnds

LEMMA QuietCounts ==
    ASSUME IInv, CountInv,
           \/ UpstreamEnds \/ RouteReturns \/ Sent \/ BodyEnds \/ ReadCancelled
           \/ SendFails \/ Abandoned \/ DroppedClosed \/ UNCHANGED vars
    PROVE  CountInv'
  <1>1. UNCHANGED <<plan, queue, calls, kept, told, due>>
    BY DEF UpstreamEnds, RouteReturns, Sent, BodyEnds, ReadCancelled, SendFails, Abandoned,
           DroppedClosed, vars, bridgeVars, encoderVars, routeVars, history
  <1>2. /\ At({"end"})' => At({"end"})
        /\ Working' => Working /\ (At({"encode"})' <=> At({"encode"}))
    <2>1. CASE UpstreamEnds
      BY <2>1 DEF UpstreamEnds, Working, At
    <2>2. CASE Sent
      BY <2>2 DEF Sent, IInv, TypeOK, Working, At
    <2>3. CASE RouteReturns \/ BodyEnds \/ ReadCancelled \/ SendFails \/ Abandoned
      BY <2>3 DEF RouteReturns, BodyEnds, ReadCancelled, SendFails, Abandoned, Working, At
    <2>4. CASE DroppedClosed \/ UNCHANGED vars
      BY <2>4 DEF DroppedClosed, vars, Working, At
    <2> QED
      BY <2>1, <2>2, <2>3, <2>4
  <1>3. FinishIsWhole'
    BY <1>1 DEF CountInv, FinishIsWhole
  <1>4. Working' => Pending' = Pending
    BY <1>1, <1>2 DEF Pending, PayloadOf
  <1>5. Count(told') = Count(told)
    BY <1>1
  <1> QED
    BY <1>1, <1>2, <1>3, <1>4, <1>5 DEF CountInv

LEMMA CountStep == IInv /\ CountInv /\ [Next]_vars => CountInv'
  <1> SUFFICES ASSUME IInv, CountInv, [Next]_vars  PROVE CountInv'
    OBVIOUS
  <1>1. CASE \E batch \in IF plan.raw THEN RawFrames(plan) ELSE SemanticFrames : Frame(batch)
    BY <1>1, FrameCounts
  <1>2. CASE Malformed \/ EncoderRejects \/ UpstreamFails
    <2>1. Raises /\ due' = due
      BY <1>2 DEF Malformed, EncoderRejects, UpstreamFails
    <2> QED
      BY <2>1, RaisesCounts
  <1>3. CASE Encode
    BY <1>3, EncodeCounts
  <1>4. CASE BridgeEnds
    BY <1>4, BridgeEndsCounts
  <1>5. CASE RouteEnds
    BY <1>5, RouteEndsCounts
  <1>6. CASE \/ UpstreamEnds \/ RouteReturns \/ Sent \/ BodyEnds \/ ReadCancelled
             \/ SendFails \/ Abandoned \/ DroppedClosed \/ UNCHANGED vars
    BY <1>6, QuietCounts
  <1> QED
    BY <1>1, <1>2, <1>3, <1>4, <1>5, <1>6 DEF Next

-----------------------------------------------------------------------------
(* The theorems.                                                           *)

THEOREM StreamInv == Spec => []IInv
  BY InitInv, StepInv, PTL DEF Spec

\* The places of the chain of generators and all they hold back stay in their
\* types, and the lease is returned exactly when the request is over.
THEOREM StreamTypes == Spec => []TypeOK
  <1>1. IInv => TypeOK
    BY DEF IInv
  <1> QED
    BY <1>1, StreamInv, PTL

\* Every client of a stream that ends by itself is told how the generation
\* ended: one terminal from encode_stream and the route, and it is the last word
\* where they hold it back.
THEOREM StreamOneTerminal == Spec => []OneTerminal
  <1>1. IInv => OneTerminal
    BY DEF IInv, OneTerminal, HeldInv, ToldInv, At
  <1> QED
    BY <1>1, StreamInv, PTL

\* No failure of upstream, frame, encoder or route is told as a finished
\* generation, whatever was held back when it struck.
THEOREM FinishMeansFinished == Spec => []FinishIsMeant
  <1>1. IInv => FinishIsMeant
    BY DEF IInv, MeantInv
  <1> QED
    BY <1>1, StreamInv, PTL

\* What the client takes for a finished generation is one, and whole: every
\* piece of data and every call that the bridge accepted was told before the
\* terminal, however the encoder and the route held them back.
THEOREM FinishesAreTrue == Spec => []FinishIsTrue
  <1>1. Spec => []CountInv
    BY StreamInv, CountInit, CountStep, PTL DEF Spec
  <1>2. IInv /\ CountInv => FinishIsTrue
    BY DEF IInv, MeantInv, CountInv, FinishIsTrue
  <1> QED
    BY <1>1, <1>2, StreamInv, PTL

\* RequestContext.finalize releases the lease of a completed stream on its
\* router only when the upstream iterator is closed.
THEOREM LeaseEndsLast == Spec => []LeaseOutlivesStream
  <1>1. IInv => LeaseOutlivesStream
    BY DEF IInv, SourceInv
  <1> QED
    BY <1>1, StreamInv, PTL
=============================================================================
