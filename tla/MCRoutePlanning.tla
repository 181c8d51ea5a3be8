---------------------------- MODULE MCRoutePlanning ----------------------------
(***************************************************************************)
(* Two providers that list a model in common, a family of two dates, and   *)
(* models whose windows and features are known or not.                     *)
(***************************************************************************)
EXTENDS RoutePlanning

MCOrder == <<"a", "b">>

Tier(prompt, context, price) ==
    [prompt |-> prompt, context |-> context, input |-> price, out |-> price, cached |-> <<>>, written |-> <<>>]
Prices(default, long) == [default |-> default, long |-> long]
Entry(tools, vision, prompt, window, output, prices) ==
    [wrong |-> "nothing", picker |-> TRUE, kind |-> "chat", prompt |-> prompt, window |-> window, output |-> output,
     supports |-> [tools |-> tools, vision |-> vision, files |-> "unknown", thinking |-> "unknown"],
     efforts |-> {}, endpoints |-> {}, knownFor |-> {}, title |-> <<>>,
     prices |-> prices]

Old == <<"a", "opus-1">>
New == <<"a", "opus-2">>
Mini == <<"a", "mini">>
OtherMini == <<"b", "mini">>
OtherNew == <<"b", "opus-2">>

MCParts == [i \in {"opus", "opus-1", "opus-2", "mini", "mini-2", "complete"} |->
    [words |-> CASE i \in {"mini", "mini-2"} -> <<"opus", "mini">> [] i = "complete" -> <<i>> [] OTHER -> <<"opus">>,
     date |-> CASE i = "opus-1" -> 1 [] i \in {"opus-2", "mini-2"} -> 2 [] OTHER -> 0]]
MCAlphabet == <<"Opus ", "a", "b", "mini">>

Hidden == <<"a", "complete">>
Broken == <<"b", "mini-2">>
MCNames == {Old, New, Mini, OtherMini, OtherNew, Hidden, Broken}
\* A model of a known prompt that is larger than its total window; one whose long window is dearer, and one whose long window costs no
\* more; one of a total window alone; one that says nothing.
MCListed(n) ==
    CASE n = Old -> [Entry("yes", "no", {10}, {9}, {10}, Prices({}, {})) EXCEPT !.endpoints = {{"chat", "responses"}}]
      [] n = New -> [Entry("yes", "yes", {8}, {23}, {}, Prices({Tier({8}, {}, <<1>>)}, {Tier({}, {20}, <<2>>)}))
                        EXCEPT !.knownFor = {"claude"}, !.efforts = {<<"high", "low", "none">>}]
      [] n = Mini -> Entry("no", "yes", {}, {5}, {4}, Prices({}, {}))
      [] n = OtherMini -> Entry("unknown", "unknown", {}, {}, {}, Prices({}, {}))
      [] n = OtherNew -> [Entry("yes", "unknown", {20}, {}, {4}, Prices({Tier({12}, {30}, <<1>>)}, {Tier({20}, {}, <<1>>)}))
                             EXCEPT !.efforts = {<<>>}]
      [] n = Hidden -> [Entry("yes", "yes", {90}, {}, {}, Prices({}, {})) EXCEPT !.wrong = "detail", !.kind = "completion"]
      [] n = Broken -> [Entry("yes", "yes", {90}, {}, {}, Prices({}, {})) EXCEPT !.wrong = "detail"]
\* The same title of two dates and of a variant, and a larger number in it.
MCTitle(n) == <<[number |-> <<>>, text |-> "Opus "], [number |-> IF n = OtherMini THEN <<4, 10>> ELSE <<4, 2>>, text |-> ""]>>
MCEntries == [n \in MCNames |-> [MCListed(n) EXCEPT !.title = MCTitle(n)]]

MCListings == {<<Old, New, Hidden, Mini, OtherMini, OtherNew>>, <<New, Mini, OtherNew, OtherMini>>,
               <<Old, New, Mini, OtherNew, Broken>>}
MCAliases == [n \in {<<"review">>} |-> Mini]
MCNative == [p \in Providers |-> IF p = "a" THEN 1 ELSE 2]

Profile4(fast, general, coding, deep) ==
    [t \in {"fast", "general", "coding", "deep_reasoning"} |->
        CASE t = "fast" -> fast [] t = "general" -> general [] t = "coding" -> coding [] OTHER -> deep]
Override(key, prompt, output, window) == [key |-> key, prompt |-> prompt, output |-> output, window |-> window]
Config(priorities, mode, chain, models, strict, strategy, most, overrides) ==
    [priorities |-> priorities, mode |-> mode, chain |-> chain, tasks |-> models, strict |-> strict,
     router |-> Mini, strategy |-> strategy, maxRetries |-> most, overrides |-> overrides]
MCSettings ==
    {Config(<<Old, OtherMini, New>>, "chain", <<Mini, Old, OtherNew>>, Profile4(Mini, Mini, Mini, Mini), TRUE, "priority", 2, <<>>),
     Config(<<OtherNew, New>>, "tasks", <<>>, Profile4(Mini, Old, New, OtherNew), TRUE, "same-model", 2,
            <<Override(<<"opus-2">>, {10}, {}, {}), Override(OtherNew, {}, {}, {24})>>),
     [Config(<<New, Old, Mini, OtherMini>>, "tasks", <<>>, Profile4(OtherMini, Old, OtherMini, New), FALSE, "priority", 2, <<>>)
         EXCEPT !.router = New],
     Config(<<Mini>>, "tasks", <<>>, Profile4(Old, Old, Old, Old), FALSE, "none", 1, <<Override(Old, {}, {}, {6})>>)}

Ask(name, needs, tokens, output, previous) ==
    [name |-> name, needs |-> needs, tokens |-> tokens, output |-> output, previous |-> previous]
Needs == SUBSET {"tools", "vision", "files"} \cup {{"reasoning"}}
MCRequests ==
    {Ask(AutoModel, needs, tokens, {}, FALSE) : needs \in Needs, tokens \in {1, 6, 7, 50}}
        \cup {Ask(AutoModel, needs, 7, {8}, FALSE) : needs \in Needs}
        \cup {Ask(name, needs, 1, {}, previous) :
                  name \in {Old, New, OtherNew, <<"a", "opus">>, <<"mini">>, <<"opus">>, <<"review">>, <<"none">>},
                  needs \in {{}, {"tools"}}, previous \in BOOLEAN}
=============================================================================
