--------------------------- MODULE MCConversation ---------------------------
(***************************************************************************)
(* Clients of every protocol, and the bindings of a Copilot account and of *)
(* an OpenAI account that answers with a dated name of the model.          *)
(***************************************************************************)
EXTENDS Conversation

MCBinding(id, provider, protocol, private, reports) ==
    [id |-> id, provider |-> provider, protocol |-> protocol, private |-> private, reports |-> reports]

MCBindings ==
    {MCBinding("copilot-messages", "copilot", "messages", FALSE, "dated"),
     MCBinding("copilot-chat", "copilot", "chat", TRUE, "dated"),
     MCBinding("copilot-responses", "copilot", "responses", FALSE, "dated"),
     MCBinding("openai-chat", "openai", "chat", FALSE, "dated"),
     MCBinding("openai-responses", "openai", "responses", FALSE, "dated"),
     MCBinding("deepseek-chat", "deepseek", "chat", FALSE, Upstream)}

\* Models of every family; the catalog of Copilot is cold, lists efforts or lists none.
MCUsual == ModelFacts("gpt-5", {{"none", "low", "medium", "high"}}, TRUE, 64000)
MCModels ==
    {MCUsual,
     ModelFacts("gpt-5.4", {}, TRUE, 64000),
     ModelFacts("gpt-5.4", {{"low", "medium", "high", "xhigh"}}, TRUE, 64000),
     ModelFacts("claude", {}, TRUE, 16384),
     ModelFacts("claude", {{"low", "medium", "high", "max"}}, TRUE, 32000),
     ModelFacts("claude", {{}}, FALSE, 32000),
     ModelFacts("legacy", {}, TRUE, 16384),
     ModelFacts("grok", {}, TRUE, 16384),
     ModelFacts("grok", {{"low", "high"}}, TRUE, 64000),
     ModelFacts("other", {{}}, TRUE, 64000),
     ModelFacts("other", {{"medium", "high"}}, TRUE, 64000)}

\* Counts that are there or not, or zero: DeepSeek's agree with the details or not, Copilot
\* bills what its Responses endpoint leaves empty, Messages streams say the input first.
MCOptional(n) == {{}, {n}}
MCCreated(n, u) == [u EXCEPT !.created = {n}]
MCMessagesUsages ==
    {WireUsage(Usage(i, o, {}, c, {})) : i \in MCOptional(3), o \in {{}, {1}, {4}}, c \in MCOptional(2)}
MCChatUsages ==
    {[WireUsage(Usage(i, {4}, t, c, r)) EXCEPT !.hit = h, !.miss = m, !.thought = d] :
        i \in MCOptional(3), t \in MCOptional(7), c \in MCOptional(2), r \in MCOptional(1),
        h \in {{}, {1}, {2}}, m \in MCOptional(1), d \in {{}, {1}, {2}}}
MCChatUpdates == {WireUsage(Usage({3}, o, {}, c, {})) : o \in {{}, {1}, {4}}, c \in MCOptional(2)}
MCResponsesUsages ==
    {WireUsage(Usage(i, o, t, c, r)) :
        i \in {{}, {0}, {3}}, o \in {{}, {0}, {4}}, t \in {{}, {0}, {7}}, c \in {{}, {0}, {2}}, r \in MCOptional(1)}
MCBills == {Bill(0, 0, 0, 0), Bill(1, 2, 0, 4), Bill(1, 1, 1, 4), Bill(3, 0, 0, 0)}
MCOne(usages) == {<<>>} \cup {<<u>> : u \in usages}

MCCosts ==
    [messages |->
        {Cost(FALSE, <<u>>, {}) : u \in MCMessagesUsages \cup {MCCreated(1, u) : u \in MCMessagesUsages}}
            \cup {Cost(TRUE, s, {}) : s \in MCOne(MCMessagesUsages) \cup (MCMessagesUsages \X MCMessagesUsages)},
     chat |->
        {Cost(s, u, {}) : s \in BOOLEAN, u \in MCOne(MCChatUsages)}
            \cup {Cost(TRUE, u, {}) : u \in MCChatUpdates \X MCChatUpdates},
     responses |-> {Cost(s, u, b) : s \in BOOLEAN, u \in MCOne(MCResponsesUsages), b \in {{}} \cup {{b} : b \in MCBills}}]
=============================================================================
