--------------------------- MODULE MCConversation ---------------------------
(***************************************************************************)
(* Small conversations for TLC.                                            *)
(***************************************************************************)
EXTENDS Conversation

CONSTANTS c1, c2, none

Costs == [k \in Kinds \cup {Omitted} |->
            CASE k \in {"text", "call"} -> 1 [] k = "result" -> 2 [] OTHER -> 0]

Text(t) == [kind |-> "text", id |-> none, body |-> t]
Other(k) == [kind |-> k, id |-> none, body |-> "x"]
Call(c, b) == [kind |-> "call", id |-> c, body |-> b]
Result(c) == [kind |-> "result", id |-> c, body |-> "x"]
Msg(r, ps) == [role |-> r, parts |-> ps]

User(ps) == Msg("user", ps)
Assistant(ps) == Msg("assistant", ps)
Tool(ps) == Msg("tool", ps)

SmallBodies == {"yes", "ok", "x", "y", Omitted}

\* Strategies.
Truncate(n, p) == [kind |-> "truncation", limit |-> n, preserve |-> p]
Window(n, p) == [kind |-> "window", limit |-> n, preserve |-> p]
Budget(n, p) == [kind |-> "budget", limit |-> n, preserve |-> p]
Evict(n) == [kind |-> "results", limit |-> n]
Context(n, e, t) ==
    [kind |-> "contextWindow", limit |-> n, eviction |-> e, truncation |-> t, preserve |-> FALSE]

SmallPipelines ==
    {<<>>, <<Truncate(1, FALSE)>>, <<Truncate(3, TRUE)>>, <<Window(0, FALSE)>>,
     <<Window(1, FALSE)>>, <<Window(2, TRUE)>>, <<Budget(2, FALSE)>>, <<Budget(3, TRUE)>>,
     <<Context(0, 2, 4)>>, <<Evict(1), Window(3, FALSE)>>}

NoCap == -1
SmallRetentions == {NoCap, 3}

\* Inputs and replies.
SmallOpenings ==
    {<<User(<<Text("yes")>>)>>, <<Msg("system", <<Text("yes")>>), User(<<Other("file")>>)>>}
SmallInputs ==
    {<<User(<<Text("yes")>>)>>,
     <<User(<<Other("file")>>)>>,
     <<Tool(<<Result(c1)>>)>>,
     <<Tool(<<Result(c2), Result(c1)>>), User(<<Text("yes")>>)>>}
\* The caller sends its system message again.
RepeatedSystem ==
    SmallInputs \cup {<<Msg("system", <<Text("yes")>>), User(<<Other("file")>>)>>}
SmallReplies ==
    {<<Assistant(<<Text("ok")>>)>>,
     <<Assistant(<<Other("reasoning"), Call(c1, "x")>>)>>,
     <<Assistant(<<Call(c1, "y"), Text("ok"), Call(c2, "x")>>)>>,
     <<Assistant(<<Call(c1, "x")>>), Tool(<<Result(c1)>>), Assistant(<<Other("reasoning")>>)>>}

\* What the theorems about what is stored ask of callers and models.
ASSUME Recognizable
=============================================================================
