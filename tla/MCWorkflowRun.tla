--------------------------- MODULE MCWorkflowRun ---------------------------
(***************************************************************************)
(* Small workflows for TLC.                                                *)
(***************************************************************************)
EXTENDS WorkflowRun

CONSTANTS a, b, c, d, plain, special, broken, stray, key

\* Effects.
Silent == [sends |-> <<>>, asks |-> "none", halts |-> FALSE, writes |-> {}, ok |-> TRUE]
Sends(l) == [Silent EXCEPT !.sends = <<[label |-> l, to |-> AllEdges]>>]
SendsTo(t) == [Silent EXCEPT !.sends = <<[label |-> plain, to |-> t]>>]
Failing == [Silent EXCEPT !.ok = FALSE]
Writing(f) == [f EXCEPT !.writes = {key}]
Halting(f) == [f EXCEPT !.halts = TRUE]
Relaying(f) == [f EXCEPT !.asks = "source"]
Asking(f) == [f EXCEPT !.asks = "self"]

Always(ts) == [l \in Labels |-> ToSet(ts)]
Edge(s, t) == [kind |-> "single", sources |-> <<s>>, targets |-> <<t>>, select |-> Always(<<t>>)]
FanOut(s, ts) == [kind |-> "fanout", sources |-> <<s>>, targets |-> ts, select |-> Always(ts)]
FanIn(ss, t) == [kind |-> "fanin", sources |-> ss, targets |-> <<t>>, select |-> Always(<<t>>)]

-----------------------------------------------------------------------------
\* a broadcasts to b and c, d joins them and may start another round.  b asks
\* the caller before it delivers, c may ask on the side, b and d may fail half
\* way through, b may halt the run.
DiamondIds == <<a, b, c, d>>
DiamondGroups == <<FanOut(a, <<b, c>>), FanIn(<<b, c>>, d), Edge(d, a)>>
DiamondEffects ==
    [e \in {a, b, c, d} |->
       CASE e = a -> {Sends(plain)}
         [] e = b -> {Asking(Silent), Sends(plain), Writing(Halting(Sends(plain))),
                      Writing(Failing)}
         [] e = c -> {Writing(Sends(plain)), Asking(Sends(plain))}
         [] e = d -> {Silent, Sends(plain), Asking(Silent), Writing(Failing)}]

-----------------------------------------------------------------------------
\* a selects by label among b and the request port c (on a broken payload the
\* selection fails, on a stray one it names an id outside its group); b reaches
\* c over a conditional edge, directly, or not at all; c relays to the caller.
RoutedIds == <<a, b, c>>
RoutedGroups ==
    <<[FanOut(a, <<b, c>>) EXCEPT !.select =
         [l \in Labels |-> CASE l = plain   -> {b}
                             [] l = special -> {b, c}
                             [] l = broken  -> RoutingError
                             [] l = stray   -> {b, Unregistered}]],
      [Edge(b, c) EXCEPT !.select = [l \in Labels |-> IF l = special THEN {c} ELSE {}]]>>
RoutedEffects ==
    [e \in {a, b, c} |->
       CASE e = a -> {Sends(l) : l \in Labels} \cup {Silent}
         [] e = b -> {Silent, Sends(plain), Sends(special), SendsTo(c), SendsTo(Unregistered)}
         [] e = c -> {Relaying(Silent)}]

-----------------------------------------------------------------------------
\* Scenarios in which the code departs from what it documents.

\* A request port as the start node.
PortIds == <<a>>
NoGroups == <<>>
PortEffects == [e \in {a} |-> {Relaying(Silent)}]

\* a and b each ask; a, answered, may halt and fail; b, answered, sends to a.
PausedIds == <<a, b>>
PausedGroups == <<Edge(a, b)>>
PausedEffects ==
    [e \in {a, b} |->
       IF e = a THEN {Asking(Sends(plain)), Silent, Halting(Writing(Failing))}
       ELSE {Asking(Silent), SendsTo(a)}]

\* The barrier d also has an ordinary edge from a.
SideEdgeGroups == <<FanOut(a, <<b, c, d>>), FanIn(<<b, c>>, d)>>
SideEdgeEffects ==
    [e \in {a, b, c, d} |-> IF e = c THEN {Silent, Sends(plain)} ELSE {Sends(plain)}]
=============================================================================
