---------------------------- MODULE Conversation ----------------------------
(***************************************************************************)
(* The runs of an agent on one session that keeps its history: a history   *)
(* provider injects what it stored unless the caller's input replays it,   *)
(* compaction cuts it for this request only, and what the run added is     *)
(* stored when it succeeds.                                                *)
(*                                                                         *)
(* The caller sends new messages, behind as many of the latest messages of *)
(* the conversation as it likes to replay.  The system prompt is not a     *)
(* message of the history, and messages carry no ids.                      *)
(***************************************************************************)
EXTENDS Compaction

CONSTANTS
    Pipelines,    \* the compaction strategies an agent may be built with
    Retentions,   \* how many messages the store keeps; Unlimited: all of them
    Unlimited,
    Openings,     \* what a caller may say until a run completed, and after that
    NewInputs,
    Replies,      \* what a run may add: replies, with the calls it executed
    MaxReplay,    \* bound: how many messages a caller replays that does not replay all
    ReuseOpenIds, \* may the model use the id of a call that is still open?
    MaxRuns       \* bound: runs

ASSUME ConversationAssumption ==
    /\ Pipelines \subseteq Seq(Strategy)
    /\ Unlimited \notin Nat
    /\ Retentions \subseteq Nat \cup {Unlimited}
    /\ Openings \cup NewInputs \cup Replies \subseteq Seq(Message)
    /\ MaxReplay \in Nat
    /\ ReuseOpenIds \in BOOLEAN
    /\ MaxRuns \in Nat

VARIABLES
    pipeline,     \* the strategy of this agent
    retention,    \* max_messages of the history store
    stored,       \* the messages the history provider keeps
    transcript,   \* the messages of the runs that completed
    request,      \* of the run in flight or the last one, see Prepare
    inFlight,     \* is a run between before_run and after_run?
    runs          \* how many have begun

vars == <<pipeline, retention, stored, transcript, request, inFlight, runs>>

LastN(s, n) == SubSeq(s, Len(s) - n + 1, Len(s))
Trim(s) == IF retention = Unlimited \/ Len(s) <= retention THEN s ELSE LastN(s, retention)

OpenIds(ms) == {s.part.id : s \in PairToolExchanges(ms).open}

NoRequest == [input |-> <<>>, new |-> <<>>, base |-> <<>>, history |-> <<>>]

Init ==
    /\ pipeline \in Pipelines
    /\ retention \in Retentions
    /\ stored = <<>>
    /\ transcript = <<>>
    /\ request = NoRequest
    /\ inFlight = FALSE
    /\ runs = 0

-----------------------------------------------------------------------------
(***************************************************************************)
(* Where stored is found in the input: [kind, start or overlap].           *)
(***************************************************************************)
CouldBeAReplay(ms) == \E i \in DOMAIN ms : ms[i].role # "user"

\* Only a list at its cap can have been trimmed.
IsWindow(ms) == retention # Unlimited /\ Len(ms) >= retention

\* The starts at which the input holds all of ms, with more behind it.
Blocks(ms, input) ==
    {start \in 0 .. Len(input) - Len(ms) - 1 : SubSeq(input, start + 1, start + Len(ms)) = ms}

\* At the start of the input, else, for a window, the last occurrence.
BlockStart(ms, input) ==
    LET blocks == Blocks(ms, input)
    IN  CASE 0 \in blocks -> 0
          [] 0 \notin blocks /\ IsWindow(ms) /\ blocks # {} -> Max(blocks)
          [] OTHER -> -1

\* (mutant) the shortest.
TrailingOverlap_Shortest(ms, input) ==
    LET overlaps == {n \in 1 .. Min({Len(ms), Len(input) - 1}) :
                       LastN(ms, n) = SubSeq(input, 1, n) /\ (n = 1 => Last(ms).role # "user")}
    IN  IF overlaps = {} THEN 0 ELSE Min(overlaps)

\* The longest end of ms the input begins with, but for one user message.
TrailingOverlap(ms, input) ==
    Max({0} \cup {n \in 1 .. Min({Len(ms), Len(input) - 1}) :
                    /\ LastN(ms, n) = SubSeq(input, 1, n)
                    /\ n = 1 => Last(ms).role # "user"})

\* How much of ms the request still needs, and how much of input is new.
Align(ms, input) ==
    LET block == BlockStart(ms, input)
        overlap == TrailingOverlap(ms, input)
        replay == ms # <<>> /\ input # <<>> /\ CouldBeAReplay(ms)
    IN  CASE ~replay -> [inject |-> ms, new |-> input]
          [] replay /\ block >= 0 ->
               [inject |-> <<>>, new |-> SubSeq(input, block + Len(ms) + 1, Len(input))]
          [] replay /\ block < 0 ->
               [inject |-> SubSeq(ms, 1, Len(ms) - overlap),
                new |-> SubSeq(input, overlap + 1, Len(input))]

-----------------------------------------------------------------------------
\* The caller's duty: it answers calls that are open, and says something.
Answers(ms, input) ==
    \A i \in DOMAIN input : \A j \in DOMAIN input[i].parts :
        input[i].parts[j].kind = "result" => input[i].parts[j].id \in OpenIds(ms)

\* What makes a replay recognizable: the caller says something, in messages of
\* its own; it does not compose the last message of a reply, which is no user's.
Recognizable ==
    /\ <<>> \notin Openings \cup NewInputs \cup Replies
    /\ \A reply \in Replies : /\ Last(reply).role # "user"
                               /\ \A new \in NewInputs : Last(reply) \notin ToSet(new)

\* A run begins: history is injected, compacted, and sent ahead of the input.
Prepare(new, k) ==
    /\ ~inFlight
    /\ runs < MaxRuns
    /\ k <= Len(transcript)
    /\ Answers(transcript, new)
    /\ LET input == LastN(transcript, k) \o new
           base == Align(stored, input).inject
       IN  request' = [input |-> input, new |-> new, base |-> base,
                       history |-> FinalizeCompaction(base, Pipeline(base, pipeline),
                                                      input)]
    /\ inFlight' = TRUE
    /\ runs' = runs + 1
    /\ UNCHANGED <<pipeline, retention, stored, transcript>>

\* It succeeds: the input that is not a replay and all of the reply are stored.
Complete(reply) ==
    /\ inFlight
    /\ ReuseOpenIds \/ OpenIds(transcript \o request.new)
                         \cap {s.part.id : s \in {t \in ToSet(Sites(reply)) : t.part.kind = "call"}}
                       = {}
    /\ stored' = Trim(stored \o Align(stored, request.input).new \o reply)
    /\ transcript' = transcript \o request.new \o reply
    /\ inFlight' = FALSE
    /\ UNCHANGED <<pipeline, retention, request, runs>>

\* It fails: nothing is stored.
Fail ==
    /\ inFlight
    /\ inFlight' = FALSE
    /\ UNCHANGED <<pipeline, retention, stored, transcript, request, runs>>

Next ==
    \/ \E new \in IF transcript = <<>> THEN Openings ELSE NewInputs :
         \E k \in 0 .. MaxReplay \cup {Len(transcript)} : Prepare(new, k)
    \/ \E reply \in Replies : Complete(reply)
    \/ Fail

Spec == Init /\ [][Next]_vars

-----------------------------------------------------------------------------
(***************************************************************************)
(* Properties.                                                             *)
(***************************************************************************)
Sent == request.history \o request.input

\* Every call and result that compaction leaves in the history has its other
\* half in the request, whichever strategies cut it and whatever the repair put
\* back (finalize_compaction): a provider refuses a request with half of one.
NoHalfExchange ==
    LET paired == PairedSites(Sent)
    IN  \A s \in ToSet(Sites(request.history)) : IsToolPart(s.part) => s \in paired

\* Do a call and a result with its id, neither a system's, come in this order?
Exchanged(ms, s, t) ==
    /\ s.part.kind = "call" /\ t.part.kind = "result" /\ s.part.id = t.part.id
    /\ ms[s.mi].role # "system" /\ ms[t.mi].role # "system"

\* Does the list hold something to react to: a message with more to it than
\* halves of exchanges, or an exchange?
Answerable(ms) ==
    LET sites == Sites(ms)
    IN  \/ \E i \in DOMAIN ms : ms[i].role \notin {"system", "tool"} /\ Plain(ms[i]).parts # <<>>
        \/ \E m, n \in DOMAIN sites : m < n /\ Exchanged(ms, sites[m], sites[n])

\* Does s reach the model, and with it the other half, if it is one of an exchange?
Reaches(ms, s) ==
    /\ ms[s.mi].role # "system"
    /\ Renders(ms[s.mi].role, s.part)
    /\ IsToolPart(s.part) => s \in PairedSites(ms)

\* Is every call and result of the input part of an exchange, and no system's?
InputWhole ==
    LET whole == request.base \o request.input
    IN  \A s \in ToSet(Sites(whole)) :
          s.mi > Len(request.base) /\ IsToolPart(s.part)
            => s \in PairedSites(whole) /\ whole[s.mi].role # "system"

\* Compaction never reduces a conversation to nothing the model can react to
\* (ensure_non_system_message): whatever it cuts and drops, a part is sent that
\* reaches the model, and half an exchange only with the other half.
NeverSystemOnly ==
    InputWhole /\ Answerable(request.base \o request.input)
      => \E s \in ToSet(Sites(Sent)) : Reaches(Sent, s)

\* Is m what a strategy or the repair may leave of b?
IsReduced(m, b) ==
    /\ m.role = b.role
    /\ \A i \in DOMAIN m.parts : \E j \in DOMAIN b.parts :
         \/ m.parts[i] = b.parts[j]
         \/ m.parts[i] = [b.parts[j] EXCEPT !.body = Omitted]

\* The history that is sent keeps its order and says nothing twice: it is a
\* reduced part of what there was, but for calls the input answers, at the end;
\* and the system messages it begins with stay in front.
InOrder ==
    LET h == request.history
        IsCalls(m) == \A j \in DOMAIN m.parts : m.parts[j].kind = "call"
        After(from, m) == SelectInSubSeq(request.base, from + 1, Len(request.base),
                                         LAMBDA b : IsReduced(m, b))
        Place == FoldLeft(LAMBDA acc, m : IF acc.ok /\ After(acc.at, m) # 0
                                          THEN [acc EXCEPT !.at = After(acc.at, m), !.n = @ + 1]
                                          ELSE [acc EXCEPT !.ok = FALSE],
                          [at |-> 0, n |-> 0, ok |-> TRUE], h)
    IN  /\ \A i \in Place.n + 1 .. Len(h) : IsCalls(h[i])
        /\ h # <<>> /\ request.base[1].role = "system" /\ (\E i \in DOMAIN h : h[i].role = "system")
             => h[1].role = "system"

\* A result in the input answers, in the request, the call it answers in the
\* conversation (reinstate_calls_answered_by_pending): cutting the history
\* attaches it to no other call's name and arguments.
ResultsKeepTheirCalls ==
    LET Answered(ms, n) ==
            {[at |-> <<p.result.mi - n, p.result.ci>>, call |-> p.call.part] :
               p \in {q \in PairToolExchanges(ms).pairs : q.result.mi > n}}
    IN  Answered(request.base \o request.input, Len(request.base))
          = Answered(Sent, Len(request.history))

\* However much of it the caller replays (align), the conversation is stored
\* once and whole, or the last of it in a store that is trimmed; and what is
\* given to compaction and sent is its end, from there or from earlier on, with
\* the new input behind.
TurnsKept ==
    /\ stored = Trim(transcript)
    /\ inFlight => \E n \in Len(stored) .. Len(transcript) :
                     request.base \o request.input = LastN(transcript, n) \o request.new
=============================================================================
