---------------------------- MODULE ToolApproval ----------------------------
(***************************************************************************)
(* Standing approvals and one-at-a-time prompts (harness/                  *)
(* tool_approval.rs).  ToolApprovalAgent stands between a caller and an    *)
(* inner agent whose turns end with a batch of requests to approve tool    *)
(* calls.  It answers what a rule covers itself, shows the caller one of   *)
(* the others at a time, and sends the answers to the inner agent together *)
(* in the run that finds no request left in its queue.                     *)
(*                                                                         *)
(* What it keeps is in the session.  A run works on a copy of that state,  *)
(* local, and saves it: once before the inner agent runs, with everything  *)
(* that is about to be sent, and again when the inner agent has answered.  *)
(* A run that fails or is dropped between the two leaves the first copy.   *)
(***************************************************************************)
EXTENDS Naturals, Sequences, FiniteSets

CONSTANTS
    Calls,          \* tool calls, each a tool with its arguments
    ToolOf,         \* the tool a call is of
    AutoApproved,   \* the calls an auto-approval rule approves
    MaxRequests,    \* requests the inner agent makes
    MaxBatch,       \* requests in one turn of it
    MaxTexts,       \* messages the caller sends
    MaxFailures,    \* runs that fail or are dropped
    MaxReruns,      \* max_auto_approval_iterations
    Streaming,      \* are runs streamed?
    CanLeave,       \* may a stream's consumer go when the inner run has ended?
    CanSkip,        \* may the caller go on without answering what it was asked?
    EarlyChoices    \* may "always approve" be chosen while a run is going on?

ASSUME ConfigAssumption ==
    /\ ToolOf \in [Calls -> STRING] /\ AutoApproved \subseteq Calls
    /\ {MaxRequests, MaxBatch, MaxTexts, MaxFailures} \subseteq Nat /\ MaxReruns \in Nat \ {0}
    /\ {Streaming, CanLeave, CanSkip, EarlyChoices} \subseteq BOOLEAN

VARIABLES
    call,       \* the calls requested, in the order of their requests' ids
    turn,       \* the turn of the inner agent that ended with a request, or 0
    stored,     \* ToolApprovalState, in the session
    local,      \* the copy of the run that is going on
    run,        \* that run: how far it is, its input, what it sent
    asked,      \* requests the caller was shown and has not answered
    retry,      \* answers of the run that failed last
    texts,      \* messages sent by the caller so far
    failures,
    said,       \* history: the caller's answer to each request, once accepted
    choices,    \* history: "always approve" choices not yet answered
    granted,    \* history: the calls such choices cover, once accepted
    delivered,  \* history: answers of completed inner runs
    heard,      \* history: the caller's messages in completed inner runs
    lost,       \* history: requests shown to a consumer that was gone
    whole,      \* history: requests that were shown with others of their turn
    skipped     \* history: has the caller left a request unanswered?

agent == <<stored, local, run>>
caller == <<asked, retry, texts, failures>>
history == <<said, choices, granted, delivered, heard, lost, whole, skipped>>
vars == <<call, turn, agent, caller, history>>

Ids == 1..MaxRequests
Minted == 1..Len(call)
\* edit: approved, for another call, which matters if there is a choice only.
Replies == {"approve", "reject", "edit"}
Scopes == {"none", "tool", "call"}

NoState == [rules |-> {}, queued |-> <<>>, collected |-> {}, held |-> <<>>,
            standing |-> [i \in Ids |-> "none"]]
Nothing == [answers |-> {}, texts |-> <<>>]
NoRun == [at |-> "idle", reply |-> <<>>, text |-> <<>>, pass |-> 0, batch |-> <<>>,
          sent |-> Nothing]

Init ==
    /\ call = <<>> /\ turn = [i \in Ids |-> 0]
    /\ stored = NoState /\ local = NoState /\ run = NoRun
    /\ asked = {} /\ retry = {} /\ texts = 0 /\ failures = 0
    /\ said = [i \in Ids |-> "none"] /\ choices = [i \in Ids |-> "none"]
    /\ granted = {} /\ delivered = {} /\ heard = <<>>
    /\ lost = {} /\ whole = {} /\ skipped = FALSE

-----------------------------------------------------------------------------
(* Rules, and the state they are kept in.                                  *)

\* What a rule of the scope covers that was chosen for call c.
Covered(scope, c) ==
    CASE scope = "tool" -> {d \in Calls : ToolOf[d] = ToolOf[c]}
      [] scope = "call" -> {c}
      [] OTHER -> {}

Answers(ids, approved) == {[id |-> i, approved |-> approved] : i \in ids}
IdsIn(answers) == {a.id : a \in answers}
InSeq(s) == {s[n] : n \in DOMAIN s}

\* What of a sequence is in a set, in its order.
Only(seq, S) ==
    LET f[n \in 0..Len(seq)] ==
          IF n = 0 THEN <<>>
          ELSE IF seq[n] \in S THEN Append(f[n - 1], seq[n]) ELSE f[n - 1]
    IN  f[Len(seq)]

\* (mutant) an answer that is repeated is collected beside the first.
Prepared_KeepsBoth(s, reply) ==
    [s EXCEPT
       !.rules = @ \cup UNION {Covered(s.standing[i], call[i]) :
                                 i \in {j \in DOMAIN reply : reply[j] = "approve"}},
       !.standing = [i \in Ids |-> IF i \in DOMAIN reply THEN "none" ELSE @[i]],
       !.collected = @ \cup {[id |-> i, approved |-> reply[i] # "reject"] : i \in DOMAIN reply}]

\* (mutant) the first answer to a request counts.
Prepared_KeepsFirst(s, reply) ==
    [s EXCEPT
       !.rules = @ \cup UNION {Covered(s.standing[i], call[i]) :
                                 i \in {j \in DOMAIN reply : reply[j] = "approve"}},
       !.standing = [i \in Ids |-> IF i \in DOMAIN reply THEN "none" ELSE @[i]],
       !.collected = @ \cup {[id |-> i, approved |-> reply[i] # "reject"] :
                                i \in DOMAIN reply \ IdsIn(s.collected)}]

\* prepare_inbound: answers are collected, one for each request, and a choice
\* makes a rule when the approval of its call comes back.
Prepared(s, reply) ==
    [s EXCEPT
       !.rules = @ \cup UNION {Covered(s.standing[i], call[i]) :
                                 i \in {j \in DOMAIN reply : reply[j] = "approve"}},
       !.standing = [i \in Ids |-> IF i \in DOMAIN reply THEN "none" ELSE @[i]],
       !.collected = {a \in @ : a.id \notin DOMAIN reply}
                     \cup {[id |-> i, approved |-> reply[i] # "reject"] : i \in DOMAIN reply}]

IsAutoApproved(s, i) == call[i] \in s.rules \cup AutoApproved
Open(s, ids) == Only(ids, {i \in InSeq(ids) : ~ IsAutoApproved(s, i)})
Covers(s, ids) == Answers({i \in InSeq(ids) : IsAutoApproved(s, i)}, TRUE)

\* drain_queue: what a rule approves by now is collected.
Drained(s) == [s EXCEPT !.queued = Open(s, @), !.collected = @ \cup Covers(s, s.queued)]

\* inject_collected: the messages for the inner agent, and what is kept then.
Injected(s, text) == [answers |-> s.collected, texts |-> s.held \o text]
Emptied(s) == [s EXCEPT !.collected = {}, !.held = <<>>]

\* decide: the rest of a batch is queued behind its first request, unless the
\* turn asks for something else as well.
Decided(s, ids, preserve) ==
    LET open == Open(s, ids)
    IN  [s EXCEPT !.collected = @ \cup Covers(s, ids),
                  !.queued = IF preserve \/ open = <<>> THEN @ ELSE @ \o Tail(open)]
Kept(s, ids, preserve) ==
    LET open == Open(s, ids)
    IN  IF preserve \/ open = <<>> THEN InSeq(open) ELSE {Head(open)}

-----------------------------------------------------------------------------
(* The caller.                                                             *)

\* always_approve: the choice is put into the session, and the caller given an
\* approval to answer with.
AlwaysApprove(i, scope) ==
    /\ i \in asked /\ scope # "none" /\ (run.at = "idle" \/ EarlyChoices)
    /\ stored' = [stored EXCEPT !.standing[i] = scope]
    /\ choices' = [choices EXCEPT ![i] = scope]
    /\ UNCHANGED <<call, turn, local, run, caller,
                   said, granted, delivered, heard, lost, whole, skipped>>

\* A run begins with answers, to what was asked or again to what the run that
\* failed had answered, and perhaps with a message.
Begin(reply, text) ==
    /\ run.at = "idle"
    /\ DOMAIN reply \subseteq asked \cup retry
    /\ asked \subseteq DOMAIN reply \/ CanSkip
    /\ \A i \in DOMAIN reply : reply[i] = "edit" => stored.standing[i] # "none"
    /\ texts + Len(text) <= MaxTexts
    /\ local' = Prepared(stored, reply)
    /\ run' = [NoRun EXCEPT !.at = "prepared", !.reply = reply, !.text = text]
    /\ texts' = texts + Len(text)
    /\ skipped' = (skipped \/ ~ asked \subseteq DOMAIN reply)
    /\ UNCHANGED <<call, turn, stored, asked, retry, failures,
                   said, choices, granted, delivered, heard, lost, whole>>

\* The run fails or is dropped.  What was prepared is gone; what was sent is
\* still in the session, and the caller may answer it again.
Abandon ==
    /\ run.at # "idle" /\ failures < MaxFailures
    /\ run' = NoRun /\ local' = NoState
    /\ failures' = failures + 1
    /\ retry' = IF run.at = "inner" THEN DOMAIN run.reply ELSE retry
    /\ UNCHANGED <<call, turn, stored, asked, texts, history>>

-----------------------------------------------------------------------------
(* A run.                                                                  *)

\* Requests reach the caller, unless it has left the stream; it may then repeat
\* its answers.
Show(ids, late) ==
    \E left \in BOOLEAN :
       /\ left => Streaming /\ CanLeave /\ ids # {}
       /\ asked' = IF left THEN late ELSE late \cup ids
       /\ lost' = IF left THEN lost \cup ids ELSE lost
       /\ retry' = IF left THEN DOMAIN run.reply ELSE {}

\* The caller's answers are in the session once the state has been saved.
Accept ==
    LET approved == {i \in DOMAIN run.reply : run.reply[i] = "approve"}
    IN  /\ said' = [i \in Ids |-> IF i \in DOMAIN run.reply THEN run.reply[i] ELSE said[i]]
        /\ choices' = [i \in Ids |-> IF i \in DOMAIN run.reply THEN "none" ELSE choices[i]]
        /\ granted' = granted \cup UNION {Covered(choices[i], call[i]) : i \in approved}

\* (mutant) the request that is shown stays in the queue.
Surface_KeepsQueued ==
    LET s == Drained(local)
    IN  /\ run.at = "prepared" /\ s.queued # <<>>
        /\ stored' = [s EXCEPT !.held = @ \o run.text]
        /\ Accept
        /\ Show({Head(s.queued)}, asked \ DOMAIN run.reply)
        /\ run' = NoRun /\ local' = NoState
        /\ UNCHANGED <<call, turn, texts, failures, delivered, heard, whole, skipped>>

\* A request is still queued: it is the answer to this run, whose other input
\* waits with what is collected.
Surface ==
    LET s == Drained(local)
    IN  /\ run.at = "prepared" /\ s.queued # <<>>
        /\ stored' = [s EXCEPT !.queued = Tail(@), !.held = @ \o run.text]
        /\ Accept
        /\ Show({Head(s.queued)}, asked \ DOMAIN run.reply)
        /\ run' = NoRun /\ local' = NoState
        /\ UNCHANGED <<call, turn, texts, failures, delivered, heard, whole, skipped>>

\* (mutant) the state is saved after what is collected has been taken from it.
CallInner_SavesEmptied ==
    LET s == Drained(local)
    IN  /\ run.at = "prepared" /\ s.queued = <<>>
        /\ stored' = Emptied(s)
        /\ local' = Emptied(s)
        /\ run' = [run EXCEPT !.at = "inner", !.sent = Injected(s, run.text)]
        /\ Accept
        /\ asked' = asked \ DOMAIN run.reply /\ retry' = {}
        /\ UNCHANGED <<call, turn, texts, failures, delivered, heard, lost, whole, skipped>>

\* (mutant) the inner agent is called although requests are queued.
CallInner_IgnoresQueue ==
    LET s == Drained(local)
    IN  /\ run.at = "prepared"
        /\ stored' = s
        /\ local' = Emptied(s)
        /\ run' = [run EXCEPT !.at = "inner", !.sent = Injected(s, run.text)]
        /\ Accept
        /\ asked' = asked \ DOMAIN run.reply /\ retry' = {}
        /\ UNCHANGED <<call, turn, texts, failures, delivered, heard, lost, whole, skipped>>

\* The inner agent is called.
CallInner ==
    LET s == Drained(local)
    IN  /\ run.at = "prepared" /\ s.queued = <<>>
        /\ stored' = s
        /\ local' = Emptied(s)
        /\ run' = [run EXCEPT !.at = "inner", !.sent = Injected(s, run.text)]
        /\ Accept
        /\ asked' = asked \ DOMAIN run.reply /\ retry' = {}
        /\ UNCHANGED <<call, turn, texts, failures, delivered, heard, lost, whole, skipped>>

Capped == run.pass >= MaxReruns

\* The inner agent's turn asks for one more approval, under an id of its own: the
\* batch that uses an id twice, which is refused, does not arise with the inner
\* agents of this repository.  A capped pass is streamed as it comes.
Ask(c) ==
    /\ run.at = "inner" /\ Len(run.batch) < MaxBatch /\ Len(call) < MaxRequests
    /\ call' = Append(call, c)
    /\ run' = [run EXCEPT !.batch = Append(@, Len(call'))]
    /\ IF Streaming /\ Capped
       THEN asked' = asked \cup {Len(call')} /\ whole' = whole \cup {Len(call')}
       ELSE UNCHANGED <<asked, whole>>
    /\ UNCHANGED <<turn, stored, local, retry, texts, failures,
                   said, choices, granted, delivered, heard, lost, skipped>>

\* The inner run has completed; its turn is known by its first request.
InnerDone ==
    /\ run.at = "inner"
    /\ turn' = [i \in Ids |-> IF i \in InSeq(run.batch) THEN Head(run.batch) ELSE turn[i]]
    /\ delivered' = delivered \cup run.sent.answers
    /\ heard' = heard \o run.sent.texts
    /\ UNCHANGED <<call, texts, failures, said, choices, granted, skipped>>

\* The last pass of a run that has auto-approved as often as it may goes to the
\* caller as it is.
EndCapped ==
    /\ Capped /\ InnerDone
    /\ stored' = local
    /\ run' = NoRun /\ local' = NoState
    /\ IF Streaming THEN UNCHANGED <<asked, retry, lost, whole>>
       ELSE Show(InSeq(run.batch), asked) /\ whole' = whole \cup InSeq(run.batch)

\* Every request was approved without asking: the inner agent goes on with it.
Rerun ==
    LET s == Decided(local, run.batch, FALSE)
    IN  /\ ~ Capped /\ InnerDone
        /\ run.batch # <<>> /\ Open(local, run.batch) = <<>>
        /\ stored' = s
        /\ local' = Emptied(s)
        /\ run' = [run EXCEPT !.pass = @ + 1, !.sent = Injected(s, <<>>), !.batch = <<>>]
        /\ UNCHANGED <<asked, retry, lost, whole>>

\* The caller gets what is left of the turn: all of it, if the turn asks for
\* something else as well (preserve).
Return(preserve) ==
    /\ ~ Capped /\ InnerDone
    /\ preserve \/ run.batch = <<>> \/ Open(local, run.batch) # <<>>
    /\ stored' = Decided(local, run.batch, preserve)
    /\ Show(Kept(local, run.batch, preserve), asked)
    /\ whole' = IF preserve THEN whole \cup InSeq(run.batch) ELSE whole
    /\ run' = NoRun /\ local' = NoState

InnerEnds == EndCapped \/ Rerun \/ \E preserve \in BOOLEAN : Return(preserve)

Inputs == UNION {[D -> Replies] : D \in SUBSET (asked \cup retry)}
\* A message that comes with nothing asked goes straight to the inner agent.
Messages == {<<>>} \cup {<<texts + 1>> : i \in asked}

Next ==
    \/ \E i \in asked, scope \in Scopes : AlwaysApprove(i, scope)
    \/ \E reply \in Inputs, text \in Messages : Begin(reply, text)
    \/ Abandon
    \/ Surface
    \/ CallInner
    \/ \E c \in Calls : Ask(c)
    \/ InnerEnds

Spec == Init /\ [][Next]_vars

\* The caller goes on, and a run that does not fail comes to its end.
FairSpec == /\ Spec
            /\ WF_vars(\E reply \in Inputs, text \in Messages : Begin(reply, text))
            /\ WF_vars(Surface) /\ WF_vars(CallInner) /\ WF_vars(InnerEnds)

-----------------------------------------------------------------------------
Answer == [id : Ids, approved : BOOLEAN]
State == [rules : SUBSET Calls, queued : Seq(Ids), collected : SUBSET Answer,
          held : Seq(1..MaxTexts), standing : [Ids -> Scopes]]
Run == [at : {"idle", "prepared", "inner"}, reply : UNION {[D -> Replies] : D \in SUBSET Ids},
        text : Seq(1..MaxTexts), pass : 0..MaxReruns, batch : Seq(Ids),
        sent : [answers : SUBSET Answer, texts : Seq(1..MaxTexts)]]

\* Types; and one answer is collected for a request, none of one still queued.
TypeOK ==
    /\ call \in Seq(Calls) /\ Len(call) <= MaxRequests
    /\ stored \in State /\ local \in State /\ run \in Run
    /\ asked \cup retry \cup lost \cup whole \subseteq Minted
    /\ texts \in 0..MaxTexts /\ failures \in 0..MaxFailures /\ skipped \in BOOLEAN
    /\ turn \in [Ids -> Minted \cup {0}]
    /\ said \in [Ids -> Replies \cup {"none"}] /\ choices \in [Ids -> Scopes]
    /\ granted \subseteq Calls /\ delivered \subseteq Answer /\ heard \in Seq(1..texts)
    /\ Cardinality(IdsIn(stored.collected)) = Cardinality(stored.collected)

Idle == run.at = "idle"
Completed == {i \in Minted : turn[i] # 0}

\* What the inner agent is told is what the caller said last, and what the caller
\* was not asked is approved by a rule of its choice or a configured one.
AnswersAreTheCallers ==
    \A a \in run.sent.answers :
       IF said[a.id] # "none" THEN a.approved = (said[a.id] # "reject")
       ELSE a.approved /\ call[a.id] \in AutoApproved \cup granted

\* A choice to always approve becomes a rule exactly when its approval has come
\* back for the same call, and stays one though that run fails ("The rule is
\* added when that approval comes back to the agent still approved and still for
\* the same call").
RulesAsChosen == Idle => stored.rules = granted

\* Nothing is approved, for once or for good, that the caller did not approve.
DecisionsAreTheCallers == AnswersAreTheCallers /\ RulesAsChosen

\* Every request of a completed turn is in one place between runs: with the
\* caller, queued, answered, or lost with a stream; and what the caller wrote has
\* been heard, or is held for later, once and in its order: however runs fail and
\* are repeated.
AccountedFor ==
    LET places == <<asked, InSeq(stored.queued), lost,
                    IdsIn(stored.collected \cup delivered)>>
        written == heard \o stored.held
    IN  Idle => /\ \A i \in Completed : Cardinality({p \in 1..4 : i \in places[p]}) = 1
                /\ \A m, n \in DOMAIN written : m < n => written[m] < written[n]

\* The requests of one turn are answered in one message ("collected and sent to
\* the inner agent together once the queue is empty"), but for answers that a
\* caller repeats after the turn was answered.
BatchSentTogether ==
    ~ skipped =>
       \A i \in IdsIn(run.sent.answers) \ IdsIn(delivered) : \A j \in Completed \ lost :
          turn[j] = turn[i] => j \in IdsIn(run.sent.answers)

\* The caller is asked about one call at a time, a turn shown whole apart.
OneAtATime == skipped \/ Cardinality(asked \ whole) <= 1

\* Requests are surfaced one by one, and their answers sent together.
OneByOneThenTogether == OneAtATime /\ BatchSentTogether

\* The requests of completed turns are all answered again and again, if the caller
\* answers what it is asked: no request stays in the queue for good.
EveryRequestAnswered == []<>(Completed \subseteq IdsIn(delivered) \cup lost)
=============================================================================
