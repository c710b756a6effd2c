------------------------- MODULE FunctionInvocation -------------------------
(***************************************************************************)
(* client.rs: FunctionInvokingChatClient::get_response, the loop that      *)
(* alternates model calls and tool calls, over one session and the         *)
(* requests its caller makes on it: an unrelated one, the reply to what    *)
(* the previous one asked, the poll of a background operation.  The budget *)
(* of a paused run, the local calls of a batch that waits for the caller   *)
(* and the tools of a background operation are parked between requests.    *)
(*                                                                         *)
(* A conversation is what it says of each tool call, and the approval      *)
(* requests, answers and results in it as far as they are correlated: which *)
(* answers still stand is found from those, by call id, at every request.  *)
(* A run is the chain of requests that share a budget.  tool_choice is a   *)
(* hint: of the operations submitted, only those of the failsafe are taken *)
(* to obey it.                                                             *)
(***************************************************************************)
EXTENDS Integers, FiniteSets, Sequences, SequencesExt

CONSTANTS
    Tools,              \* the function tools with an executor
    Host,               \* any declaration-only tool, the caller's to run
    Missing,            \* any name no tool has
    Policies,           \* the tool lists callers supply
    Requested,          \* the tools a model asks for
    Sessions,           \* whether requests carry a session: the choices
    MaxIterations,      \* FunctionInvocationConfig::max_iterations
    MaxFunctionCalls,   \* FunctionInvocationConfig::max_function_calls
    MaxDuration,        \* FunctionInvocationConfig::max_duration_seconds
    Concurrent,         \* FunctionInvocationConfig::allow_concurrent_invocation
    TerminateOnUnknown, \* FunctionInvocationConfig::terminate_on_unknown_calls
    Background,         \* whether the provider runs background operations
    Retries,            \* whether a caller repeats a reply or poll that failed
    MaxBatch,           \* bound: calls in one model response
    MaxCalls,           \* bound: calls in a behaviour
    Ids,                \* the call ids of the provider
    CallId,             \* the id of each call; a later response may reuse one
    MaxRepeats,         \* bound: earlier answers that a request repeats
    MaxClock,           \* bound: the clock
    None

Calls == 1..MaxCalls
Availability == {"free", "gated", "removed"}
Budget == [started : 0..MaxClock, executed : Nat, iterations : 0..MaxIterations]
Deferred == [calls : SUBSET Calls, hosts : SUBSET Calls]
Response == [call : Calls, approved : BOOLEAN]
Correlation == [waiting : Seq(Response), requested : SUBSET Calls,
                unanswered : SUBSET Calls, closed : SUBSET Calls]

ASSUME ConfigAssumption ==
    /\ {Host, Missing} \cap Tools = {} /\ Host # Missing
    /\ None \notin Tools \cup {Host, Missing} \cup {"on", "off"}
    /\ None \notin Budget /\ None \notin Deferred
    /\ Requested \subseteq Tools \cup {Host, Missing}
    /\ Policies \subseteq [Tools -> Availability]
    /\ \A p \in Policies : \E t \in Tools : p[t] # "removed"
    /\ Sessions \subseteq BOOLEAN
    /\ {Concurrent, TerminateOnUnknown, Background, Retries} \subseteq BOOLEAN
    /\ {MaxIterations, MaxFunctionCalls, MaxDuration, MaxBatch} \subseteq Nat \ {0}
    /\ {MaxCalls, MaxClock, MaxRepeats} \subseteq Nat
    /\ CallId \in [Calls -> Ids]

\* What a conversation says of a call: nothing; it was made; its approval is
\* requested; an answer that still stands approves or rejects it; its result is
\* there.  Late: it was made, the client's to run, in an answer that ended the run.
Status == {"absent", "open", "asked", "approved", "rejected", "done", "late"}

VARIABLES
    clock,      \* epoch_millis()
    hasSession, \* caller: whether its requests carry a session, all the same one
    tool,       \* the tool each call names; None before the call is made
    transcript, \* caller: the conversation up to the last answered request
    history,    \* caller: the approvals and results in it, under each call id
    polling,    \* caller: the operation of its continuation token: submitted with
                \* tools "on", or by the failsafe, with tools "off"
    failed,     \* caller: the last request failed, or was dropped
    parked,     \* session: BUDGET_STATE_KEY
    deferred,   \* session: DEFERRED_SIBLINGS_KEY
    tools,      \* parked_tools of the session
    pc,         \* where get_response is; the rest is local to it
    live,       \* LiveToolList
    token,      \* options.continuation_token, likewise
    budget,     \* InvocationBudget
    conv,       \* conversation
    said,       \* the request's approvals and results, and those carried since
    batch,      \* the calls of the batch at hand
    todo,       \* those that have to be executed yet
    ran,        \* how many were executed and not charged yet
    computer    \* the response holds a pending computer call

\* History, read by the properties only.
VARIABLES
    now,        \* the calls the current request executed
    executions, \* how often each call was executed by requests that were answered
    tally       \* what the current run executed and submitted; None: it ended

caller == <<transcript, history, polling, failed>>
session == <<parked, deferred, tools>>
local == <<live, token, budget, conv, said, batch, todo, ran, computer>>
ghosts == <<now, executions, tally>>
world == <<clock, hasSession>>
vars == <<world, tool, caller, session, pc, local, ghosts>>

NoConversation == [c \in Calls |-> "absent"]
NoHistory == [x \in Ids |-> [waiting |-> <<>>, requested |-> {}, unanswered |-> {},
                             closed |-> {}]]
ZeroTally == [executed |-> 0, submitted |-> 0]

Init ==
    /\ clock = 0 /\ hasSession \in Sessions /\ tool = [c \in Calls |-> None]
    /\ transcript = NoConversation /\ history = NoHistory
    /\ polling = None /\ failed = FALSE
    /\ parked = None /\ deferred = None /\ tools = None
    /\ pc = "idle" /\ live = None /\ token = None /\ budget = None
    /\ conv = NoConversation /\ said = NoHistory
    /\ batch = {} /\ todo = {} /\ ran = 0 /\ computer = FALSE
    /\ now = {} /\ executions = [c \in Calls |-> 0] /\ tally = None

\* Conversation f once it says s of the calls in S, and what it says s of.
With(f, S, s) == [c \in Calls |-> IF c \in S THEN s ELSE f[c]]
Where(f, s) == {c \in Calls : f[c] = s}

\* By the tools of a list p: the calls that need an approval, that have an
\* executor, and (is_caller_owned_call) that the caller runs.
Gated(names, S, p) == {c \in S : names[c] \in Tools /\ p[names[c]] = "gated"}
Known(c) == tool[c] \in Tools /\ live[tool[c]] # "removed"
Hosts(names, S) == {c \in S : names[c] = Host}

\* InvocationBudget::spent.
SpentOf(b) == b.executed >= MaxFunctionCalls \/ clock - b.started >= MaxDuration
Spent == SpentOf(budget)

\* InvocationBudget::record.
Charged == [budget EXCEPT !.executed = @ + ran]

-----------------------------------------------------------------------------
(* The settlement of approvals: settled_approval_responses, which walks a    *)
(* conversation from its start at every request.  As contents are only ever  *)
(* added, the walk is kept where it stopped.  Under a call id, the approval  *)
(* id being the call itself (ensure_occurrence_id, minted for each call):    *)
(*   waiting     pending_by_call_id: the answers that no result settled yet  *)
(*   requested   latest_request: the calls an approval was requested of      *)
(*   unanswered  the requests without an answer, in the order of their calls *)
(*   closed      the requests that no later answer can authorise             *)

\* A request supersedes the answer that is pending under its id, and opens a new
\* occurrence.
Superseded(waiting, c) ==
    LET own == {i \in DOMAIN waiting : waiting[i].call = c}
    IN  IF own = {} THEN waiting ELSE RemoveAt(waiting, CHOOSE i \in own : TRUE)

OnRequest(a, c) ==
    [a EXCEPT !.waiting = Superseded(@, c), !.requested = @ \cup {c},
              !.unanswered = @ \cup {c}, !.closed = @ \ {c}]

\* An answer to a closed request is settled on arrival.
OnResponse(a, c, approved) ==
    IF c \in a.closed THEN a
    ELSE [a EXCEPT !.waiting = Append(@, [call |-> c, approved |-> approved]),
                   !.unanswered = @ \ {c}]

\* Fault: a settled answer leaves its request open.
OnResult_LeavesOpen(a) ==
    IF a.waiting # <<>> THEN [a EXCEPT !.waiting = Tail(@)] ELSE a

\* A result settles the first answer that waits for one and closes its request;
\* if none does, it closes the first request nobody answered.
OnResult(a) ==
    LET first == {c \in a.unanswered : \A d \in a.unanswered : c <= d}
    IN  IF a.waiting # <<>>
        THEN [a EXCEPT !.waiting = Tail(@),
                       !.closed = @ \cup ({Head(a.waiting).call} \cap a.requested)]
        ELSE [a EXCEPT !.unanswered = @ \ first, !.closed = @ \cup first]

\* No two of the calls S share an id.
Apart(S) == \A c, d \in S : CallId[c] = CallId[d] => c = d

\* The approvals h after requests for, answers to, or results of the calls S,
\* which are apart.
Under(S, x) == {c \in S : CallId[c] = x}
The(S) == CHOOSE c \in S : TRUE
Requests(h, S) ==
    [x \in Ids |-> IF Under(S, x) = {} THEN h[x] ELSE OnRequest(h[x], The(Under(S, x)))]
Responses(h, S, approved) ==
    [x \in Ids |-> IF Under(S, x) = {} THEN h[x]
                   ELSE OnResponse(h[x], The(Under(S, x)), approved)]
Results(h, S) == [x \in Ids |-> IF Under(S, x) = {} THEN h[x] ELSE OnResult(h[x])]

\* collect_approval_responses: an answer to c stands.
Stands(h, c, approved) ==
    \E i \in DOMAIN h[CallId[c]].waiting :
       h[CallId[c]].waiting[i] = [call |-> c, approved |-> approved]

\* What a request reads in messages that say f of the calls, with approvals h,
\* once drop_settled_approval_responses removed what is settled.  A request whose
\* answer went is the bare call again.
Reading(f, h) ==
    [c \in Calls |-> IF Stands(h, c, TRUE) THEN "approved"
                     ELSE IF Stands(h, c, FALSE) THEN "rejected"
                     ELSE IF f[c] = "asked" THEN "open"
                     ELSE f[c]]

-----------------------------------------------------------------------------
(* The ends of a request.                                                  *)

Return ==
    /\ pc' = "idle" /\ live' = None /\ token' = None /\ budget' = None
    /\ conv' = NoConversation /\ said' = NoHistory /\ batch' = {} /\ todo' = {}
    /\ ran' = 0 /\ computer' = FALSE /\ now' = {}

\* The caller is given an answer, which extends its conversation to c; history'
\* is what was said, and the approvals and results the answer adds.
Answer(c) ==
    /\ Return
    /\ transcript' = c /\ failed' = FALSE
    /\ executions' = [x \in Calls |-> IF x \in now THEN executions[x] + 1 ELSE executions[x]]

\* An answer that ends the run.
Finish(c) ==
    /\ Answer(c) /\ polling' = None
    /\ parked' = None /\ tally' = None
    /\ UNCHANGED tools

\* An answer that pauses the run for the caller, its budget parked.
Pause(c, b) ==
    /\ Answer(c) /\ polling' = None
    /\ parked' = IF hasSession THEN b ELSE None
    /\ UNCHANGED <<tools, tally>>

\* A background operation is handed back, its budget and tools parked.
HandBack ==
    /\ Answer(conv) /\ history' = said
    /\ polling' = IF token # None THEN token ELSE IF pc = "model" THEN "on" ELSE "off"
    /\ parked' = IF hasSession THEN budget ELSE None
    /\ tools' = IF hasSession THEN live ELSE None
    /\ UNCHANGED <<tally, deferred, world, tool>>

\* The request returns an error: what it did is lost.
Err ==
    /\ Return
    /\ failed' = TRUE /\ parked' = None /\ tally' = None
    /\ UNCHANGED <<world, tool, transcript, history, polling, deferred, tools, executions>>

\* The caller drops the future: the session stays as it is.
Drop ==
    /\ pc # "idle"
    /\ Return
    /\ failed' = TRUE /\ tally' = None
    /\ UNCHANGED <<world, tool, transcript, history, polling, session, executions>>

Tick ==
    /\ clock < MaxClock
    /\ clock' = clock + 1
    /\ UNCHANGED <<hasSession, tool, caller, session, pc, local, ghosts>>

-----------------------------------------------------------------------------
(* The start of a request.                                                 *)

Started == [started |-> clock, executed |-> 0, iterations |-> 0]

\* Fault: an approval reply starts with a full budget.
ResumeOrStart_FullBudget(resuming, continuing) ==
    IF ~ continuing \/ parked = None THEN Started ELSE parked

\* InvocationBudget::resume_or_start.
ResumeOrStart(resuming, continuing) ==
    IF ~ resuming \/ parked = None THEN Started
    ELSE [parked EXCEPT !.iterations = IF continuing THEN @ ELSE 0]

StillDeferred(ready) == IF ready THEN None ELSE deferred

\* The deferred calls that may run by the tools p of this request.
Runnable(calls, p) == calls \ Gated(tool, calls, p)

\* get_response with conversation c, up to its loop or to the deferred calls,
\* due once the caller has answered all it runs itself.
Begin(c, operation) ==
    LET continuing == operation # None
        ready == deferred # None /\ \A h \in deferred.hosts : c[h] = "done"
        resuming == \/ ready \/ continuing
                    \/ Where(c, "approved") \cup Where(c, "rejected") # {}
    IN  /\ pc = "idle"
        /\ \E p \in Policies : live' = IF continuing /\ tools # None THEN tools ELSE p
        /\ tools' = None
        /\ token' = operation
        /\ budget' = ResumeOrStart(resuming, continuing)
        /\ parked' = IF resuming THEN parked ELSE None
        /\ conv' = c
        /\ deferred' = StillDeferred(ready)
        /\ pc' = IF ready THEN "siblings" ELSE "top"
        /\ batch' = IF ready THEN deferred.calls ELSE {}
        /\ todo' = Runnable(batch', live')
        /\ UNCHANGED <<world, tool, caller, ran, computer, now, executions>>

\* What this request adds to.
Carried(continuing) ==
    IF tally = None \/ ~ hasSession THEN ZeroTally
    ELSE [tally EXCEPT !.submitted = IF continuing THEN @ ELSE 0]

\* A request with messages that say f of the calls, with approvals h.
Request(f, h, operation) ==
    /\ Begin(Reading(f, h), operation)
    /\ said' = h

\* An unrelated request on the session: what was pending is abandoned.
Fresh ==
    /\ Request(NoConversation, NoHistory, None)
    /\ tally' = ZeroTally

\* What the caller has to answer: approvals, and calls of its own.
Asked == Where(transcript, "asked")
Hosted == Hosts(tool, Where(transcript, "open"))

\* The answers a caller may repeat: of approvals that were acted on.
Repeatable == {again \in SUBSET {c \in Where(transcript, "done") :
                                   c \in history[CallId[c]].requested} :
                 Cardinality(again) <= MaxRepeats /\ Apart(again)}

\* The caller answers all it was asked, once, the approvals as it likes, and may
\* repeat earlier answers, changed or not.
Reply ==
    /\ polling = None /\ (failed => Retries)
    /\ Asked \cup Hosted # {}
    /\ \E yes \in SUBSET Asked, again \in Repeatable, d \in BOOLEAN :
         LET answered == Responses(Responses(history, yes, TRUE), Asked \ yes, FALSE)
         IN  Request(With(transcript, Hosted, "done"),
                     Results(Responses(answered, again, d), Hosted), None)
    /\ tally' = Carried(FALSE)

\* The caller goes on with a conversation in which it owes no answer, whose
\* approvals are all settled; it may repeat one.
Turn ==
    /\ polling = None /\ (failed => Retries)
    /\ Asked \cup Hosted = {}
    /\ \E again \in Repeatable, d \in BOOLEAN :
         Request(transcript, Responses(history, again, d), None)
    /\ tally' = ZeroTally

Poll ==
    /\ polling # None /\ (failed => Retries)
    /\ Request(transcript, history, polling)
    /\ tally' = Carried(TRUE)

-----------------------------------------------------------------------------
(* Executing calls: execute_tool_call.                                     *)

\* Calls run in order, those of a model's response concurrently if allowed.
Due(c) ==
    /\ pc \in {"siblings", "replay", "batch"} /\ c \in todo
    /\ (pc = "batch" /\ Concurrent) \/ \A x \in todo : c <= x

\* The tool (its middleware, at least) runs, well or not.
Execute(c) ==
    /\ Due(c) /\ Known(c)
    /\ todo' = todo \ {c}
    /\ ran' = ran + 1
    /\ now' = now \cup {c}
    /\ tally' = [tally EXCEPT !.executed = @ + 1]
    /\ UNCHANGED <<world, tool, caller, session, pc, live, token, budget, conv, said, batch,
                   computer, executions>>

\* There is no such tool, or the arguments do not parse: an error result.
Refuse(c) ==
    /\ Due(c) /\ (~ Known(c) => ~ TerminateOnUnknown)
    /\ todo' = todo \ {c}
    /\ UNCHANGED <<world, tool, caller, session, pc, live, token, budget, conv, said, batch,
                   ran, computer, ghosts>>

\* A middleware refusal, or an unknown tool that terminates.
Terminate(c) ==
    /\ Due(c) /\ (Known(c) \/ TerminateOnUnknown)
    /\ Err

\* The deferred calls have run.  Those that need an approval by now ask for
\* it; otherwise the loop starts.
SiblingsDone ==
    /\ pc = "siblings" /\ todo = {}
    /\ LET waiting == Gated(tool, batch, live)
           answered == With(conv, batch \ waiting, "done")
           results == Results(said, batch \ waiting)
       IN  \/ /\ waiting # {}
              /\ Pause(With(answered, waiting, "asked"), Charged)
              /\ history' = Requests(results, waiting)
           \/ /\ waiting = {}
              /\ pc' = "top" /\ conv' = answered /\ said' = results
              /\ budget' = Charged /\ ran' = 0 /\ batch' = {}
              /\ UNCHANGED <<caller, parked, tools, live, token, todo, computer, ghosts>>
    /\ UNCHANGED <<world, tool, deferred>>

-----------------------------------------------------------------------------
(* The loop.                                                               *)

\* Fault: the limit is checked one iteration late.
LimitReached_OneLate == token = None /\ budget.iterations > MaxIterations

\* A poll is no new iteration.
LimitReached == token = None /\ budget.iterations >= MaxIterations

\* The loop is left for the failsafe, which ends the run.
Failsafe ==
    /\ pc' = "failsafe" /\ parked' = None
    /\ UNCHANGED <<world, tool, caller, deferred, tools, live, token, todo, computer>>

IterationLimit ==
    /\ pc = "top" /\ LimitReached
    /\ Failsafe
    /\ UNCHANGED <<budget, conv, said, batch, ran, ghosts>>

\* The head of the loop, up to the approvals the input brings: unless the
\* budget is spent, the approved calls are executed.
Top ==
    /\ pc = "top" /\ ~ LimitReached
    /\ pc' = "replay"
    /\ budget' = IF token # None THEN budget ELSE [budget EXCEPT !.iterations = @ + 1]
    /\ todo' = IF Spent THEN {} ELSE Where(conv, "approved")
    /\ UNCHANGED <<world, tool, caller, session, live, token, conv, said, batch, ran,
                   computer, ghosts>>

\* Fault: a call approved too late for the budget gets no result.
Resolved_ExecutedOnly == With(conv, Where(conv, "rejected") \cup now, "done")

\* replace_approval_contents_with_results: an approval that was answered now
\* has a result, of the call or saying why it did not run.
Resolved == With(conv, Where(conv, "approved") \cup Where(conv, "rejected"), "done")

\* The approvals are resolved: the model is called, unless the budget is spent.
ReplayDone ==
    /\ pc = "replay" /\ todo = {}
    /\ conv' = Resolved
    /\ said' = Results(said, Where(conv, "approved") \cup Where(conv, "rejected"))
    /\ budget' = Charged /\ ran' = 0
    /\ UNCHANGED <<batch, now, executions>>
    /\ \/ /\ SpentOf(Charged)
          /\ Failsafe
          /\ UNCHANGED tally
       \/ /\ ~ SpentOf(Charged)
          /\ pc' = "model"
          /\ tally' = IF token # None THEN tally ELSE [tally EXCEPT !.submitted = @ + 1]
          /\ UNCHANGED <<world, tool, caller, session, live, token, todo, computer>>

-----------------------------------------------------------------------------
(* The model.                                                              *)

Modelling == pc \in {"model", "failsafe"}

\* The provider, or the observer of its responses, returns an error.
ModelFails == Modelling /\ Err

\* The operation still runs.
ModelPending == Modelling /\ Background /\ HandBack

\* The model answers and asks for no call.
ModelAnswers ==
    /\ Modelling
    /\ Finish(conv) /\ history' = said
    /\ UNCHANGED <<world, tool, deferred>>

\* The calls of a response, each with an id of its own, and the tools they name.
Drawn == {c \in Calls : tool[c] # None}
NextCalls(n) == (Cardinality(Drawn) + 1)..(Cardinality(Drawn) + n)
Named(calls) == {[c \in Calls |-> IF c \in calls THEN named[c] ELSE tool[c]] :
                   named \in [calls -> Requested]}

\* The operation the failsafe retrieves was submitted with tools: its calls are
\* returned with the answer.
FailsafeReturnsCalls ==
    /\ pc = "failsafe" /\ token = "on"
    /\ \E n \in 1..MaxBatch :
         /\ NextCalls(n) \subseteq Calls /\ Apart(NextCalls(n))
         /\ \E names \in Named(NextCalls(n)) :
              LET hosts == Hosts(names, NextCalls(n))
              IN  /\ tool' = names
                  /\ Finish(With(With(conv, hosts, "open"), NextCalls(n) \ hosts, "late"))
    /\ history' = said
    /\ UNCHANGED <<world, deferred>>

\* Fault: only the calls are checked after the response, not the clock.
TooLate_CallsOnly == budget.executed >= MaxFunctionCalls

\* The budget was spent while the model was responding.
TooLate == Spent

\* The unresolved calls of a response that came too late are dropped.
Stripped(calls) == conv

DropCalls(calls) ==
    /\ TooLate
    /\ pc' = "failsafe" /\ parked' = None
    /\ conv' = Stripped(calls)
    /\ UNCHANGED <<caller, deferred, tools, live, budget, said, batch, todo, ran, computer,
                   ghosts>>

\* Fault: an approval is needed only if every call of the batch needs one.
NeedsApproval_All(calls, names) == calls = Gated(names, calls, live)

NeedsApproval(calls, names) == Gated(names, calls, live) # {}

Siblings(calls, names) == calls \ Hosts(names, calls)

\* All calls but the caller's own wait for an approval.
AskApproval(calls, names) ==
    /\ ~ TooLate /\ NeedsApproval(calls, names)
    /\ Pause(With(With(conv, calls, "asked"), Hosts(names, calls), "open"), budget)
    /\ history' = Requests(said, Siblings(calls, names))
    /\ UNCHANGED deferred

\* Fault: the batch is split without a session to hold it.
Mixed_AnySession(calls, names) == Hosts(names, calls) \notin {{}, calls}

\* A batch for the caller and the client both, and a session to hold it.
Mixed(calls, names) == hasSession /\ Hosts(names, calls) \notin {{}, calls}

\* The client's calls wait until the caller has answered its own.
DeferSiblings(calls, names) ==
    /\ ~ TooLate /\ ~ NeedsApproval(calls, names) /\ Mixed(calls, names)
    /\ deferred' = IF hasSession
                   THEN [calls |-> Siblings(calls, names), hosts |-> Hosts(names, calls)]
                   ELSE None
    /\ Pause(With(conv, calls, "open"), budget)
    /\ history' = said

RunBatch(calls, names) ==
    /\ ~ TooLate /\ ~ NeedsApproval(calls, names) /\ ~ Mixed(calls, names)
    /\ pc' = "batch"
    /\ conv' = With(conv, calls, "open")
    /\ batch' = calls /\ todo' = calls \ Hosts(names, calls)
    /\ computer' \in BOOLEAN
    /\ UNCHANGED <<caller, session, live, budget, said, ran, ghosts>>

\* The model asks for calls that the provider has not resolved itself.
ModelCalls ==
    /\ pc = "model" /\ token # "off"
    /\ \E n \in 1..MaxBatch :
         /\ NextCalls(n) \subseteq Calls /\ Apart(NextCalls(n))
         /\ \E names \in Named(NextCalls(n)) :
              /\ tool' = names
              /\ \/ DropCalls(NextCalls(n)) \/ AskApproval(NextCalls(n), names)
                 \/ DeferSiblings(NextCalls(n), names) \/ RunBatch(NextCalls(n), names)
    /\ token' = None
    /\ UNCHANGED world

\* The batch is charged.  With a call that is the caller's to answer the run
\* ends here, otherwise the loop goes on.
BatchDone ==
    /\ pc = "batch" /\ todo = {}
    /\ LET answered == With(conv, batch \ Hosts(tool, batch), "done")
           results == Results(said, batch \ Hosts(tool, batch))
           ends == Hosts(tool, batch) # {} \/ computer
       IN  \/ ends /\ Finish(answered) /\ history' = results
           \/ /\ ~ ends
              /\ pc' = "top" /\ conv' = answered /\ said' = results
              /\ budget' = Charged /\ ran' = 0 /\ batch' = {}
              /\ UNCHANGED <<caller, parked, tools, live, token, todo, computer, ghosts>>
    /\ UNCHANGED <<world, tool, deferred>>

Next ==
    \/ Fresh \/ Reply \/ Turn \/ Poll \/ Drop \/ Tick
    \/ \E c \in Calls : Execute(c) \/ Refuse(c) \/ Terminate(c)
    \/ SiblingsDone \/ IterationLimit \/ Top \/ ReplayDone \/ BatchDone
    \/ ModelFails \/ ModelPending \/ ModelAnswers \/ ModelCalls \/ FailsafeReturnsCalls

Spec == Init /\ [][Next]_vars

-----------------------------------------------------------------------------
(* Properties.                                                             *)

StateOK ==
    /\ transcript \in [Calls -> Status]
    /\ conv \in [Calls -> Status]
    /\ {parked, budget} \subseteq Budget \cup {None}
    /\ {tools, live} \subseteq Policies \cup {None}
    /\ {polling, token} \subseteq {"on", "off", None}
    /\ pc \in {"idle", "siblings", "top", "replay", "model", "failsafe", "batch"}
    /\ todo \subseteq Calls /\ now \subseteq Calls
    /\ executions \in [Calls -> Nat]

HistoryOK == {history, said} \subseteq [Ids -> Correlation]

TypeOK == StateOK /\ HistoryOK

\* The model is never sent a conversation with a call that has no result, which
\* providers reject: whatever batches were split among approvals, the caller
\* and the client, cut short by the budget, resumed or repeated.  The calls that
\* a poll brings after the time is spent are excepted: see NoLateCall.
NoDanglingCall == Modelling => \A c \in Calls : conv[c] \in {"absent", "done", "late"}

\* A caller is never left with an unanswered call that nobody will answer: it
\* is the caller's own, waits for its approval, or is held by the session (or
\* came too late: NoLateCall).
NoOrphanCall ==
    pc = "idle" /\ ~ failed =>
       \A c \in Where(transcript, "open") :
          tool[c] = Host \/ (deferred # None /\ c \in deferred.calls)

\* Calls and results match: in what the model is sent, and in what a caller is
\* left with.
CallsMatchResults == NoDanglingCall /\ NoOrphanCall

\* An answer that ends a run leaves no call of the client's own without a result,
\* "which providers reject" (client.rs, FunctionInvocationConfig).
NoLateCall == Where(transcript, "late") = {}

\* No call is executed twice, unless the request that executed it failed.
ExecutedOnce ==
    \A c \in Calls : executions[c] + (IF c \in now THEN 1 ELSE 0) <= 1

\* A call is executed only with the caller's approval, or when the tools in
\* force required none.
ApprovedOnly ==
    [][\A c \in now' \ now :
          conv[c] = "approved" \/ (conv[c] = "open" /\ live[tool[c]] = "free")]_vars

\* A run executes at most max_function_calls calls, but for the batch that
\* reaches the limit, over all its pauses.
CallBudgetHolds ==
    tally # None => tally.executed <= MaxFunctionCalls - 1 + MaxBatch

\* No batch of calls, approved or made by the model, is taken up by a run that is
\* out of calls or out of time, "the one thing a spent budget must not allow"
\* (client.rs), and no call is executed by a run out of calls.  A batch that was
\* taken up in time runs to its end: nothing checks the clock within it.
SpentStopsTools ==
    [][/\ pc' # pc /\ todo' # {} => ~ Spent'
       /\ now' \ now # {} => budget.executed < MaxFunctionCalls]_vars

\* The model is asked at most max_iterations times with tools, however often
\* the run is handed back as a background operation.
IterationsBounded ==
    tally # None => tally.submitted <= MaxIterations

\* The budget of a run is one, however it is cut up: parked with a session, taken by
\* the next request, handed back with a background operation (resume_or_start).
BudgetsHold == CallBudgetHolds /\ IterationsBounded

=============================================================================
