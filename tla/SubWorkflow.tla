---------------------------- MODULE SubWorkflow ----------------------------
(***************************************************************************)
(* workflow/sub_workflow.rs: a WorkflowExecutor node that runs a child     *)
(* Workflow, parks the child runs that pause, re-emits their requests into *)
(* the parent run and routes the responses back.  The child Workflow is    *)
(* one object: all its runs share its executor instances, which            *)
(* child.run() resets.                                                     *)
(*                                                                         *)
(* The parent run is reduced to what the wrapper sees of it: the messages  *)
(* of a superstep are handed to the wrapper one at a time, their effects   *)
(* applied together when the superstep ends or lost when it fails; the     *)
(* parent may be rebuilt from its checkpoint by a new process.  A child    *)
(* run is reduced to its outstanding requests and the outputs it produced. *)
(***************************************************************************)
EXTENDS Integers, Sequences, SequencesExt

CONSTANTS
    MaxRuns,        \* bound: child runs started
    MaxRequests,    \* bound: requests the children make
    MaxInputs,      \* bound: messages other parent executors send the wrapper
    ChildMayFail,   \* whether child.run and child.send_response may fail
    Restorable,     \* whether the process may die and the parent be restored
    None

Runs == 1..MaxRuns              \* run ids, in the order they are drawn
Requests == 1..MaxRequests      \* request ids, in the order they are drawn

\* A parked child run waits for something.
Children == [open : (SUBSET Requests) \ {{}}, produced : Nat, forwarded : Nat]

ASSUME BoundsAssumption ==
    /\ {MaxRuns, MaxRequests, MaxInputs} \subseteq Nat
    /\ {ChildMayFail, Restorable} \subseteq BOOLEAN
    /\ None \notin Nat \cup Children

VARIABLES
    runs,       \* WrapperState::runs: the parked ChildExecution of a run
    requestMap, \* WrapperState::request_map
    owner,      \* the run whose state the child's executor instances hold
    inbox,      \* parent messages for the wrapper, one superstep's worth
    stepping,   \* a parent superstep is being executed
    results,    \* what the superstep's invocations come to: requests, and outputs
    pending,    \* the parent's pending_requests that the wrapper raised
    received,   \* the child outputs the parent was given
    saved,      \* the parent's latest checkpoint
    drawn,      \* run and request ids drawn, and inputs sent
    routed,     \* history: where the latest response went
    intact      \* history: no child has failed, no process has died

wrapper == <<runs, requestMap>>
parent == <<inbox, stepping, results, pending, received, saved>>
history == <<routed, intact>>
vars == <<wrapper, owner, parent, drawn, history>>

NoResults == [ok |-> TRUE, asks |-> {}, sends |-> <<>>]

Init ==
    /\ runs = [r \in Runs |-> None]
    /\ requestMap = [q \in Requests |-> None]
    /\ owner = None
    /\ inbox = <<>> /\ stepping = FALSE /\ results = NoResults
    /\ pending = {} /\ received = <<>> /\ saved = None
    /\ drawn = [runs |-> 0, requests |-> 0, inputs |-> 0]
    /\ routed = "nowhere"
    /\ intact = TRUE

-----------------------------------------------------------------------------
(* The child.                                                              *)

\* The next k request ids.
NewRequests(k) == (drawn.requests + 1)..(drawn.requests + k)

\* Child run r goes on, having `child` behind it, until it is idle: it makes k
\* requests and may produce an output.
Ran(child, k, more) ==
    [child EXCEPT !.open = @ \cup NewRequests(k), !.produced = @ + more]

\* Fault: the new parked execution forgets how far it was forwarded.
Processed_Uncounted(child) == child

\* The parked execution after process(): everything produced is forwarded.
Processed(child) == [child EXCEPT !.forwarded = child.produced]

\* An invocation hands requests and outputs to the parent.  The results are applied
\* in order up to the first that failed.
Return(asks, sends) ==
    results' = IF results.ok
               THEN [ok |-> TRUE, asks |-> results.asks \cup asks,
                     sends |-> results.sends \o sends]
               ELSE results

ReturnError == results' = [results EXCEPT !.ok = FALSE]

\* Run r forwards its new requests, and the outputs it has not forwarded yet.
Outputs(r, child) ==
    [i \in 1..(child.produced - child.forwarded) |-> <<r, child.forwarded + i>>]

\* Fault: an idle child is parked too.
Process_ParksIdle(r, child, map) ==
    LET fresh == {q \in child.open : map[q] = None}
    IN  /\ requestMap' = [q \in Requests |-> IF q \in fresh THEN r ELSE map[q]]
        /\ runs' = [runs EXCEPT ![r] = Processed(child)]
        /\ Return(fresh, Outputs(r, child))

\* Fault: a child is parked only if it made new requests.
Process_ParksOnNewRequests(r, child, map) ==
    LET fresh == {q \in child.open : map[q] = None}
    IN  /\ requestMap' = [q \in Requests |-> IF q \in fresh THEN r ELSE map[q]]
        /\ runs' = [runs EXCEPT ![r] = IF fresh = {} THEN None ELSE Processed(child)]
        /\ Return(fresh, Outputs(r, child))

\* process(): forward the new outputs and requests of run r, now at `child`,
\* and park it while it still waits for something.  `map` is request_map.
Process(r, child, map) ==
    LET fresh == {q \in child.open : map[q] = None}
    IN  /\ requestMap' = [q \in Requests |-> IF q \in fresh THEN r ELSE map[q]]
        /\ runs' = [runs EXCEPT ![r] = IF child.open = {} THEN None ELSE Processed(child)]
        /\ Return(fresh, Outputs(r, child))

\* child.run(): a new run, every child executor reset; it may fail.
RunChild ==
    /\ drawn.runs < MaxRuns
    /\ LET r == drawn.runs + 1
       IN  /\ owner' = r
           /\ \/ \E k \in 0..2, more \in 0..1 :
                   LET child == Ran([open |-> {}, produced |-> 0, forwarded |-> 0], k, more)
                   IN  /\ drawn.requests + k <= MaxRequests
                       /\ drawn' = [drawn EXCEPT !.runs = r, !.requests = @ + k]
                       /\ Process(r, child, requestMap)
                       /\ UNCHANGED intact
              \/ /\ ChildMayFail
                 /\ intact' = FALSE
                 /\ drawn' = [drawn EXCEPT !.runs = r]
                 /\ ReturnError
                 /\ UNCHANGED wrapper

-----------------------------------------------------------------------------
(* WorkflowExecutor::execute on the next message of the superstep.         *)

\* A message that is no response: fresh input for a new child run.
ExecuteInput ==
    /\ stepping /\ inbox # <<>> /\ Head(inbox) = None
    /\ RunChild
    /\ inbox' = Tail(inbox)
    /\ UNCHANGED <<stepping, pending, received, saved, routed>>

\* A response whose request is not in request_map: fresh input as well.
ExecuteUnknownResponse ==
    /\ stepping /\ inbox # <<>> /\ Head(inbox) # None
    /\ requestMap[Head(inbox)] = None
    /\ RunChild
    /\ inbox' = Tail(inbox)
    /\ routed' = "fresh run"
    /\ UNCHANGED <<stepping, pending, received, saved>>

\* handle_response: the run is gone (its child failed), the response is dropped.
ExecuteLateResponse ==
    /\ stepping /\ inbox # <<>> /\ Head(inbox) # None
    /\ LET q == Head(inbox)
       IN  /\ requestMap[q] # None
           /\ runs[requestMap[q]] = None
           /\ requestMap' = [requestMap EXCEPT ![q] = None]
    /\ Return({}, <<>>)
    /\ inbox' = Tail(inbox)
    /\ routed' = "dropped"
    /\ UNCHANGED <<runs, owner, stepping, pending, received, saved, drawn, intact>>

\* handle_response: the parked child is taken out, given the response and
\* processed again; if it fails it stays out.
ExecuteResponse ==
    /\ stepping /\ inbox # <<>> /\ Head(inbox) # None
    /\ LET q == Head(inbox)
           r == requestMap[q]
           map == [requestMap EXCEPT ![q] = None]
       IN  /\ r # None
           /\ runs[r] # None
           /\ \/ \E k \in 0..1, more \in 0..1 :
                   /\ drawn.requests + k <= MaxRequests
                   /\ drawn' = [drawn EXCEPT !.requests = @ + k]
                   /\ Process(r, Ran([runs[r] EXCEPT !.open = @ \ {q}], k, more), map)
                   /\ UNCHANGED intact
              \/ /\ ChildMayFail
                 /\ intact' = FALSE
                 /\ runs' = [runs EXCEPT ![r] = None]
                 /\ requestMap' = map
                 /\ ReturnError
                 /\ UNCHANGED drawn
           /\ routed' = IF r = owner THEN "its run" ELSE "its run, other state"
    /\ inbox' = Tail(inbox)
    /\ UNCHANGED <<owner, stepping, pending, received, saved>>

-----------------------------------------------------------------------------
(* The parent run.                                                         *)

\* Another executor sends the wrapper an input.
Input ==
    /\ ~ stepping /\ drawn.inputs < MaxInputs
    /\ inbox' = Append(inbox, None)
    /\ drawn' = [drawn EXCEPT !.inputs = @ + 1]
    /\ UNCHANGED <<wrapper, owner, stepping, results, pending, received, saved, history>>

\* send_responses of the parent.
Respond(q) ==
    /\ ~ stepping /\ q \in pending
    /\ inbox' = Append(inbox, q)
    /\ pending' = pending \ {q}
    /\ UNCHANGED <<wrapper, owner, stepping, results, received, saved, drawn, history>>

BeginSuperstep ==
    /\ ~ stepping /\ inbox # <<>>
    /\ stepping' = TRUE
    /\ UNCHANGED <<wrapper, owner, inbox, results, pending, received, saved, drawn, history>>

\* A superstep that failed keeps the requests applied before, but no outputs; one
\* that is complete is checkpointed.  The caller is taken to hold on to a failed run.
EndSuperstep ==
    /\ stepping /\ inbox = <<>>
    /\ stepping' = FALSE
    /\ results' = NoResults
    /\ pending' = pending \cup results.asks
    /\ received' = IF results.ok THEN received \o results.sends ELSE received
    /\ saved' = IF results.ok /\ Restorable
                THEN [pending |-> pending', received |-> received'] ELSE saved
    /\ UNCHANGED <<wrapper, owner, inbox, drawn, history>>

\* The process dies and another one restores the parent from its checkpoint:
\* the wrapper has no snapshot, so it is as new.
CrashAndRestore ==
    /\ saved # None
    /\ runs' = [r \in Runs |-> None]
    /\ requestMap' = [q \in Requests |-> None]
    /\ owner' = None
    /\ inbox' = <<>> /\ stepping' = FALSE /\ results' = NoResults
    /\ pending' = saved.pending /\ received' = saved.received
    /\ intact' = FALSE
    /\ UNCHANGED <<saved, drawn, routed>>

Next ==
    \/ ExecuteInput \/ ExecuteUnknownResponse \/ ExecuteLateResponse \/ ExecuteResponse
    \/ Input \/ BeginSuperstep \/ EndSuperstep \/ CrashAndRestore
    \/ \E q \in Requests : Respond(q)

Spec == Init /\ [][Next]_vars

-----------------------------------------------------------------------------
(* Properties.                                                             *)

TypeOK ==
    /\ runs \in [Runs -> Children \cup {None}]
    /\ requestMap \in [Requests -> Runs \cup {None}]
    /\ owner \in Runs \cup {None}
    /\ pending \subseteq Requests
    /\ drawn \in [runs : 0..MaxRuns, requests : 0..MaxRequests, inputs : 0..MaxInputs]

\* Every output of a child reaches the parent at most once and in the order the
\* child produced them, however often the child pauses in between.
OutputsForwardedOnce ==
    \A i, j \in DOMAIN received :
       i < j /\ received[i][1] = received[j][1] => received[i][2] < received[j][2]

\* Every parked child can be resumed: each request it waits for leads to it,
\* also after other children, or its own siblings' requests, failed.
ParkedRunsReachable ==
    \A r \in Runs : runs[r] # None => \A q \in runs[r].open : requestMap[q] = r

\* Between supersteps, as long as no child has failed and no process has died,
\* the parent's caller is asked exactly what the parked children wait for: no
\* child waits for a request nobody can answer, and no answer is solicited that
\* no child waits for.
RequestsMatch ==
    intact /\ ~ stepping =>
       pending \cup {q \in ToSet(inbox) : q # None}
         = UNION {runs[r].open : r \in {s \in Runs : runs[s] # None}}

\* What the parent's caller can answer and what the parked children wait for agree:
\* the two maps of WrapperState and the parent's pending requests.
AnswersReachChildren == ParkedRunsReachable /\ RequestsMatch

\* A response accepted by the parent goes back into the child run that made the
\* request (header of sub_workflow.rs); it never starts a run of its own.
ResponsesReturn == routed # "fresh run"

\* A child run that is given a response still finds its executors in the state
\* it left them: "concurrent invocations are isolated" (same header).
RunsIsolated == routed # "its run, other state"

=============================================================================
