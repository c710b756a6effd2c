---------------------------- MODULE WorkflowRun ----------------------------
(***************************************************************************)
(* workflow/runner.rs: one WorkflowRun of a Workflow, driven in supersteps *)
(* (start, restore, drive, run_loop, maybe_checkpoint, send_responses),    *)
(* together with the executors it invokes (executor.rs, through            *)
(* context.rs), the shared state they stage writes in, and the latest      *)
(* checkpoint in the storage.  The run may be dropped (an aborted stream,  *)
(* a dropped future), the process may die, and a run may be rebuilt from   *)
(* the checkpoint.                                                         *)
(*                                                                         *)
(* Payloads are abstracted to a label, which edge conditions and           *)
(* selections look at, and a tag that identifies the message in its run.   *)
(* What an executor does with a message is any of Effects[e]: its sends,   *)
(* an information request, a halt request, a staged write, and whether     *)
(* execute() succeeds.                                                     *)
(***************************************************************************)
EXTENDS Integers, Sequences, FiniteSets, SequencesExt

CONSTANTS
    Ids,            \* the registered executor ids, sorted
    StartId,        \* the start executor
    Labels,         \* what a condition can tell about a payload
    EdgeGroups,     \* the edge groups, in declaration order
    MaxIterations,  \* Workflow::max_iterations
    Stateful,       \* executors overriding snapshot_state, restore_state, reset
    Effects,        \* what execute() of each executor may do
    Keys,           \* shared-state keys; an executor writes its id
    Checkpointing,  \* whether with_checkpointing was called
    Abandonable,    \* whether callers drop the future of send_responses
    MaxRequests,    \* bound: requests recorded in a behaviour
    NoEntry, Tombstone,
    AllEdges,       \* target_id: None
    SourceStart,    \* "__start__"
    Unregistered,   \* an id no executor is registered under
    RoutingError,   \* a condition or selection that returned Err
    Nothing         \* an absent value

Executors == ToSet(Ids)

\* How a group routes a message, by label: a set of target ids, or Err.  A
\* fan-out without a selection and an unconditional edge name all targets.
EdgeGroup == [kind : {"single", "fanout", "fanin"},
              sources : Seq(Executors), targets : Seq(Executors),
              select : [Labels -> {RoutingError} \cup SUBSET (Executors \cup {Unregistered})]]

Send == [label : Labels, to : Executors \cup {AllEdges, Unregistered}]

\* asks: "self" is ctx.request_info, "source" is RequestInfoExecutor.
Effect == [sends : Seq(Send), asks : {"none", "self", "source"},
           halts : BOOLEAN, writes : SUBSET Keys, ok : BOOLEAN]

\* What validate_workflow_graph and the builder guarantee, and the types of
\* the parameters.
ASSUME GraphAssumption ==
    /\ Ids \in Seq(Executors)
    /\ StartId \in Executors
    /\ EdgeGroups \in Seq(EdgeGroup)
    /\ MaxIterations \in Nat
    /\ MaxRequests \in Nat
    /\ Stateful \subseteq Executors
    /\ Effects \in [Executors -> SUBSET Effect]
    /\ Checkpointing \in BOOLEAN
    /\ Abandonable \in BOOLEAN
    /\ {AllEdges, SourceStart, Unregistered, Nothing, NoEntry, Tombstone} \cap Executors = {}
    /\ Tombstone # NoEntry
    /\ Nothing \notin {"InProgress", "Idle", "IdleWithPendingRequests", "Failed"}

VARIABLES
    status,     \* WorkflowRun::state; Nothing when no run is alive
    phase,      \* where drive() is: its loop head, executing, at the save
    origin,     \* the call drive() serves: "run" or "send_responses"
    queue,      \* WorkflowRun::queue
    fanin,      \* WorkflowRun::fanin: the buffered messages of each barrier
    iteration,  \* WorkflowRun::iteration
    requests,   \* WorkflowRun::pending_requests
    halt,       \* WorkflowRun::halt
    committed,  \* SharedState
    pending,    \* SharedState
    groups,     \* the planned invocations not finished, per executor
    running,    \* the invocation of each executor in execute()
    results,    \* what the finished invocations returned, per executor
    memory,     \* the tags each executor instance has handled, in order
    saved,      \* the latest checkpoint the storage holds
    minted      \* request ids generated (uuids: never reused)

\* History, read by the properties only.
VARIABLES
    stepWrites, \* the writes of the superstep in progress
    stepHalts,  \* an invocation of the superstep in progress asked to halt
    answered,   \* the responses the current drive() was given
    inFlight    \* what the last planned superstep took, until it completes

run == <<status, phase, origin, queue, fanin, iteration, requests, halt>>
step == <<groups, running, results>>
store == <<committed, pending>>
history == <<stepWrites, stepHalts, answered, inFlight>>
vars == <<run, step, store, memory, saved, minted, history>>

Store == INSTANCE SharedState WITH Values <- Executors, result <- <<>>

-----------------------------------------------------------------------------
(* Routing: resolve_targets, route_group, fanin_group_for.                 *)

\* Whether group g has a say on message m.
Matches(g, m) == m.to = AllEdges /\ m.source \in ToSet(g.sources)

\* An unknown explicit target, a predicate that failed, or a selection naming
\* an id outside its group.
CannotRoute(m) ==
    \/ m.to # AllEdges /\ m.to \notin Executors
    \/ \E i \in DOMAIN EdgeGroups :
          LET g == EdgeGroups[i]
          IN  /\ Matches(g, m)
              /\ ~ (/\ g.select[m.label] # RoutingError
                    /\ g.select[m.label] \subseteq ToSet(g.targets))

\* Where m goes.  Selected ids are deduplicated and an edge belongs to one
\* group only, so no target occurs twice.
Targets(m) ==
    IF m.to # AllEdges THEN {m.to}
    ELSE UNION {EdgeGroups[i].select[m.label] :
                  i \in {j \in DOMAIN EdgeGroups : Matches(EdgeGroups[j], m)}}

\* The declared sources of the first fan-in group into t, if there is one.
FanInSources(t) ==
    LET into == {i \in DOMAIN EdgeGroups : /\ EdgeGroups[i].kind = "fanin"
                                           /\ t \in ToSet(EdgeGroups[i].targets)}
    IN  IF into = {} THEN Nothing
        ELSE EdgeGroups[CHOOSE i \in into : \A j \in into : i <= j].sources

-----------------------------------------------------------------------------
(* Planning: the deliveries of a superstep, grouped by target.             *)

\* Fault: a routed response waits at the barrier like any other message.
IsDirect_Never(m) == FALSE

IsDirect(m) == m.to # AllEdges

\* What of a sequence is in a set, in its order.
Only(seq, S) ==
    LET f[n \in 0..Len(seq)] ==
          IF n = 0 THEN <<>>
          ELSE IF seq[n] \in S THEN Append(f[n - 1], seq[n]) ELSE f[n - 1]
    IN  f[Len(seq)]

Delivered(t) == {m \in ToSet(queue) : t \in Targets(m)}
Direct(t) == Only(queue, {m \in Delivered(t) : IsDirect(m)})
Routed(t) == Only(queue, {m \in Delivered(t) : ~ IsDirect(m)})

\* The barrier's buffer after `insert`ing the routed messages: one message per
\* source, the latest.
Buffered(t) ==
    LET new == Routed(t)
        last == {new[i] : i \in {j \in DOMAIN new :
                   \A k \in DOMAIN new : k > j => new[k].source # new[j].source}}
    IN  last \cup {m \in fanin[t] : \A n \in last : n.source # m.source}

IsBarrier(t) == FanInSources(t) # Nothing

\* Fault: messages are counted, not the sources that delivered.
Fires_CountsMessages(t) ==
    Cardinality(fanin[t]) + Len(Routed(t)) >= Len(FanInSources(t))

Fires(t) == Cardinality(Buffered(t)) >= Len(FanInSources(t))

\* The buffered messages of the declared sources, in declared order.
Collected(t) ==
    LET declared == FanInSources(t)
        from(i) == IF \E j \in 1..(i - 1) : declared[j] = declared[i] THEN {}
                   ELSE {m \in Buffered(t) : m.source = declared[i]}
    IN  FlattenSeq([i \in DOMAIN declared |-> SetToSeq(from(i))])

Single(m) == [messages |-> <<m>>, sources |-> <<m.source>>]

\* The invocations of t: direct messages one by one, then the barrier or the
\* routed messages one by one.
Invocations(t) ==
    LET each(ms) == [i \in DOMAIN ms |-> Single(ms[i])]
    IN  each(Direct(t)) \o
        (IF ~ IsBarrier(t) THEN each(Routed(t))
         ELSE IF Routed(t) # <<>> /\ Fires(t)
         THEN <<[messages |-> Collected(t), sources |-> FanInSources(t)]>>
         ELSE <<>>)

\* The barriers after planning: a fired one is removed whole.
FanInAfterPlanning ==
    [t \in Executors |-> IF ~ IsBarrier(t) \/ Routed(t) = <<>> THEN fanin[t]
                         ELSE IF Fires(t) THEN {} ELSE Buffered(t)]

-----------------------------------------------------------------------------
(* Applying: the results in planned order, up to the first error.          *)

Flat == FlattenSeq([i \in DOMAIN Ids |-> results[Ids[i]]])
Failures == {i \in DOMAIN Flat : ~ Flat[i].effect.ok}
Applied == IF Failures = {} THEN Flat
           ELSE SubSeq(Flat, 1, (CHOOSE i \in Failures : \A j \in Failures : i <= j) - 1)

\* The pending requests once those of the applied results are inserted.
RequestsAfterApplying ==
    requests \cup {Applied[i].request : i \in {j \in DOMAIN Applied :
                                                Applied[j].request # Nothing}}

\* What the superstep sent, in planned order.
Sent ==
    LET of(r) == [i \in DOMAIN r.effect.sends |->
                    [source |-> r.executor, label |-> r.effect.sends[i].label,
                     to |-> r.effect.sends[i].to]]
        all == FlattenSeq([i \in DOMAIN Flat |-> of(Flat[i])])
    IN  [n \in DOMAIN all |->
           [tag |-> <<"message", iteration + 1, n>>, source |-> all[n].source,
            label |-> all[n].label, to |-> all[n].to]]

-----------------------------------------------------------------------------
(* The life of a run.                                                      *)

NoBarriers == [e \in Executors |-> {}]
NoSteps == [e \in Executors |-> <<>>]
NoneRunning == [e \in Executors |-> Nothing]
Fresh == [e \in Executors |-> <<>>]        \* executor state after reset()

\* The fields of a WorkflowRun that does not exist, or is WorkflowRun::new.
Blank ==
    /\ queue' = <<>> /\ fanin' = NoBarriers /\ iteration' = 0
    /\ requests' = {} /\ halt' = FALSE
    /\ committed' = Store!Empty /\ pending' = Store!Empty

NoStep ==
    /\ groups' = NoSteps /\ running' = NoneRunning /\ results' = NoSteps
    /\ stepWrites' = Store!Empty /\ stepHalts' = FALSE

\* The run is dropped.
Gone ==
    /\ status' = Nothing /\ phase' = "none" /\ origin' = "run"
    /\ Blank /\ NoStep
    /\ answered' = {} /\ inFlight' = <<>>

Init ==
    /\ status = Nothing /\ phase = "none" /\ origin = "run"
    /\ queue = <<>> /\ fanin = NoBarriers /\ iteration = 0
    /\ requests = {} /\ halt = FALSE
    /\ committed = Store!Empty /\ pending = Store!Empty
    /\ groups = NoSteps /\ running = NoneRunning /\ results = NoSteps
    /\ memory = Fresh /\ saved = Nothing /\ minted = 0
    /\ stepWrites = Store!Empty /\ stepHalts = FALSE
    /\ answered = {} /\ inFlight = <<>>

\* Workflow::run / run_stream: a new run, every executor reset.
Start ==
    /\ status = Nothing
    /\ memory' = [e \in Executors |-> IF e \in Stateful THEN <<>> ELSE memory[e]]
    /\ status' = "InProgress" /\ phase' = "loop" /\ origin' = "run"
    /\ queue' = <<[tag |-> <<"message", 0, 1>>, source |-> SourceStart,
                   label |-> Nothing, to |-> StartId]>>
    /\ fanin' = NoBarriers /\ iteration' = 0 /\ requests' = {} /\ halt' = FALSE
    /\ committed' = Store!Empty /\ pending' = Store!Empty
    /\ NoStep /\ answered' = {} /\ inFlight' = <<>>
    /\ UNCHANGED <<saved, minted>>

\* Fault: executors keep the state they have instead of the checkpoint's.
Restore_KeepsExecutorState ==
    /\ status = Nothing /\ saved # Nothing
    /\ status' = "InProgress" /\ phase' = "loop" /\ origin' = "run"
    /\ queue' = saved.queue /\ fanin' = saved.fanin /\ iteration' = saved.iteration
    /\ requests' = saved.requests /\ halt' = FALSE
    /\ committed' = saved.committed /\ pending' = Store!Empty
    /\ NoStep /\ answered' = {} /\ inFlight' = <<>>
    /\ UNCHANGED <<memory, saved, minted>>

\* Workflow::run_from_checkpoint of the latest checkpoint: a new run with the
\* checkpoint's fields, the snapshotted executors restored, the others as they
\* are.
Restore ==
    /\ status = Nothing /\ saved # Nothing
    /\ memory' = [e \in Executors |-> IF e \in Stateful THEN saved.memory[e] ELSE memory[e]]
    /\ status' = "InProgress" /\ phase' = "loop" /\ origin' = "run"
    /\ queue' = saved.queue /\ fanin' = saved.fanin /\ iteration' = saved.iteration
    /\ requests' = saved.requests /\ halt' = FALSE
    /\ committed' = saved.committed /\ pending' = Store!Empty
    /\ NoStep /\ answered' = {} /\ inFlight' = <<>>
    /\ UNCHANGED <<saved, minted>>

\* An executor's reset() or restore_state() fails: the call returns the error
\* with some executors already reset or restored, and there is no run.
StartFails ==
    /\ status = Nothing
    /\ \E done \in SUBSET Stateful :
          /\ memory' = [e \in Executors |-> IF e \in done THEN <<>> ELSE memory[e]]
    /\ UNCHANGED <<run, step, store, saved, minted, history>>

RestoreFails ==
    /\ status = Nothing /\ saved # Nothing
    /\ \E done \in SUBSET Stateful :
          memory' = [e \in Executors |-> IF e \in done THEN saved.memory[e] ELSE memory[e]]
    /\ UNCHANGED <<run, step, store, saved, minted, history>>

\* Fault: the staged writes of a failed superstep stay in the buffer.
Fail_KeepsStagedWrites(kept, asked, taken) ==
    \/ /\ origin = "run"
       /\ Gone
       /\ UNCHANGED <<memory, saved, minted>>
    \/ /\ origin = "send_responses"
       /\ status' = "Failed" /\ phase' = "none"
       /\ queue' = kept /\ requests' = asked
       /\ NoStep /\ inFlight' = taken
       /\ UNCHANGED <<store, origin, fanin, iteration, halt, memory, saved, minted,
                      answered>>

\* drive() on an error: the staged writes are discarded and the run fails.
\* run() and run_from_checkpoint() then drop it; after send_responses() the
\* caller still holds it.  `kept` is the queue the error
\* leaves behind, `taken` what the superstep had taken from it.
Fail(kept, asked, taken) ==
    \/ /\ origin = "run"
       /\ Gone
       /\ UNCHANGED <<memory, saved, minted>>
    \/ /\ origin = "send_responses"
       /\ Store!Discard
       /\ status' = "Failed" /\ phase' = "none"
       /\ queue' = kept /\ requests' = asked
       /\ NoStep /\ inFlight' = taken
       /\ UNCHANGED <<origin, fanin, iteration, halt, memory, saved, minted,
                      answered>>

Looping == phase = "loop"

\* Fault: the limit is checked after one more superstep.
LimitReached_OneLate == iteration > MaxIterations

LimitReached == iteration >= MaxIterations

\* max_iterations exceeded: the queue is still there.
IterationLimit ==
    /\ Looping /\ queue # <<>> /\ LimitReached
    /\ Fail(queue, requests, inFlight)

\* A message of the superstep cannot be routed: the queue was taken already,
\* no barrier was touched yet.
RoutingFails ==
    /\ Looping /\ queue # <<>> /\ ~ LimitReached
    /\ \E i \in DOMAIN queue : CannotRoute(queue[i])
    /\ Fail(<<>>, requests, queue)

PlanSuperstep ==
    /\ Looping /\ queue # <<>> /\ ~ LimitReached
    /\ \A i \in DOMAIN queue : ~ CannotRoute(queue[i])
    /\ groups' = [t \in Executors |-> Invocations(t)]
    /\ fanin' = FanInAfterPlanning
    /\ queue' = <<>> /\ inFlight' = queue
    /\ phase' = "executing"
    /\ stepWrites' = Store!Empty /\ stepHalts' = FALSE
    /\ UNCHANGED <<status, origin, iteration, requests, halt, running, results,
                   store, memory, saved, minted, answered>>

-----------------------------------------------------------------------------
(* The executors of the superstep: groups run concurrently, the            *)
(* invocations of one executor one at a time.                              *)

Request(id, e, effect, sources) ==
    [id |-> id, source |-> e,
     replyTo |-> IF effect.asks = "source" THEN sources[1] ELSE e]

\* execute() starts: the message reaches the executor's state, a shared-state
\* write is staged and a halt request stored at once, visible to the siblings.
BeginExecute(e) ==
    /\ phase = "executing" /\ running[e] = Nothing /\ groups[e] # <<>>
    /\ \E effect \in Effects[e] :
         LET inv == Head(groups[e])
             asks == effect.asks # "none"
         IN  /\ asks => minted < MaxRequests
             /\ minted' = IF asks THEN minted + 1 ELSE minted
             /\ running' = [running EXCEPT ![e] =
                  [executor |-> e, effect |-> effect,
                   request |-> IF asks THEN Request(minted + 1, e, effect, inv.sources)
                               ELSE Nothing]]
             /\ memory' = IF e \in Stateful
                          THEN [memory EXCEPT ![e] = @ \o
                                  [i \in DOMAIN inv.messages |-> inv.messages[i].tag]]
                          ELSE memory
             /\ pending' = [k \in Keys |-> IF k \in effect.writes THEN e ELSE pending[k]]
             /\ halt' = (halt \/ effect.halts)
             /\ stepWrites' = [k \in Keys |-> IF k \in effect.writes THEN e ELSE stepWrites[k]]
             /\ stepHalts' = (stepHalts \/ effect.halts)
    /\ groups' = [groups EXCEPT ![e] = Tail(@)]
    /\ UNCHANGED <<status, phase, origin, queue, fanin, iteration, requests,
                   committed, results, saved, answered, inFlight>>

\* execute() returns; its context is drained into a result.
FinishExecute(e) ==
    /\ phase = "executing" /\ running[e] # Nothing
    /\ results' = [results EXCEPT ![e] = Append(@, running[e])]
    /\ running' = [running EXCEPT ![e] = Nothing]
    /\ UNCHANGED <<run, groups, store, memory, saved, minted, history>>

\* join_all: every group has finished.
Joined == /\ phase = "executing"
          /\ \A e \in Executors : groups[e] = <<>> /\ running[e] = Nothing

\* An invocation failed: the requests of the invocations before it stay, the
\* messages of all of them are lost.
FailSuperstep ==
    /\ Joined /\ Failures # {}
    /\ Fail(<<>>, RequestsAfterApplying, inFlight)

\* Fault: the halt request is not looked at.
NextQueue_IgnoresHalt == Sent

\* What the end of a superstep leaves to deliver.
NextQueue == IF halt THEN <<>> ELSE Sent

CompleteSuperstep ==
    /\ Joined /\ Failures = {}
    /\ Store!Commit
    /\ requests' = RequestsAfterApplying
    /\ queue' = NextQueue
    /\ halt' = FALSE
    /\ iteration' = iteration + 1
    /\ results' = NoSteps /\ inFlight' = <<>>
    /\ phase' = "saving"
    /\ UNCHANGED <<status, origin, fanin, groups, running, memory, saved, minted,
                   stepWrites, stepHalts, answered>>

\* What maybe_checkpoint puts in the storage.
Checkpoint ==
    [iteration |-> iteration, queue |-> queue, fanin |-> fanin,
     requests |-> requests, committed |-> committed,
     memory |-> [e \in Stateful |-> memory[e]]]

\* maybe_checkpoint: a failed save is only logged.
MaybeCheckpoint ==
    /\ phase = "saving"
    /\ phase' = "loop"
    /\ \/ Checkpointing /\ saved' = Checkpoint
       \/ UNCHANGED saved
    /\ UNCHANGED <<status, origin, queue, fanin, iteration, requests, halt, step,
                   store, memory, minted, history>>

\* Fault: drive() goes on while requests are pending.
Quiet_NothingPending == queue = <<>> /\ requests = {}

Quiet == queue = <<>>

\* The queue is empty: drive() returns Ok.
Quiesce ==
    /\ Looping /\ Quiet
    /\ status' = IF requests = {} THEN "Idle" ELSE "IdleWithPendingRequests"
    /\ phase' = "none"
    /\ UNCHANGED <<origin, queue, fanin, iteration, requests, halt, step, store,
                   memory, saved, minted, history>>

-----------------------------------------------------------------------------
(* The caller and the environment.                                         *)

\* Fault: the response is routed along the requester's edges.
Response_Routed(r) == [tag |-> <<"response", r.id>>, source |-> r.source,
                       label |-> Nothing, to |-> AllEdges]

\* deliver_response: straight to the requester.
Response(r) == [tag |-> <<"response", r.id>>, source |-> r.source,
                label |-> Nothing, to |-> r.replyTo]

\* send_responses to some of the pending requests (an unknown id, or no
\* pending request, is refused without effect).  Request ids are random, so
\* their sorted order is any order.
SendResponses ==
    /\ status # Nothing /\ phase = "none"
    /\ requests # {}
    /\ \E chosen \in SUBSET requests :
         \E order \in SetToSeqs(chosen) :
            /\ requests' = requests \ chosen
            /\ queue' = queue \o [i \in DOMAIN order |-> Response(order[i])]
            /\ answered' = {<<r.id, r.replyTo>> : r \in chosen}
    /\ status' = "InProgress" /\ phase' = "loop" /\ origin' = "send_responses"
    /\ UNCHANGED <<fanin, iteration, halt, step, store, memory, saved, minted,
                   stepWrites, stepHalts, inFlight>>

\* The caller drops the future of send_responses at an await point (a timeout
\* around it, say) and keeps the run, in whatever state it is.
Abandon ==
    /\ Abandonable
    /\ phase # "none" /\ origin = "send_responses"
    /\ phase' = "none"
    /\ NoStep
    /\ UNCHANGED <<status, origin, queue, fanin, iteration, requests, halt, store, memory,
                   saved, minted, answered, inFlight>>

\* The run is dropped in any state: WorkflowRunStream::cancel aborts its task,
\* or its owner lets it go.  The executors, owned by the Workflow, stay.
Cancel ==
    /\ status # Nothing
    /\ Gone
    /\ UNCHANGED <<memory, saved, minted>>

\* The process dies; the storage survives.
Crash ==
    /\ Gone
    /\ memory' = Fresh
    /\ UNCHANGED <<saved, minted>>

Engine ==
    \/ IterationLimit \/ RoutingFails \/ PlanSuperstep
    \/ \E e \in Executors : BeginExecute(e) \/ FinishExecute(e)
    \/ FailSuperstep \/ CompleteSuperstep
    \/ MaybeCheckpoint \/ Quiesce

Next ==
    \/ Start \/ Restore \/ StartFails \/ RestoreFails
    \/ Engine
    \/ SendResponses \/ Abandon \/ Cancel \/ Crash

Spec == Init /\ [][Next]_vars

\* The runtime polls a live run's future, and execute() terminates.
FairSpec == Spec /\ WF_vars(Engine)

-----------------------------------------------------------------------------
(* Properties.                                                             *)

\* Every field keeps its type; in particular no superstep beyond
\* max_iterations is ever counted and no tombstone is ever committed.
TypeOK ==
    /\ status \in {Nothing, "InProgress", "Idle", "IdleWithPendingRequests", "Failed"}
    /\ phase \in {"none", "loop", "executing", "saving"}
    /\ origin \in {"run", "send_responses"}
    /\ iteration \in 0..MaxIterations
    /\ halt \in BOOLEAN
    /\ committed \in [Keys -> Executors \cup {NoEntry}]
    /\ pending \in [Keys -> Executors \cup {NoEntry, Tombstone}]
    /\ minted \in 0..MaxRequests
    /\ stepWrites \in [Keys -> Executors \cup {NoEntry}]

\* Shared state moves only at a superstep's end, and then by exactly the writes
\* that superstep's executors staged: nothing staged by a superstep that failed
\* (or was cut short) is ever committed, and so none reaches a checkpoint.
CommitsOwnWritesOnly ==
    [][\/ committed' = committed
       \/ phase = "none" \/ phase' = "none"
       \/ committed' = [k \in Keys |-> IF stepWrites[k] = NoEntry THEN committed[k]
                                       ELSE stepWrites[k]]]_vars

\* A fan-in target is invoked only with one message of every declared source,
\* in declared order, also when the barrier filled over several supersteps or
\* was restored from a checkpoint in between.
BarrierComplete ==
    \A e \in Executors : \A i \in DOMAIN groups[e] :
       LET inv == groups[e][i]
       IN  /\ IsBarrier(e)
           /\ inv.messages # <<>>
           /\ ~ IsDirect(inv.messages[1])
           => [j \in DOMAIN inv.messages |-> inv.messages[j].source] = FanInSources(e)

\* A barrier that every declared source has delivered to is never left waiting,
\* in whatever supersteps the messages came and wherever it was checkpointed in
\* between: nobody would deliver to it again.
FullBarrierFires ==
    \A t \in Executors : fanin[t] # {} =>
       ~ ToSet(FanInSources(t)) \subseteq {m.source : m \in fanin[t]}

\* Barriers fire exactly when they are full (the planning of a superstep in run_loop,
\* over the buffers that restores bring back).
BarriersFireWhenFull == BarrierComplete /\ FullBarrierFires

\* No executor state ever contains the effect of the same message twice: a
\* crash, a cancellation or a failed start or restore at any point, followed by
\* a restore, replays from a consistent cut of queue, barriers and executor
\* snapshots.
ExactlyOnce ==
    status # Nothing =>
       \A e \in Stateful : Cardinality(ToSet(memory[e])) = Len(memory[e])

\* When drive() returns Ok, every response it was given has been handled by the
\* executor the request named, whatever barriers sit in front of it.
AnswersHandled ==
    status \in {"Idle", "IdleWithPendingRequests"} =>
       \A a \in answered : a[2] \in Stateful =>
          <<"response", a[1]>> \in ToSet(memory[a[2]])

\* A superstep in which an executor asked to halt, and that completes, leaves
\* nothing to deliver: the run stops.
HaltHonoured == phase = "saving" /\ stepHalts => queue = <<>>

\* The messages a superstep sent are dropped only if an executor of that very
\* superstep asked to halt (context.rs, request_halt).
HaltDropsOwnMessagesOnly ==
    [][phase = "executing" /\ phase' = "saving" /\ Sent # <<>> /\ queue' = <<>>
         => stepHalts]_vars

\* Resuming a run whose superstep failed delivers that superstep's messages
\* again: "a resume then replays the whole superstep from the last committed
\* boundary" (runner.rs, run_loop).
ResumeReplays ==
    [][status = "Failed" /\ phase' = "loop"
         => ToSet(inFlight) \subseteq ToSet(queue')]_vars

\* Every outstanding request names a registered executor to deliver the
\* response to (request_info.rs).
RequestsRoutable == \A r \in requests : r.replyTo \in Executors

\* drive() always returns: a run in progress goes idle, pauses, fails or is
\* dropped, however the executors keep sending to each other.
DriveEnds == phase # "none" ~> phase = "none"

=============================================================================
