-------------------------- MODULE BackgroundAgents --------------------------
(***************************************************************************)
(* The background tasks of one parent session (harness/                    *)
(* background_agents.rs).  The task list is kept in the session, next to   *)
(* the next free id; the executions of the tasks and the sub-sessions they *)
(* hand back are kept in a runtime of the process, behind its lock.  Runs  *)
(* of the parent agent use the six tools, each bound to the runtime that   *)
(* was current when the run began; the host may release the session, which *)
(* closes its runtime, and the process may restart, which loses it.        *)
(*                                                                         *)
(* A section that changes the list is two steps, as lists are loaded and   *)
(* saved under the lock of one runtime only: saving[rt] is what the holder *)
(* of rt's lock is about to save.                                          *)
(***************************************************************************)
EXTENDS Naturals, FiniteSets

CONSTANTS
    Runs,            \* the runs of the parent agent that may overlap
    MaxTasks,        \* task ids
    MaxExecutions,   \* executions of tasks: starts and continuations
    MaxRuntimes,     \* runtimes the process may make for the session
    CarefulHost,     \* is a session released, and used again, by one run at a time?
    CanPanic,        \* may a sub-agent panic?
    CanRestart       \* may the process restart?

ASSUME ConfigAssumption ==
    /\ {MaxTasks, MaxExecutions, MaxRuntimes} \subseteq Nat \ {0}
    /\ {CarefulHost, CanPanic, CanRestart} \subseteq BOOLEAN

VARIABLES
    tasks, nextId,   \* BackgroundTaskInfo by id, and next_task_id, in the session
    execs,           \* the executions so far, and how far each has come
    aborted,         \* executions whose abort handle was used
    entry,           \* the runtime the provider has for the session, or 0
    made,            \* runtimes made so far
    closed,          \* RuntimeInner::closed
    inFlight,        \* RuntimeInner::in_flight: the execution of a task, or 0
    subs,            \* RuntimeInner::sessions: tasks whose sub-session is there
    saving,          \* the list about to be saved under a runtime's lock
    releasing,       \* the release in progress: its runtime, and whom it awaits
    bound,           \* the runtime a run's tools are bound to, 0 if not running
    op,              \* what a run does between two locks of a call
    waits,           \* the executions a run's wait is suspended on
    quit,            \* history: runtimes whose release ended in time
    orphans          \* history: executions cleared while they were not over

session == <<tasks, nextId>>
runtime == <<entry, made, closed, inFlight, subs>>
callers == <<bound, op, waits>>
vars == <<session, execs, aborted, runtime, saving, releasing, callers, quit, orphans>>

Tasks == 1..MaxTasks
Execs == 1..MaxExecutions
Runtimes == 1..MaxRuntimes

Absent == [status |-> "absent", of |-> 0]
Nothing == [tasks |-> [t \in Tasks |-> Absent], nextId |-> 0]
Unused == [task |-> 0, rt |-> 0, at |-> "unused"]
NoRelease == [rt |-> 0, pending |-> {}]
NoOp == [call |-> "none", task |-> 0]

Init ==
    /\ tasks = Nothing.tasks /\ nextId = 1
    /\ execs = [e \in Execs |-> Unused] /\ aborted = {}
    /\ entry = 0 /\ made = 0 /\ closed = {}
    /\ inFlight = [rt \in Runtimes |-> [t \in Tasks |-> 0]]
    /\ subs = [rt \in Runtimes |-> {}]
    /\ saving = [rt \in Runtimes |-> Nothing]
    /\ releasing = NoRelease
    /\ bound = [r \in Runs |-> 0] /\ op = [r \in Runs |-> NoOp]
    /\ waits = [r \in Runs |-> {}]
    /\ quit = {} /\ orphans = {}

-----------------------------------------------------------------------------
(* Locks, lists and executions.                                            *)

Free(rt) == saving[rt] = Nothing
Settled == \A rt \in Runtimes : Free(rt)
Save(rt, list, next) == saving' = [saving EXCEPT ![rt] = [tasks |-> list, nextId |-> next]]

\* InFlight::is_done, and what ends InFlight::wait: a signal, or its sender gone.
IsDone(e) == execs[e].at = "done"
Over(e) == execs[e].at \in {"done", "gone"}

\* The outcome of a finished execution: "completed" stands for the sub-agent's
\* answer or error, "failed" for the error of one that was cancelled.
Finalized(e) == [status |-> IF IsDone(e) THEN "completed" ELSE "failed", of |-> e]

\* The next execution, of task t, holding its sub-session.
Spawn(rt, t) ==
    \E e \in Execs :
       /\ execs[e] = Unused /\ \A f \in 1..(e - 1) : execs[f] # Unused
       /\ execs' = [execs EXCEPT ![e] = [Unused EXCEPT !.task = t, !.rt = rt, !.at = "running"]]
       /\ inFlight' = [inFlight EXCEPT ![rt][t] = e]

\* (mutant) a task whose execution is gone stays as it was.
Refreshed_KeepsLost(rt) ==
    [t \in Tasks |->
       LET e == inFlight[rt][t]
       IN  IF tasks[t].status = "running" /\ e # 0 /\ IsDone(e) THEN Finalized(e) ELSE tasks[t]]

\* What a refresh under rt's lock finds of each task: lost without a runtime.
Refreshed(rt) ==
    [t \in Tasks |->
       LET e == inFlight[rt][t]
       IN  IF tasks[t].status # "running" THEN tasks[t]
           ELSE IF e = 0 THEN [tasks[t] EXCEPT !.status = "lost"]
           ELSE IF IsDone(e) THEN Finalized(e) ELSE tasks[t]]

Refresh(rt) ==
    /\ Free(rt)
    /\ IF Refreshed(rt) = tasks
       THEN UNCHANGED <<saving, inFlight>>
       ELSE /\ Save(rt, Refreshed(rt), nextId)
            /\ inFlight' = [inFlight EXCEPT ![rt] =
                  [t \in Tasks |-> IF Refreshed(rt)[t] = tasks[t] THEN @[t] ELSE 0]]

\* The end of a section: the list is saved and the lock released.
Saved(rt) ==
    /\ ~ Free(rt)
    /\ tasks' = saving[rt].tasks /\ nextId' = saving[rt].nextId
    /\ saving' = [saving EXCEPT ![rt] = Nothing]
    /\ UNCHANGED <<execs, aborted, runtime, releasing, callers>>

-----------------------------------------------------------------------------
(* A run of the parent agent, and its tools.                               *)

\* runtime(): the one there is, or a new one if it is absent or closed.
Lookup(rt) ==
    IF entry # 0 /\ entry \notin closed
    THEN rt = entry /\ UNCHANGED <<entry, made>>
    ELSE rt = made + 1 /\ made < MaxRuntimes /\ entry' = rt /\ made' = rt

Running == {r \in Runs : bound[r] # 0}

\* before_run binds the tools, and then lists the tasks.
BeginRun(r) ==
    /\ bound[r] = 0
    /\ CarefulHost => \A q \in Running : bound[q] = entry /\ entry \notin closed
    /\ \E rt \in Runtimes : Lookup(rt) /\ bound' = [bound EXCEPT ![r] = rt]
    /\ op' = [op EXCEPT ![r] = [NoOp EXCEPT !.call = "begin"]]
    /\ UNCHANGED <<session, execs, aborted, closed, inFlight, subs, saving, releasing, waits>>

ListTasks ==
    /\ \E rt \in Runtimes : Lookup(rt) /\ Refresh(rt)
    /\ UNCHANGED <<session, execs, aborted, closed, subs, releasing>>

Announce(r) ==
    /\ op[r].call = "begin"
    /\ ListTasks
    /\ op' = [op EXCEPT ![r] = NoOp] /\ UNCHANGED <<bound, waits>>

\* The host lists the tasks.
HostLists == ListTasks /\ UNCHANGED callers

\* A run that ends or is dropped takes its suspended wait with it.
EndRun(r) ==
    /\ bound[r] # 0 /\ op[r] = NoOp /\ Free(bound[r])
    /\ bound' = [bound EXCEPT ![r] = 0] /\ waits' = [waits EXCEPT ![r] = {}]
    /\ UNCHANGED <<session, execs, aborted, runtime, saving, releasing, op>>

Calling(r) == bound[r] # 0 /\ op[r] = NoOp /\ Free(bound[r])

Start(r) ==
    /\ Calling(r) /\ bound[r] \notin closed /\ nextId \in Tasks
    /\ Spawn(bound[r], nextId)
    /\ Save(bound[r], [tasks EXCEPT ![nextId] = [status |-> "running", of |-> 0]], nextId + 1)
    /\ UNCHANGED <<session, aborted, entry, made, closed, subs, releasing, callers>>

\* get_task_results and get_all_tasks, which a closed runtime does not refuse.
Get(r) ==
    /\ Calling(r) /\ Refresh(bound[r])
    /\ UNCHANGED <<session, execs, aborted, entry, made, closed, subs, releasing, callers>>

BeginWait(r) ==
    /\ Calling(r) /\ bound[r] \notin closed /\ waits[r] = {}
    /\ \E ids \in SUBSET Tasks :
          waits' = [waits EXCEPT ![r] =
             {inFlight[bound[r]][t] : t \in {u \in ids : inFlight[bound[r]][u] # 0}}]
    /\ waits'[r] # {}
    /\ UNCHANGED <<session, execs, aborted, runtime, saving, releasing, bound, op>>

WaitTimeout(r) ==
    /\ waits[r] # {}
    /\ waits' = [waits EXCEPT ![r] = {}]
    /\ UNCHANGED <<session, execs, aborted, runtime, saving, releasing, bound, op>>

\* (mutant) it is recorded even if its task has been continued since.
EndWait_AnyExecution(r) ==
    /\ Calling(r)
    /\ \E e \in waits[r] :
          LET t == execs[e].task
          IN  /\ Over(e)
              /\ IF tasks[t] # Absent
                 THEN /\ inFlight' = [inFlight EXCEPT ![bound[r]][t] = 0]
                      /\ Save(bound[r], [tasks EXCEPT ![t] = Finalized(e)], nextId)
                 ELSE UNCHANGED <<inFlight, saving>>
    /\ waits' = [waits EXCEPT ![r] = {}]
    /\ UNCHANGED <<session, execs, aborted, entry, made, closed, subs, releasing, bound, op>>

\* The first to finish is recorded, unless its task has been continued since.
EndWait(r) ==
    /\ Calling(r)
    /\ \E e \in waits[r] :
          LET t == execs[e].task
          IN  /\ Over(e)
              /\ IF tasks[t] # Absent /\ inFlight[bound[r]][t] = e
                 THEN /\ inFlight' = [inFlight EXCEPT ![bound[r]][t] = 0]
                      /\ Save(bound[r], [tasks EXCEPT ![t] = Finalized(e)], nextId)
                 ELSE UNCHANGED <<inFlight, saving>>
    /\ waits' = [waits EXCEPT ![r] = {}]
    /\ UNCHANGED <<session, execs, aborted, entry, made, closed, subs, releasing, bound, op>>

\* continue and clear check the task in one section and act in another.
Check(r, call, statuses) ==
    /\ Calling(r) /\ bound[r] \notin closed
    /\ Refresh(bound[r])
    /\ \E t \in Tasks : /\ Refreshed(bound[r])[t].status \in statuses
                        /\ op' = [op EXCEPT ![r] = [call |-> call, task |-> t]]
    /\ UNCHANGED <<session, execs, aborted, entry, made, closed, subs, releasing, bound, waits>>

BeginContinue(r) == Check(r, "continue", {"completed", "failed"})
BeginClear(r) == Check(r, "clear", {"completed", "failed", "lost"})

\* (mutant) the outcome of the earlier execution stays recorded.
Continue_KeepsResult(r) ==
    LET t == op[r].task
    IN  /\ op[r].call = "continue" /\ Free(bound[r])
        /\ IF bound[r] \notin closed /\ t \in subs[bound[r]]
           THEN /\ Spawn(bound[r], t)
                /\ subs' = [subs EXCEPT ![bound[r]] = @ \ {t}]
                /\ Save(bound[r], [tasks EXCEPT ![t] =
                        IF @ = Absent THEN @ ELSE [@ EXCEPT !.status = "running"]], nextId)
           ELSE UNCHANGED <<execs, inFlight, subs, saving>>
        /\ op' = [op EXCEPT ![r] = NoOp]
        /\ UNCHANGED <<session, aborted, entry, made, closed, releasing, bound, waits>>

Continue(r) ==
    LET t == op[r].task
    IN  /\ op[r].call = "continue" /\ Free(bound[r])
        /\ IF bound[r] \notin closed /\ t \in subs[bound[r]]
           THEN /\ Spawn(bound[r], t)
                /\ subs' = [subs EXCEPT ![bound[r]] = @ \ {t}]
                /\ Save(bound[r], [tasks EXCEPT ![t] =
                        IF @ = Absent THEN @ ELSE [status |-> "running", of |-> 0]], nextId)
           ELSE UNCHANGED <<execs, inFlight, subs, saving>>
        /\ op' = [op EXCEPT ![r] = NoOp]
        /\ UNCHANGED <<session, aborted, entry, made, closed, releasing, bound, waits>>

\* (mutant) the last id is given out again.
Clear_ReusesId(r) ==
    LET t == op[r].task
    IN  /\ op[r].call = "clear" /\ Free(bound[r])
        /\ inFlight' = [inFlight EXCEPT ![bound[r]][t] = 0]
        /\ subs' = [subs EXCEPT ![bound[r]] = @ \ {t}]
        /\ Save(bound[r], [tasks EXCEPT ![t] = Absent], IF nextId = t + 1 THEN t ELSE nextId)
        /\ orphans' = orphans \cup {e \in Execs : e = inFlight[bound[r]][t] /\ ~ Over(e)}
        /\ op' = [op EXCEPT ![r] = NoOp]
        /\ UNCHANGED <<session, execs, aborted, entry, made, closed, releasing, bound, waits>>

Clear(r) ==
    LET t == op[r].task
    IN  /\ op[r].call = "clear" /\ Free(bound[r])
        /\ inFlight' = [inFlight EXCEPT ![bound[r]][t] = 0]
        /\ subs' = [subs EXCEPT ![bound[r]] = @ \ {t}]
        /\ Save(bound[r], [tasks EXCEPT ![t] = Absent], nextId)
        /\ orphans' = orphans \cup {e \in Execs : e = inFlight[bound[r]][t] /\ ~ Over(e)}
        /\ op' = [op EXCEPT ![r] = NoOp]
        /\ UNCHANGED <<session, execs, aborted, entry, made, closed, releasing, bound, waits>>

-----------------------------------------------------------------------------
(* The execution of a task, on a thread of its own.                        *)

Advance(e, at) == execs' = [execs EXCEPT ![e].at = at]

\* The sub-agent answers or fails; its outcome is stored, which nobody looks at
\* before the end is signalled, and its session handed back.
Finish(e) ==
    /\ execs[e].at = "running" /\ Free(execs[e].rt)
    /\ Advance(e, "handed")
    /\ subs' = IF execs[e].rt \in closed THEN subs
               ELSE [subs EXCEPT ![execs[e].rt] = @ \cup {execs[e].task}]
    /\ UNCHANGED <<session, aborted, entry, made, closed, inFlight, saving, releasing, callers>>

Signal(e) ==
    /\ execs[e].at = "handed"
    /\ Advance(e, "done")
    /\ UNCHANGED <<session, aborted, runtime, saving, releasing, callers>>

\* An abort lands, or the sub-agent panics: the sender goes without a signal.
Stop(e) ==
    /\ execs[e].at = "running" /\ (e \in aborted \/ CanPanic)
    /\ Advance(e, "gone")
    /\ UNCHANGED <<session, aborted, runtime, saving, releasing, callers>>

-----------------------------------------------------------------------------
(* The host releases the session, or the process restarts.                 *)

Pending(rt) == {e \in Execs : /\ execs[e].rt = rt /\ inFlight[rt][execs[e].task] = e
                              /\ ~ IsDone(e)}

Release(cancel) ==
    /\ releasing = NoRelease
    /\ entry # 0 /\ entry \notin closed /\ Free(entry) /\ made < MaxRuntimes
    /\ CarefulHost => Cardinality(Running) <= 1
    /\ Pending(entry) # {} => cancel
    /\ closed' = closed \cup {entry}
    /\ aborted' = aborted \cup Pending(entry)
    /\ releasing' = [rt |-> entry, pending |-> Pending(entry)]
    /\ UNCHANGED <<session, execs, entry, made, inFlight, subs, saving, callers>>

\* The aborted executions are over, or the host would wait no longer.
EndRelease(late) ==
    LET rt == releasing.rt
    IN  /\ rt # 0 /\ Free(rt)
        /\ late \/ \A e \in releasing.pending : Over(e)
        /\ inFlight' = [inFlight EXCEPT ![rt] = [t \in Tasks |-> 0]]
        /\ subs' = [subs EXCEPT ![rt] = {}]
        /\ entry' = IF entry = rt THEN 0 ELSE entry
        /\ releasing' = NoRelease
        /\ quit' = IF late THEN quit ELSE quit \cup {rt}
        /\ UNCHANGED <<session, execs, aborted, made, closed, saving, callers>>

\* Only the session survives, with the list it had: a host stores a session
\* between the calls of its tools.
Restart ==
    /\ CanRestart /\ made < MaxRuntimes /\ Settled
    /\ execs' = [e \in Execs |-> IF execs[e] = Unused \/ Over(e) THEN execs[e]
                                 ELSE [execs[e] EXCEPT !.at = "gone"]]
    /\ entry' = 0 /\ closed' = 1..made
    /\ inFlight' = [rt \in Runtimes |-> [t \in Tasks |-> 0]]
    /\ subs' = [rt \in Runtimes |-> {}]
    /\ releasing' = NoRelease
    /\ bound' = [r \in Runs |-> 0] /\ op' = [r \in Runs |-> NoOp]
    /\ waits' = [r \in Runs |-> {}]
    /\ UNCHANGED <<session, aborted, made, saving>>

Execution(e) == Finish(e) \/ Signal(e) \/ Stop(e)
Tool(r) ==
    \/ BeginRun(r) \/ Announce(r) \/ EndRun(r) \/ Start(r) \/ Get(r)
    \/ BeginWait(r) \/ WaitTimeout(r) \/ EndWait(r)
    \/ BeginContinue(r) \/ Continue(r) \/ BeginClear(r)

Next ==
    \/ /\ \/ \E rt \in Runtimes : Saved(rt)
          \/ \E r \in Runs : Tool(r)
          \/ \E e \in Execs : Execution(e)
          \/ HostLists
          \/ \E cancel \in BOOLEAN : Release(cancel)
          \/ Restart
       /\ UNCHANGED <<quit, orphans>>
    \/ \E r \in Runs : Clear(r) /\ UNCHANGED quit
    \/ \E late \in BOOLEAN : EndRelease(late) /\ UNCHANGED orphans

Spec == Init /\ [][Next]_vars

\* A lock is given back, and the host lists the tasks time and again, which refreshes
\* them (tasks; before_run does the same for every run of the parent agent).
FairSpec == /\ Spec
            /\ \A rt \in Runtimes : WF_vars(Saved(rt) /\ UNCHANGED <<quit, orphans>>)
            /\ WF_vars(HostLists /\ UNCHANGED <<quit, orphans>>)

-----------------------------------------------------------------------------
Info == [status : {"absent", "running", "completed", "failed", "lost"}, of : Execs \cup {0}]
List == [Tasks -> Info]
Stage == {"unused", "running", "handed", "done", "gone"}

\* Types; and an outcome is recorded just of the tasks that have ended with one.
TypeOK ==
    /\ \A t \in Tasks : tasks[t].of # 0 <=> tasks[t].status \in {"completed", "failed"}
    /\ tasks \in List /\ nextId \in 1..(MaxTasks + 1)
    /\ execs \in [Execs -> [task : Tasks \cup {0}, rt : Runtimes \cup {0}, at : Stage]]
    /\ aborted \subseteq Execs
    /\ made \in Runtimes \cup {0} /\ entry \in 0..made /\ closed \subseteq 1..made
    /\ inFlight \in [Runtimes -> [Tasks -> Execs \cup {0}]]
    /\ subs \in [Runtimes -> SUBSET Tasks]
    /\ saving \in [Runtimes -> [tasks : List, nextId : 0..(MaxTasks + 1)]]
    /\ releasing \in [rt : 0..made, pending : SUBSET Execs]
    /\ bound \in [Runs -> 0..made]
    /\ op \in [Runs -> [call : {"none", "begin", "continue", "clear"}, task : Tasks \cup {0}]]
    /\ waits \in [Runs -> SUBSET Execs]
    /\ quit \subseteq closed /\ orphans \subseteq Execs

Executions(t) == {e \in Execs : execs[e].task = t}

\* A task's recorded outcome is that of its newest execution, however a wait,
\* a status query and a continuation of the task overlap.
OutcomeIsLatest ==
    Settled => \A t \in Tasks : tasks[t].status \in {"completed", "failed"} =>
                  /\ tasks[t].of \in Executions(t)
                  /\ \A e \in Executions(t) : e <= tasks[t].of

\* A task that is reported completed can be continued: its sub-session is back
\* before its end is signalled, and stays until someone takes or clears it.
CompletedHasSession ==
    \A t \in Tasks :
       /\ Settled /\ tasks[t].status = "completed"
       /\ execs[tasks[t].of].rt = entry /\ entry \notin closed
       => t \in subs[entry]

\* A sub-session is never in the hands of two executions.
OneExecutionPerTask ==
    \A t \in Tasks : Cardinality({e \in Executions(t) : execs[e].at = "running"}) <= 1

\* An id names one task of the session ("The task id, unique within the parent
\* session"): an execution that does not continue a task begins one under an id that
\* no execution has had, whatever lists two runtimes load and save between.
IdsUnique ==
    [][\A e \in Execs :
          execs[e] = Unused /\ execs'[e] # Unused /\ op' = op
          => Executions(execs'[e].task) = {}]_vars

\* A release that did not run out of time leaves nothing of its runtime running,
\* but for what overlapping runs have lost before.
ReleasedIsIdle ==
    \A e \in Execs : execs[e].rt \in quit => execs[e].at # "running" \/ e \in orphans

\* Tasks, their executions and their sub-sessions keep together: an outcome is that of
\* the newest execution, what is completed can be continued, by one execution at a
\* time, and a release leaves none behind (the locks of start, continue_task,
\* finalize and close in RuntimeInner).
TasksCoherent ==
    OutcomeIsLatest /\ CompletedHasSession /\ OneExecutionPerTask /\ ReleasedIsIdle

\* clear removes only what has ended ("Remove a completed or failed task").
NoOrphans == orphans = {}

\* A task that has ended is not reported running for ever, unless continued.
Stale(t) == /\ tasks[t].status = "running" /\ Executions(t) # {}
            /\ \A e \in Executions(t) : Over(e)
EndedTasksSettle == \A t \in Tasks : Stale(t) ~> ~ Stale(t)
=============================================================================
