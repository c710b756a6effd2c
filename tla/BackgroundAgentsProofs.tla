----------------------- MODULE BackgroundAgentsProofs -----------------------
(***************************************************************************)
(* Proofs about the background tasks of a session (BackgroundAgents): the  *)
(* types for every host; and, for a host that releases a session and uses  *)
(* it again from one run at a time, that the tasks, their executions and   *)
(* their sub-sessions keep together, and that no id is given out twice.    *)
(***************************************************************************)
EXTENDS BackgroundAgents, FiniteSetTheorems, TLAPS

-----------------------------------------------------------------------------
(* Types.                                                                  *)

ListOK(list) ==
    /\ list \in List
    /\ \A t \in Tasks : list[t].of # 0 <=> list[t].status \in {"completed", "failed"}

TaskOK == ListOK(tasks) /\ nextId \in 1..(MaxTasks + 1)

SavingOK ==
    /\ saving \in [Runtimes -> [tasks : List, nextId : 0..(MaxTasks + 1)]]
    /\ \A rt \in Runtimes : ~ Free(rt) =>
          ListOK(saving[rt].tasks) /\ saving[rt].nextId \in 1..(MaxTasks + 1)

Records == [task : Tasks \cup {0}, rt : Runtimes \cup {0}, at : Stage]
ExecOK == /\ execs \in [Execs -> Records] /\ aborted \subseteq Execs
          /\ \A e \in Execs : \/ execs[e] = Unused
                              \/ execs[e].at # "unused" /\ execs[e].task \in Tasks

InFlightOK == inFlight \in [Runtimes -> [Tasks -> Execs \cup {0}]]
SubsOK == subs \in [Runtimes -> SUBSET Tasks]

\* A release closes its runtime before it waits.
RuntimeOK ==
    /\ made \in Runtimes \cup {0} /\ entry \in 0..made /\ closed \subseteq 1..made
    /\ releasing \in [rt : 0..made, pending : SUBSET Execs]
    /\ releasing.rt # 0 => releasing.rt \in closed
    /\ quit \subseteq closed /\ orphans \subseteq Execs

Calls == [call : {"none", "begin", "continue", "clear"}, task : Tasks \cup {0}]

\* A call is between two locks only while its run goes on, for a task it was given.
CallsOK ==
    /\ bound \in [Runs -> 0..made]
    /\ op \in [Runs -> Calls]
    /\ waits \in [Runs -> SUBSET Execs]
    /\ \A r \in Runs : /\ bound[r] = 0 => op[r] = NoOp
                       /\ op[r].call \in {"continue", "clear"} => op[r].task \in Tasks

Typed == /\ TaskOK /\ SavingOK /\ ExecOK /\ InFlightOK /\ SubsOK
         /\ RuntimeOK /\ CallsOK

LEMMA TypedIsTypeOK == Typed => TypeOK
BY DEF Typed, TypeOK, TaskOK, ListOK, SavingOK, ExecOK, Records, InFlightOK, SubsOK,
       RuntimeOK, CallsOK, Calls

\* What a refresh finds is a list, whatever the runtime holds.
LEMMA RefreshedIsList ==
    ASSUME Typed, NEW rt \in Runtimes
    PROVE  ListOK(Refreshed(rt))
<1>1. /\ tasks \in List
      /\ \A t \in Tasks : tasks[t].of # 0 <=> tasks[t].status \in {"completed", "failed"}
      /\ inFlight[rt] \in [Tasks -> Execs \cup {0}]
  BY DEF Typed, TaskOK, ListOK, InFlightOK
<1>2. ASSUME NEW t \in Tasks
      PROVE  /\ Refreshed(rt)[t] \in Info
             /\ Refreshed(rt)[t].of # 0 <=> Refreshed(rt)[t].status \in {"completed", "failed"}
  <2> DEFINE e == inFlight[rt][t]
  <2>1. tasks[t] \in Info /\ e \in Execs \cup {0} /\ 0 \notin Execs
    BY <1>1, <1>2 DEF List, Execs
  <2>2. CASE tasks[t].status # "running"
    <3>1. Refreshed(rt)[t] = tasks[t]
      BY <2>2, <1>2 DEF Refreshed
    <3> QED BY <3>1, <2>1, <1>1, <1>2
  <2>3. CASE tasks[t].status = "running" /\ e = 0
    <3>1. Refreshed(rt)[t] = [tasks[t] EXCEPT !.status = "lost"]
      BY <2>3, <1>2 DEF Refreshed
    <3>2. tasks[t].of = 0
      BY <2>3, <1>1, <1>2
    <3> QED BY <3>1, <3>2, <2>1 DEF Info
  <2>4. CASE tasks[t].status = "running" /\ e # 0 /\ IsDone(e)
    <3>1. Refreshed(rt)[t] = Finalized(e)
      BY <2>4, <1>2 DEF Refreshed
    <3> QED BY <3>1, <2>1, <2>4 DEF Info, Finalized
  <2>5. CASE tasks[t].status = "running" /\ e # 0 /\ ~ IsDone(e)
    <3>1. Refreshed(rt)[t] = tasks[t]
      BY <2>5, <1>2 DEF Refreshed
    <3> QED BY <3>1, <2>1, <1>1, <1>2
  <2> QED BY <2>2, <2>3, <2>4, <2>5
<1>3. Refreshed(rt) = [t \in Tasks |-> Refreshed(rt)[t]]
  BY DEF Refreshed
<1> QED BY <1>2, <1>3 DEF ListOK, List

LEMMA NothingIsEmpty ==
    /\ Nothing.nextId = 0 /\ Nothing.tasks = [t \in Tasks |-> Absent]
    /\ ListOK(Nothing.tasks)
<1>1. Absent \in Info /\ Absent.of = 0 /\ Absent.status = "absent"
  BY DEF Absent, Info
<1>2. Nothing.nextId = 0 /\ Nothing.tasks = [t \in Tasks |-> Absent]
  BY DEF Nothing
<1> QED BY <1>1, <1>2 DEF ListOK, List

\* Saving a list under a lock keeps what is about to be saved well typed.
LEMMA SaveIsTyped ==
    ASSUME SavingOK, NEW rt \in Runtimes, NEW list, ListOK(list),
           NEW next \in 1..(MaxTasks + 1), Save(rt, list, next)
    PROVE  SavingOK'
<1> DEFINE Entry == [tasks : List, nextId : 0..(MaxTasks + 1)]
           new == [tasks |-> list, nextId |-> next]
<1>1. new \in Entry
  BY ConfigAssumption DEF ListOK
<1>2. saving \in [Runtimes -> Entry]
  BY DEF SavingOK
<1>3. saving' = [saving EXCEPT ![rt] = new]
  BY DEF Save
<1>4. saving' \in [Runtimes -> Entry]
  <2> HIDE DEF Entry, new
  <2> QED BY <1>1, <1>2, <1>3
<1>5. ASSUME NEW s \in Runtimes, saving'[s] # Nothing
      PROVE  ListOK(saving'[s].tasks) /\ saving'[s].nextId \in 1..(MaxTasks + 1)
  <2>1. CASE s = rt
    <3>1. saving'[s] = new
      BY <2>1, <1>2, <1>3
    <3> QED BY <3>1
  <2>2. CASE s # rt
    <3>1. saving'[s] = saving[s]
      BY <2>2, <1>2, <1>3
    <3> QED BY <3>1, <1>5 DEF SavingOK, Free
  <2> QED BY <2>1, <2>2
<1> QED BY <1>4, <1>5 DEF SavingOK, Free, ListOK

\* So does giving the lock back.
LEMMA SavedIsTyped ==
    ASSUME SavingOK, NEW rt \in Runtimes, saving' = [saving EXCEPT ![rt] = Nothing]
    PROVE  SavingOK'
<1> DEFINE Entry == [tasks : List, nextId : 0..(MaxTasks + 1)]
<1>1. Nothing \in Entry
  <2>1. 0 \in 0..(MaxTasks + 1)
    BY ConfigAssumption
  <2>2. [t \in Tasks |-> Absent] \in List
    BY DEF List, Absent, Info
  <2> QED BY <2>1, <2>2 DEF Nothing
<1>2. saving \in [Runtimes -> Entry]
  BY DEF SavingOK
<1>3. saving' \in [Runtimes -> Entry]
  <2> HIDE DEF Entry
  <2> QED BY <1>1, <1>2
<1>4. ASSUME NEW s \in Runtimes, saving'[s] # Nothing
      PROVE  ListOK(saving'[s].tasks) /\ saving'[s].nextId \in 1..(MaxTasks + 1)
  <2>1. s # rt /\ saving'[s] = saving[s]
    BY <1>4, <1>2
  <2> QED BY <2>1, <1>4 DEF SavingOK, Free
<1> QED BY <1>3, <1>4 DEF SavingOK, Free, ListOK

LEMMA RefreshIsTyped ==
    ASSUME Typed, NEW rt \in Runtimes, Refresh(rt)
    PROVE  SavingOK' /\ InFlightOK'
<1>1. CASE Refreshed(rt) = tasks
  BY <1>1 DEF Refresh, Typed, SavingOK, InFlightOK, Free
<1>2. CASE Refreshed(rt) # tasks
  <2>1. Save(rt, Refreshed(rt), nextId)
    BY <1>2 DEF Refresh
  <2>2. SavingOK'
    BY <2>1, RefreshedIsList, SaveIsTyped DEF Typed, TaskOK
  <2>3. InFlightOK'
    <3> DEFINE row == [t \in Tasks |-> IF Refreshed(rt)[t] = tasks[t] THEN inFlight[rt][t] ELSE 0]
    <3>1. inFlight' = [inFlight EXCEPT ![rt] = row]
      BY <1>2 DEF Refresh
    <3>2. inFlight \in [Runtimes -> [Tasks -> Execs \cup {0}]]
      BY DEF Typed, InFlightOK
    <3>3. row \in [Tasks -> Execs \cup {0}]
      BY <3>2
    <3> HIDE DEF row
    <3> QED BY <3>1, <3>2, <3>3 DEF InFlightOK
  <2> QED BY <2>2, <2>3
<1> QED BY <1>1, <1>2

LEMMA SpawnIsTyped ==
    ASSUME Typed, NEW rt \in Runtimes, NEW t \in Tasks, Spawn(rt, t), aborted' = aborted
    PROVE  ExecOK' /\ InFlightOK'
<1>1. PICK e \in Execs :
         /\ execs' = [execs EXCEPT ![e] = [Unused EXCEPT !.task = t, !.rt = rt, !.at = "running"]]
         /\ inFlight' = [inFlight EXCEPT ![rt][t] = e]
  BY DEF Spawn
<1>2. /\ [Unused EXCEPT !.task = t, !.rt = rt, !.at = "running"] \in Records
      /\ [Unused EXCEPT !.task = t, !.rt = rt, !.at = "running"].task \in Tasks
      /\ [Unused EXCEPT !.task = t, !.rt = rt, !.at = "running"].at # "unused"
  BY DEF Unused, Records, Stage
<1>3. ExecOK'
  BY <1>1, <1>2 DEF Typed, ExecOK
<1>4. InFlightOK'
  BY <1>1 DEF Typed, InFlightOK
<1> QED BY <1>3, <1>4

LEMMA LookupIsTyped ==
    ASSUME Typed, NEW rt \in Runtimes, Lookup(rt), UNCHANGED <<closed, releasing, quit, orphans>>
    PROVE  /\ RuntimeOK' /\ made \in 0..made' /\ rt \in 1..made' /\ rt \notin closed
           /\ 0..made \subseteq 0..made'
<1>1. /\ made \in Runtimes \cup {0} /\ entry \in 0..made /\ closed \subseteq 1..made
      /\ MaxRuntimes \in Nat
  BY ConfigAssumption DEF Typed, RuntimeOK
<1>2. CASE entry # 0 /\ entry \notin closed
  <2>1. rt = entry /\ entry' = entry /\ made' = made
    BY <1>2 DEF Lookup
  <2> QED BY <1>1, <1>2, <2>1 DEF Typed, RuntimeOK, Runtimes
<1>3. CASE ~ (entry # 0 /\ entry \notin closed)
  <2>1. rt = made + 1 /\ made < MaxRuntimes /\ entry' = rt /\ made' = rt
    BY <1>3 DEF Lookup
  <2>2. made \in Nat /\ made' = made + 1
    BY <1>1, <2>1 DEF Runtimes
  <2>3. 0..made \subseteq 0..made' /\ 1..made \subseteq 1..made' /\ rt \in 1..made' /\ rt \notin 1..made
    BY <2>2, <2>1
  <2>4. releasing' \in [rt : 0..made', pending : SUBSET Execs]
    BY <2>3 DEF Typed, RuntimeOK
  <2>5. made' \in Runtimes \cup {0} /\ entry' \in 0..made' /\ made \in 0..made'
    BY <2>1, <2>2
  <2> QED BY <1>1, <2>1, <2>3, <2>4, <2>5 DEF Typed, RuntimeOK
<1> QED BY <1>2, <1>3

LEMMA InitIsTyped == Init => Typed
<1> SUFFICES ASSUME Init PROVE Typed
  OBVIOUS
<1> USE ConfigAssumption
<1>1. TaskOK
  <2>1. 1 \in 1..(MaxTasks + 1)
    OBVIOUS
  <2> QED BY <2>1, NothingIsEmpty DEF Init, TaskOK
<1>2. SavingOK
  <2>1. Nothing \in [tasks : List, nextId : 0..(MaxTasks + 1)]
    <3>1. Nothing.tasks \in List /\ 0 \in 0..(MaxTasks + 1)
      BY NothingIsEmpty DEF ListOK
    <3> QED BY <3>1 DEF Nothing
  <2> QED BY <2>1 DEF Init, SavingOK, Free
<1>3. ExecOK
  <2>1. Unused \in Records
    BY DEF Records, Unused, Stage
  <2>2. execs = [e \in Execs |-> Unused] /\ aborted = {}
    BY DEF Init
  <2> QED BY <2>1, <2>2 DEF ExecOK
<1>4. InFlightOK /\ SubsOK
  BY DEF Init, InFlightOK, SubsOK
<1>5. RuntimeOK
  BY DEF Init, RuntimeOK, NoRelease
<1>6. CallsOK
  BY DEF Init, CallsOK, Calls, NoOp
<1> QED BY <1>1, <1>2, <1>3, <1>4, <1>5, <1>6 DEF Typed

\* What the runs are doing stays well typed when only runtimes are added.
LEMMA CallsKeep ==
    ASSUME CallsOK, UNCHANGED callers, 0..made \subseteq 0..made'
    PROVE  CallsOK'
BY DEF CallsOK, callers

LEMMA ListIsTyped ==
    ASSUME Typed, UNCHANGED <<quit, orphans>>, ListTasks
    PROVE  /\ TaskOK' /\ SavingOK' /\ ExecOK' /\ InFlightOK' /\ SubsOK' /\ RuntimeOK'
           /\ 0..made \subseteq 0..made'
<1>1. PICK rt \in Runtimes : Lookup(rt) /\ Refresh(rt)
  BY DEF ListTasks
<1>2. UNCHANGED <<session, execs, aborted, closed, subs, releasing>>
  BY DEF ListTasks
<1>3. SavingOK' /\ InFlightOK'
  BY <1>1, RefreshIsTyped
<1>4. RuntimeOK' /\ 0..made \subseteq 0..made'
  BY <1>1, <1>2, LookupIsTyped
<1> QED BY <1>2, <1>3, <1>4 DEF Typed, TaskOK, ListOK, ExecOK, SubsOK, session

LEMMA BoundRuntime ==
    ASSUME Typed, NEW r \in Runs, bound[r] # 0
    PROVE  bound[r] \in Runtimes /\ bound[r] \in 1..made
<1>1. bound[r] \in 0..made /\ made \in Runtimes \cup {0} /\ MaxRuntimes \in Nat
  BY ConfigAssumption DEF Typed, CallsOK, RuntimeOK
<1> QED BY <1>1 DEF Runtimes

LEMMA ToolIsTyped ==
    ASSUME Typed, UNCHANGED <<quit, orphans>>, NEW r \in Runs, Tool(r)
    PROVE  Typed'
<1> USE DEF Typed
<1>0. UNCHANGED <<made, closed, entry, releasing>> => RuntimeOK'
  BY DEF RuntimeOK
<1>1. CASE BeginRun(r)
  <2>1. PICK rt \in Runtimes : Lookup(rt) /\ bound' = [bound EXCEPT ![r] = rt]
    BY <1>1 DEF BeginRun
  <2>2. RuntimeOK' /\ rt \in 1..made' /\ 0..made \subseteq 0..made'
    BY <2>1, <1>1, LookupIsTyped DEF BeginRun
  <2>3. op' = [op EXCEPT ![r] = [NoOp EXCEPT !.call = "begin"]] /\ waits' = waits
    BY <1>1 DEF BeginRun
  <2>4. [NoOp EXCEPT !.call = "begin"] = [call |-> "begin", task |-> 0]
    BY DEF NoOp
  <2>5. rt \in 0..made' /\ rt # 0
    BY <2>2 DEF Runtimes
  <2>6. CallsOK'
    BY <2>1, <2>2, <2>3, <2>4, <2>5 DEF CallsOK, Calls
  <2>7. TaskOK' /\ SavingOK' /\ ExecOK' /\ InFlightOK' /\ SubsOK'
    BY <1>1 DEF BeginRun, TaskOK, ListOK, SavingOK, Free, ExecOK, InFlightOK, SubsOK, session
  <2> QED BY <2>2, <2>6, <2>7
<1>2. CASE Announce(r)
  <2>1. ListTasks /\ op' = [op EXCEPT ![r] = NoOp] /\ UNCHANGED <<bound, waits>>
    BY <1>2 DEF Announce
  <2>2. /\ TaskOK' /\ SavingOK' /\ ExecOK' /\ InFlightOK' /\ SubsOK' /\ RuntimeOK'
        /\ 0..made \subseteq 0..made'
    BY <2>1, ListIsTyped
  <2>3. CallsOK'
    BY <2>1, <2>2 DEF CallsOK, Calls, NoOp
  <2> QED BY <2>2, <2>3
<1>3. CASE EndRun(r)
  <2>1. CallsOK'
    <3>1. 0 \in 0..made /\ UNCHANGED <<made, op>> /\ op[r] = NoOp
      BY <1>3, ConfigAssumption DEF EndRun, runtime, RuntimeOK, Runtimes
    <3>2. /\ bound' = [bound EXCEPT ![r] = 0] /\ waits' = [waits EXCEPT ![r] = {}]
      BY <1>3 DEF EndRun
    <3> QED BY <3>1, <3>2 DEF CallsOK
  <2> QED BY <1>0, <1>3, <2>1
          DEF EndRun, TaskOK, ListOK, SavingOK, Free, ExecOK, InFlightOK, SubsOK, session, runtime
<1>4. CASE Start(r)
  <2> DEFINE list == [tasks EXCEPT ![nextId] = [status |-> "running", of |-> 0]]
  <2>1. /\ bound[r] # 0 /\ nextId \in Tasks
        /\ Spawn(bound[r], nextId) /\ Save(bound[r], list, nextId + 1)
        /\ UNCHANGED <<session, aborted, entry, made, closed, subs, releasing, callers>>
    BY <1>4 DEF Start, Calling
  <2>2. bound[r] \in Runtimes
    BY <2>1, BoundRuntime
  <2>3. ExecOK' /\ InFlightOK'
    BY <2>1, <2>2, SpawnIsTyped
  <2>4. ListOK(list)
    BY <2>1 DEF TaskOK, ListOK, List, Info
  <2>5. nextId + 1 \in 1..(MaxTasks + 1)
    BY <2>1, ConfigAssumption DEF Tasks
  <2>6. SavingOK'
    <3> HIDE DEF list
    <3> QED BY <2>1, <2>2, <2>4, <2>5, SaveIsTyped
  <2> QED BY <2>1, <2>3, <2>6, <1>0, CallsKeep DEF TaskOK, ListOK, SubsOK, session
<1>5. CASE Get(r) \/ (\E c, st : Check(r, c, st) /\ CallsOK')
  <2>1. bound[r] # 0 /\ Refresh(bound[r])
    BY <1>5 DEF Get, Check, Calling
  <2>2. UNCHANGED <<session, execs, aborted, entry, made, closed, subs, releasing>>
    BY <1>5 DEF Get, Check
  <2>3. SavingOK' /\ InFlightOK'
    BY <2>1, BoundRuntime, RefreshIsTyped
  <2>4. CallsOK'
    BY <1>5, <2>2, CallsKeep DEF Get
  <2> QED BY <1>0, <2>2, <2>3, <2>4 DEF TaskOK, ListOK, ExecOK, SubsOK, session
<1>6. CASE BeginContinue(r) \/ BeginClear(r)
  <2>1. PICK c \in {"continue", "clear"} : \E st : Check(r, c, st)
    BY <1>6 DEF BeginContinue, BeginClear
  <2>2. PICK t \in Tasks : op' = [op EXCEPT ![r] = [call |-> c, task |-> t]]
    BY <2>1 DEF Check
  <2>3. bound[r] # 0 /\ UNCHANGED <<made, bound, waits>>
    BY <2>1 DEF Check, Calling
  <2>4. CallsOK'
    BY <2>2, <2>3 DEF CallsOK, Calls
  <2> QED BY <2>1, <2>4, <1>5
<1>7. CASE BeginWait(r) \/ WaitTimeout(r)
  <2>1. CallsOK'
    <3>1. CASE WaitTimeout(r)
      BY <3>1 DEF WaitTimeout, CallsOK, runtime
    <3>2. CASE BeginWait(r)
      <4>1. bound[r] \in Runtimes
        BY <3>2, BoundRuntime DEF BeginWait, Calling
      <4>2. PICK ids \in SUBSET Tasks :
              waits' = [waits EXCEPT ![r] =
                {inFlight[bound[r]][t] : t \in {u \in ids : inFlight[bound[r]][u] # 0}}]
        BY <3>2 DEF BeginWait
      <4>3. {inFlight[bound[r]][t] : t \in {u \in ids : inFlight[bound[r]][u] # 0}} \subseteq Execs
        BY <4>1 DEF InFlightOK
      <4> QED BY <3>2, <4>2, <4>3 DEF BeginWait, CallsOK, runtime
    <3> QED BY <1>7, <3>1, <3>2
  <2>2. UNCHANGED <<session, execs, aborted, runtime, saving, releasing>>
    BY <1>7 DEF BeginWait, WaitTimeout
  <2> QED BY <1>0, <2>1, <2>2
          DEF TaskOK, ListOK, SavingOK, Free, ExecOK, InFlightOK, SubsOK, session, runtime
<1>8. CASE EndWait(r)
  <2>1. bound[r] \in Runtimes
    BY <1>8, BoundRuntime DEF EndWait, Calling
  <2>2. PICK e \in waits[r] :
          LET t == execs[e].task
          IN  IF tasks[t] # Absent /\ inFlight[bound[r]][t] = e
              THEN /\ inFlight' = [inFlight EXCEPT ![bound[r]][t] = 0]
                   /\ Save(bound[r], [tasks EXCEPT ![t] = Finalized(e)], nextId)
              ELSE UNCHANGED <<inFlight, saving>>
    BY <1>8 DEF EndWait
  <2> DEFINE t == execs[e].task
             list == [tasks EXCEPT ![t] = Finalized(e)]
  <2>3. e \in Execs /\ e # 0
    BY <2>2 DEF CallsOK, Execs
  <2>4. ListOK(list)
    <3>1. Finalized(e) \in Info /\ (Finalized(e).of # 0 <=> Finalized(e).status \in {"completed", "failed"})
      BY <2>3 DEF Finalized, Info
    <3> QED BY <3>1 DEF TaskOK, ListOK, List
  <2>5. InFlightOK' /\ SavingOK'
    <3>1. CASE tasks[t] # Absent /\ inFlight[bound[r]][t] = e
      <4>1. inFlight' = [inFlight EXCEPT ![bound[r]][t] = 0] /\ Save(bound[r], list, nextId)
        BY <2>2, <3>1
      <4>2. InFlightOK'
        BY <4>1 DEF InFlightOK
      <4>3. nextId \in 1..(MaxTasks + 1)
        BY DEF TaskOK
      <4>4. SavingOK'
        <5> HIDE DEF list, t
        <5> QED BY <4>1, <4>3, <2>1, <2>4, SaveIsTyped
      <4> QED BY <4>2, <4>4
    <3>2. CASE ~ (tasks[t] # Absent /\ inFlight[bound[r]][t] = e)
      <4>1. UNCHANGED <<inFlight, saving>>
        BY <2>2, <3>2
      <4> QED BY <4>1 DEF InFlightOK, SavingOK, Free
    <3> QED BY <3>1, <3>2
  <2>6. CallsOK'
    BY <1>8 DEF EndWait, CallsOK
  <2> QED BY <1>0, <1>8, <2>5, <2>6 DEF EndWait, TaskOK, ListOK, ExecOK, SubsOK, session
<1>9. CASE Continue(r)
  <2> DEFINE t == op[r].task
             list == [tasks EXCEPT ![t] =
                        IF @ = Absent THEN @ ELSE [status |-> "running", of |-> 0]]
  <2>1. op[r].call = "continue" /\ op' = [op EXCEPT ![r] = NoOp]
        /\ UNCHANGED <<session, aborted, entry, made, closed, releasing, bound, waits>>
    BY <1>9 DEF Continue
  <2>2. op[r] # NoOp /\ bound[r] # 0 /\ t \in Tasks
    BY <2>1 DEF CallsOK, NoOp
  <2>3. bound[r] \in Runtimes
    BY <2>2, BoundRuntime
  <2>4. ExecOK' /\ InFlightOK' /\ SubsOK' /\ SavingOK'
    <3>1. CASE bound[r] \notin closed /\ t \in subs[bound[r]]
      <4>1. /\ Spawn(bound[r], t) /\ Save(bound[r], list, nextId)
            /\ subs' = [subs EXCEPT ![bound[r]] = @ \ {t}]
        BY <1>9, <3>1 DEF Continue
      <4>2. ExecOK' /\ InFlightOK'
        BY <2>1, <2>2, <2>3, <4>1, SpawnIsTyped
      <4>3. ListOK(list)
        BY <2>2 DEF TaskOK, ListOK, List, Info
      <4>4. nextId \in 1..(MaxTasks + 1)
        BY DEF TaskOK
      <4>5. SavingOK'
        <5> HIDE DEF list, t
        <5> QED BY <4>1, <4>3, <4>4, <2>3, SaveIsTyped
      <4>6. SubsOK'
        BY <4>1 DEF SubsOK
      <4> QED BY <4>2, <4>5, <4>6
    <3>2. CASE ~ (bound[r] \notin closed /\ t \in subs[bound[r]])
      <4>1. UNCHANGED <<execs, inFlight, subs, saving>>
        BY <1>9, <3>2 DEF Continue
      <4> QED BY <4>1, <2>1 DEF ExecOK, InFlightOK, SubsOK, SavingOK, Free
    <3> QED BY <3>1, <3>2
  <2>5. CallsOK'
    BY <2>1 DEF CallsOK, Calls, NoOp
  <2> QED BY <1>0, <2>1, <2>4, <2>5 DEF TaskOK, ListOK, session
<1> QED BY <1>1, <1>2, <1>3, <1>4, <1>5, <1>6, <1>7, <1>8, <1>9 DEF Tool

LEMMA ExecutionIsTyped ==
    ASSUME Typed, UNCHANGED <<quit, orphans>>, NEW e \in Execs, Execution(e)
    PROVE  Typed'
<1> USE DEF Typed
<1>1. PICK at \in Stage \ {"unused"} : Advance(e, at)
  BY DEF Execution, Finish, Signal, Stop, Stage
<1>2. ExecOK'
  <2>1. execs \in [Execs -> Records] /\ execs' = [execs EXCEPT ![e].at = at] /\ aborted' = aborted
    BY <1>1 DEF ExecOK, Advance, Execution, Finish, Signal, Stop
  <2>2. execs[e].at # "unused" /\ at # "unused"
    BY <1>1 DEF Execution, Finish, Signal, Stop
  <2>3. execs[e].task \in Tasks
    BY <2>2 DEF ExecOK, Unused
  <2> QED BY <2>1, <2>2, <2>3, <1>1 DEF ExecOK, Records
<1>3. SubsOK'
  <2>1. CASE Finish(e)
    <3>1. execs[e].task \in Tasks
      BY <2>1 DEF Finish, ExecOK, Unused
    <3> QED BY <2>1, <3>1 DEF Finish, SubsOK
  <2>2. CASE Signal(e) \/ Stop(e)
    BY <2>2 DEF Signal, Stop, runtime, SubsOK
  <2> QED BY <2>1, <2>2 DEF Execution
<1>4. UNCHANGED <<session, entry, made, closed, inFlight, saving, releasing, callers>>
  BY DEF Execution, Finish, Signal, Stop, runtime
<1> QED BY <1>2, <1>3, <1>4, CallsKeep
        DEF TaskOK, ListOK, SavingOK, Free, InFlightOK, RuntimeOK, session

LEMMA RestIsTyped ==
    ASSUME Typed, Next,
           \A r \in Runs : ~ (Tool(r) /\ UNCHANGED <<quit, orphans>>),
           \A e \in Execs : ~ (Execution(e) /\ UNCHANGED <<quit, orphans>>)
    PROVE  Typed'
<1> USE DEF Typed
<1>1. ASSUME NEW rt \in Runtimes, Saved(rt), UNCHANGED <<quit, orphans>>
      PROVE  Typed'
  <2>1. TaskOK'
    <3>1. ListOK(saving[rt].tasks) /\ saving[rt].nextId \in 1..(MaxTasks + 1)
      BY <1>1 DEF Saved, SavingOK
    <3> QED BY <3>1, <1>1 DEF Saved, TaskOK, ListOK
  <2>2. SavingOK'
    BY <1>1, SavedIsTyped DEF Saved
  <2>3. UNCHANGED <<execs, aborted, runtime, releasing, callers>>
    BY <1>1 DEF Saved
  <2> QED BY <1>1, <2>1, <2>2, <2>3, CallsKeep DEF ExecOK, InFlightOK, SubsOK, RuntimeOK, runtime
<1>2. CASE HostLists /\ UNCHANGED <<quit, orphans>>
  BY <1>2, ListIsTyped, CallsKeep DEF HostLists
<1>3. ASSUME NEW cancel, Release(cancel), UNCHANGED <<quit, orphans>>
      PROVE  Typed'
  <2>1. /\ entry # 0 /\ entry \in 0..made /\ made \in Nat
        /\ closed' = closed \cup {entry} /\ aborted' = aborted \cup Pending(entry)
        /\ releasing' = [rt |-> entry, pending |-> Pending(entry)]
        /\ UNCHANGED <<session, execs, entry, made, inFlight, subs, saving, callers>>
    BY <1>3, ConfigAssumption DEF Release, RuntimeOK, Runtimes
  <2>2. Pending(entry) \subseteq Execs
    BY DEF Pending
  <2>3. RuntimeOK'
    BY <1>3, <2>1, <2>2 DEF RuntimeOK
  <2> QED BY <2>1, <2>2, <2>3, CallsKeep
          DEF TaskOK, ListOK, SavingOK, Free, ExecOK, InFlightOK, SubsOK, session
<1>4. CASE Restart /\ UNCHANGED <<quit, orphans>>
  <2>1. ExecOK'
    <3>1. \A e \in Execs : execs[e] \in Records /\ [execs[e] EXCEPT !.at = "gone"] \in Records
      BY DEF ExecOK, Records, Stage
    <3>2. /\ execs' = [e \in Execs |-> IF execs[e] = Unused \/ Over(e) THEN execs[e]
                                       ELSE [execs[e] EXCEPT !.at = "gone"]]
          /\ aborted' = aborted
      BY <1>4 DEF Restart
    <3>3. ASSUME NEW e \in Execs, execs[e] # Unused
          PROVE  execs'[e].at # "unused" /\ execs'[e].task \in Tasks
      <4>1. execs[e].at # "unused" /\ execs[e].task \in Tasks
        BY <3>3 DEF ExecOK
      <4> QED BY <3>1, <3>2, <4>1 DEF Records
    <3> QED BY <3>1, <3>2, <3>3 DEF ExecOK
  <2>2. InFlightOK' /\ SubsOK'
    BY <1>4 DEF Restart, InFlightOK, SubsOK
  <2>3. RuntimeOK' /\ CallsOK'
    <3>1. made \in Nat /\ made' = made
      BY <1>4, ConfigAssumption DEF Restart, RuntimeOK, Runtimes
    <3>2. RuntimeOK'
      BY <1>4, <3>1 DEF Restart, RuntimeOK, NoRelease
    <3>3. CallsOK'
      BY <1>4, <3>1 DEF Restart, CallsOK, Calls, NoOp
    <3> QED BY <3>2, <3>3
  <2> QED BY <1>4, <2>1, <2>2, <2>3 DEF Restart, TaskOK, ListOK, SavingOK, Free, session
<1>5. ASSUME NEW r \in Runs, Clear(r), UNCHANGED quit
      PROVE  Typed'
  <2> DEFINE t == op[r].task
             list == [tasks EXCEPT ![t] = Absent]
  <2>1. op[r].call = "clear" /\ op' = [op EXCEPT ![r] = NoOp]
        /\ inFlight' = [inFlight EXCEPT ![bound[r]][t] = 0]
        /\ subs' = [subs EXCEPT ![bound[r]] = @ \ {t}]
        /\ Save(bound[r], list, nextId)
        /\ orphans' = orphans \cup {e \in Execs : e = inFlight[bound[r]][t] /\ ~ Over(e)}
        /\ UNCHANGED <<session, execs, aborted, entry, made, closed, releasing, bound, waits>>
    BY <1>5 DEF Clear
  <2>2. op[r] # NoOp /\ bound[r] # 0 /\ t \in Tasks
    BY <2>1 DEF CallsOK, NoOp
  <2>3. bound[r] \in Runtimes
    BY <2>2, BoundRuntime
  <2>4. InFlightOK'
    BY <2>1 DEF InFlightOK
  <2>5. SubsOK'
    BY <2>1 DEF SubsOK
  <2>6. SavingOK'
    <3>1. ListOK(list)
      BY <2>2 DEF TaskOK, ListOK, List, Info, Absent
    <3>2. nextId \in 1..(MaxTasks + 1)
      BY DEF TaskOK
    <3> HIDE DEF list, t
    <3> QED BY <2>1, <2>3, <3>1, <3>2, SaveIsTyped
  <2>7. RuntimeOK' /\ CallsOK'
    BY <2>1, <1>5 DEF RuntimeOK, CallsOK, Calls, NoOp
  <2> QED BY <2>1, <2>4, <2>5, <2>6, <2>7 DEF TaskOK, ListOK, ExecOK, session
<1>6. ASSUME NEW late \in BOOLEAN, EndRelease(late), UNCHANGED orphans
      PROVE  Typed'
  <2> DEFINE rt == releasing.rt
  <2>1. /\ inFlight' = [inFlight EXCEPT ![rt] = [t \in Tasks |-> 0]]
        /\ subs' = [subs EXCEPT ![rt] = {}]
        /\ entry' = (IF entry = rt THEN 0 ELSE entry) /\ releasing' = NoRelease
        /\ quit' = (IF late THEN quit ELSE quit \cup {rt}) /\ rt # 0
        /\ UNCHANGED <<session, execs, aborted, made, closed, saving, callers>>
    BY <1>6 DEF EndRelease
  <2>2. [t \in Tasks |-> 0] \in [Tasks -> Execs \cup {0}]
    OBVIOUS
  <2>3. InFlightOK'
    BY <2>1, <2>2 DEF InFlightOK
  <2>4. SubsOK'
    BY <2>1 DEF SubsOK
  <2>5. RuntimeOK'
    <3>1. made \in Nat
      BY ConfigAssumption DEF RuntimeOK, Runtimes
    <3>2. rt \in closed /\ entry \in 0..made /\ 0 \in 0..made /\ quit \subseteq closed
      BY <2>1, <3>1 DEF RuntimeOK
    <3>3. entry' \in 0..made' /\ quit' \subseteq closed'
      BY <2>1, <3>2
    <3>4. /\ releasing' \in [rt : 0..made', pending : SUBSET Execs] /\ releasing'.rt = 0
      BY <2>1, <3>2 DEF NoRelease
    <3> QED BY <2>1, <3>3, <3>4, <1>6 DEF RuntimeOK
  <2> QED BY <2>1, <2>3, <2>4, <2>5, CallsKeep
          DEF TaskOK, ListOK, SavingOK, Free, ExecOK, session
<1> QED BY <1>1, <1>2, <1>3, <1>4, <1>5, <1>6 DEF Next

LEMMA StepIsTyped == Typed /\ [Next]_vars => Typed'
<1> SUFFICES ASSUME Typed, [Next]_vars PROVE Typed'
  OBVIOUS
<1>1. ASSUME NEW r \in Runs, Tool(r), UNCHANGED <<quit, orphans>>
      PROVE  Typed'
  BY <1>1, ToolIsTyped
<1>2. ASSUME NEW e \in Execs, Execution(e), UNCHANGED <<quit, orphans>>
      PROVE  Typed'
  BY <1>2, ExecutionIsTyped
<1>3. CASE UNCHANGED vars
  BY <1>3, CallsKeep DEF vars, session, runtime, callers, Typed, TaskOK, ListOK, SavingOK,
      Free, ExecOK, InFlightOK, SubsOK, RuntimeOK, CallsOK
<1> QED BY <1>1, <1>2, <1>3, RestIsTyped

\* Types, for every host: an outcome is recorded of the tasks that have ended with one, no
\* more executions, runtimes or ids are used than there are, and a release that ended in
\* time is of a closed runtime (RuntimeInner and the BackgroundTaskInfo of the session).
THEOREM TypeCorrect == Spec => []TypeOK
<1>1. Spec => []Typed
  BY InitIsTyped, StepIsTyped, PTL DEF Spec
<1> QED BY <1>1, TypedIsTypeOK, PTL

-----------------------------------------------------------------------------
(* A careful host.                                                         *)

(* A run holds the lock of the runtime in use: nobody else gets at the list. *)
Exclusive == entry # 0 /\ entry \notin closed /\ ~ Free(entry) /\ \E r \in Runs : bound[r] = entry

(* Only the newest runtime may be in use, by the runs that are going on, or the
   host; a lock of another one is held by a run that outlives its runtime.  What
   was started was started before the runs that are going on lost theirs. *)
HostInv ==
    /\ entry \in {0, made} /\ \A rt \in 1..made : rt \notin closed => rt = entry
    /\ \A r, q \in Running : bound[r] = bound[q]
    /\ \A rt \in Runtimes : ~ Free(rt) =>
          (rt = entry /\ entry \notin closed) \/ \E r \in Runs : bound[r] = rt
    /\ \A e \in Execs : execs[e] # Unused =>
          execs[e].rt \in 1..made /\ \A r \in Running : execs[e].rt <= bound[r]

(* Executions are numbered as they start; those of a task belong to one runtime,
   which has the newest in flight, if any, and its sub-session when none runs. *)
ExecInv ==
    /\ \A e \in Execs : execs[e] = Unused \/ \A f \in 1..(e - 1) : execs[f] # Unused
    /\ \A t \in Tasks : \A e, f \in Executions(t) :
          /\ execs[e].rt = execs[f].rt
          /\ execs[e].at = "running" /\ execs[f].at = "running" => e = f
    /\ \A rt \in Runtimes, t \in Tasks : t \in subs[rt] =>
          /\ Executions(t) # {}
          /\ \A e \in Executions(t) : execs[e].rt = rt /\ execs[e].at # "running"
    /\ \A rt \in Runtimes, t \in Tasks : inFlight[rt][t] # 0 =>
          /\ inFlight[rt][t] \in Executions(t) /\ execs[inFlight[rt][t]].rt = rt
          /\ \A e \in Executions(t) : e <= inFlight[rt][t]

(* The next id is not behind the tasks that were started. *)
IdInv ==
    /\ \A rt \in Runtimes : ~ Free(rt) =>
          \/ saving[rt].nextId = nextId
          \/ saving[rt].nextId = nextId + 1 /\ rt = entry /\ Exclusive
    /\ \A t \in Tasks : Executions(t) # {} =>
          t < nextId \/ (t = nextId /\ Exclusive /\ saving[entry].nextId = nextId + 1)

(* What a list records of its tasks is of their newest executions. *)
Newest(list) ==
    \A t \in Tasks : list[t].of # 0 =>
       /\ list[t].of \in Executions(t) /\ \A e \in Executions(t) : e <= list[t].of
       /\ list[t].status = "completed" => IsDone(list[t].of)

OutcomeInv ==
    /\ \A rt \in Runtimes : ~ Free(rt) => Newest(saving[rt].tasks)
    /\ Newest(tasks) \/ Exclusive

(* A task that was cleared is in no list that may be the session's. *)
Erased(t) ==
    /\ \A rt \in Runtimes : ~ Free(rt) => saving[rt].tasks[t] = Absent
    /\ tasks[t] = Absent \/ Exclusive

(* The sub-session of a task's newest execution is there once it is over. *)
SubsInv ==
    \A t \in Tasks : \A e \in Executions(t) :
       /\ execs[e].at \in {"handed", "done"} /\ (\A f \in Executions(t) : f <= e)
       /\ execs[e].rt \notin closed
       => t \in subs[execs[e].rt] \/ Erased(t)

(* What runs is in flight, or was cleared; a release awaits it. *)
InFlightInv ==
    \A e \in Execs : execs[e].at = "running" /\ e \notin orphans =>
       /\ execs[e].rt \notin closed => inFlight[execs[e].rt][execs[e].task] = e
       /\ execs[e].rt = releasing.rt => e \in releasing.pending
       /\ execs[e].rt \notin quit

-----------------------------------------------------------------------------
(* Who may hold which lock.                                                *)

LEMMA RuntimeNumbers ==
    ASSUME Typed
    PROVE  made \in Nat /\ MaxRuntimes \in Nat /\ 1..made \subseteq Runtimes
BY ConfigAssumption DEF Typed, RuntimeOK, Runtimes

\* A run that finds its lock free is not shut out of the list.
LEMMA LockTaken ==
    ASSUME Typed, HostInv, NEW r \in Runs, bound[r] # 0, Free(bound[r])
    PROVE  ~ Exclusive
<1>1. ASSUME Exclusive PROVE FALSE
  <2>1. PICK q \in Runs : bound[q] = entry
    BY <1>1 DEF Exclusive
  <2>2. q \in Running /\ r \in Running
    BY <2>1, <1>1 DEF Running, Exclusive
  <2>3. bound[r] = entry
    BY <2>1, <2>2 DEF HostInv
  <2> QED BY <2>3, <1>1 DEF Exclusive
<1> QED BY <1>1

\* If its runtime is not closed, nobody else holds a lock.
LEMMA LockAlone ==
    ASSUME Typed, HostInv, NEW r \in Runs, bound[r] # 0, Free(bound[r]), bound[r] \notin closed
    PROVE  bound[r] = entry /\ entry # 0 /\ Settled
<1>1. bound[r] = entry
  BY BoundRuntime DEF HostInv
<1>2. ASSUME NEW rt \in Runtimes, ~ Free(rt) PROVE FALSE
  <2>1. rt # entry
    BY <1>1, <1>2
  <2>2. PICK q \in Runs : bound[q] = rt
    BY <1>2, <2>1 DEF HostInv
  <2>3. q \in Running /\ r \in Running
    BY <2>2 DEF Running, Runtimes
  <2> QED BY <2>1, <2>2, <2>3, <1>1 DEF HostInv
<1> QED BY <1>1, <1>2 DEF Settled

\* While a run shuts the others out, its lock is the only one that is held.
LEMMA ExclusiveLock ==
    ASSUME Typed, HostInv, Exclusive, NEW rt \in Runtimes, ~ Free(rt)
    PROVE  rt = entry
<1>1. PICK q \in Runs : bound[q] = entry
  BY DEF Exclusive
<1>2. ASSUME rt # entry PROVE FALSE
  <2>1. PICK r \in Runs : bound[r] = rt
    BY <1>2 DEF HostInv
  <2>2. q \in Running /\ r \in Running
    BY <1>1, <2>1 DEF Running, Exclusive, Runtimes
  <2> QED BY <1>1, <1>2, <2>1, <2>2 DEF HostInv
<1> QED BY <1>2

LEMMA SettledIsShared ==
    ASSUME Typed, Settled
    PROVE  ~ Exclusive
<1>1. entry # 0 => entry \in Runtimes
  BY RuntimeNumbers DEF Typed, RuntimeOK
<1> QED BY <1>1 DEF Exclusive, Settled

\* The host lists the tasks only when no run shuts it out.
LEMMA LookupIsShared ==
    ASSUME NEW rt, Lookup(rt), Free(rt)
    PROVE  ~ Exclusive
BY DEF Lookup, Exclusive

\* What Save leaves under the locks.
LEMMA SaveEffect ==
    ASSUME SavingOK, NEW rt \in Runtimes, NEW list, NEW next \in 1..(MaxTasks + 1),
           Save(rt, list, next)
    PROVE  /\ saving'[rt].tasks = list /\ saving'[rt].nextId = next
           /\ saving'[rt] # Nothing
           /\ \A q \in Runtimes \ {rt} : saving'[q] = saving[q]
<1> DEFINE new == [tasks |-> list, nextId |-> next]
<1>1. saving' = [saving EXCEPT ![rt] = new] /\ DOMAIN saving = Runtimes
  BY DEF Save, SavingOK
<1>2. saving'[rt] = new /\ \A q \in Runtimes \ {rt} : saving'[q] = saving[q]
  <2> HIDE DEF new
  <2> QED BY <1>1
<1>3. new.nextId # 0
  BY ConfigAssumption
<1> QED BY <1>2, <1>3, NothingIsEmpty

\* What a run changes under its own lock, and the executions it starts there.
LEMMA HostKeptUnderLock ==
    ASSUME Typed, HostInv, NEW r \in Runs, bound[r] # 0,
           UNCHANGED <<entry, made, closed, bound>>,
           \A q \in Runtimes \ {bound[r]} : saving'[q] = saving[q],
           \A e \in Execs : execs'[e] # Unused =>
              execs'[e].rt = bound[r] \/ (execs[e] # Unused /\ execs'[e].rt = execs[e].rt)
    PROVE  HostInv'
<1>1. bound[r] \in 1..made /\ r \in Running /\ Running' = Running
  BY BoundRuntime DEF Running
<1>2. /\ entry \in {0, made} /\ \A rt \in 1..made : rt \notin closed => rt = entry
      /\ \A q, s \in Running : bound[s] = bound[q]
  BY DEF HostInv
<1>3. ASSUME NEW rt \in Runtimes, saving'[rt] # Nothing
      PROVE  (rt = entry /\ entry \notin closed) \/ \E q \in Runs : bound[q] = rt
  <2>1. CASE rt = bound[r]
    BY <2>1
  <2>2. CASE rt # bound[r]
    BY <2>2, <1>3 DEF HostInv, Free
  <2> QED BY <2>1, <2>2
<1>4. ASSUME NEW e \in Execs, execs'[e] # Unused
      PROVE  execs'[e].rt \in 1..made /\ \A q \in Running : execs'[e].rt <= bound[q]
  <2>1. CASE execs'[e].rt = bound[r]
    BY <2>1, <1>1, <1>2
  <2>2. CASE execs[e] # Unused /\ execs'[e].rt = execs[e].rt
    BY <2>2 DEF HostInv
  <2> QED BY <1>4, <2>1, <2>2
<1> QED BY <1>1, <1>2, <1>3, <1>4 DEF HostInv, Free

\* A list taken by the host, or by a run that begins, makes a runtime if there is none.
LEMMA HostKeptByLookup ==
    ASSUME Typed, HostInv, NEW rt \in Runtimes, Lookup(rt),
           UNCHANGED <<execs, closed, bound>>,
           \A q \in Runtimes \ {rt} : saving'[q] = saving[q]
    PROVE  HostInv'
<1>1. /\ made \in Nat /\ entry \in {0, made} /\ closed \subseteq 1..made
      /\ \A q \in 1..made : q \notin closed => q = entry
      /\ Running' = Running
  BY RuntimeNumbers DEF HostInv, Typed, RuntimeOK, Running
<1>2. /\ rt = entry' /\ entry' \notin closed /\ entry' \in {0, made'} /\ 1..made \subseteq 1..made'
      /\ \A q \in 1..made' : q \notin closed => q = entry'
      /\ \A q \in Runtimes : q = entry /\ entry \notin closed => q = entry'
  <2>1. CASE entry # 0 /\ entry \notin closed
    BY <1>1, <2>1 DEF Lookup
  <2>2. CASE ~ (entry # 0 /\ entry \notin closed)
    <3>1. rt = made + 1 /\ entry' = rt /\ made' = rt
      BY <2>2 DEF Lookup
    <3>2. \A q \in 1..made : q \in closed
      BY <1>1, <2>2
    <3>3. \A q \in 1..made' : q \in 1..made \/ q = made'
      BY <1>1, <3>1
    <3> QED BY <1>1, <2>2, <3>1, <3>2, <3>3 DEF Runtimes
  <2> QED BY <2>1, <2>2
<1>3. ASSUME NEW q \in Runtimes, saving'[q] # Nothing
      PROVE  (q = entry' /\ entry' \notin closed) \/ \E r \in Runs : bound[r] = q
  <2>1. CASE q = rt
    BY <2>1, <1>2
  <2>2. CASE q # rt
    BY <2>2, <1>3, <1>2 DEF HostInv, Free
  <2> QED BY <2>1, <2>2
<1>4. \A e \in Execs : execs'[e] # Unused =>
         execs'[e].rt \in 1..made' /\ \A q \in Running : execs'[e].rt <= bound[q]
  BY <1>2 DEF HostInv
<1>5. \A q, s \in Running : bound[s] = bound[q]
  BY DEF HostInv
<1> QED BY <1>1, <1>2, <1>3, <1>4, <1>5 DEF HostInv, Free

LEMMA HostKeptByBeginRun ==
    ASSUME Typed, HostInv, CarefulHost, NEW r \in Runs, BeginRun(r)
    PROVE  HostInv' /\ (Exclusive => Exclusive' /\ entry' = entry)
<1>1. PICK rt \in Runtimes : Lookup(rt) /\ bound' = [bound EXCEPT ![r] = rt]
  BY DEF BeginRun
<1>2. /\ bound[r] = 0 /\ UNCHANGED <<execs, closed, saving>>
      /\ \A q \in Running : bound[q] = entry /\ entry \notin closed
  BY DEF BeginRun
<1>3. /\ made \in Nat /\ entry \in {0, made} /\ closed \subseteq 1..made
      /\ \A q \in 1..made : q \notin closed => q = entry
      /\ bound \in [Runs -> 0..made] /\ rt # 0
  BY RuntimeNumbers DEF HostInv, Typed, RuntimeOK, CallsOK, Runtimes
<1>4. \A q \in Running : bound[q] = rt
  BY <1>1, <1>2, <1>3 DEF Lookup, Running
<1>5. /\ rt = entry' /\ entry' \notin closed /\ entry' \in {0, made'} /\ 1..made \subseteq 1..made'
      /\ \A q \in 1..made' : q \notin closed => q = entry'
      /\ \A q \in Runtimes : q = entry /\ entry \notin closed => q = entry'
      /\ \A q \in 1..made : q <= rt
  <2>1. CASE entry # 0 /\ entry \notin closed
    BY <1>1, <1>3, <2>1 DEF Lookup
  <2>2. CASE ~ (entry # 0 /\ entry \notin closed)
    <3>1. rt = made + 1 /\ entry' = rt /\ made' = rt
      BY <1>1, <2>2 DEF Lookup
    <3>2. \A q \in 1..made : q \in closed
      BY <1>3, <2>2
    <3>3. \A q \in 1..made' : q \in 1..made \/ q = made'
      BY <1>3, <3>1
    <3> QED BY <1>3, <2>2, <3>1, <3>2, <3>3 DEF Runtimes
  <2> QED BY <2>1, <2>2
<1>6. Running' = Running \cup {r} /\ \A q \in Running' : bound'[q] = rt
  BY <1>1, <1>3, <1>4 DEF Running
<1>7. \A q \in Runs \ {r} : bound'[q] = bound[q]
  BY <1>1, <1>3
<1>8. ASSUME NEW q \in Runtimes, saving'[q] # Nothing
      PROVE  (q = entry' /\ entry' \notin closed) \/ \E s \in Runs : bound'[s] = q
  <2>1. CASE q = entry /\ entry \notin closed
    BY <2>1, <1>5
  <2>2. CASE \E s \in Runs : bound[s] = q
    <3>1. PICK s \in Runs : bound[s] = q
      BY <2>2
    <3>2. s # r
      BY <3>1, <1>2 DEF Runtimes
    <3> QED BY <3>1, <3>2, <1>7
  <2> QED BY <2>1, <2>2, <1>2, <1>8 DEF HostInv, Free
<1>9. \A e \in Execs : execs'[e] # Unused => 
         execs'[e].rt \in 1..made' /\ \A q \in Running' : execs'[e].rt <= bound'[q]
  BY <1>2, <1>5, <1>6 DEF HostInv
<1>10. HostInv'
  BY <1>2, <1>5, <1>6, <1>8, <1>9 DEF HostInv, Free
<1>11. ASSUME Exclusive PROVE Exclusive' /\ entry' = entry
  <2>1. rt = entry /\ entry' = entry
    BY <1>1, <1>11 DEF Lookup, Exclusive
  <2>2. bound'[r] = rt
    BY <1>1, <1>3
  <2> QED BY <2>1, <2>2, <1>2, <1>11 DEF Exclusive, Free
<1> QED BY <1>10, <1>11

LEMMA HostKeptByEndRun ==
    ASSUME Typed, HostInv, NEW r \in Runs, EndRun(r)
    PROVE  HostInv' /\ ~ Exclusive
<1>1. /\ bound[r] # 0 /\ Free(bound[r]) /\ bound' = [bound EXCEPT ![r] = 0]
      /\ UNCHANGED <<execs, entry, made, closed, saving>>
  BY DEF EndRun, runtime
<1>2. bound \in [Runs -> 0..made]
  BY DEF Typed, CallsOK
<1>3. Running' \subseteq Running /\ \A q \in Running' : bound'[q] = bound[q]
  BY <1>1, <1>2 DEF Running
<1>4. ASSUME NEW rt \in Runtimes, saving'[rt] # Nothing
      PROVE  (rt = entry /\ entry \notin closed) \/ \E q \in Runs : bound'[q] = rt
  <2>1. CASE rt = entry /\ entry \notin closed
    BY <2>1
  <2>2. CASE \E q \in Runs : bound[q] = rt
    <3>1. PICK q \in Runs : bound[q] = rt
      BY <2>2
    <3>2. q # r
      BY <3>1, <1>1, <1>4 DEF Free
    <3> QED BY <3>1, <3>2, <1>1, <1>2
  <2> QED BY <2>1, <2>2, <1>1, <1>4 DEF HostInv, Free
<1>5. \A e \in Execs : execs'[e] # Unused => 
         execs'[e].rt \in 1..made' /\ \A q \in Running' : execs'[e].rt <= bound'[q]
  BY <1>1, <1>3 DEF HostInv
<1>6. \A q, s \in Running' : bound'[s] = bound'[q]
  BY <1>3 DEF HostInv
<1>7. HostInv'
  BY <1>1, <1>4, <1>5, <1>6 DEF HostInv, Free
<1> QED BY <1>1, <1>7, LockTaken

\* The locks are only given back, the runtimes only closed, and no execution is new.
LEMMA HostKeptOtherwise ==
    ASSUME Typed, HostInv, UNCHANGED <<made, bound>>,
           \A rt \in Runtimes : saving'[rt] \in {saving[rt], Nothing},
           entry' \in {0, entry}, closed \subseteq closed',
           entry # 0 /\ entry \notin closed' => entry' = entry,
           entry # 0 /\ entry \in closed' /\ entry \notin closed => Free(entry),
           \A e \in Execs : execs'[e] # Unused => execs[e] # Unused /\ execs'[e].rt = execs[e].rt
    PROVE  HostInv'
<1>1. /\ made \in Nat /\ entry \in {0, made} /\ entry' \in {0, made}
      /\ Running' = Running
  BY RuntimeNumbers DEF HostInv, Running
<1>2. \A rt \in 1..made : rt \notin closed' => rt = entry'
  BY <1>1 DEF HostInv
<1>3. ASSUME NEW rt \in Runtimes, saving'[rt] # Nothing
      PROVE  (rt = entry' /\ entry' \notin closed') \/ \E q \in Runs : bound[q] = rt
  <2>1. saving'[rt] = saving[rt]
    BY <1>3
  <2>2. CASE rt = entry /\ entry \notin closed
    <3>1. ~ Free(entry) /\ entry # 0
      BY <2>1, <2>2, <1>3 DEF Free, Runtimes
    <3> QED BY <2>2, <3>1
  <2> QED BY <2>1, <2>2, <1>3 DEF HostInv, Free
<1>4. \A e \in Execs : execs'[e] # Unused => 
         execs'[e].rt \in 1..made /\ \A q \in Running : execs'[e].rt <= bound[q]
  BY DEF HostInv
<1>5. \A q, s \in Running : bound[s] = bound[q]
  BY DEF HostInv
<1> QED BY <1>1, <1>2, <1>3, <1>4, <1>5 DEF HostInv, Free

-----------------------------------------------------------------------------
(* Steps that start, hand back and clear nothing.                          *)

Coherent == ExecInv /\ IdInv /\ OutcomeInv /\ SubsInv /\ InFlightInv

\* No execution begins, and what is done stays so.
NoneStarted ==
    \A e \in Execs :
       /\ execs'[e].task = execs[e].task /\ execs'[e].rt = execs[e].rt
       /\ execs'[e] = Unused <=> execs[e] = Unused
       /\ execs'[e].at = "running" => execs[e].at = "running"
       /\ IsDone(e) => execs'[e].at = "done"

\* At most a list is taken for recording, of what has been found of the tasks, and what
\* is over is in flight no more.
Routine(list) ==
    /\ UNCHANGED <<session, subs, closed, releasing, quit, orphans>>
    /\ NoneStarted
    /\ \A e \in Execs : execs'[e].at \in {"handed", "done"} => execs[e].at \in {"handed", "done"}
    /\ \A q \in Runtimes : \/ saving'[q] = saving[q]
                           \/ saving'[q].tasks = list /\ saving'[q].nextId = nextId
    /\ Newest(list) /\ \A t \in Tasks : tasks[t] = Absent => list[t] = Absent
    /\ Exclusive => Exclusive' /\ UNCHANGED <<saving, entry>>
    /\ \A q \in Runtimes, t \in Tasks :
          \/ inFlight'[q][t] = inFlight[q][t]
          \/ inFlight'[q][t] = 0 /\ execs[inFlight[q][t]].at # "running"

LEMMA SameExecutions ==
    ASSUME NoneStarted
    PROVE  \A t \in Tasks : Executions(t)' = Executions(t)
BY DEF NoneStarted, Executions

LEMMA ExecutionsAreUsed ==
    ASSUME Typed, NEW t \in Tasks, NEW e \in Executions(t)
    PROVE  e \in Execs /\ execs[e] # Unused /\ execs[e].task = t /\ execs[e].at # "unused"
           /\ execs[e] \in Records
<1>1. Unused.task = 0 /\ 0 \notin Tasks /\ execs[e] \in Records
  BY DEF Unused, Tasks, Typed, ExecOK, Executions
<1> QED BY <1>1 DEF Executions, Typed, ExecOK

LEMMA ExecInvKept ==
    ASSUME Typed, ExecInv, NoneStarted,
           \A rt \in Runtimes, t \in Tasks : t \in subs'[rt] =>
              \/ t \in subs[rt]
              \/ /\ Executions(t) # {}
                 /\ \A e \in Executions(t) : execs[e].rt = rt /\ execs'[e].at # "running",
           \A q \in Runtimes, t \in Tasks : inFlight'[q][t] \in {inFlight[q][t], 0}
    PROVE  ExecInv'
<1>1. \A t \in Tasks : Executions(t)' = Executions(t)
  BY SameExecutions
<1>2. \A t \in Tasks : Executions(t) \subseteq Execs
  BY DEF Executions
<1>3. \A e \in Execs : execs'[e] = Unused \/ \A f \in 1..(e - 1) : execs'[f] # Unused
  <2>1. \A e \in Execs : 1..(e - 1) \subseteq Execs
    BY ConfigAssumption DEF Execs
  <2> QED BY <2>1 DEF ExecInv, NoneStarted
<1>4. ASSUME NEW t \in Tasks, NEW e \in Executions(t), NEW f \in Executions(t)
      PROVE  /\ execs'[e].rt = execs'[f].rt
             /\ execs'[e].at = "running" /\ execs'[f].at = "running" => e = f
  BY <1>2 DEF ExecInv, NoneStarted
<1>5. ASSUME NEW rt \in Runtimes, NEW t \in Tasks, t \in subs'[rt]
      PROVE  /\ Executions(t) # {}
             /\ \A e \in Executions(t) : execs'[e].rt = rt /\ execs'[e].at # "running"
  BY <1>2, <1>5 DEF ExecInv, NoneStarted
<1>6. ASSUME NEW rt \in Runtimes, NEW t \in Tasks, inFlight'[rt][t] # 0
      PROVE  /\ inFlight'[rt][t] \in Executions(t) /\ execs'[inFlight'[rt][t]].rt = rt
             /\ \A e \in Executions(t) : e <= inFlight'[rt][t]
  <2>1. inFlight'[rt][t] = inFlight[rt][t]
    BY <1>6
  <2> QED BY <1>6, <2>1, <1>2 DEF ExecInv, NoneStarted
<1> QED BY <1>1, <1>3, <1>4, <1>5, <1>6 DEF ExecInv

LEMMA RoutineKeeps ==
    ASSUME Typed, HostInv, Coherent, NEW list, Routine(list)
    PROVE  Coherent'
<1> USE DEF Coherent
<1>0. /\ tasks' = tasks /\ nextId' = nextId /\ NoneStarted
      /\ UNCHANGED <<subs, closed, releasing, quit, orphans>>
      /\ \A t \in Tasks : Executions(t)' = Executions(t)
      /\ \A t \in Tasks : Executions(t) \subseteq Execs
  BY SameExecutions DEF Routine, session, Executions
<1>1. ExecInv'
  <2>1. \A q \in Runtimes, t \in Tasks : inFlight'[q][t] \in {inFlight[q][t], 0}
    BY DEF Routine
  <2> QED BY <1>0, <2>1, ExecInvKept
<1>2. IdInv'
  <2>1. \A rt \in Runtimes : saving'[rt] # Nothing =>
          \/ saving'[rt].nextId = nextId
          \/ saving'[rt].nextId = nextId + 1 /\ rt = entry' /\ Exclusive'
    BY DEF Routine, IdInv, Free
  <2>2. \A t \in Tasks : Executions(t) # {} =>
          t < nextId \/ (t = nextId /\ Exclusive' /\ saving'[entry'].nextId = nextId + 1)
    BY DEF Routine, IdInv
  <2> QED BY <1>0, <2>1, <2>2 DEF IdInv, Free
<1>3. OutcomeInv'
  <2>1. ASSUME NEW rt \in Runtimes, saving'[rt] # Nothing
        PROVE  \/ Newest(saving[rt].tasks) /\ saving'[rt].tasks = saving[rt].tasks
               \/ Newest(list) /\ saving'[rt].tasks = list
    BY <2>1 DEF Routine, OutcomeInv, Free
  <2>2. ASSUME NEW rt \in Runtimes, saving'[rt] # Nothing
        PROVE  Newest(saving[rt].tasks)'
    BY <2>1, <2>2, <1>0 DEF Newest, NoneStarted, IsDone
  <2>3. Newest(tasks)' \/ Exclusive'
    BY <1>0 DEF Routine, OutcomeInv, Newest, NoneStarted, IsDone
  <2> QED BY <2>2, <2>3 DEF OutcomeInv, Free
<1>4. ASSUME NEW t \in Tasks, Erased(t)
      PROVE  Erased(t)'
  <2>1. tasks'[t] = Absent \/ Exclusive'
    BY <1>0, <1>4 DEF Erased, Routine
  <2>2. ASSUME NEW rt \in Runtimes, saving'[rt] # Nothing
        PROVE  saving'[rt].tasks[t] = Absent
    BY <1>4, <2>2 DEF Erased, Routine, Free
  <2> QED BY <2>1, <2>2 DEF Erased, Free
<1>5. SubsInv'
  <2>1. ASSUME NEW t \in Tasks, NEW e \in Executions(t),
               execs'[e].at \in {"handed", "done"}, \A f \in Executions(t) : f <= e,
               execs'[e].rt \notin closed
        PROVE  t \in subs[execs'[e].rt] \/ Erased(t)
    BY <1>0, <2>1 DEF SubsInv, Routine, NoneStarted
  <2> QED BY <1>0, <1>4, <2>1 DEF SubsInv
<1>6. InFlightInv'
  <2>1. ASSUME NEW e \in Execs, execs'[e].at = "running", e \notin orphans
        PROVE  /\ execs[e].rt \notin closed => inFlight'[execs[e].rt][execs[e].task] = e
               /\ execs[e].rt = releasing.rt => e \in releasing.pending
               /\ execs[e].rt \notin quit
    <3>1. execs[e].at = "running"
      BY <2>1, <1>0 DEF NoneStarted
    <3>2. execs[e].task \in Tasks /\ execs[e].rt \in Runtimes
      BY <3>1, RuntimeNumbers DEF Typed, ExecOK, Unused, HostInv
    <3> QED BY <2>1, <3>1, <3>2 DEF InFlightInv, Routine
  <2> QED BY <1>0, <2>1 DEF InFlightInv, NoneStarted
<1> QED BY <1>1, <1>2, <1>3, <1>5, <1>6

\* Nothing is found: a step that leaves the list, the executions and the runtime alone.
LEMMA QuietIsRoutine ==
    ASSUME Typed, UNCHANGED <<session, inFlight, subs, saving, closed, releasing, quit, orphans>>,
           Exclusive => Exclusive' /\ entry' = entry,
           NoneStarted,
           \A e \in Execs : execs'[e].at \in {"handed", "done"} => execs[e].at \in {"handed", "done"}
    PROVE  \E list : Routine(list)
<1>1. Newest(Nothing.tasks) /\ \A t \in Tasks : Nothing.tasks[t] = Absent
  BY NothingIsEmpty DEF Newest, Absent
<1>2. Routine(Nothing.tasks)
  BY <1>1 DEF Routine
<1> QED BY <1>2

LEMMA SameIsNoneStarted ==
    ASSUME execs' = execs
    PROVE  NoneStarted
BY DEF NoneStarted, IsDone

LEMMA AdvanceEffect ==
    ASSUME Typed, NEW e \in Execs, NEW at \in {"handed", "done", "gone"}, Advance(e, at),
           execs[e].at \in {"running", "handed"}
    PROVE  /\ NoneStarted
           /\ execs'[e].at = at /\ \A f \in Execs \ {e} : execs'[f] = execs[f]
<1>1. /\ execs' = [execs EXCEPT ![e].at = at] /\ execs \in [Execs -> Records]
      /\ Unused.at = "unused"
  BY DEF Typed, ExecOK, Advance, Unused
<1>2. \A f \in Execs \ {e} : execs'[f] = execs[f]
  BY <1>1
<1>3. execs[e] \in Records /\ execs'[e] = [execs[e] EXCEPT !.at = at]
  BY <1>1
<1>4. execs'[e].at = at /\ execs'[e].task = execs[e].task /\ execs'[e].rt = execs[e].rt
  BY <1>3 DEF Records
<1>5. execs'[e] # Unused /\ execs[e] # Unused
  BY <1>1, <1>4
<1> QED BY <1>2, <1>4, <1>5 DEF NoneStarted, IsDone

\* The list of the session is sound when no run is about to replace it.
LEMMA SharedList ==
    ASSUME Coherent, ~ Exclusive
    PROVE  Newest(tasks)
BY DEF Coherent, OutcomeInv

LEMMA RefreshIsRoutine ==
    ASSUME Typed, HostInv, Coherent, NEW rt \in Runtimes, Refresh(rt), ~ Exclusive,
           UNCHANGED <<session, execs, subs, closed, releasing, quit, orphans>>
    PROVE  \E list : Routine(list)
<1> DEFINE list == Refreshed(rt)
<1>1. Newest(tasks)
  BY SharedList
<1>2. inFlight[rt] \in [Tasks -> Execs \cup {0}] /\ \A t \in Tasks : tasks[t] \in Info
  BY DEF Typed, InFlightOK, TaskOK, ListOK, List
<1>3. ASSUME NEW t \in Tasks
      PROVE  /\ list[t].of # 0 =>
                  /\ list[t].of \in Executions(t) /\ \A e \in Executions(t) : e <= list[t].of
                  /\ list[t].status = "completed" => IsDone(list[t].of)
             /\ tasks[t] = Absent => list[t] = Absent
             /\ \/ list[t] = tasks[t] \/ inFlight[rt][t] = 0
                \/ execs[inFlight[rt][t]].at = "done"
  <2> DEFINE e == inFlight[rt][t]
  <2>1. CASE tasks[t].status # "running" \/ (e # 0 /\ ~ IsDone(e))
    <3>1. list[t] = tasks[t]
      BY <2>1, <1>3 DEF Refreshed
    <3> QED BY <3>1, <1>1, <1>3 DEF Newest
  <2>2. CASE tasks[t].status = "running" /\ e = 0
    <3>1. list[t] = [tasks[t] EXCEPT !.status = "lost"]
      BY <2>2, <1>3 DEF Refreshed
    <3>2. tasks[t].of = 0
      BY <2>2, <1>3 DEF Typed, TaskOK, ListOK
    <3>3. list[t].of = 0 /\ tasks[t] # Absent
      BY <1>2, <2>2, <3>1, <3>2 DEF Info, Absent
    <3> HIDE DEF list
    <3> QED BY <2>2, <3>3
  <2>3. CASE tasks[t].status = "running" /\ e # 0 /\ IsDone(e)
    <3>1. list[t] = Finalized(e)
      BY <2>3, <1>3 DEF Refreshed
    <3>2. list[t].of = e /\ tasks[t] # Absent
      BY <2>3, <3>1 DEF Finalized, Absent
    <3>3. e \in Executions(t) /\ \A f \in Executions(t) : f <= e
      BY <2>3, <1>3 DEF Coherent, ExecInv
    <3> HIDE DEF list
    <3> QED BY <2>3, <3>2, <3>3 DEF IsDone
  <2> QED BY <2>1, <2>2, <2>3
<1>4. NoneStarted
  BY SameIsNoneStarted
<1>5. nextId \in 1..(MaxTasks + 1)
  BY DEF Typed, TaskOK
<1>6. CASE list = tasks
  <2>1. UNCHANGED <<saving, inFlight>>
    BY <1>6 DEF Refresh
  <2> QED BY <1>1, <1>4, <2>1 DEF Routine
<1>7. CASE list # tasks
  <2>1. /\ Save(rt, list, nextId)
        /\ inFlight' = [inFlight EXCEPT ![rt] =
              [t \in Tasks |-> IF list[t] = tasks[t] THEN inFlight[rt][t] ELSE 0]]
    BY <1>7 DEF Refresh
  <2> HIDE DEF list
  <2>2. /\ saving'[rt].tasks = list /\ saving'[rt].nextId = nextId
        /\ \A q \in Runtimes \ {rt} : saving'[q] = saving[q]
    BY <2>1, <1>5, SaveEffect DEF Typed
  <2>3. ASSUME NEW q \in Runtimes, NEW t \in Tasks
        PROVE  \/ inFlight'[q][t] = inFlight[q][t]
               \/ inFlight'[q][t] = 0 /\ execs[inFlight[q][t]].at # "running"
    <3>1. inFlight \in [Runtimes -> [Tasks -> Execs \cup {0}]]
      BY DEF Typed, InFlightOK
    <3>2. q # rt => inFlight'[q] = inFlight[q]
      BY <2>1, <3>1
    <3>3. inFlight'[rt][t] = IF list[t] = tasks[t] THEN inFlight[rt][t] ELSE 0
      BY <2>1, <3>1
    <3> QED BY <3>2, <3>3, <1>3
  <2>4. Newest(list) /\ \A t \in Tasks : tasks[t] = Absent => list[t] = Absent
    BY <1>3 DEF Newest
  <2>5. Routine(list)
    BY <1>4, <2>2, <2>3, <2>4 DEF Routine
  <2> QED BY <2>5
<1> QED BY <1>6, <1>7

LEMMA EndWaitIsRoutine ==
    ASSUME Typed, HostInv, Coherent, NEW r \in Runs, EndWait(r), UNCHANGED <<quit, orphans>>
    PROVE  \E list : Routine(list)
<1>1. bound[r] \in Runtimes /\ bound[r] # 0 /\ Free(bound[r])
  BY BoundRuntime DEF EndWait, Calling
<1>2. ~ Exclusive
  BY <1>1, LockTaken
<1>3. PICK e \in waits[r] :
        LET t == execs[e].task
        IN  /\ Over(e)
            /\ IF tasks[t] # Absent /\ inFlight[bound[r]][t] = e
               THEN /\ inFlight' = [inFlight EXCEPT ![bound[r]][t] = 0]
                    /\ Save(bound[r], [tasks EXCEPT ![t] = Finalized(e)], nextId)
               ELSE UNCHANGED <<inFlight, saving>>
  BY DEF EndWait
<1> DEFINE t == execs[e].task
           list == [tasks EXCEPT ![t] = Finalized(e)]
<1>4. e \in Execs /\ e # 0 /\ t \in Tasks
  <2>1. e \in Execs
    BY <1>3 DEF Typed, CallsOK
  <2>2. execs[e] # Unused
    BY <1>3 DEF Over, Unused
  <2> QED BY <2>1, <2>2 DEF Typed, ExecOK, Execs
<1>5. UNCHANGED <<session, execs, entry, subs, closed, releasing, quit, orphans>> /\ NoneStarted
  BY SameIsNoneStarted DEF EndWait
<1>6. CASE tasks[t] # Absent /\ inFlight[bound[r]][t] = e
  <2>1. inFlight' = [inFlight EXCEPT ![bound[r]][t] = 0] /\ Save(bound[r], list, nextId)
    BY <1>3, <1>6
  <2>2. e \in Executions(t) /\ \A f \in Executions(t) : f <= e
    BY <1>1, <1>4, <1>6 DEF Coherent, ExecInv
  <2>3. tasks \in [Tasks -> Info] /\ Newest(tasks) /\ nextId \in 1..(MaxTasks + 1)
    BY <1>2, SharedList DEF Typed, TaskOK, ListOK, List
  <2>4. list[t] = Finalized(e) /\ \A u \in Tasks \ {t} : list[u] = tasks[u]
    BY <1>4, <2>3
  <2> HIDE DEF list
  <2>5. Newest(list)
    BY <2>2, <2>3, <2>4 DEF Newest, Finalized
  <2>6. \A u \in Tasks : tasks[u] = Absent => list[u] = Absent
    BY <2>4, <1>6
  <2>7. /\ saving'[bound[r]].tasks = list /\ saving'[bound[r]].nextId = nextId
        /\ \A q \in Runtimes \ {bound[r]} : saving'[q] = saving[q]
    BY <1>1, <2>1, <2>3, SaveEffect DEF Typed
  <2>8. ASSUME NEW q \in Runtimes, NEW u \in Tasks
        PROVE  \/ inFlight'[q][u] = inFlight[q][u]
               \/ inFlight'[q][u] = 0 /\ execs[inFlight[q][u]].at # "running"
    <3>1. inFlight \in [Runtimes -> [Tasks -> Execs \cup {0}]] /\ execs[e].at # "running"
      BY <1>3 DEF Typed, InFlightOK, Over
    <3> HIDE DEF t
    <3> QED BY <1>1, <1>4, <1>6, <2>1, <3>1
  <2>9. Routine(list)
    BY <1>2, <1>5, <2>5, <2>6, <2>7, <2>8 DEF Routine
  <2> QED BY <2>9
<1>7. CASE ~ (tasks[t] # Absent /\ inFlight[bound[r]][t] = e)
  <2>1. UNCHANGED <<inFlight, saving>>
    BY <1>3, <1>7
  <2> QED BY <1>2, <1>5, <2>1, QuietIsRoutine
<1> QED BY <1>6, <1>7

-----------------------------------------------------------------------------
(* An execution begins.                                                    *)

LEMMA SpawnEffect ==
    ASSUME Typed, ExecInv, NEW rt \in Runtimes, NEW t \in Tasks, Spawn(rt, t)
    PROVE  \E e \in Execs :
             /\ execs[e] = Unused /\ \A f \in Execs \ {e} : execs'[f] = execs[f]
             /\ execs'[e].task = t /\ execs'[e].rt = rt /\ execs'[e].at = "running"
             /\ execs'[e] # Unused /\ \A f \in 1..(e - 1) : execs[f] # Unused
             /\ Executions(t)' = Executions(t) \cup {e}
             /\ \A u \in Tasks \ {t} : Executions(u)' = Executions(u)
             /\ \A u \in Tasks : e \notin Executions(u)
             /\ \A f \in Executions(t) : f < e
             /\ inFlight'[rt][t] = e
             /\ \A q \in Runtimes, u \in Tasks : q # rt \/ u # t => inFlight'[q][u] = inFlight[q][u]
<1>1. PICK e \in Execs :
        /\ execs[e] = Unused /\ \A f \in 1..(e - 1) : execs[f] # Unused
        /\ execs' = [execs EXCEPT ![e] = [Unused EXCEPT !.task = t, !.rt = rt, !.at = "running"]]
        /\ inFlight' = [inFlight EXCEPT ![rt][t] = e]
  BY DEF Spawn
<1>2. execs \in [Execs -> Records] /\ inFlight \in [Runtimes -> [Tasks -> Execs \cup {0}]]
  BY DEF Typed, ExecOK, InFlightOK
<1>3. \A f \in Execs \ {e} : execs'[f] = execs[f]
  BY <1>1, <1>2
<1>4. /\ execs'[e].task = t /\ execs'[e].rt = rt /\ execs'[e].at = "running"
      /\ execs'[e] # Unused /\ execs[e].task = 0 /\ t # 0
  <2> DEFINE new == [Unused EXCEPT !.task = t, !.rt = rt, !.at = "running"]
  <2>1. new.task = t /\ new.rt = rt /\ new.at = "running"
    BY DEF Unused
  <2>2. execs'[e] = new
    BY <1>1, <1>2
  <2> HIDE DEF new
  <2>3. execs[e].task = 0 /\ execs[e].at = "unused" /\ Unused.at = "unused"
    BY <1>1 DEF Unused
  <2>4. t # 0
    BY DEF Tasks
  <2> QED BY <2>1, <2>2, <2>3, <2>4
<1>5. Executions(t)' = Executions(t) \cup {e} /\ e \notin Executions(t)
  BY <1>3, <1>4 DEF Executions
<1>6. \A u \in Tasks \ {t} : Executions(u)' = Executions(u)
  BY <1>3, <1>4 DEF Executions, Tasks
<1>7. \A u \in Tasks : e \notin Executions(u)
  BY <1>1, ExecutionsAreUsed
<1>8. ASSUME NEW f \in Executions(t) PROVE f < e
  <2>1. f \in Execs /\ execs[f] # Unused /\ f # e
    BY <1>5, ExecutionsAreUsed
  <2>2. \A g \in 1..(f - 1) : execs[g] # Unused
    BY <2>1 DEF ExecInv
  <2>3. e \in Nat /\ f \in Nat /\ e > 0 /\ f > 0
    BY <2>1, ConfigAssumption DEF Execs
  <2>4. e \notin 1..(f - 1)
    BY <1>1, <2>2
  <2> QED BY <2>1, <2>3, <2>4
<1>9. inFlight'[rt][t] = e
  BY <1>1, <1>2
<1>10. \A q \in Runtimes, u \in Tasks : q # rt \/ u # t => inFlight'[q][u] = inFlight[q][u]
  BY <1>1, <1>2
<1> QED BY <1>1, <1>3, <1>4, <1>5, <1>6, <1>7, <1>8, <1>9, <1>10

\* Its task gets it, with no outcome in the list that the run is about to save.
LEMMA SpawnKeeps ==
    ASSUME Typed, HostInv, Coherent, NEW r \in Runs, NEW rt \in Runtimes, NEW t \in Tasks,
           rt = bound[r], rt = entry, rt \notin closed, Settled,
           Spawn(rt, t),
           NEW list, NEW next \in 1..(MaxTasks + 1), Save(rt, list, next),
           \A f \in Executions(t) : execs[f].rt = rt /\ execs[f].at # "running",
           list[t].of = 0, \A u \in Tasks \ {t} : list[u] = tasks[u],
           (t < nextId /\ next = nextId) \/ (t = nextId /\ next = nextId + 1),
           \A q \in Runtimes : subs'[q] = subs[q] \ {t},
           UNCHANGED <<session, entry, made, closed, releasing, bound, quit, orphans>>
    PROVE  Coherent'
<1>0. ExecInv /\ IdInv /\ OutcomeInv /\ SubsInv /\ InFlightInv /\ ~ Exclusive
  BY SettledIsShared DEF Coherent
<1>1. PICK e \in Execs :
        /\ execs[e] = Unused /\ \A f \in Execs \ {e} : execs'[f] = execs[f]
        /\ execs'[e].task = t /\ execs'[e].rt = rt /\ execs'[e].at = "running"
        /\ execs'[e] # Unused /\ \A f \in 1..(e - 1) : execs[f] # Unused
        /\ Executions(t)' = Executions(t) \cup {e}
        /\ \A u \in Tasks \ {t} : Executions(u)' = Executions(u)
        /\ \A u \in Tasks : e \notin Executions(u)
        /\ \A f \in Executions(t) : f < e
        /\ inFlight'[rt][t] = e
        /\ \A q \in Runtimes, u \in Tasks : q # rt \/ u # t => inFlight'[q][u] = inFlight[q][u]
  BY <1>0, SpawnEffect
<1>2. /\ saving'[rt].tasks = list /\ saving'[rt].nextId = next /\ saving'[rt] # Nothing
      /\ \A q \in Runtimes : saving'[q] # Nothing => q = rt
  <2>1. /\ saving'[rt].tasks = list /\ saving'[rt].nextId = next /\ saving'[rt] # Nothing
        /\ \A q \in Runtimes \ {rt} : saving'[q] = saving[q]
    BY SaveEffect DEF Typed
  <2> QED BY <2>1 DEF Settled, Free
<1>3. Exclusive'
  <2>1. rt # 0
    BY DEF Runtimes
  <2>2. entry' = rt /\ bound'[r] = rt /\ rt \notin closed'
    OBVIOUS
  <2> QED BY <1>2, <2>1, <2>2 DEF Exclusive, Free
<1>4. tasks' = tasks /\ nextId' = nextId /\ nextId \in Nat
  BY ConfigAssumption DEF session, Typed, TaskOK
<1>5. \A u \in Tasks : Executions(u) \subseteq Execs /\ e \notin Executions(u)
  BY <1>1 DEF Executions
<1>6. Execs \subseteq Nat
  BY ConfigAssumption DEF Execs
<1>7. ExecInv'
  <2>1. ASSUME NEW f \in Execs, execs'[f] # Unused, NEW g \in 1..(f - 1)
        PROVE  execs'[g] # Unused
    <3>1. g \in Execs
      BY ConfigAssumption DEF Execs
    <3>2. CASE f = e
      <4>1. g # e
        BY <3>2, <1>6
      <4> QED BY <1>1, <2>1, <3>1, <3>2, <4>1
    <3>3. CASE f # e
      BY <1>0, <1>1, <2>1, <3>1, <3>3 DEF ExecInv
    <3> QED BY <3>2, <3>3
  <2>2. ASSUME NEW u \in Tasks, NEW f \in Executions(u)', NEW g \in Executions(u)'
        PROVE  /\ execs'[f].rt = execs'[g].rt
               /\ execs'[f].at = "running" /\ execs'[g].at = "running" => f = g
    <3>1. CASE u = t
      BY <1>1, <1>5, <2>2, <3>1
    <3>2. CASE u # t
      <4>1. f \in Executions(u) /\ g \in Executions(u)
        BY <1>1, <2>2, <3>2
      <4> QED BY <1>0, <1>1, <1>5, <4>1 DEF ExecInv
    <3> QED BY <3>1, <3>2
  <2>3. ASSUME NEW q \in Runtimes, NEW u \in Tasks, u \in subs'[q]
        PROVE  /\ Executions(u)' # {}
               /\ \A f \in Executions(u)' : execs'[f].rt = q /\ execs'[f].at # "running"
    <3>1. u # t /\ u \in subs[q] /\ Executions(u)' = Executions(u)
      BY <1>1, <2>3
    <3> QED BY <1>0, <1>1, <1>5, <3>1 DEF ExecInv
  <2>4. ASSUME NEW q \in Runtimes, NEW u \in Tasks, inFlight'[q][u] # 0
        PROVE  /\ inFlight'[q][u] \in Executions(u)' /\ execs'[inFlight'[q][u]].rt = q
               /\ \A f \in Executions(u)' : f <= inFlight'[q][u]
    <3>1. CASE u = t /\ q = rt
      <4>1. \A f \in Executions(t)' : f \in Nat /\ (f < e \/ f = e)
        BY <1>1, <1>5, <1>6
      <4> QED BY <1>1, <1>6, <3>1, <4>1
    <3>2. CASE u = t /\ q # rt
      <4>1. inFlight[q][u] # 0 /\ inFlight[q][u] \in Executions(t) /\ execs[inFlight[q][u]].rt = q
        BY <1>0, <1>1, <2>4, <3>2 DEF ExecInv
      <4> QED BY <4>1, <3>2
    <3>3. CASE u # t
      <4>1. inFlight'[q][u] = inFlight[q][u] /\ Executions(u)' = Executions(u)
        BY <1>1, <3>3
      <4>2. /\ inFlight[q][u] \in Executions(u) /\ execs[inFlight[q][u]].rt = q
            /\ \A f \in Executions(u) : f <= inFlight[q][u]
        BY <1>0, <2>4, <4>1 DEF ExecInv
      <4>3. execs'[inFlight[q][u]] = execs[inFlight[q][u]]
        BY <1>1, <1>5, <4>2
      <4> QED BY <4>1, <4>2, <4>3
    <3> QED BY <3>1, <3>2, <3>3
  <2> QED BY <2>1, <2>2, <2>3, <2>4 DEF ExecInv
<1>8. IdInv'
  <2>1. \A q \in Runtimes : saving'[q] # Nothing =>
          \/ saving'[q].nextId = nextId'
          \/ saving'[q].nextId = nextId' + 1 /\ q = entry' /\ Exclusive'
    BY <1>2, <1>3, <1>4
  <2>2. ASSUME NEW u \in Tasks, Executions(u)' # {}
        PROVE  u < nextId' \/ (u = nextId' /\ Exclusive' /\ saving'[entry'].nextId = nextId' + 1)
    <3>1. CASE u = t
      BY <1>2, <1>3, <1>4, <3>1
    <3>2. CASE u # t
      <4>1. Executions(u) # {}
        BY <1>1, <2>2, <3>2
      <4> QED BY <1>0, <1>4, <4>1 DEF IdInv
    <3> QED BY <3>1, <3>2
  <2> QED BY <2>1, <2>2 DEF IdInv, Free
<1>9. OutcomeInv'
  <2>1. ASSUME NEW u \in Tasks, list[u].of # 0
        PROVE  /\ list[u].of \in Executions(u)' /\ \A f \in Executions(u)' : f <= list[u].of
               /\ list[u].status = "completed" => execs'[list[u].of].at = "done"
    <3>1. u # t /\ list[u] = tasks[u] /\ Executions(u)' = Executions(u)
      BY <1>1, <2>1
    <3>2. /\ list[u].of \in Executions(u) /\ \A f \in Executions(u) : f <= list[u].of
          /\ list[u].status = "completed" => execs[list[u].of].at = "done"
      BY <1>0, <2>1, <3>1 DEF OutcomeInv, Newest, IsDone
    <3>3. execs'[list[u].of] = execs[list[u].of]
      BY <1>1, <1>5, <3>2
    <3> QED BY <3>1, <3>2, <3>3
  <2>2. ASSUME NEW q \in Runtimes, saving'[q] # Nothing
        PROVE  Newest(saving[q].tasks)'
    <3>1. saving'[q].tasks = list
      BY <1>2, <2>2
    <3> QED BY <2>1, <3>1 DEF Newest, IsDone
  <2> QED BY <1>3, <2>2 DEF OutcomeInv, Free
<1>10. SubsInv'
  <2>1. ASSUME NEW u \in Tasks, NEW f \in Executions(u)', execs'[f].at \in {"handed", "done"},
               \A g \in Executions(u)' : g <= f, execs'[f].rt \notin closed
        PROVE  u \in subs'[execs'[f].rt] \/ Erased(u)'
    <3>1. u # t
      <4>1. ASSUME u = t PROVE FALSE
        <5>1. e <= f /\ f # e
          BY <1>1, <2>1, <4>1
        <5>2. f \in Executions(t)
          BY <1>1, <2>1, <4>1, <5>1
        <5>3. f < e /\ f \in Nat /\ e \in Nat
          BY <1>1, <1>5, <1>6, <5>2
        <5> QED BY <5>1, <5>3
      <4> QED BY <4>1
    <3>2. Executions(u)' = Executions(u) /\ execs'[f] = execs[f] /\ f \in Execs
      BY <1>1, <1>5, <2>1, <3>1
    <3>3. u \in subs[execs[f].rt] \/ Erased(u)
      BY <1>0, <2>1, <3>2 DEF SubsInv
    <3>4. CASE u \in subs[execs[f].rt]
      <4>1. execs[f].rt \in Runtimes
        <5>1. execs[f] # Unused
          BY <2>1, <3>2, ExecutionsAreUsed
        <5> QED BY <3>2, <5>1, RuntimeNumbers DEF HostInv
      <4> QED BY <3>1, <3>2, <3>4, <4>1
    <3>5. CASE Erased(u)
      <4>1. tasks[u] = Absent
        BY <1>0, <3>5 DEF Erased
      <4>2. \A q \in Runtimes : saving'[q] # Nothing => saving'[q].tasks[u] = Absent
        BY <1>2, <3>1, <4>1
      <4> QED BY <1>3, <4>2 DEF Erased, Free
    <3> QED BY <3>3, <3>4, <3>5
  <2> QED BY <2>1 DEF SubsInv
<1>11. InFlightInv'
  <2>1. ASSUME NEW f \in Execs, execs'[f].at = "running", f \notin orphans
        PROVE  /\ execs'[f].rt \notin closed => inFlight'[execs'[f].rt][execs'[f].task] = f
               /\ execs'[f].rt = releasing.rt => f \in releasing.pending
               /\ execs'[f].rt \notin quit
    <3>1. CASE f = e
      BY <1>1, <3>1 DEF Typed, RuntimeOK, Runtimes
    <3>2. CASE f # e
      <4>1. execs'[f] = execs[f] /\ execs[f].at = "running"
        BY <1>1, <2>1, <3>2
      <4>2. execs[f] # Unused
        BY <4>1 DEF Unused
      <4>3. execs[f].task \in Tasks /\ execs[f].rt \in Runtimes
        BY <4>2, RuntimeNumbers DEF Typed, ExecOK, HostInv
      <4>4. execs[f].task # t
        BY <4>1 DEF Executions
      <4>5. inFlight'[execs[f].rt][execs[f].task] = inFlight[execs[f].rt][execs[f].task]
        BY <1>1, <4>3, <4>4
      <4> QED BY <1>0, <2>1, <4>1, <4>5 DEF InFlightInv
    <3> QED BY <3>1, <3>2
  <2> QED BY <2>1 DEF InFlightInv
<1> QED BY <1>7, <1>8, <1>9, <1>10, <1>11 DEF Coherent

LEMMA StartKeeps ==
    ASSUME Typed, HostInv, Coherent, NEW r \in Runs, Start(r), UNCHANGED <<quit, orphans>>
    PROVE  Coherent' /\ HostInv'
<1> DEFINE list == [tasks EXCEPT ![nextId] = [status |-> "running", of |-> 0]]
           rt == bound[r]
<1>1. /\ rt # 0 /\ Free(rt) /\ rt \notin closed /\ nextId \in Tasks
      /\ Spawn(rt, nextId) /\ Save(rt, list, nextId + 1)
      /\ UNCHANGED <<session, entry, made, closed, subs, releasing, bound>>
  BY DEF Start, Calling, callers
<1>2. rt \in Runtimes /\ rt = entry /\ Settled
  BY <1>1, LockAlone, BoundRuntime
<1>3. ~ Exclusive /\ ExecInv /\ IdInv
  BY <1>2, SettledIsShared DEF Coherent
<1>4. Executions(nextId) = {}
  BY <1>1, <1>3, ConfigAssumption DEF IdInv, Tasks
<1>5. \A q \in Runtimes : nextId \notin subs[q]
  BY <1>1, <1>3, <1>4 DEF ExecInv
<1>6. \A q \in Runtimes : subs'[q] = subs[q] \ {nextId}
  BY <1>1, <1>5 DEF Typed, SubsOK
<1>7. nextId + 1 \in 1..(MaxTasks + 1)
  BY <1>1, ConfigAssumption DEF Tasks
<1>8. list[nextId].of = 0 /\ \A u \in Tasks \ {nextId} : list[u] = tasks[u]
  BY <1>1 DEF Typed, TaskOK, ListOK, List
<1>9. Coherent'
  <2> DEFINE t == nextId
  <2>1. t \in Tasks /\ \A f \in Executions(t) : execs[f].rt = rt /\ execs[f].at # "running"
    BY <1>1, <1>4
  <2> HIDE DEF list
  <2> QED BY <1>1, <1>2, <1>6, <1>7, <1>8, <2>1, SpawnKeeps
<1>10. HostInv'
  <2>1. \A q \in Runtimes \ {rt} : saving'[q] = saving[q]
    BY <1>1, <1>2, <1>7, SaveEffect DEF Typed
  <2>2. PICK e \in Execs : execs'[e].rt = rt /\ \A f \in Execs \ {e} : execs'[f] = execs[f]
    BY <1>1, <1>2, <1>3, SpawnEffect
  <2> QED BY <1>1, <2>1, <2>2, HostKeptUnderLock
<1> QED BY <1>9, <1>10

LEMMA ContinueKeeps ==
    ASSUME Typed, HostInv, Coherent, NEW r \in Runs, Continue(r), UNCHANGED <<quit, orphans>>
    PROVE  Coherent' /\ HostInv'
<1> DEFINE t == op[r].task
           rt == bound[r]
           list == [tasks EXCEPT ![t] = IF @ = Absent THEN @ ELSE [status |-> "running", of |-> 0]]
<1>1. /\ op[r].call = "continue" /\ Free(rt)
      /\ UNCHANGED <<session, entry, made, closed, releasing, bound>>
  BY DEF Continue
<1>2. rt # 0 /\ t \in Tasks
  BY <1>1 DEF Typed, CallsOK, NoOp
<1>3. CASE ~ (rt \notin closed /\ t \in subs[rt])
  <2>1. UNCHANGED <<execs, inFlight, subs, saving>>
    BY <1>3 DEF Continue
  <2>2. Exclusive => Exclusive' /\ entry' = entry
    BY <1>1, <2>1 DEF Exclusive, Free
  <2>3. \E l : Routine(l)
    BY <1>1, <2>1, <2>2, QuietIsRoutine, SameIsNoneStarted
  <2>4. HostInv'
    BY <1>1, <1>2, <2>1, HostKeptUnderLock
  <2> QED BY <2>3, <2>4, RoutineKeeps
<1>4. CASE rt \notin closed /\ t \in subs[rt]
  <2>1. /\ Spawn(rt, t) /\ Save(rt, list, nextId)
        /\ subs' = [subs EXCEPT ![rt] = @ \ {t}]
    BY <1>4 DEF Continue
  <2>2. rt \in Runtimes /\ rt = entry /\ Settled
    BY <1>1, <1>2, <1>4, LockAlone, BoundRuntime
  <2>3. ~ Exclusive /\ ExecInv /\ IdInv /\ nextId \in 1..(MaxTasks + 1)
    BY <2>2, SettledIsShared DEF Coherent, Typed, TaskOK
  <2>4. /\ Executions(t) # {}
        /\ \A f \in Executions(t) : execs[f].rt = rt /\ execs[f].at # "running"
    BY <1>2, <1>4, <2>2, <2>3 DEF ExecInv
  <2>5. t < nextId
    BY <1>2, <2>3, <2>4 DEF IdInv
  <2>6. ASSUME NEW q \in Runtimes PROVE subs'[q] = subs[q] \ {t}
    <3>1. CASE q = rt
      BY <2>1, <3>1 DEF Typed, SubsOK
    <3>2. CASE q # rt
      <4>1. t \notin subs[q]
        BY <1>2, <2>3, <2>4, <3>2 DEF ExecInv
      <4>2. subs'[q] = subs[q] /\ subs[q] \in SUBSET Tasks
        BY <2>1, <3>2 DEF Typed, SubsOK
      <4> QED BY <4>1, <4>2
    <3> QED BY <3>1, <3>2
  <2>7. list[t].of = 0 /\ \A u \in Tasks \ {t} : list[u] = tasks[u]
    BY <1>2 DEF Typed, TaskOK, ListOK, List, Absent
  <2>8. Coherent'
    <3> HIDE DEF list, t
    <3> QED BY <1>1, <1>2, <1>4, <2>1, <2>2, <2>3, <2>4, <2>5, <2>6, <2>7, SpawnKeeps
  <2>9. HostInv'
    <3>1. \A q \in Runtimes \ {rt} : saving'[q] = saving[q]
      <4> HIDE DEF list
      <4> QED BY <2>1, <2>2, <2>3, SaveEffect DEF Typed
    <3>2. PICK e \in Execs : execs'[e].rt = rt /\ \A f \in Execs \ {e} : execs'[f] = execs[f]
      BY <1>2, <2>1, <2>2, <2>3, SpawnEffect
    <3> QED BY <1>1, <1>2, <3>1, <3>2, HostKeptUnderLock
  <2> QED BY <2>8, <2>9
<1> QED BY <1>3, <1>4

-----------------------------------------------------------------------------
(* A task is cleared, an execution ends, a list is saved.                  *)

\* The lists stay as they are while nothing begins and nothing is saved.
LEMMA ListsKept ==
    ASSUME Typed, HostInv, Coherent, NoneStarted, UNCHANGED <<session, saving>>,
           Exclusive => Exclusive' /\ entry' = entry
    PROVE  IdInv' /\ OutcomeInv' /\ \A t \in Tasks : Erased(t) => Erased(t)'
<1>0. /\ tasks' = tasks /\ nextId' = nextId /\ saving' = saving
      /\ \A t \in Tasks : Executions(t)' = Executions(t) /\ Executions(t) \subseteq Execs
  BY SameExecutions DEF session, Executions
<1>1. IdInv'
  BY <1>0 DEF Coherent, IdInv, Free
<1>2. ASSUME NEW rt \in Runtimes, saving[rt] # Nothing PROVE Newest(saving[rt].tasks)'
  <2>1. Newest(saving[rt].tasks)
    BY <1>2 DEF Coherent, OutcomeInv, Free
  <2> QED BY <1>0, <2>1 DEF Newest, NoneStarted, IsDone
<1>3. Newest(tasks) => Newest(tasks)'
  BY <1>0 DEF Newest, NoneStarted, IsDone
<1>4. OutcomeInv'
  BY <1>0, <1>2, <1>3 DEF Coherent, OutcomeInv, Free
<1>5. \A t \in Tasks : Erased(t) => Erased(t)'
  BY <1>0 DEF Erased, Free
<1> QED BY <1>1, <1>4, <1>5

LEMMA RunningIsTyped ==
    ASSUME Typed, HostInv, NEW e \in Execs, execs[e].at # "unused"
    PROVE  /\ execs[e].task \in Tasks /\ execs[e].rt \in Runtimes /\ execs[e].rt \in 1..made
           /\ e \in Executions(execs[e].task) /\ execs[e] # Unused
<1>1. execs[e] # Unused
  BY DEF Unused
<1> QED BY <1>1, RuntimeNumbers DEF Typed, ExecOK, HostInv, Executions

LEMMA FinishKeeps ==
    ASSUME Typed, HostInv, Coherent, NEW e \in Execs, Finish(e), UNCHANGED <<quit, orphans>>
    PROVE  Coherent' /\ HostInv'
<1> DEFINE t == execs[e].task
           rt == execs[e].rt
<1>1. /\ execs[e].at = "running" /\ Advance(e, "handed")
      /\ UNCHANGED <<session, entry, made, closed, inFlight, saving, releasing, bound>>
      /\ subs' = IF rt \in closed THEN subs ELSE [subs EXCEPT ![rt] = @ \cup {t}]
  BY DEF Finish, callers
<1>2. /\ NoneStarted
      /\ execs'[e].at = "handed" /\ \A f \in Execs \ {e} : execs'[f] = execs[f]
  BY <1>1, AdvanceEffect
<1>3. t \in Tasks /\ rt \in Runtimes /\ e \in Executions(t)
  BY <1>1, RunningIsTyped
<1>4. Exclusive => Exclusive' /\ entry' = entry
  BY <1>1 DEF Exclusive, Free
<1>5. IdInv' /\ OutcomeInv' /\ \A u \in Tasks : Erased(u) => Erased(u)'
  BY <1>1, <1>2, <1>4, ListsKept
<1>6. \A u \in Tasks : Executions(u)' = Executions(u) /\ Executions(u) \subseteq Execs
  BY <1>2, SameExecutions DEF Executions
<1>7. /\ \A q \in Runtimes : subs[q] \subseteq subs'[q]
      /\ \A q \in Runtimes, u \in Tasks : u \in subs'[q] => u \in subs[q] \/ (u = t /\ q = rt)
      /\ rt \notin closed => t \in subs'[rt]
  <2>1. subs \in [Runtimes -> SUBSET Tasks]
    BY DEF Typed, SubsOK
  <2> HIDE DEF t, rt
  <2> QED BY <1>1, <1>3, <2>1
<1>8. ExecInv'
  <2>1. /\ Executions(t) # {}
        /\ \A f \in Executions(t) : execs[f].rt = rt /\ execs'[f].at # "running"
    <3>1. ASSUME NEW f \in Executions(t), execs'[f].at = "running" PROVE FALSE
      <4>1. f \in Execs /\ execs[f].at = "running"
        BY <1>2, <1>6, <1>3, <3>1 DEF NoneStarted
      <4>2. f = e
        BY <1>1, <1>3, <4>1, <3>1 DEF Coherent, ExecInv
      <4> QED BY <1>2, <3>1, <4>2
    <3> QED BY <1>3, <3>1 DEF Coherent, ExecInv
  <2>2. \A q \in Runtimes, u \in Tasks : u \in subs'[q] =>
          \/ u \in subs[q]
          \/ /\ Executions(u) # {}
             /\ \A f \in Executions(u) : execs[f].rt = q /\ execs'[f].at # "running"
    BY <1>7, <2>1
  <2> QED BY <1>1, <1>2, <2>2, ExecInvKept DEF Coherent
<1>9. SubsInv'
  <2>1. ASSUME NEW u \in Tasks, NEW f \in Executions(u),
               execs'[f].at \in {"handed", "done"}, \A g \in Executions(u) : g <= f,
               execs'[f].rt \notin closed
        PROVE  u \in subs'[execs'[f].rt] \/ Erased(u)'
    <3>1. CASE f = e
      <4>1. u = t /\ execs'[f].rt = rt
        BY <1>2, <3>1, <2>1 DEF NoneStarted, Executions
      <4> QED BY <1>7, <2>1, <4>1
    <3>2. CASE f # e
      <4>1. execs'[f] = execs[f] /\ f \in Execs
        BY <1>2, <1>6, <2>1, <3>2
      <4>2. u \in subs[execs[f].rt] \/ Erased(u)
        BY <2>1, <4>1 DEF Coherent, SubsInv
      <4>3. execs[f].rt \in Runtimes
        BY <2>1, <4>1, RunningIsTyped
      <4> QED BY <1>5, <1>7, <4>1, <4>2, <4>3
    <3> QED BY <3>1, <3>2
  <2> QED BY <1>1, <1>6, <2>1 DEF SubsInv
<1>10. InFlightInv'
  BY <1>1, <1>2 DEF Coherent, InFlightInv, NoneStarted
<1>11. HostInv'
  BY <1>1, <1>2, HostKeptOtherwise DEF NoneStarted
<1> QED BY <1>5, <1>8, <1>9, <1>10, <1>11 DEF Coherent

LEMMA SignalOrStopKeeps ==
    ASSUME Typed, HostInv, Coherent, NEW e \in Execs, Signal(e) \/ Stop(e),
           UNCHANGED <<quit, orphans>>
    PROVE  Coherent' /\ HostInv'
<1>1. PICK at \in {"done", "gone"} :
        /\ Advance(e, at) /\ execs[e].at \in {"running", "handed"}
        /\ at = "done" => execs[e].at = "handed"
        /\ UNCHANGED <<session, runtime, saving, releasing, callers>>
  BY DEF Signal, Stop
<1>2. /\ NoneStarted
      /\ execs'[e].at = at /\ \A f \in Execs \ {e} : execs'[f] = execs[f]
  BY <1>1, AdvanceEffect
<1>3. UNCHANGED <<entry, made, closed, inFlight, subs, bound>>
  BY <1>1 DEF runtime, callers
<1>4. Exclusive => Exclusive' /\ entry' = entry
  BY <1>1, <1>3 DEF Exclusive, Free
<1>5. \A f \in Execs : execs'[f].at \in {"handed", "done"} => execs[f].at \in {"handed", "done"}
  BY <1>1, <1>2
<1>6. \E list : Routine(list)
  BY <1>1, <1>2, <1>3, <1>4, <1>5, QuietIsRoutine
<1>7. HostInv'
  BY <1>1, <1>2, <1>3, HostKeptOtherwise DEF NoneStarted
<1> QED BY <1>6, <1>7, RoutineKeeps

LEMMA ClearKeeps ==
    ASSUME Typed, HostInv, Coherent, NEW r \in Runs, Clear(r), UNCHANGED quit
    PROVE  Coherent' /\ HostInv'
<1> DEFINE t == op[r].task
           rt == bound[r]
           list == [tasks EXCEPT ![t] = Absent]
<1>1. /\ op[r].call = "clear" /\ Free(rt)
      /\ inFlight' = [inFlight EXCEPT ![rt][t] = 0]
      /\ subs' = [subs EXCEPT ![rt] = @ \ {t}]
      /\ Save(rt, list, nextId)
      /\ orphans' = orphans \cup {e \in Execs : e = inFlight[rt][t] /\ ~ Over(e)}
      /\ UNCHANGED <<session, execs, entry, made, closed, releasing, bound>>
  BY DEF Clear
<1>2. t \in Tasks /\ rt # 0
  BY <1>1 DEF Typed, CallsOK, NoOp
<1>3. rt \in Runtimes /\ rt \in 1..made /\ nextId \in 1..(MaxTasks + 1) /\ ~ Exclusive
  BY <1>1, <1>2, BoundRuntime, LockTaken DEF Typed, TaskOK
<1>4. list[t] = Absent /\ \A u \in Tasks \ {t} : list[u] = tasks[u]
  BY <1>2 DEF Typed, TaskOK, ListOK, List
<1> HIDE DEF list
<1>5. /\ saving'[rt].tasks = list /\ saving'[rt].nextId = nextId /\ saving'[rt] # Nothing
      /\ \A q \in Runtimes \ {rt} : saving'[q] = saving[q]
  BY <1>1, <1>3, SaveEffect DEF Typed
<1>6. NoneStarted /\ tasks' = tasks /\ nextId' = nextId
  BY <1>1, SameIsNoneStarted DEF session
<1>7. \A u \in Tasks : Executions(u)' = Executions(u) /\ Executions(u) \subseteq Execs
  BY <1>6, SameExecutions DEF Executions
<1>8. /\ \A q \in Runtimes, u \in Tasks : inFlight'[q][u] = IF q = rt /\ u = t THEN 0 ELSE inFlight[q][u]
      /\ \A q \in Runtimes, u \in Tasks : u \in subs'[q] <=> u \in subs[q] /\ ~ (q = rt /\ u = t)
  <2>1. inFlight \in [Runtimes -> [Tasks -> Execs \cup {0}]] /\ subs \in [Runtimes -> SUBSET Tasks]
    BY DEF Typed, InFlightOK, SubsOK
  <2> HIDE DEF t, rt
  <2>2. \A q \in Runtimes, u \in Tasks : inFlight'[q][u] = IF q = rt /\ u = t THEN 0 ELSE inFlight[q][u]
    BY <1>1, <1>2, <1>3, <2>1
  <2>3. \A q \in Runtimes, u \in Tasks : u \in subs'[q] <=> u \in subs[q] /\ ~ (q = rt /\ u = t)
    BY <1>1, <1>2, <1>3, <2>1
  <2> QED BY <2>2, <2>3
<1>9. ExecInv'
  <2>1. \A q \in Runtimes, u \in Tasks : u \in subs'[q] => u \in subs[q]
    BY <1>8
  <2>2. \A q \in Runtimes, u \in Tasks : inFlight'[q][u] \in {inFlight[q][u], 0}
    BY <1>8
  <2> QED BY <1>6, <2>1, <2>2, ExecInvKept DEF Coherent
<1>10. IdInv'
  <2>1. \A q \in Runtimes : saving'[q] # Nothing => saving'[q].nextId = nextId
    BY <1>3, <1>5 DEF Coherent, IdInv, Free
  <2>2. \A u \in Tasks : Executions(u) # {} => u < nextId
    BY <1>3 DEF Coherent, IdInv
  <2> QED BY <1>6, <1>7, <2>1, <2>2 DEF IdInv, Free
<1>11. OutcomeInv'
  <2>1. Newest(tasks)
    BY <1>3, SharedList
  <2>2. Newest(list)
    BY <1>4, <2>1 DEF Newest, Absent
  <2>3. ASSUME NEW q \in Runtimes, saving'[q] # Nothing PROVE Newest(saving[q].tasks)'
    <3>1. CASE q = rt
      BY <1>1, <1>5, <1>7, <2>2, <3>1 DEF Newest, IsDone
    <3>2. CASE q # rt
      <4>1. saving'[q] = saving[q] /\ Newest(saving[q].tasks)
        BY <1>5, <2>3, <3>2 DEF Coherent, OutcomeInv, Free
      <4> QED BY <1>1, <1>7, <4>1 DEF Newest, IsDone
    <3> QED BY <3>1, <3>2
  <2>4. Newest(tasks)'
    BY <1>1, <1>6, <1>7, <2>1 DEF Newest, IsDone
  <2> QED BY <2>3, <2>4 DEF OutcomeInv, Free
<1>12. SubsInv'
  <2>1. ASSUME NEW u \in Tasks, NEW f \in Executions(u),
               execs[f].at \in {"handed", "done"}, \A g \in Executions(u) : g <= f,
               execs[f].rt \notin closed
        PROVE  u \in subs'[execs[f].rt] \/ Erased(u)'
    <3>1. f \in Execs /\ execs[f].rt \in Runtimes /\ execs[f].rt \in 1..made /\ execs[f] # Unused
      BY <1>7, <2>1, RunningIsTyped
    <3>2. u \in subs[execs[f].rt] \/ Erased(u)
      BY <2>1 DEF Coherent, SubsInv
    <3>3. CASE u # t
      <4>1. ASSUME Erased(u) PROVE Erased(u)'
        <5>1. tasks[u] = Absent /\ list[u] = Absent
          BY <1>3, <1>4, <3>3, <4>1 DEF Erased
        <5>2. \A q \in Runtimes : saving'[q] # Nothing => saving'[q].tasks[u] = Absent
          BY <1>5, <4>1, <5>1 DEF Erased, Free
        <5> QED BY <1>6, <5>1, <5>2 DEF Erased, Free
      <4> QED BY <1>8, <3>1, <3>2, <3>3, <4>1
    <3>4. CASE u = t
      <4>1. rt = entry
        <5>1. execs[f].rt = entry /\ entry = made /\ made \in Nat
          BY <2>1, <3>1, RuntimeNumbers DEF HostInv
        <5>2. execs[f].rt <= rt
          BY <1>2, <3>1 DEF HostInv, Running
        <5> QED BY <1>3, <5>1, <5>2
      <4>2. rt \notin closed
        BY <2>1, <3>1, <4>1 DEF HostInv
      <4>3. Settled
        BY <1>1, <1>2, <4>2, LockAlone
      <4>4. \A q \in Runtimes : saving'[q] # Nothing => saving'[q].tasks[u] = Absent
        BY <1>4, <1>5, <3>4, <4>3 DEF Settled, Free
      <4>5. Exclusive'
        BY <1>1, <1>2, <1>5, <4>1, <4>2 DEF Exclusive, Free
      <4> QED BY <4>4, <4>5 DEF Erased, Free
    <3> QED BY <3>3, <3>4
  <2> QED BY <1>1, <1>7, <2>1 DEF SubsInv
<1>13. InFlightInv'
  <2>1. ASSUME NEW e \in Execs, execs[e].at = "running", e \notin orphans'
        PROVE  /\ execs[e].rt \notin closed => inFlight'[execs[e].rt][execs[e].task] = e
               /\ execs[e].rt = releasing.rt => e \in releasing.pending
               /\ execs[e].rt \notin quit
    <3>1. execs[e].task \in Tasks /\ execs[e].rt \in Runtimes /\ e \notin orphans /\ ~ Over(e)
      BY <1>1, <2>1, RunningIsTyped DEF Over
    <3>2. ASSUME execs[e].rt = rt, execs[e].task = t, execs[e].rt \notin closed PROVE FALSE
      <4>1. inFlight[rt][t] = e
        BY <2>1, <3>1, <3>2 DEF Coherent, InFlightInv
      <4> QED BY <1>1, <2>1, <3>1, <4>1
    <3>3. execs[e].rt \notin closed => inFlight[execs[e].rt][execs[e].task] = e
      BY <2>1, <3>1 DEF Coherent, InFlightInv
    <3> QED BY <1>8, <2>1, <3>1, <3>2, <3>3 DEF Coherent, InFlightInv
  <2> QED BY <1>1, <2>1 DEF InFlightInv
<1>14. HostInv'
  BY <1>1, <1>2, <1>5, HostKeptUnderLock
<1> QED BY <1>9, <1>10, <1>11, <1>12, <1>13, <1>14 DEF Coherent

\* A list that is saved is the session's: only a start makes its next id another.
LEMMA SavedKeeps ==
    ASSUME Typed, HostInv, Coherent, NEW rt \in Runtimes, Saved(rt), UNCHANGED <<quit, orphans>>
    PROVE  Coherent' /\ HostInv' /\ nextId' >= nextId
<1>1. /\ saving[rt] # Nothing /\ tasks' = saving[rt].tasks /\ nextId' = saving[rt].nextId
      /\ saving' = [saving EXCEPT ![rt] = Nothing]
      /\ UNCHANGED <<execs, entry, made, closed, inFlight, subs, releasing, bound>>
  BY DEF Saved, Free, runtime, callers
<1>2. /\ saving'[rt] = Nothing /\ \A q \in Runtimes \ {rt} : saving'[q] = saving[q]
  BY <1>1 DEF Typed, SavingOK
<1>3. NoneStarted
  BY <1>1, SameIsNoneStarted
<1>4. \A u \in Tasks : Executions(u)' = Executions(u) /\ Executions(u) \subseteq Execs
  BY <1>3, SameExecutions DEF Executions
<1>5. nextId \in Nat
  BY ConfigAssumption DEF Typed, TaskOK
<1>6. nextId' = nextId \/ (nextId' = nextId + 1 /\ Exclusive)
  BY <1>1 DEF Coherent, IdInv, Free
<1>7. Exclusive => rt = entry /\ \A q \in Runtimes : saving'[q] = Nothing
  BY <1>1, <1>2, ExclusiveLock DEF Free
<1>8. ExecInv'
  BY <1>1, <1>3, ExecInvKept DEF Coherent
<1>9. IdInv'
  <2>1. ASSUME NEW q \in Runtimes, saving'[q] # Nothing
        PROVE  saving'[q].nextId = nextId'
    <3>1. ~ Exclusive
      BY <1>7, <2>1
    <3> QED BY <1>1, <1>2, <2>1, <3>1 DEF Coherent, IdInv, Free
  <2>2. ASSUME NEW u \in Tasks, Executions(u) # {}
        PROVE  u < nextId'
    <3>1. u \in Nat
      BY DEF Tasks
    <3>2. u < nextId \/ (u = nextId /\ Exclusive /\ saving[entry].nextId = nextId + 1)
      BY <2>2 DEF Coherent, IdInv
    <3> QED BY <1>1, <1>5, <1>6, <1>7, <3>1, <3>2
  <2> QED BY <1>4, <2>1, <2>2 DEF IdInv, Free
<1>10. OutcomeInv'
  <2>1. ASSUME NEW q \in Runtimes, saving[q] # Nothing
        PROVE  LET list == saving[q].tasks
               IN  \A t \in Tasks : list[t].of # 0 =>
                     /\ list[t].of \in Executions(t)' /\ \A e \in Executions(t)' : e <= list[t].of
                     /\ list[t].status = "completed" => execs'[list[t].of].at = "done"
    BY <1>1, <1>4, <2>1 DEF Coherent, OutcomeInv, Newest, IsDone, Free
  <2>2. Newest(tasks)'
    BY <1>1, <2>1 DEF Newest, IsDone
  <2>3. ASSUME NEW q \in Runtimes, saving'[q] # Nothing PROVE Newest(saving[q].tasks)'
    <3>1. saving'[q] = saving[q]
      BY <1>2, <2>3
    <3> QED BY <2>1, <2>3, <3>1 DEF Newest, IsDone
  <2> QED BY <2>2, <2>3 DEF OutcomeInv, Free
<1>11. ASSUME NEW u \in Tasks, Erased(u) PROVE Erased(u)'
  <2>1. tasks'[u] = Absent
    BY <1>1, <1>11 DEF Erased, Free
  <2>2. \A q \in Runtimes : saving'[q] # Nothing => saving'[q].tasks[u] = Absent
    BY <1>2, <1>11 DEF Erased, Free
  <2> QED BY <2>1, <2>2 DEF Erased, Free
<1>12. SubsInv'
  BY <1>1, <1>4, <1>11 DEF Coherent, SubsInv
<1>13. InFlightInv'
  BY <1>1 DEF Coherent, InFlightInv
<1>14. HostInv'
  <2>1. \A q \in Runtimes : saving'[q] \in {saving[q], Nothing}
    BY <1>2
  <2> QED BY <1>1, <2>1, HostKeptOtherwise
<1> QED BY <1>5, <1>6, <1>8, <1>9, <1>10, <1>12, <1>13, <1>14 DEF Coherent

-----------------------------------------------------------------------------
(* A session is released, the process restarts.                            *)

LEMMA ReleaseKeeps ==
    ASSUME Typed, HostInv, Coherent, NEW cancel, Release(cancel), UNCHANGED <<quit, orphans>>
    PROVE  Coherent' /\ HostInv'
<1>1. /\ entry # 0 /\ entry \notin closed /\ Free(entry)
      /\ closed' = closed \cup {entry}
      /\ releasing' = [rt |-> entry, pending |-> Pending(entry)]
      /\ UNCHANGED <<session, execs, entry, made, inFlight, subs, saving, bound>>
  BY DEF Release, callers
<1>2. NoneStarted /\ ~ Exclusive
  BY <1>1, SameIsNoneStarted DEF Exclusive
<1>3. IdInv' /\ OutcomeInv' /\ \A u \in Tasks : Erased(u) => Erased(u)'
  BY <1>1, <1>2, ListsKept
<1>4. \A u \in Tasks : Executions(u)' = Executions(u)
  BY <1>2, SameExecutions
<1>5. ExecInv'
  BY <1>1, <1>2, ExecInvKept DEF Coherent
<1>6. SubsInv'
  BY <1>1, <1>3, <1>4 DEF Coherent, SubsInv
<1>7. InFlightInv'
  <2>1. ASSUME NEW e \in Execs, execs[e].at = "running", e \notin orphans, execs[e].rt = entry
        PROVE  e \in Pending(entry)
    <3>1. inFlight[entry][execs[e].task] = e
      BY <1>1, <2>1 DEF Coherent, InFlightInv
    <3> QED BY <2>1, <3>1 DEF Pending, IsDone
  <2> QED BY <1>1, <2>1 DEF Coherent, InFlightInv
<1>8. HostInv'
  BY <1>1, HostKeptOtherwise
<1> QED BY <1>3, <1>5, <1>6, <1>7, <1>8 DEF Coherent

LEMMA EndReleaseKeeps ==
    ASSUME Typed, HostInv, Coherent, NEW late \in BOOLEAN, EndRelease(late), UNCHANGED orphans
    PROVE  Coherent' /\ HostInv'
<1> DEFINE rt == releasing.rt
<1>1. /\ rt # 0 /\ Free(rt)
      /\ late \/ \A e \in releasing.pending : Over(e)
      /\ inFlight' = [inFlight EXCEPT ![rt] = [t \in Tasks |-> 0]]
      /\ subs' = [subs EXCEPT ![rt] = {}]
      /\ entry' = (IF entry = rt THEN 0 ELSE entry)
      /\ releasing' = NoRelease
      /\ quit' = (IF late THEN quit ELSE quit \cup {rt})
      /\ UNCHANGED <<session, execs, made, closed, saving, bound>>
  BY DEF EndRelease, callers
<1>2. NoneStarted /\ rt \in closed /\ rt \in Runtimes
  BY <1>1, SameIsNoneStarted, RuntimeNumbers DEF Typed, RuntimeOK
<1>3. Exclusive => Exclusive' /\ entry' = entry
  BY <1>1, <1>2 DEF Exclusive, Free
<1>4. IdInv' /\ OutcomeInv' /\ \A u \in Tasks : Erased(u) => Erased(u)'
  BY <1>1, <1>2, <1>3, ListsKept
<1>5. \A u \in Tasks : Executions(u)' = Executions(u) /\ Executions(u) \subseteq Execs
  BY <1>2, SameExecutions DEF Executions
<1>6. /\ \A q \in Runtimes, u \in Tasks : inFlight'[q][u] = IF q = rt THEN 0 ELSE inFlight[q][u]
      /\ \A q \in Runtimes : subs'[q] = IF q = rt THEN {} ELSE subs[q]
  <2>1. inFlight \in [Runtimes -> [Tasks -> Execs \cup {0}]] /\ subs \in [Runtimes -> SUBSET Tasks]
    BY DEF Typed, InFlightOK, SubsOK
  <2> HIDE DEF rt
  <2> QED BY <1>1, <1>2, <2>1
<1>7. ExecInv'
  <2>1. \A q \in Runtimes, u \in Tasks : u \in subs'[q] => u \in subs[q]
    BY <1>6
  <2>2. \A q \in Runtimes, u \in Tasks : inFlight'[q][u] \in {inFlight[q][u], 0}
    BY <1>6
  <2> QED BY <1>2, <2>1, <2>2, ExecInvKept DEF Coherent
<1>8. SubsInv'
  <2>1. ASSUME NEW u \in Tasks, NEW f \in Executions(u),
               execs[f].at \in {"handed", "done"}, \A g \in Executions(u) : g <= f,
               execs[f].rt \notin closed
        PROVE  u \in subs'[execs[f].rt] \/ Erased(u)'
    <3>1. execs[f].rt \in Runtimes /\ execs[f].rt # rt
      BY <1>2, <1>5, <2>1, RunningIsTyped
    <3>2. u \in subs[execs[f].rt] \/ Erased(u)
      BY <2>1 DEF Coherent, SubsInv
    <3> QED BY <1>4, <1>6, <3>1, <3>2
  <2> QED BY <1>1, <1>5, <2>1 DEF SubsInv
<1>9. InFlightInv'
  <2>1. ASSUME NEW e \in Execs, execs[e].at = "running", e \notin orphans
        PROVE  /\ execs[e].rt \notin closed => inFlight'[execs[e].rt][execs[e].task] = e
               /\ execs[e].rt # 0
               /\ execs[e].rt \notin quit'
    <3>1. execs[e].task \in Tasks /\ execs[e].rt \in Runtimes /\ execs[e].rt # 0 /\ ~ Over(e)
      BY <2>1, RunningIsTyped DEF Over, Runtimes
    <3>2. /\ execs[e].rt \notin closed => inFlight[execs[e].rt][execs[e].task] = e
          /\ execs[e].rt = rt => e \in releasing.pending
          /\ execs[e].rt \notin quit
      BY <2>1 DEF Coherent, InFlightInv
    <3>3. execs[e].rt \notin quit'
      BY <1>1, <3>1, <3>2
    <3> QED BY <1>2, <1>6, <3>1, <3>2, <3>3
  <2>2. releasing'.rt = 0
    BY <1>1 DEF NoRelease
  <2> QED BY <1>1, <2>1, <2>2 DEF InFlightInv
<1>10. HostInv'
  <2>1. entry' \in {0, entry} /\ (entry # 0 /\ entry \notin closed => entry' = entry)
    BY <1>1, <1>2
  <2> QED BY <1>1, <2>1, HostKeptOtherwise
<1> QED BY <1>4, <1>7, <1>8, <1>9, <1>10 DEF Coherent

LEMMA RestartKeeps ==
    ASSUME Typed, HostInv, Coherent, Restart, UNCHANGED <<quit, orphans>>
    PROVE  Coherent' /\ HostInv'
<1>1. /\ Settled
      /\ execs' = [e \in Execs |-> IF execs[e] = Unused \/ Over(e) THEN execs[e]
                                   ELSE [execs[e] EXCEPT !.at = "gone"]]
      /\ entry' = 0 /\ closed' = 1..made
      /\ inFlight' = [rt \in Runtimes |-> [t \in Tasks |-> 0]]
      /\ subs' = [rt \in Runtimes |-> {}]
      /\ bound' = [r \in Runs |-> 0]
      /\ UNCHANGED <<session, made, saving>>
  BY DEF Restart
<1>2. ASSUME NEW e \in Execs
      PROVE  /\ execs'[e].task = execs[e].task /\ execs'[e].rt = execs[e].rt
             /\ execs'[e] = Unused <=> execs[e] = Unused
             /\ execs'[e].at # "running"
             /\ IsDone(e) => execs'[e].at = "done"
  <2>1. execs[e] \in Records /\ Unused.at = "unused"
    BY DEF Typed, ExecOK, Unused
  <2>2. CASE execs[e] = Unused \/ Over(e)
    BY <1>1, <2>1, <2>2 DEF Over, IsDone
  <2>3. CASE ~ (execs[e] = Unused \/ Over(e))
    <3>1. execs'[e] = [execs[e] EXCEPT !.at = "gone"]
      BY <1>1, <2>3
    <3>2. execs'[e].task = execs[e].task /\ execs'[e].rt = execs[e].rt /\ execs'[e].at = "gone"
      BY <2>1, <3>1 DEF Records
    <3> QED BY <2>1, <2>3, <3>2 DEF Over, IsDone
  <2> QED BY <2>2, <2>3
<1>3. NoneStarted
  BY <1>2 DEF NoneStarted
<1>4. ~ Exclusive
  BY <1>1, SettledIsShared
<1>5. IdInv' /\ OutcomeInv'
  BY <1>1, <1>3, <1>4, ListsKept
<1>6. \A u \in Tasks : Executions(u)' = Executions(u) /\ Executions(u) \subseteq Execs
  BY <1>3, SameExecutions DEF Executions
<1>7. ExecInv'
  <2>1. \A q \in Runtimes, u \in Tasks : u \notin subs'[q] /\ inFlight'[q][u] = 0
    BY <1>1
  <2> QED BY <1>3, <2>1, ExecInvKept DEF Coherent
<1>8. SubsInv'
  <2>1. ASSUME NEW u \in Tasks, NEW f \in Executions(u)
        PROVE  execs'[f].rt \in closed'
    <3>1. f \in Execs /\ execs[f].rt \in 1..made
      BY <1>6, <2>1, ExecutionsAreUsed, RunningIsTyped
    <3> QED BY <1>1, <1>2, <3>1
  <2> QED BY <1>6, <2>1 DEF SubsInv
<1>9. InFlightInv'
  BY <1>2 DEF InFlightInv
<1>10. HostInv'
  <2>1. Running' = {} /\ made \in Nat
    BY <1>1, RuntimeNumbers DEF Running
  <2>2. \A e \in Execs : execs'[e] # Unused => execs'[e].rt \in 1..made
    BY <1>2 DEF HostInv
  <2> QED BY <1>1, <2>1, <2>2 DEF HostInv, Settled, Free
<1> QED BY <1>5, <1>7, <1>8, <1>9, <1>10 DEF Coherent

-----------------------------------------------------------------------------
(* Every step of a careful host.                                           *)

Inv == Typed /\ HostInv /\ Coherent

LEMMA InitIsCoherent == Init => HostInv /\ Coherent
<1> SUFFICES ASSUME Init PROVE HostInv /\ Coherent
  OBVIOUS
<1>1. /\ execs = [e \in Execs |-> Unused] /\ entry = 0 /\ made = 0 /\ closed = {} /\ nextId = 1
      /\ inFlight = [rt \in Runtimes |-> [t \in Tasks |-> 0]]
      /\ subs = [rt \in Runtimes |-> {}] /\ saving = [rt \in Runtimes |-> Nothing]
      /\ bound = [r \in Runs |-> 0] /\ tasks = Nothing.tasks
  BY DEF Init
<1>2. Running = {}
  BY <1>1 DEF Running
<1>3. \A t \in Tasks : Executions(t) = {}
  BY <1>1 DEF Executions, Unused, Tasks
<1>4. HostInv
  BY <1>1, <1>2 DEF HostInv, Free
<1>5. ExecInv
  BY <1>1, <1>3 DEF ExecInv
<1>6. IdInv /\ SubsInv
  BY <1>1, <1>3 DEF IdInv, SubsInv, Free
<1>7. OutcomeInv
  BY <1>1, NothingIsEmpty DEF OutcomeInv, Newest, Free, Absent
<1>8. InFlightInv
  BY <1>1 DEF InFlightInv, Unused
<1> QED BY <1>4, <1>5, <1>6, <1>7, <1>8 DEF Coherent

\* The host, or a run that begins, lists the tasks.
LEMMA ListKeeps ==
    ASSUME Typed, HostInv, Coherent, ListTasks, bound' = bound, UNCHANGED <<quit, orphans>>
    PROVE  Coherent' /\ HostInv'
<1>1. PICK rt \in Runtimes : Lookup(rt) /\ Refresh(rt)
  BY DEF ListTasks
<1>2. UNCHANGED <<session, execs, aborted, closed, subs, releasing>> /\ Free(rt)
  BY <1>1 DEF ListTasks, Refresh
<1>3. \E list : Routine(list)
  BY <1>1, <1>2, LookupIsShared, RefreshIsRoutine
<1>4. \A q \in Runtimes \ {rt} : saving'[q] = saving[q]
  BY <1>1 DEF Refresh, Save, Typed, SavingOK
<1>5. HostInv'
  BY <1>1, <1>2, <1>4, HostKeptByLookup
<1> QED BY <1>3, <1>5, RoutineKeeps

\* A run looks at the list under its own lock.
LEMMA LookKeeps ==
    ASSUME Typed, HostInv, Coherent, NEW r \in Runs, Calling(r), Refresh(bound[r]),
           UNCHANGED <<session, execs, entry, made, closed, subs, releasing, bound, quit, orphans>>
    PROVE  Coherent' /\ HostInv'
<1>1. bound[r] # 0 /\ bound[r] \in Runtimes /\ Free(bound[r])
  BY BoundRuntime DEF Calling
<1>2. \E list : Routine(list)
  BY <1>1, LockTaken, RefreshIsRoutine
<1>3. \A q \in Runtimes \ {bound[r]} : saving'[q] = saving[q]
  BY DEF Refresh, Save, Typed, SavingOK
<1>4. HostInv'
  BY <1>1, <1>3, HostKeptUnderLock
<1> QED BY <1>2, <1>4, RoutineKeeps

LEMMA ToolKeeps ==
    ASSUME Inv, CarefulHost, NEW r \in Runs, Tool(r), UNCHANGED <<quit, orphans>>
    PROVE  Coherent' /\ HostInv'
<1> USE DEF Inv
<1>1. CASE BeginRun(r)
  <2>1. HostInv' /\ (Exclusive => Exclusive' /\ entry' = entry)
    BY <1>1, HostKeptByBeginRun
  <2>2. UNCHANGED <<session, execs, inFlight, subs, saving, closed, releasing>>
    BY <1>1 DEF BeginRun
  <2> QED BY <2>1, <2>2, SameIsNoneStarted, QuietIsRoutine, RoutineKeeps
<1>2. CASE Announce(r)
  BY <1>2, ListKeeps DEF Announce
<1>3. CASE EndRun(r)
  <2>1. HostInv' /\ ~ Exclusive
    BY <1>3, HostKeptByEndRun
  <2>2. UNCHANGED <<session, execs, inFlight, subs, saving, closed, releasing>>
    BY <1>3 DEF EndRun, runtime
  <2> QED BY <2>1, <2>2, SameIsNoneStarted, QuietIsRoutine, RoutineKeeps
<1>4. CASE Start(r)
  BY <1>4, StartKeeps
<1>5. CASE Get(r) \/ \E c, st : Check(r, c, st)
  BY <1>5, LookKeeps DEF Get, Check, callers
<1>6. CASE BeginContinue(r) \/ BeginClear(r)
  BY <1>5, <1>6 DEF BeginContinue, BeginClear
<1>7. CASE BeginWait(r) \/ WaitTimeout(r)
  <2>1. UNCHANGED <<session, execs, inFlight, subs, saving, closed, releasing, entry, made, bound>>
    BY <1>7 DEF BeginWait, WaitTimeout, runtime
  <2>2. Exclusive => Exclusive' /\ entry' = entry
    BY <2>1 DEF Exclusive, Free
  <2>3. HostInv'
    BY <2>1, HostKeptOtherwise
  <2> QED BY <2>1, <2>2, <2>3, SameIsNoneStarted, QuietIsRoutine, RoutineKeeps
<1>8. CASE EndWait(r)
  <2>1. bound[r] # 0 /\ bound[r] \in Runtimes /\ UNCHANGED <<execs, entry, made, closed, bound>>
    BY <1>8, BoundRuntime DEF EndWait, Calling
  <2>2. \A q \in Runtimes \ {bound[r]} : saving'[q] = saving[q]
    BY <1>8 DEF EndWait, Save, Typed, SavingOK
  <2>3. HostInv'
    BY <2>1, <2>2, HostKeptUnderLock
  <2> QED BY <1>8, <2>3, EndWaitIsRoutine, RoutineKeeps
<1>9. CASE Continue(r)
  BY <1>9, ContinueKeeps
<1> QED BY <1>1, <1>2, <1>3, <1>4, <1>5, <1>6, <1>7, <1>8, <1>9 DEF Tool

LEMMA StepIsCoherent ==
    ASSUME CarefulHost, Inv, [Next]_vars
    PROVE  Inv'
<1> USE DEF Inv
<1>0. Typed'
  BY StepIsTyped
<1>1. ASSUME NEW r \in Runs, Tool(r), UNCHANGED <<quit, orphans>>
      PROVE  Coherent' /\ HostInv'
  BY <1>1, ToolKeeps
<1>2. ASSUME NEW e \in Execs, Execution(e), UNCHANGED <<quit, orphans>>
      PROVE  Coherent' /\ HostInv'
  BY <1>2, FinishKeeps, SignalOrStopKeeps DEF Execution
<1>3. ASSUME NEW rt \in Runtimes, Saved(rt), UNCHANGED <<quit, orphans>>
      PROVE  Coherent' /\ HostInv'
  BY <1>3, SavedKeeps
<1>4. CASE HostLists /\ UNCHANGED <<quit, orphans>>
  <2>1. ListTasks /\ bound' = bound
    BY <1>4 DEF HostLists, callers
  <2> QED BY <1>0, <1>4, <2>1, ListKeeps
<1>5. ASSUME NEW cancel \in BOOLEAN, Release(cancel), UNCHANGED <<quit, orphans>>
      PROVE  Coherent' /\ HostInv'
  BY <1>5, ReleaseKeeps
<1>6. CASE Restart /\ UNCHANGED <<quit, orphans>>
  BY <1>0, <1>6, RestartKeeps
<1>7. ASSUME NEW r \in Runs, Clear(r), UNCHANGED quit
      PROVE  Coherent' /\ HostInv'
  BY <1>7, ClearKeeps
<1>8. ASSUME NEW late \in BOOLEAN, EndRelease(late), UNCHANGED orphans
      PROVE  Coherent' /\ HostInv'
  BY <1>8, EndReleaseKeeps
<1>9. CASE UNCHANGED vars
  <2>1. UNCHANGED <<session, execs, inFlight, subs, saving, closed, releasing, quit, orphans,
                    entry, made, bound, nextId>>
    BY <1>9 DEF vars, runtime, callers, session
  <2>2. Exclusive => Exclusive' /\ entry' = entry
    BY <2>1 DEF Exclusive, Free
  <2>3. HostInv'
    BY <2>1, HostKeptOtherwise
  <2> QED BY <1>0, <2>1, <2>2, <2>3, SameIsNoneStarted, QuietIsRoutine, RoutineKeeps
<1> QED BY <1>0, <1>1, <1>2, <1>3, <1>4, <1>5, <1>6, <1>7, <1>8, <1>9 DEF Next

LEMMA CoherentIsInvariant ==
    ASSUME CarefulHost
    PROVE  Spec => []Inv
<1>1. Init => Inv
  BY InitIsTyped, InitIsCoherent DEF Inv
<1>2. Inv /\ [Next]_vars => Inv'
  BY StepIsCoherent
<1> QED BY <1>1, <1>2, PTL DEF Spec

LEMMA InvIsCoherent ==
    ASSUME Inv
    PROVE  TasksCoherent
<1> USE DEF Inv
<1>0. Execs \subseteq Nat /\ \A t \in Tasks : tasks[t].of # 0 <=> tasks[t].status \in {"completed", "failed"}
  BY ConfigAssumption DEF Execs, Typed, TaskOK, ListOK
<1>1. OutcomeIsLatest
  <2>1. ASSUME Settled PROVE Newest(tasks)
    BY <2>1, SettledIsShared, SharedList
  <2> QED BY <1>0, <2>1 DEF OutcomeIsLatest, Newest
<1>2. CompletedHasSession
  <2>1. ASSUME NEW t \in Tasks, Settled, tasks[t].status = "completed",
               execs[tasks[t].of].rt = entry, entry \notin closed
        PROVE  t \in subs[entry]
    <3> DEFINE e == tasks[t].of
    <3>1. Newest(tasks) /\ ~ Exclusive
      BY <2>1, SettledIsShared, SharedList
    <3>2. e \in Executions(t) /\ (\A f \in Executions(t) : f <= e) /\ IsDone(e)
      BY <1>0, <2>1, <3>1 DEF Newest
    <3>3. t \in subs[entry] \/ Erased(t)
      BY <2>1, <3>2 DEF Coherent, SubsInv, IsDone
    <3>4. ~ Erased(t)
      BY <2>1, <3>1 DEF Erased, Absent
    <3> QED BY <3>3, <3>4
  <2> QED BY <2>1 DEF CompletedHasSession
<1>3. OneExecutionPerTask
  <2>1. ASSUME NEW t \in Tasks
        PROVE  Cardinality({e \in Executions(t) : execs[e].at = "running"}) <= 1
    <3> DEFINE S == {e \in Executions(t) : execs[e].at = "running"}
    <3>1. \A e, f \in S : e = f
      BY DEF Coherent, ExecInv
    <3>2. CASE S = {}
      <4>1. Cardinality(S) = 0
        BY <3>2, FS_EmptySet
      <4> QED BY <4>1
    <3>3. CASE S # {}
      <4>1. PICK e \in S : TRUE
        BY <3>3
      <4>2. S = {e}
        <5> HIDE DEF S
        <5> QED BY <3>1, <4>1
      <4>3. Cardinality(S) = 1
        <5> HIDE DEF S
        <5> QED BY <4>2, FS_Singleton
      <4> QED BY <4>3
    <3> QED BY <3>2, <3>3
  <2> QED BY <2>1 DEF OneExecutionPerTask
<1>4. ReleasedIsIdle
  BY DEF ReleasedIsIdle, Coherent, InFlightInv
<1> QED BY <1>1, <1>2, <1>3, <1>4 DEF TasksCoherent

\* For a host that releases a session, and uses it again, from one run at a time: an
\* outcome is that of the newest execution, what is completed can be continued, by one
\* execution at a time, and a release that ends in time leaves none behind.
THEOREM TasksKeepTogether ==
    ASSUME CarefulHost
    PROVE  Spec => []TasksCoherent
<1>1. Inv => TasksCoherent
  BY InvIsCoherent
<1> QED BY <1>1, CoherentIsInvariant, PTL

\* What begins an execution is a start, or takes up the continuation of a run.
LEMMA OnlyToolsSpawn ==
    ASSUME Inv, [Next]_vars, NEW e \in Execs, execs[e] = Unused, execs'[e] # Unused
    PROVE  \E r \in Runs : Start(r) \/ Continue(r)
<1> USE DEF Inv
<1>0. execs' # execs
  OBVIOUS
<1>1. CASE \E f \in Execs : Execution(f)
  <2>1. PICK f \in Execs, at \in Stage : execs[f].at # "unused" /\ Advance(f, at)
    BY <1>1 DEF Execution, Finish, Signal, Stop, Stage
  <2>2. execs'[e] = execs[e]
    BY <2>1 DEF Advance, Unused, Typed, ExecOK
  <2> QED BY <2>2
<1>2. CASE Restart
  <2>1. execs'[e] = execs[e]
    BY <1>2 DEF Restart
  <2> QED BY <2>1
<1>3. CASE \E r \in Runs : Tool(r)
  BY <1>0, <1>3 DEF Tool, BeginRun, Announce, ListTasks, EndRun, Get, BeginWait, WaitTimeout,
                    EndWait, BeginContinue, BeginClear, Check
<1>4. CASE \/ HostLists \/ \E r \in Runs : Clear(r)
           \/ \E rt \in Runtimes : Saved(rt)
           \/ \E cancel \in BOOLEAN : Release(cancel)
           \/ \E late \in BOOLEAN : EndRelease(late)
           \/ UNCHANGED vars
  BY <1>0, <1>4 DEF HostLists, ListTasks, Clear, Saved, Release, EndRelease, vars
<1> QED BY <1>1, <1>2, <1>3, <1>4 DEF Next

\* No execution has the id that a start gives out: no other section is open then, so
\* the list it loaded is the one in the session.
LEMMA StartIsFresh ==
    ASSUME Inv, NEW r \in Runs, Start(r), NEW e \in Execs, execs[e] = Unused, execs'[e] # Unused
    PROVE  Executions(execs'[e].task) = {}
<1> USE DEF Inv
<1>1. bound[r] # 0 /\ Free(bound[r]) /\ bound[r] \notin closed /\ Spawn(bound[r], nextId)
  BY DEF Start, Calling
<1>2. ~ Exclusive /\ IdInv /\ nextId \in Tasks
  <2>1. Settled /\ nextId \in Tasks
    BY <1>1, LockAlone, BoundRuntime DEF Start
  <2> QED BY <2>1, SettledIsShared DEF Coherent
<1>3. Executions(nextId) = {}
  BY <1>2, ConfigAssumption DEF IdInv, Tasks
<1>4. execs'[e].task = nextId
  BY <1>1 DEF Spawn, Unused, Typed, ExecOK
<1> QED BY <1>3, <1>4

\* For such a host, an id names one task: what a start begins is the first execution
\* under its id, though the list and the next id are loaded and saved under the lock of
\* one runtime only (start, in RuntimeInner).
THEOREM IdsNeverReused ==
    ASSUME CarefulHost
    PROVE  Spec => IdsUnique
<1> DEFINE Fresh == \A e \in Execs : execs[e] = Unused /\ execs'[e] # Unused /\ op' = op
                                     => Executions(execs'[e].task) = {}
<1>1. Inv /\ [Next]_vars => [Fresh]_vars
  <2> SUFFICES ASSUME Inv, [Next]_vars, NEW e \in Execs,
                      execs[e] = Unused, execs'[e] # Unused, op' = op
               PROVE  Executions(execs'[e].task) = {}
    OBVIOUS
  <2>1. PICK r \in Runs : Start(r) \/ Continue(r)
    BY OnlyToolsSpawn
  <2>2. ~ Continue(r)
    BY DEF Continue, NoOp, Inv, Typed, CallsOK
  <2> QED BY <2>1, <2>2, StartIsFresh
<1> QED BY <1>1, CoherentIsInvariant, PTL DEF Spec, IdsUnique
=============================================================================
