------------------------- MODULE WorkflowRunProofs -------------------------
(***************************************************************************)
(* Theorems about WorkflowRun for every workflow graph, every executor     *)
(* behaviour and every limit: its fields are well typed (so max_iterations *)
(* bounds the counted supersteps), a halt request is honoured, and, when   *)
(* no caller abandons send_responses, only the writes of the superstep     *)
(* that completes are committed; responses reach those who asked; no       *)
(* executor's state has a message twice, however runs fail and resume; and *)
(* a barrier fires when, and only when, it is full.                        *)
(***************************************************************************)
EXTENDS WorkflowRun, SequenceTheorems, FiniteSetTheorems, WellFoundedInduction, TLAPS

\* A drive only exists for a live run, and a superstep only starts below the
\* limit; the stored checkpoint is well typed as well.
ControlInv ==
    /\ status = Nothing => phase = "none"
    /\ phase = "executing" => iteration < MaxIterations
    /\ saved # Nothing => /\ saved.iteration \in 0..MaxIterations
                          /\ saved.committed \in [Keys -> Executors \cup {NoEntry}]

\* The halt flag covers the superstep's own halt requests until it completes.
HaltInv ==
    /\ stepHalts \in BOOLEAN
    /\ phase = "executing" /\ stepHalts => halt
    /\ HaltHonoured

\* Between supersteps nothing is staged; during one, exactly its own writes.
StagedInv ==
    /\ phase = "executing" => pending = stepWrites
    /\ phase # "executing" => pending = Store!Empty

TypeInv == TypeOK /\ ControlInv

\* Discarding and blanking leave a well-typed store.
LEMMA EmptyStore ==
    /\ Store!Empty \in [Keys -> Executors \cup {NoEntry}]
    /\ Store!Empty \in [Keys -> Executors \cup {NoEntry, Tombstone}]
BY DEF Store!Empty

\* What the arithmetic and the typing of the steps need of the parameters.
LEMMA Parameters ==
    /\ MaxIterations \in Nat
    /\ MaxRequests \in Nat
    /\ Effects \in [Executors -> SUBSET Effect]
    /\ Nothing # "InProgress"
BY GraphAssumption DEF GraphAssumption

\* A dropped or a new run is well typed.
LEMMA BlankTypes ==
    ASSUME iteration' = 0, halt' = FALSE, committed' = Store!Empty, pending' = Store!Empty
    PROVE  /\ iteration' \in 0..MaxIterations
           /\ halt' \in BOOLEAN
           /\ committed' \in [Keys -> Executors \cup {NoEntry}]
           /\ pending' \in [Keys -> Executors \cup {NoEntry, Tombstone}]
<1>1. iteration' \in 0..MaxIterations
  BY Parameters
<1>2. /\ committed' \in [Keys -> Executors \cup {NoEntry}]
      /\ pending' \in [Keys -> Executors \cup {NoEntry, Tombstone}]
  BY EmptyStore
<1>3. halt' \in BOOLEAN
  OBVIOUS
<1>4. QED
  BY <1>1, <1>2, <1>3

LEMMA NoStepTypes ==
    ASSUME NoStep
    PROVE  stepWrites' \in [Keys -> Executors \cup {NoEntry}]
BY EmptyStore DEF NoStep

\* A failing drive keeps the type invariant, whatever it leaves in the queue.
LEMMA FailKeepsTypes ==
    ASSUME TypeInv, NEW kept, NEW asked, NEW taken, Fail(kept, asked, taken)
    PROVE  TypeInv'
<1> USE DEF TypeInv, TypeOK, ControlInv
<1>1. CASE origin = "run" /\ Gone /\ UNCHANGED <<memory, saved, minted>>
  BY <1>1, BlankTypes, NoStepTypes DEF Gone, Blank
<1>2. CASE /\ Store!Discard
           /\ status' = "Failed" /\ phase' = "none"
           /\ NoStep
           /\ UNCHANGED <<origin, iteration, halt, saved, minted>>
  BY <1>2, EmptyStore DEF Store!Discard, NoStep
<1>3. QED
  BY <1>1, <1>2 DEF Fail

\* TypeInv is inductive.
LEMMA TypeInvInit ==
    ASSUME Init
    PROVE  TypeInv
<1>1. iteration \in 0..MaxIterations /\ minted \in 0..MaxRequests
  BY Parameters DEF Init
<1>2. /\ committed \in [Keys -> Executors \cup {NoEntry}]
      /\ pending \in [Keys -> Executors \cup {NoEntry, Tombstone}]
      /\ stepWrites \in [Keys -> Executors \cup {NoEntry}]
  BY EmptyStore DEF Init
<1>3. QED
  BY <1>1, <1>2 DEF Init, TypeInv, TypeOK, ControlInv

LEMMA TypeInvStep ==
    ASSUME TypeInv, [Next]_vars
    PROVE  TypeInv'
<1> USE Parameters, EmptyStore DEF TypeInv, TypeOK, ControlInv
<1>1. CASE Start
  BY <1>1, BlankTypes, NoStepTypes DEF Start
<1>2. CASE Restore
  BY <1>2, NoStepTypes DEF Restore
<1>3. CASE StartFails \/ RestoreFails
  BY <1>3 DEF StartFails, RestoreFails, run, step, store, history
<1>4. CASE IterationLimit
  BY <1>4, FailKeepsTypes DEF IterationLimit
<1>5. CASE RoutingFails
  BY <1>5, FailKeepsTypes DEF RoutingFails
<1>6. CASE PlanSuperstep
  BY <1>6 DEF PlanSuperstep, Looping, LimitReached, store
<1>7. ASSUME NEW e \in Executors, BeginExecute(e)
      PROVE  TypeInv'
  <2>1. PICK effect \in Effects[e] :
           LET asks == effect.asks # "none"
           IN  /\ asks => minted < MaxRequests
               /\ minted' = IF asks THEN minted + 1 ELSE minted
               /\ pending' = [k \in Keys |-> IF k \in effect.writes THEN e ELSE pending[k]]
               /\ halt' = (halt \/ effect.halts)
               /\ stepWrites' = [k \in Keys |-> IF k \in effect.writes THEN e
                                               ELSE stepWrites[k]]
    BY <1>7 DEF BeginExecute
  <2>2. UNCHANGED <<status, phase, origin, iteration, committed, saved>>
    BY <1>7 DEF BeginExecute
  <2>3. effect \in Effect
    OBVIOUS
  <2>4. halt' \in BOOLEAN
    BY <2>1, <2>3 DEF Effect
  <2>5. minted' \in 0..MaxRequests
    BY <2>1
  <2>6. pending' \in [Keys -> Executors \cup {NoEntry, Tombstone}]
    BY <2>1
  <2>7. stepWrites' \in [Keys -> Executors \cup {NoEntry}]
    BY <2>1
  <2>8. QED
    BY <2>2, <2>4, <2>5, <2>6, <2>7
<1>8. ASSUME NEW e \in Executors, FinishExecute(e)
      PROVE  TypeInv'
  BY <1>8 DEF FinishExecute, run, store, history
<1>9. CASE FailSuperstep
  BY <1>9, FailKeepsTypes DEF FailSuperstep
<1>10. CASE CompleteSuperstep
  <2>1. iteration' \in 0..MaxIterations
    BY <1>10 DEF CompleteSuperstep, Joined
  <2>2. committed' \in [Keys -> Executors \cup {NoEntry}]
    BY <1>10 DEF CompleteSuperstep, Store!Commit
  <2>3. pending' = Store!Empty
    BY <1>10 DEF CompleteSuperstep, Store!Commit
  <2>4. QED
    BY <1>10, <2>1, <2>2, <2>3 DEF CompleteSuperstep, Joined, history
<1>11. CASE MaybeCheckpoint
  BY <1>11 DEF MaybeCheckpoint, Checkpoint, store, history
<1>12. CASE Quiesce
  BY <1>12 DEF Quiesce, Looping, store, history
<1>13. CASE SendResponses
  BY <1>13 DEF SendResponses, store
<1>14. CASE Abandon
  BY <1>14, NoStepTypes DEF Abandon, store
<1>15. CASE Cancel \/ Crash
  BY <1>15, BlankTypes, NoStepTypes DEF Cancel, Crash, Gone, Blank
<1>16. CASE UNCHANGED vars
  BY <1>16 DEF vars, run, step, store, history
<1>17. QED
  BY <1>1, <1>2, <1>3, <1>4, <1>5, <1>6, <1>7, <1>8, <1>9, <1>10, <1>11, <1>12,
     <1>13, <1>14, <1>15, <1>16 DEF Next, Engine

\* The run's fields keep their types, and the supersteps counted never exceed
\* max_iterations, over any number of failures, crashes, restores and
\* resumptions.
THEOREM TypeCorrect == Spec => []TypeOK
<1>1. TypeInv => TypeOK
  BY DEF TypeInv
<1>2. QED
  BY TypeInvInit, TypeInvStep, <1>1, PTL DEF Spec

-----------------------------------------------------------------------------
(* Halting.                                                                *)

\* HaltInv is inductive: a halt request raises the flag in the same step, and
\* only the end of the superstep lowers it, emptying the queue.
LEMMA HaltInvStep ==
    ASSUME TypeInv, HaltInv, [Next]_vars
    PROVE  HaltInv'
<1> USE DEF HaltInv, HaltHonoured
<1>1. ASSUME NEW kept, NEW asked, NEW taken, Fail(kept, asked, taken)
      PROVE  HaltInv'
  BY <1>1 DEF Fail, Gone, NoStep
<1>2. CASE Start \/ Restore
  BY <1>2 DEF Start, Restore, NoStep
<1>3. CASE StartFails \/ RestoreFails
  BY <1>3 DEF StartFails, RestoreFails, run, history
<1>4. CASE IterationLimit \/ RoutingFails \/ FailSuperstep
  BY <1>4, <1>1 DEF IterationLimit, RoutingFails, FailSuperstep
<1>5. CASE PlanSuperstep
  BY <1>5 DEF PlanSuperstep
<1>6. ASSUME NEW e \in Executors, BeginExecute(e)
      PROVE  HaltInv'
  <2>1. PICK effect \in Effects[e] : /\ halt' = (halt \/ effect.halts)
                                    /\ stepHalts' = (stepHalts \/ effect.halts)
    BY <1>6 DEF BeginExecute
  <2>2. effect.halts \in BOOLEAN
    BY Parameters DEF Effect
  <2>3. phase = "executing" /\ UNCHANGED <<phase, queue>>
    BY <1>6 DEF BeginExecute
  <2>4. QED
    BY <2>1, <2>2, <2>3
<1>7. ASSUME NEW e \in Executors, FinishExecute(e)
      PROVE  HaltInv'
  BY <1>7 DEF FinishExecute, run, history
<1>8. CASE CompleteSuperstep
  BY <1>8 DEF CompleteSuperstep, Joined, NextQueue
<1>9. CASE MaybeCheckpoint
  BY <1>9 DEF MaybeCheckpoint, history
<1>10. CASE Quiesce
  BY <1>10 DEF Quiesce, history
<1>11. CASE SendResponses
  BY <1>11 DEF SendResponses
<1>12. CASE Abandon
  BY <1>12 DEF Abandon, NoStep
<1>13. CASE Cancel \/ Crash
  BY <1>13 DEF Cancel, Crash, Gone, NoStep
<1>14. CASE UNCHANGED vars
  BY <1>14 DEF vars, run, history
<1>15. QED
  BY <1>2, <1>3, <1>4, <1>5, <1>6, <1>7, <1>8, <1>9, <1>10, <1>11, <1>12, <1>13,
     <1>14 DEF Next, Engine

\* A completed superstep in which any executor asked to halt leaves no message
\* to deliver, in every graph and every interleaving.
THEOREM HaltIsHonoured == Spec => []HaltHonoured
<1>1. Init => HaltInv
  BY DEF Init, HaltInv, HaltHonoured
<1>2. HaltInv => HaltHonoured
  BY DEF HaltInv
<1>3. QED
  BY TypeInvInit, TypeInvStep, HaltInvStep, <1>1, <1>2, PTL DEF Spec

-----------------------------------------------------------------------------
(* Staged writes.                                                          *)

\* StagedInv is inductive when nobody abandons send_responses: the writes of a
\* superstep are staged and recorded together, and every way out of it, the
\* failing ones included, empties the buffer.
LEMMA StagedInvStep ==
    ASSUME ~ Abandonable, TypeInv, StagedInv, [Next]_vars
    PROVE  StagedInv'
<1> USE DEF StagedInv
<1>1. ASSUME NEW kept, NEW asked, NEW taken, Fail(kept, asked, taken)
      PROVE  StagedInv'
  BY <1>1 DEF Fail, Gone, Blank, Store!Discard
<1>2. CASE Start \/ Restore
  BY <1>2 DEF Start, Restore
<1>3. CASE StartFails \/ RestoreFails
  BY <1>3 DEF StartFails, RestoreFails, run, store, history
<1>4. CASE IterationLimit \/ RoutingFails \/ FailSuperstep
  BY <1>4, <1>1 DEF IterationLimit, RoutingFails, FailSuperstep
<1>5. CASE PlanSuperstep
  BY <1>5 DEF PlanSuperstep, Looping, store
<1>6. ASSUME NEW e \in Executors, BeginExecute(e)
      PROVE  StagedInv'
  BY <1>6 DEF BeginExecute
<1>7. ASSUME NEW e \in Executors, FinishExecute(e)
      PROVE  StagedInv'
  BY <1>7 DEF FinishExecute, run, store, history
<1>8. CASE CompleteSuperstep
  BY <1>8 DEF CompleteSuperstep, Store!Commit
<1>9. CASE MaybeCheckpoint
  BY <1>9 DEF MaybeCheckpoint, store
<1>10. CASE Quiesce
  BY <1>10 DEF Quiesce, Looping, store
<1>11. CASE SendResponses
  BY <1>11 DEF SendResponses, store
<1>12. CASE Abandon
  BY <1>12 DEF Abandon
<1>13. CASE Cancel \/ Crash
  BY <1>13 DEF Cancel, Crash, Gone, Blank
<1>14. CASE UNCHANGED vars
  BY <1>14 DEF vars, run, store, history
<1>15. QED
  BY <1>2, <1>3, <1>4, <1>5, <1>6, <1>7, <1>8, <1>9, <1>10, <1>11, <1>12, <1>13,
     <1>14 DEF Next, Engine

\* What a step may do to the committed state.
OwnWritesOnly ==
    \/ committed' = committed
    \/ phase = "none" \/ phase' = "none"
    \/ committed' = [k \in Keys |-> IF stepWrites[k] = NoEntry THEN committed[k]
                                    ELSE stepWrites[k]]

LEMMA CommitsOwnWritesStep ==
    ASSUME TypeInv, StagedInv, [Next]_vars
    PROVE  OwnWritesOnly
<1> USE DEF OwnWritesOnly
<1>1. ASSUME NEW kept, NEW asked, NEW taken, Fail(kept, asked, taken)
      PROVE  OwnWritesOnly
  BY <1>1 DEF Fail, Gone
<1>2. CASE Start \/ Restore
  BY <1>2 DEF Start, Restore, TypeInv, ControlInv
<1>3. CASE StartFails \/ RestoreFails
  BY <1>3 DEF StartFails, RestoreFails, store
<1>4. CASE IterationLimit \/ RoutingFails \/ FailSuperstep
  BY <1>4, <1>1 DEF IterationLimit, RoutingFails, FailSuperstep
<1>5. CASE PlanSuperstep \/ MaybeCheckpoint \/ Quiesce \/ SendResponses \/ Abandon
  BY <1>5 DEF PlanSuperstep, MaybeCheckpoint, Quiesce, SendResponses, Abandon, store
<1>6. CASE \E e \in Executors : BeginExecute(e) \/ FinishExecute(e)
  BY <1>6 DEF BeginExecute, FinishExecute, store
<1>7. CASE CompleteSuperstep
  <2>1. pending = stepWrites
    BY <1>7 DEF CompleteSuperstep, Joined, StagedInv
  <2>2. \A k \in Keys : stepWrites[k] # Tombstone
    BY GraphAssumption DEF GraphAssumption, TypeInv, TypeOK
  <2>3. QED
    BY <1>7, <2>1, <2>2 DEF CompleteSuperstep, Store!Commit
<1>8. CASE Cancel \/ Crash
  BY <1>8 DEF Cancel, Crash, Gone
<1>9. CASE UNCHANGED vars
  BY <1>9 DEF vars, store
<1>10. QED
  BY <1>2, <1>3, <1>4, <1>5, <1>6, <1>7, <1>8, <1>9 DEF Next, Engine

\* As long as callers see send_responses through, the committed shared state
\* only ever takes the writes of a superstep that completed.
THEOREM OnlyOwnWritesCommitted ==
    ASSUME ~ Abandonable
    PROVE  Spec => CommitsOwnWritesOnly
<1>1. Init => StagedInv
  BY DEF Init, StagedInv
<1>2. TypeInv /\ StagedInv /\ [Next]_vars => [OwnWritesOnly]_vars
  BY CommitsOwnWritesStep
<1>3. [][OwnWritesOnly]_vars => CommitsOwnWritesOnly
  BY PTL DEF CommitsOwnWritesOnly, OwnWritesOnly
<1>4. QED
  BY TypeInvInit, TypeInvStep, StagedInvStep, <1>1, <1>2, <1>3, PTL DEF Spec

-----------------------------------------------------------------------------
(* Sequences.                                                              *)

IsSeq(s) == s \in Seq(ToSet(s))
Distinct(s) == \A i, j \in DOMAIN s : s[i] = s[j] => i = j

LEMMA SeqFacts ==
    ASSUME NEW T, NEW s \in Seq(T)
    PROVE  /\ IsSeq(s) /\ ToSet(s) \subseteq T
           /\ Len(s) \in Nat /\ DOMAIN s = 1..Len(s)
<1>1. /\ Len(s) \in Nat /\ s \in [1..Len(s) -> T] /\ DOMAIN s = 1..Len(s)
  BY LenProperties
<1>2. ToSet(s) = {s[i] : i \in 1..Len(s)}
  BY <1>1 DEF ToSet
<1>3. s \in [1..Len(s) -> ToSet(s)]
  BY <1>1, <1>2
<1>4. s \in Seq(ToSet(s))
  BY <1>1, <1>3, SeqDef
<1> QED BY <1>1, <1>2, <1>4 DEF IsSeq

LEMMA SeqShape ==
    ASSUME NEW s, IsSeq(s)
    PROVE  Len(s) \in Nat /\ DOMAIN s = 1..Len(s)
BY SeqFacts DEF IsSeq

LEMMA SeqWithin ==
    ASSUME NEW s, IsSeq(s), NEW T, ToSet(s) \subseteq T
    PROVE  s \in Seq(T)
BY SeqMonotonic DEF IsSeq

LEMMA SeqMade ==
    ASSUME NEW n \in Nat, NEW s, s = [i \in 1..n |-> s[i]]
    PROVE  IsSeq(s) /\ Len(s) = n /\ DOMAIN s = 1..n
<1>1. DOMAIN s = 1..n
  OBVIOUS
<1>2. s \in [1..n -> ToSet(s)]
  BY <1>1 DEF ToSet
<1>3. s \in Seq(ToSet(s))
  BY <1>2, SeqDef
<1>4. Len(s) = n
  BY <1>1, <1>3, LenProperties
<1> QED BY <1>1, <1>3, <1>4 DEF IsSeq

LEMMA NoElements ==
    /\ IsSeq(<<>>) /\ ToSet(<<>>) = {} /\ Distinct(<<>>) /\ Len(<<>>) = 0 /\ DOMAIN <<>> = {}
    /\ \A s : IsSeq(s) /\ (Len(s) = 0 \/ ToSet(s) = {}) => s = <<>>
<1>1. <<>> \in Seq({}) /\ DOMAIN <<>> = {} /\ Len(<<>>) = 0
  OBVIOUS
<1>2. IsSeq(<<>>)
  BY SeqFacts, <1>1
<1>3. ToSet(<<>>) = {} /\ Distinct(<<>>)
  BY <1>1 DEF ToSet, Distinct
<1>4. ASSUME NEW s, IsSeq(s), Len(s) = 0 \/ ToSet(s) = {}
      PROVE  s = <<>>
  <2>1. Len(s) \in Nat /\ DOMAIN s = 1..Len(s)
    BY <1>4, SeqShape
  <2>2. ASSUME ToSet(s) = {} PROVE Len(s) = 0
    <3>1. DOMAIN s = {}
      BY <2>2 DEF ToSet
    <3>2. Len(s) # 0 => 1 \in DOMAIN s
      BY <2>1
    <3> QED BY <3>1, <3>2
  <2> QED BY <1>4, <2>1, <2>2, EmptySeq DEF IsSeq
<1> QED BY <1>1, <1>2, <1>3, <1>4

LEMMA Singleton ==
    ASSUME NEW x
    PROVE  /\ IsSeq(<<x>>) /\ ToSet(<<x>>) = {x} /\ Distinct(<<x>>)
           /\ Len(<<x>>) = 1 /\ DOMAIN <<x>> = {1} /\ <<x>>[1] = x
<1>1. <<x>> \in Seq({x}) /\ DOMAIN <<x>> = {1} /\ <<x>>[1] = x /\ Len(<<x>>) = 1
  OBVIOUS
<1>2. IsSeq(<<x>>)
  BY SeqFacts, <1>1
<1> QED BY <1>1, <1>2 DEF ToSet, Distinct

LEMMA Concat ==
    ASSUME NEW s, NEW t, IsSeq(s), IsSeq(t)
    PROVE  /\ IsSeq(s \o t) /\ Len(s \o t) = Len(s) + Len(t)
           /\ DOMAIN (s \o t) = 1..(Len(s) + Len(t))
           /\ \A i \in 1..Len(s) : (s \o t)[i] = s[i]
           /\ \A i \in 1..Len(t) : (s \o t)[Len(s) + i] = t[i]
           /\ ToSet(s \o t) = ToSet(s) \cup ToSet(t)
           /\ Distinct(s) /\ Distinct(t) /\ ToSet(s) \cap ToSet(t) = {} => Distinct(s \o t)
<1> DEFINE T == ToSet(s) \cup ToSet(t)
           u == s \o t
<1>1. s \in Seq(T) /\ t \in Seq(T)
  BY SeqWithin
<1>2. /\ u \in Seq(T) /\ Len(u) = Len(s) + Len(t)
      /\ \A i \in 1 .. Len(s) + Len(t) : u[i] = IF i <= Len(s) THEN s[i] ELSE t[i - Len(s)]
  <2> HIDE DEF T
  <2> QED BY <1>1, ConcatProperties
<1>3. /\ IsSeq(u) /\ DOMAIN u = 1..(Len(s) + Len(t))
      /\ Len(s) \in Nat /\ DOMAIN s = 1..Len(s) /\ Len(t) \in Nat /\ DOMAIN t = 1..Len(t)
  <2> HIDE DEF T, u
  <2> QED BY <1>2, SeqFacts, SeqShape
<1> HIDE DEF u
<1>4. \A i \in 1..Len(s) : u[i] = s[i]
  BY <1>2, <1>3
<1>5. \A i \in 1..Len(t) : u[Len(s) + i] = t[i]
  BY <1>2, <1>3
<1>6. \A i \in DOMAIN u : \/ i \in 1..Len(s)
                          \/ i - Len(s) \in 1..Len(t) /\ i = Len(s) + (i - Len(s))
  BY <1>3
<1>7. ToSet(u) = ToSet(s) \cup ToSet(t)
  <2>1. \A i \in DOMAIN u : u[i] \in ToSet(s) \cup ToSet(t)
    BY <1>3, <1>4, <1>5, <1>6 DEF ToSet
  <2>2. \A i \in DOMAIN s : i \in DOMAIN u /\ u[i] = s[i]
    BY <1>3, <1>4
  <2>3. \A i \in DOMAIN t : Len(s) + i \in DOMAIN u /\ u[Len(s) + i] = t[i]
    BY <1>3, <1>5
  <2> QED BY <2>1, <2>2, <2>3 DEF ToSet
<1>8. ASSUME Distinct(s), Distinct(t), ToSet(s) \cap ToSet(t) = {}
      PROVE  Distinct(u)
  <2>1. ASSUME NEW i \in DOMAIN u, NEW j \in DOMAIN u, u[i] = u[j]
        PROVE  i = j
    <3>1. CASE i \in 1..Len(s) /\ j \in 1..Len(s)
      BY <1>3, <1>4, <1>8, <2>1, <3>1 DEF Distinct
    <3>2. CASE i - Len(s) \in 1..Len(t) /\ j - Len(s) \in 1..Len(t)
      <4>1. t[i - Len(s)] = t[j - Len(s)]
        BY <1>5, <1>6, <2>1, <3>2
      <4>2. i - Len(s) = j - Len(s)
        BY <1>3, <1>8, <3>2, <4>1 DEF Distinct
      <4> QED BY <1>3, <4>2
    <3>3. CASE i \in 1..Len(s) /\ j - Len(s) \in 1..Len(t)
      <4>1. u[i] \in ToSet(s) /\ u[j] \in ToSet(t)
        BY <1>3, <1>4, <1>5, <1>6, <3>3 DEF ToSet
      <4> QED BY <1>8, <2>1, <4>1
    <3>4. CASE j \in 1..Len(s) /\ i - Len(s) \in 1..Len(t)
      <4>1. u[j] \in ToSet(s) /\ u[i] \in ToSet(t)
        BY <1>3, <1>4, <1>5, <1>6, <3>4 DEF ToSet
      <4> QED BY <1>8, <2>1, <4>1
    <3> QED BY <1>6, <3>1, <3>2, <3>3, <3>4
  <2> QED BY <2>1 DEF Distinct
<1> QED BY <1>2, <1>3, <1>4, <1>5, <1>7, <1>8 DEF u

LEMMA HeadAndTail ==
    ASSUME NEW s, IsSeq(s), s # <<>>
    PROVE  /\ 1 \in DOMAIN s /\ Head(s) = s[1] /\ IsSeq(Tail(s))
           /\ \A i \in DOMAIN Tail(s) : i + 1 \in DOMAIN s /\ Tail(s)[i] = s[i + 1]
           /\ \A i \in DOMAIN s : i # 1 => i - 1 \in DOMAIN Tail(s) /\ s[i] = Tail(s)[i - 1]
           /\ ToSet(s) = ToSet(Tail(s)) \cup {s[1]}
<1> DEFINE t == Tail(s)
<1>1. /\ Len(s) \in Nat \ {0} /\ DOMAIN s = 1..Len(s)
      /\ t \in Seq(ToSet(s)) /\ Len(t) = Len(s) - 1
      /\ \A i \in 1..Len(t) : t[i] = s[i + 1]
  BY HeadTailProperties, EmptySeq, SeqShape DEF IsSeq
<1>2. IsSeq(t) /\ DOMAIN t = 1..Len(t)
  <2> HIDE DEF t
  <2> QED BY <1>1, SeqFacts
<1>3. Head(s) = s[1]
  BY DEF IsSeq
<1> HIDE DEF t
<1>4. 1 \in DOMAIN s
  BY <1>1
<1>5. \A i \in DOMAIN t : i + 1 \in DOMAIN s /\ t[i] = s[i + 1]
  BY <1>1, <1>2
<1>6. \A i \in DOMAIN s : i # 1 => i - 1 \in DOMAIN t /\ s[i] = t[i - 1]
  BY <1>1, <1>2
<1>7. ToSet(s) = ToSet(t) \cup {s[1]}
  BY <1>4, <1>5, <1>6 DEF ToSet
<1> QED BY <1>2, <1>3, <1>4, <1>5, <1>6, <1>7 DEF t

\* A set of numbers that has 0, and with a number the next one, has them all.
LEMMA SetInduction ==
    ASSUME NEW S \in SUBSET Nat, 0 \in S, \A n \in S : n + 1 \in S
    PROVE  S = Nat
<1> DEFINE Less == {ss \in Nat \X Nat : ss[1] < ss[2]}
<1>1. IsWellFoundedOn(Less, Nat)
  BY NatLessThanWellFounded DEF OpToRel
<1>2. ASSUME Nat \ S # {} PROVE FALSE
  <2> DEFINE Rest == Nat \ S
  <2>1. Rest \subseteq Nat /\ Rest # {}
    BY <1>2
  <2>2. PICK x \in Rest : \A y \in Rest : ~ (<<y, x>> \in Less)
    <3> HIDE DEF Less, Rest
    <3> QED BY <1>1, <2>1, WFMin
  <2>3. x \in Nat /\ x # 0 /\ x - 1 \in Nat /\ x = (x - 1) + 1
    OBVIOUS
  <2>4. x - 1 \notin S
    BY <2>3
  <2>5. <<x - 1, x>> \in Less
    BY <2>3
  <2> QED BY <2>2, <2>3, <2>4, <2>5
<1> QED BY <1>2

LEMMA AppendToSet ==
    ASSUME NEW T, NEW s \in Seq(T), NEW x \in T
    PROVE  ToSet(Append(s, x)) = ToSet(s) \cup {x}
<1>1. /\ Len(s) \in Nat /\ DOMAIN s = 1..Len(s) /\ DOMAIN Append(s, x) = 1..(Len(s) + 1)
      /\ \A k \in 1..Len(s) : Append(s, x)[k] = s[k]
      /\ Append(s, x)[Len(s) + 1] = x
  OBVIOUS
<1>2. 1..(Len(s) + 1) = 1..Len(s) \cup {Len(s) + 1}
  BY <1>1
<1> DEFINE a == Append(s, x)
<1> HIDE DEF a
<1>3. DOMAIN a = DOMAIN s \cup {Len(s) + 1} /\ a[Len(s) + 1] = x /\ \A k \in DOMAIN s : a[k] = s[k]
  BY <1>1, <1>2 DEF a
<1>4. ToSet(a) = ToSet(s) \cup {x}
  BY <1>3 DEF ToSet
<1> QED BY <1>4 DEF a

\* The recursion of Only, up to m.
Filters(seq, S, f, m) ==
    f = [n \in 0..m |->
           IF n = 0 THEN <<>>
           ELSE IF seq[n] \in S THEN Append(f[n - 1], seq[n]) ELSE f[n - 1]]

LEMMA FilterExists ==
    ASSUME NEW seq, NEW S
    PROVE  \A m \in Nat : \E f : Filters(seq, S, f, m)
<1> DEFINE Good == {m \in Nat : \E f : Filters(seq, S, f, m)}
<1>1. 0 \in Good
  <2>1. Filters(seq, S, [n \in 0..0 |-> <<>>], 0)
    BY DEF Filters
  <2> QED BY <2>1
<1>2. ASSUME NEW m \in Good PROVE m + 1 \in Good
  <2>1. PICK f : Filters(seq, S, f, m)
    OBVIOUS
  <2> DEFINE g == [n \in 0..(m + 1) |->
                     IF n # m + 1 THEN f[n]
                     ELSE IF seq[n] \in S THEN Append(f[n - 1], seq[n]) ELSE f[n - 1]]
  <2>2. \A n \in 0..m : g[n] = f[n]
    OBVIOUS
  <2>3. \A n \in 0..m :
          f[n] = IF n = 0 THEN <<>>
                 ELSE IF seq[n] \in S THEN Append(f[n - 1], seq[n]) ELSE f[n - 1]
    BY <2>1 DEF Filters
  <2>4. ASSUME NEW n \in 0..(m + 1)
        PROVE  g[n] = IF n = 0 THEN <<>>
                      ELSE IF seq[n] \in S THEN Append(g[n - 1], seq[n]) ELSE g[n - 1]
    <3>1. CASE n = m + 1
      <4>1. n # 0 /\ n - 1 \in 0..m
        BY <3>1
      <4>2. g[n] = IF seq[n] \in S THEN Append(f[n - 1], seq[n]) ELSE f[n - 1]
        BY <3>1
      <4> HIDE DEF g
      <4> QED BY <4>1, <4>2, <2>2
    <3>2. CASE n # m + 1
      <4>1. n \in 0..m /\ (n # 0 => n - 1 \in 0..m)
        BY <3>2
      <4> HIDE DEF g
      <4> QED BY <4>1, <2>2, <2>3
    <3> QED BY <3>1, <3>2
  <2>5. Filters(seq, S, g, m + 1)
    <3>1. g = [n \in 0..(m + 1) |-> g[n]]
      OBVIOUS
    <3> HIDE DEF g
    <3> QED BY <2>4, <3>1 DEF Filters
  <2> HIDE DEF g
  <2> QED BY <2>5
<1>3. Good = Nat
  <2>1. Good \in SUBSET Nat
    OBVIOUS
  <2> HIDE DEF Good
  <2> QED BY <1>1, <1>2, <2>1, SetInduction
<1> QED BY <1>3

\* What Only keeps: the elements of the set, each as often as it was there.
LEMMA OnlyKeeps ==
    ASSUME NEW T, NEW seq \in Seq(T), NEW S
    PROVE  /\ Only(seq, S) \in Seq(T)
           /\ ToSet(Only(seq, S)) = ToSet(seq) \cap S
           /\ Distinct(seq) => Distinct(Only(seq, S))
<1> DEFINE f == CHOOSE f : Filters(seq, S, f, Len(seq))
           Upto(n) == {seq[k] : k \in 1..n}
           Good == {n \in Nat : n <= Len(seq) =>
                      /\ f[n] \in Seq(T) /\ ToSet(f[n]) = Upto(n) \cap S
                      /\ Distinct(seq) => Distinct(f[n])}
<1>1. Only(seq, S) = f[Len(seq)]
  BY DEF Only, Filters
<1>2. Filters(seq, S, f, Len(seq))
  <2>1. Len(seq) \in Nat
    OBVIOUS
  <2>2. \E g : Filters(seq, S, g, Len(seq))
    BY <2>1, FilterExists
  <2> QED BY <2>2
<1>3. /\ f[0] = <<>>
      /\ \A n \in 1..Len(seq) :
           f[n] = IF seq[n] \in S THEN Append(f[n - 1], seq[n]) ELSE f[n - 1]
  <2> HIDE DEF f
  <2>1. \A n \in 0..Len(seq) :
          f[n] = IF n = 0 THEN <<>>
                 ELSE IF seq[n] \in S THEN Append(f[n - 1], seq[n]) ELSE f[n - 1]
    BY <1>2, Zenon DEF Filters
  <2>2. Len(seq) \in Nat /\ 0 \in 0..Len(seq) /\ \A n \in 1..Len(seq) : n \in 0..Len(seq) /\ n # 0
    OBVIOUS
  <2> QED BY <2>1, <2>2, Zenon
<1> HIDE DEF f
<1>4. 0 \in Good
  <2>1. f[0] \in Seq(T) /\ DOMAIN f[0] = {}
    BY <1>3
  <2>2. ToSet(f[0]) = {} /\ Upto(0) = {}
    BY <2>1 DEF ToSet
  <2>3. Distinct(f[0])
    BY <2>1 DEF Distinct
  <2> HIDE DEF Upto
  <2> QED BY <2>1, <2>2, <2>3
<1>5. ASSUME NEW n \in Good PROVE n + 1 \in Good
  <2> SUFFICES ASSUME n + 1 <= Len(seq)
               PROVE  /\ f[n + 1] \in Seq(T) /\ ToSet(f[n + 1]) = Upto(n + 1) \cap S
                      /\ Distinct(seq) => Distinct(f[n + 1])
    OBVIOUS
  <2> DEFINE x == seq[n + 1]
  <2>1. /\ n \in Nat /\ n <= Len(seq) /\ n + 1 \in 1..Len(seq) /\ x \in T
        /\ f[n] \in Seq(T) /\ ToSet(f[n]) = Upto(n) \cap S
        /\ Distinct(seq) => Distinct(f[n])
        /\ f[n + 1] = IF x \in S THEN Append(f[n], x) ELSE f[n]
    BY <1>3
  <2>2. Upto(n + 1) = Upto(n) \cup {x}
    <3>1. 1..(n + 1) = 1..n \cup {n + 1}
      BY <2>1
    <3> QED BY <3>1
  <2>3. Distinct(seq) => x \notin Upto(n)
    BY <2>1 DEF Distinct
  <2> HIDE DEF x, Upto
  <2>4. CASE x \in S
    <3>1. f[n + 1] = Append(f[n], x) /\ f[n + 1] \in Seq(T)
      BY <2>1, <2>4
    <3>2. ToSet(f[n + 1]) = ToSet(f[n]) \cup {x}
      BY <2>1, <3>1, AppendToSet
    <3>3. Distinct(seq) => Distinct(f[n + 1])
      <4>1. Distinct(seq) => x \notin ToSet(f[n])
        BY <2>1, <2>3
      <4>2. /\ DOMAIN f[n + 1] = 1..(Len(f[n]) + 1) /\ DOMAIN f[n] = 1..Len(f[n])
            /\ f[n + 1][Len(f[n]) + 1] = x
            /\ \A k \in 1..Len(f[n]) : f[n + 1][k] = f[n][k]
        BY <2>1, <3>1
      <4> QED BY <2>1, <4>1, <4>2 DEF Distinct, ToSet
    <3> QED BY <2>1, <2>2, <2>4, <3>1, <3>2, <3>3
  <2>5. CASE x \notin S
    BY <2>1, <2>2, <2>5
  <2> QED BY <2>4, <2>5
<1>6. Good = Nat
  <2>1. Good \in SUBSET Nat
    OBVIOUS
  <2> HIDE DEF Good
  <2> QED BY <1>4, <1>5, <2>1, SetInduction
<1>7. Len(seq) \in Good /\ Upto(Len(seq)) = ToSet(seq)
  <2>1. Len(seq) \in Nat /\ DOMAIN seq = 1..Len(seq)
    OBVIOUS
  <2>2. Upto(Len(seq)) = ToSet(seq)
    BY <2>1 DEF ToSet
  <2> HIDE DEF Good
  <2> QED BY <1>6, <2>1, <2>2
<1> QED BY <1>1, <1>7

\* The recursion of FlattenSeq, up to m.
Joins(ss, f, m) ==
    f = [n \in 1..m |-> IF n = 1 THEN ss[n] ELSE f[n - 1] \o ss[n]]

LEMMA JoinExists ==
    ASSUME NEW ss
    PROVE  \A m \in Nat : \E f : Joins(ss, f, m)
<1> DEFINE Good == {m \in Nat : \E f : Joins(ss, f, m)}
<1>1. 0 \in Good
  <2>1. Joins(ss, [n \in 1..0 |-> <<>>], 0)
    BY DEF Joins
  <2> QED BY <2>1
<1>2. ASSUME NEW m \in Good PROVE m + 1 \in Good
  <2>1. PICK f : Joins(ss, f, m)
    OBVIOUS
  <2> DEFINE g == [n \in 1..(m + 1) |->
                     IF n # m + 1 THEN f[n]
                     ELSE IF n = 1 THEN ss[n] ELSE f[n - 1] \o ss[n]]
  <2>2. \A n \in 1..m : g[n] = f[n]
    OBVIOUS
  <2>3. \A n \in 1..m : f[n] = IF n = 1 THEN ss[n] ELSE f[n - 1] \o ss[n]
    BY <2>1 DEF Joins
  <2>4. ASSUME NEW n \in 1..(m + 1)
        PROVE  g[n] = IF n = 1 THEN ss[n] ELSE g[n - 1] \o ss[n]
    <3>1. CASE n = m + 1
      <4>1. n # 1 => n - 1 \in 1..m
        BY <3>1
      <4>2. g[n] = IF n = 1 THEN ss[n] ELSE f[n - 1] \o ss[n]
        BY <3>1
      <4> HIDE DEF g
      <4> QED BY <4>1, <4>2, <2>2
    <3>2. CASE n # m + 1
      <4>1. n \in 1..m /\ (n # 1 => n - 1 \in 1..m)
        BY <3>2
      <4> HIDE DEF g
      <4> QED BY <4>1, <2>2, <2>3
    <3> QED BY <3>1, <3>2
  <2>5. Joins(ss, g, m + 1)
    <3>1. g = [n \in 1..(m + 1) |-> g[n]]
      OBVIOUS
    <3> HIDE DEF g
    <3> QED BY <2>4, <3>1 DEF Joins
  <2> HIDE DEF g
  <2> QED BY <2>5
<1>3. Good = Nat
  <2>1. Good \in SUBSET Nat
    OBVIOUS
  <2> HIDE DEF Good
  <2> QED BY <1>1, <1>2, <2>1, SetInduction
<1> QED BY <1>3

\* What FlattenSeq returns: the elements of all the sequences, in their order.
LEMMA FlattenJoins ==
    ASSUME NEW ss, IsSeq(ss), \A i \in DOMAIN ss : IsSeq(ss[i])
    PROVE  /\ IsSeq(FlattenSeq(ss))
           /\ ToSet(FlattenSeq(ss)) = UNION {ToSet(ss[i]) : i \in DOMAIN ss}
           /\ /\ \A i \in DOMAIN ss : Distinct(ss[i])
              /\ \A i, j \in DOMAIN ss : i # j => ToSet(ss[i]) \cap ToSet(ss[j]) = {}
              => Distinct(FlattenSeq(ss))
           /\ (\A i \in DOMAIN ss : Len(ss[i]) = 1)
              => /\ Len(FlattenSeq(ss)) = Len(ss)
                 /\ \A i \in DOMAIN ss : FlattenSeq(ss)[i] = ss[i][1]
<1>0. Len(ss) \in Nat /\ DOMAIN ss = 1..Len(ss)
  BY SeqShape
<1>1. CASE Len(ss) = 0
  <2>1. ss = <<>> /\ DOMAIN ss = {} /\ FlattenSeq(ss) = ss
    BY <1>0, <1>1, NoElements DEF FlattenSeq
  <2> QED BY <2>1, NoElements
<1>2. CASE Len(ss) # 0
  <2> DEFINE f == CHOOSE f : Joins(ss, f, Len(ss))
             Apart == /\ \A i \in DOMAIN ss : Distinct(ss[i])
                      /\ \A i, j \in DOMAIN ss : i # j => ToSet(ss[i]) \cap ToSet(ss[j]) = {}
             Ones == \A i \in DOMAIN ss : Len(ss[i]) = 1
             Upto(n) == UNION {ToSet(ss[i]) : i \in 1..n}
             Fine(n) == /\ IsSeq(f[n]) /\ ToSet(f[n]) = Upto(n)
                        /\ Apart => Distinct(f[n])
                        /\ Ones => Len(f[n]) = n /\ \A i \in 1..n : f[n][i] = ss[i][1]
             Good == {n \in Nat : n + 1 <= Len(ss) => Fine(n + 1)}
  <2>1. FlattenSeq(ss) = f[Len(ss)]
    BY <1>2 DEF FlattenSeq, Joins
  <2>2. Joins(ss, f, Len(ss))
    <3>1. \E g : Joins(ss, g, Len(ss))
      BY <1>0, JoinExists
    <3> QED BY <3>1
  <2>3. \A n \in 1..Len(ss) : f[n] = IF n = 1 THEN ss[n] ELSE f[n - 1] \o ss[n]
    <3> HIDE DEF f
    <3> QED BY <2>2, Zenon DEF Joins
  <2> HIDE DEF f
  <2>4. 0 \in Good
    <3>1. 1 \in DOMAIN ss /\ f[1] = ss[1] /\ IsSeq(ss[1]) /\ 0 + 1 = 1
      BY <1>0, <1>2, <2>3
    <3>2. Upto(1) = ToSet(ss[1])
      <4>1. 1..1 = {1}
        OBVIOUS
      <4> QED BY <4>1
    <3>3. Ones => Len(f[1]) = 1 /\ \A i \in 1..1 : f[1][i] = ss[i][1]
      BY <3>1
    <3>4. Apart => Distinct(f[1])
      BY <3>1
    <3>5. Fine(1)
      <4> HIDE DEF Upto, Apart, Ones
      <4> QED BY <3>1, <3>2, <3>3, <3>4
    <3> HIDE DEF Fine
    <3> QED BY <3>1, <3>5
  <2>5. ASSUME NEW n \in Good PROVE n + 1 \in Good
    <3> DEFINE m == n + 1
    <3> SUFFICES ASSUME m + 1 <= Len(ss) PROVE Fine(m + 1)
      BY DEF Good
    <3>1. /\ m \in Nat \ {0} /\ m + 1 \in DOMAIN ss /\ m \in DOMAIN ss
          /\ Fine(m) /\ f[m + 1] = f[m] \o ss[m + 1] /\ IsSeq(ss[m + 1])
      <4>1. n \in Nat /\ n + 1 <= Len(ss) /\ Fine(n + 1)
        <5> HIDE DEF Fine
        <5> QED BY <1>0
      <4>2. m + 1 \in 1..Len(ss) /\ m + 1 # 1 /\ (m + 1) - 1 = m
        BY <1>0, <4>1
      <4>3. f[m + 1] = f[m] \o ss[m + 1]
        <5> HIDE DEF m, Fine
        <5> QED BY <2>3, <4>2
      <4> HIDE DEF Fine
      <4> QED BY <1>0, <4>1, <4>2, <4>3
    <3> HIDE DEF m
    <3> DEFINE g == f[m] \o ss[m + 1]
    <3>2. /\ IsSeq(g) /\ Len(g) = Len(f[m]) + Len(ss[m + 1])
          /\ \A i \in 1..Len(f[m]) : g[i] = f[m][i]
          /\ \A i \in 1..Len(ss[m + 1]) : g[Len(f[m]) + i] = ss[m + 1][i]
          /\ ToSet(g) = Upto(m) \cup ToSet(ss[m + 1])
          /\ Distinct(f[m]) /\ Distinct(ss[m + 1]) /\ Upto(m) \cap ToSet(ss[m + 1]) = {}
             => Distinct(g)
      <4> DEFINE h == f[m]
                 t == ss[m + 1]
      <4>1. IsSeq(h) /\ IsSeq(t) /\ ToSet(h) = Upto(m)
        BY <3>1
      <4> HIDE DEF Upto, Apart, Ones, h, t
      <4>2. /\ IsSeq(h \o t) /\ Len(h \o t) = Len(h) + Len(t)
            /\ \A i \in 1..Len(h) : (h \o t)[i] = h[i]
            /\ \A i \in 1..Len(t) : (h \o t)[Len(h) + i] = t[i]
            /\ ToSet(h \o t) = ToSet(h) \cup ToSet(t)
            /\ Distinct(h) /\ Distinct(t) /\ ToSet(h) \cap ToSet(t) = {} => Distinct(h \o t)
        BY <4>1, Concat
      <4> QED BY <4>1, <4>2 DEF h, t
    <3> HIDE DEF g
    <3>3. Upto(m + 1) = Upto(m) \cup ToSet(ss[m + 1])
      <4>1. 1..(m + 1) = 1..m \cup {m + 1}
        BY <3>1
      <4> QED BY <4>1
    <3>4. ASSUME Apart PROVE Distinct(g)
      <4>1. \A i \in 1..m : i \in DOMAIN ss /\ i # m + 1
        BY <1>0, <3>1
      <4>2. Upto(m) \cap ToSet(ss[m + 1]) = {}
        BY <3>1, <3>4, <4>1
      <4>3. Distinct(f[m]) /\ Distinct(ss[m + 1])
        BY <3>1, <3>4
      <4> QED BY <3>2, <4>2, <4>3
    <3>5. ASSUME Ones PROVE Len(g) = m + 1 /\ \A i \in 1..(m + 1) : g[i] = ss[i][1]
      <4>1. Len(f[m]) = m /\ (\A i \in 1..m : f[m][i] = ss[i][1]) /\ Len(ss[m + 1]) = 1
        BY <3>1, <3>5
      <4>2. 1 \in 1..1
        OBVIOUS
      <4>3. g[m + 1] = ss[m + 1][1]
        BY <3>2, <4>1, <4>2
      <4>4. \A i \in 1..(m + 1) : i \in 1..m \/ i = m + 1
        BY <3>1
      <4> HIDE DEF Upto
      <4> QED BY <3>1, <3>2, <4>1, <4>3, <4>4
    <3>6. f[m + 1] = g
      BY <3>1 DEF g
    <3> HIDE DEF Upto, Apart, Ones
    <3> QED BY <3>2, <3>3, <3>4, <3>5, <3>6
  <2>6. Good = Nat
    <3>1. Good \in SUBSET Nat
      OBVIOUS
    <3> HIDE DEF Good
    <3> QED BY <2>4, <2>5, <3>1, SetInduction
  <2>7. Fine(Len(ss))
    <3>1. Len(ss) - 1 \in Nat /\ (Len(ss) - 1) + 1 = Len(ss)
      BY <1>0, <1>2
    <3>2. Len(ss) - 1 \in Good
      BY <2>6, <3>1
    <3> HIDE DEF Fine
    <3> QED BY <1>0, <3>1, <3>2
  <2>8. Upto(Len(ss)) = UNION {ToSet(ss[i]) : i \in DOMAIN ss}
    BY <1>0
  <2> HIDE DEF Upto
  <2> QED BY <1>0, <2>1, <2>7, <2>8
<1> QED BY <1>1, <1>2

LEMMA SetInASeq ==
    ASSUME NEW S, IsFiniteSet(S)
    PROVE  /\ IsSeq(SetToSeq(S)) /\ Distinct(SetToSeq(S))
           /\ ToSet(SetToSeq(S)) = S /\ Len(SetToSeq(S)) = Cardinality(S)
<1> DEFINE D == 1..Cardinality(S)
<1>1. Cardinality(S) \in Nat /\ ExistsBijection(D, S)
  BY FS_CardinalityType
<1>2. IsFiniteSet(D) /\ Cardinality(D) = Cardinality(S)
  BY <1>1, FS_Interval
<1>3. \E f \in [D -> S] : IsInjective(f)
  BY <1>1 DEF ExistsBijection, Bijection, Injection
<1> DEFINE f == CHOOSE f \in [D -> S] : IsInjective(f)
<1>4. f \in [D -> S] /\ IsInjective(f) /\ SetToSeq(S) = f
  BY <1>3 DEF SetToSeq
<1> HIDE DEF f
<1>5. f \in Injection(D, S)
  BY <1>4 DEF Injection
<1>6. f \in Surjection(D, S)
  BY <1>2, <1>5, FS_Injection
<1>7. IsSeq(f) /\ Len(f) = Cardinality(S) /\ DOMAIN f = D
  BY <1>1, <1>4, SeqMade
<1>8. ToSet(f) = S
  BY <1>4, <1>6, <1>7 DEF ToSet, Surjection
<1>9. Distinct(f)
  BY <1>4, <1>7 DEF Distinct, IsInjective
<1> QED BY <1>4, <1>7, <1>8, <1>9

\* As many elements as places, unless one occurs twice.
LEMMA SeqFinite ==
    ASSUME NEW s, IsSeq(s)
    PROVE  /\ IsFiniteSet(ToSet(s)) /\ Cardinality(ToSet(s)) <= Len(s)
           /\ Cardinality(ToSet(s)) = Len(s) <=> Distinct(s)
           /\ Cardinality(ToSet(s)) \in Nat
<1> DEFINE f == [i \in 1..Len(s) |-> s[i]]
<1>1. Len(s) \in Nat /\ DOMAIN s = 1..Len(s)
  BY SeqShape
<1>2. f \in Surjection(1..Len(s), ToSet(s))
  BY <1>1 DEF Surjection, ToSet
<1>3. IsFiniteSet(1..Len(s)) /\ Cardinality(1..Len(s)) = Len(s)
  <2>1. \A n \in Nat : IsFiniteSet(1..n) /\ Cardinality(1..n) = n
    BY FS_Interval
  <2> QED BY <1>1, <2>1
<1>4. f \in Injection(1..Len(s), ToSet(s)) <=> Distinct(s)
  BY <1>1, <1>2 DEF Injection, IsInjective, Distinct, Surjection
<1>5. /\ IsFiniteSet(ToSet(s)) /\ Cardinality(ToSet(s)) <= Len(s)
      /\ Cardinality(ToSet(s)) = Len(s) <=> f \in Injection(1..Len(s), ToSet(s))
  <2> HIDE DEF f
  <2> QED BY <1>2, <1>3, FS_Surjection
<1>6. Cardinality(ToSet(s)) \in Nat
  BY <1>5, FS_CardinalityType
<1> QED BY <1>4, <1>5, <1>6

LEMMA Least ==
    ASSUME NEW S \in SUBSET Nat, S # {}
    PROVE  \E i \in S : \A j \in S : i <= j
<1> DEFINE Less == {ss \in Nat \X Nat : ss[1] < ss[2]}
<1>1. IsWellFoundedOn(Less, Nat)
  BY NatLessThanWellFounded DEF OpToRel
<1>2. PICK x \in S : \A y \in S : ~ (<<y, x>> \in Less)
  <2> HIDE DEF Less
  <2> QED BY <1>1, WFMin
<1>3. ASSUME NEW y \in S PROVE x <= y
  <2>1. x \in Nat /\ y \in Nat /\ ~ (y < x)
    BY <1>2
  <2> QED BY <2>1
<1> QED BY <1>3

-----------------------------------------------------------------------------
(* The shape of the data: sequences are sequences, buffers are finite.     *)

ShapeInv ==
    /\ IsSeq(queue) /\ IsFiniteSet(requests)
    /\ DOMAIN fanin = Executors /\ \A t \in Executors : IsFiniteSet(fanin[t])
    /\ DOMAIN groups = Executors /\ DOMAIN running = Executors
    /\ DOMAIN results = Executors /\ DOMAIN memory = Executors
    /\ \A e \in Executors :
          /\ IsSeq(groups[e]) /\ IsSeq(results[e]) /\ IsSeq(memory[e])
          /\ \A inv \in ToSet(groups[e]) : IsSeq(inv.messages)
          /\ \A r \in ToSet(results[e]) : r.effect \in Effect
          /\ running[e] # Nothing => running[e].effect \in Effect
    /\ saved # Nothing => /\ IsSeq(saved.queue) /\ IsFiniteSet(saved.requests)
                          /\ DOMAIN saved.fanin = Executors
                          /\ \A t \in Executors : IsFiniteSet(saved.fanin[t])
                          /\ \A e \in Stateful : IsSeq(saved.memory[e])

\* What is planned for a target: the messages of the queue that reach it.
LEMMA DirectAndRouted ==
    ASSUME IsSeq(queue), NEW t
    PROVE  /\ IsSeq(Direct(t)) /\ ToSet(Direct(t)) = {m \in Delivered(t) : IsDirect(m)}
           /\ IsSeq(Routed(t)) /\ ToSet(Routed(t)) = {m \in Delivered(t) : ~ IsDirect(m)}
           /\ Distinct(queue) => Distinct(Direct(t)) /\ Distinct(Routed(t))
<1> DEFINE D == {m \in Delivered(t) : IsDirect(m)}
           R == {m \in Delivered(t) : ~ IsDirect(m)}
<1>1. D \subseteq ToSet(queue) /\ R \subseteq ToSet(queue)
  BY DEF Delivered
<1>2. Direct(t) = Only(queue, D) /\ Routed(t) = Only(queue, R)
  BY DEF Direct, Routed
<1> HIDE DEF D, R
<1>3. /\ Only(queue, D) \in Seq(ToSet(queue)) /\ ToSet(Only(queue, D)) = ToSet(queue) \cap D
      /\ Only(queue, R) \in Seq(ToSet(queue)) /\ ToSet(Only(queue, R)) = ToSet(queue) \cap R
      /\ Distinct(queue) => Distinct(Only(queue, D)) /\ Distinct(Only(queue, R))
  BY OnlyKeeps DEF IsSeq
<1>4. IsSeq(Only(queue, D)) /\ IsSeq(Only(queue, R))
  BY <1>3, SeqFacts
<1> QED BY <1>1, <1>2, <1>3, <1>4 DEF D, R

LEMMA BufferedIsFinite ==
    ASSUME IsSeq(queue), NEW t, IsFiniteSet(fanin[t])
    PROVE  /\ IsFiniteSet(Buffered(t))
           /\ Buffered(t) \subseteq ToSet(Routed(t)) \cup fanin[t]
<1>1. Buffered(t) \subseteq ToSet(Routed(t)) \cup fanin[t]
  BY DEF Buffered, ToSet
<1>2. IsFiniteSet(ToSet(Routed(t)))
  BY DirectAndRouted, SeqFinite
<1>3. IsFiniteSet(ToSet(Routed(t)) \cup fanin[t])
  BY <1>2, FS_Union
<1> QED BY <1>1, <1>3, FS_Subset

LEMMA DeclaredSources ==
    ASSUME NEW t, IsBarrier(t)
    PROVE  \E i \in DOMAIN EdgeGroups :
              /\ EdgeGroups[i].kind = "fanin" /\ t \in ToSet(EdgeGroups[i].targets)
              /\ FanInSources(t) = EdgeGroups[i].sources
              /\ FanInSources(t) \in Seq(Executors)
<1> DEFINE into == {i \in DOMAIN EdgeGroups : /\ EdgeGroups[i].kind = "fanin"
                                              /\ t \in ToSet(EdgeGroups[i].targets)}
           first == CHOOSE i \in into : \A j \in into : i <= j
<1>1. EdgeGroups \in Seq(EdgeGroup) /\ DOMAIN EdgeGroups = 1..Len(EdgeGroups) /\ Len(EdgeGroups) \in Nat
  BY GraphAssumption, LenProperties DEF GraphAssumption
<1>2. into # {}
  BY DEF IsBarrier, FanInSources
<1>3. into \in SUBSET Nat
  BY <1>1
<1>4. \E i \in into : \A j \in into : i <= j
  <2> HIDE DEF into
  <2> QED BY <1>2, <1>3, Least
<1>5. first \in into
  <2> HIDE DEF into
  <2> QED BY <1>4
<1>6. FanInSources(t) = EdgeGroups[first].sources
  BY <1>2 DEF FanInSources
<1>7. EdgeGroups[first] \in EdgeGroup
  BY <1>1, <1>5, ElementOfSeq
<1>8. EdgeGroups[first].sources \in Seq(Executors)
  BY <1>7 DEF EdgeGroup
<1> HIDE DEF first
<1> QED BY <1>5, <1>6, <1>8

\* What a firing barrier hands over for the i-th declared source.
From(t, i) ==
    IF \E j \in 1..(i - 1) : FanInSources(t)[j] = FanInSources(t)[i] THEN {}
    ELSE {m \in Buffered(t) : m.source = FanInSources(t)[i]}

LEMMA CollectedMessages ==
    ASSUME NEW t, IsBarrier(t), IsFiniteSet(Buffered(t))
    PROVE  /\ IsSeq(Collected(t)) /\ Distinct(Collected(t))
           /\ ToSet(Collected(t)) \subseteq Buffered(t)
<1> DEFINE declared == FanInSources(t)
           ss == [i \in DOMAIN declared |-> SetToSeq(From(t, i))]
<1>1. Collected(t) = FlattenSeq(ss)
  BY DEF Collected, From
<1>2. Len(declared) \in Nat /\ DOMAIN declared = 1..Len(declared)
  BY DeclaredSources, LenProperties
<1>3. IsSeq(ss) /\ DOMAIN ss = DOMAIN declared
  BY <1>2, SeqMade
<1>4. ASSUME NEW i \in DOMAIN ss
      PROVE  IsSeq(ss[i]) /\ Distinct(ss[i]) /\ ToSet(ss[i]) = From(t, i)
  <2>1. From(t, i) \subseteq Buffered(t)
    BY DEF From
  <2>2. IsFiniteSet(From(t, i))
    BY <2>1, FS_Subset
  <2>3. ss[i] = SetToSeq(From(t, i))
    BY <1>3
  <2> HIDE DEF ss
  <2> QED BY <2>2, <2>3, SetInASeq
<1>5. ASSUME NEW i \in DOMAIN ss, NEW j \in DOMAIN ss, i # j
      PROVE  From(t, i) \cap From(t, j) = {}
  <2>1. ASSUME NEW k \in 1..Len(declared), NEW l \in 1..Len(declared), k < l
        PROVE  From(t, k) \cap From(t, l) = {}
    <3>1. k \in 1..(l - 1)
      BY <1>2, <2>1
    <3>2. ASSUME NEW m \in From(t, k), m \in From(t, l) PROVE FALSE
      <4>1. declared[k] = m.source /\ declared[l] = m.source
        BY <3>2 DEF From
      <4> QED BY <3>1, <3>2, <4>1 DEF From
    <3> QED BY <3>2
  <2>2. i \in 1..Len(declared) /\ j \in 1..Len(declared)
    BY <1>2, <1>3
  <2>3. i < j \/ j < i
    BY <1>2, <1>5, <2>2
  <2> HIDE DEF ss
  <2> QED BY <2>1, <2>2, <2>3
<1> HIDE DEF ss
<1>6. /\ IsSeq(FlattenSeq(ss)) /\ Distinct(FlattenSeq(ss))
      /\ ToSet(FlattenSeq(ss)) = UNION {ToSet(ss[i]) : i \in DOMAIN ss}
  BY <1>3, <1>4, <1>5, FlattenJoins
<1>7. \A i \in DOMAIN ss : ToSet(ss[i]) \subseteq Buffered(t)
  BY <1>4 DEF From
<1> QED BY <1>1, <1>6, <1>7

-----------------------------------------------------------------------------
(* Plans: the invocations of one executor.                                 *)

MessagesOf(plan) == UNION {ToSet(inv.messages) : inv \in ToSet(plan)}
PlanShape(plan) == IsSeq(plan) /\ \A inv \in ToSet(plan) : IsSeq(inv.messages)

\* No message is planned twice.
Apart(plan) ==
    /\ \A i \in DOMAIN plan : Distinct(plan[i].messages)
    /\ \A i, j \in DOMAIN plan :
          i # j => ToSet(plan[i].messages) \cap ToSet(plan[j].messages) = {}

\* The messages one by one.
Each(ms) == [i \in DOMAIN ms |-> Single(ms[i])]

LEMMA OneByOne ==
    ASSUME NEW ms, IsSeq(ms)
    PROVE  /\ PlanShape(Each(ms)) /\ MessagesOf(Each(ms)) = ToSet(ms)
           /\ \A inv \in ToSet(Each(ms)) : \E m \in ToSet(ms) : inv = Single(m)
           /\ Distinct(ms) => Apart(Each(ms))
<1> DEFINE p == Each(ms)
<1>1. Len(ms) \in Nat /\ DOMAIN ms = 1..Len(ms)
  BY SeqShape
<1>2. IsSeq(p) /\ DOMAIN p = DOMAIN ms /\ \A i \in DOMAIN p : p[i] = Single(ms[i])
  BY <1>1, SeqMade DEF Each
<1> HIDE DEF p
<1>3. ASSUME NEW m
      PROVE  IsSeq(Single(m).messages) /\ ToSet(Single(m).messages) = {m} /\ Distinct(Single(m).messages)
  <2>1. Single(m).messages = <<m>>
    BY DEF Single
  <2> QED BY <2>1, Singleton
<1>4. \A inv \in ToSet(p) : \E m \in ToSet(ms) : inv = Single(m)
  BY <1>2 DEF ToSet
<1>5. \A m \in ToSet(ms) : Single(m) \in ToSet(p)
  BY <1>2 DEF ToSet
<1>6. PlanShape(p)
  BY <1>2, <1>3, <1>4 DEF PlanShape
<1>7. MessagesOf(p) = ToSet(ms)
  BY <1>3, <1>4, <1>5 DEF MessagesOf
<1>8. ASSUME Distinct(ms) PROVE Apart(p)
  <2>1. \A i \in DOMAIN p : Distinct(p[i].messages) /\ ToSet(p[i].messages) = {ms[i]}
    BY <1>2, <1>3
  <2>2. \A i, j \in DOMAIN p : i # j => ms[i] # ms[j]
    BY <1>2, <1>8 DEF Distinct
  <2> QED BY <2>1, <2>2 DEF Apart
<1> QED BY <1>4, <1>6, <1>7, <1>8 DEF p

LEMMA PlansJoined ==
    ASSUME NEW p, NEW q, PlanShape(p), PlanShape(q)
    PROVE  /\ PlanShape(p \o q) /\ MessagesOf(p \o q) = MessagesOf(p) \cup MessagesOf(q)
           /\ ToSet(p \o q) = ToSet(p) \cup ToSet(q)
           /\ Apart(p) /\ Apart(q) /\ MessagesOf(p) \cap MessagesOf(q) = {} => Apart(p \o q)
<1> DEFINE u == p \o q
<1>1. /\ IsSeq(u) /\ DOMAIN u = 1..(Len(p) + Len(q)) /\ ToSet(u) = ToSet(p) \cup ToSet(q)
      /\ \A i \in 1..Len(p) : u[i] = p[i]
      /\ \A i \in 1..Len(q) : u[Len(p) + i] = q[i]
  BY Concat DEF PlanShape
<1>2. /\ Len(p) \in Nat /\ DOMAIN p = 1..Len(p) /\ Len(q) \in Nat /\ DOMAIN q = 1..Len(q)
  BY SeqShape DEF PlanShape
<1> HIDE DEF u
<1>3. PlanShape(u)
  BY <1>1 DEF PlanShape
<1>4. MessagesOf(u) = MessagesOf(p) \cup MessagesOf(q)
  BY <1>1 DEF MessagesOf
<1>5. \A i \in DOMAIN u : \/ i \in DOMAIN p /\ u[i] = p[i]
                          \/ i - Len(p) \in DOMAIN q /\ u[i] = q[i - Len(p)]
  <2>1. \A i \in DOMAIN u : i \in 1..Len(p) \/ (i - Len(p) \in 1..Len(q) /\ i = Len(p) + (i - Len(p)))
    BY <1>1, <1>2
  <2> QED BY <1>1, <1>2, <2>1
<1>6. /\ \A i \in DOMAIN p : ToSet(p[i].messages) \subseteq MessagesOf(p)
      /\ \A i \in DOMAIN q : ToSet(q[i].messages) \subseteq MessagesOf(q)
  BY DEF MessagesOf, ToSet
<1>7. ASSUME Apart(p), Apart(q), MessagesOf(p) \cap MessagesOf(q) = {}
      PROVE  Apart(u)
  <2>1. \A i \in DOMAIN u : Distinct(u[i].messages)
    BY <1>5, <1>7 DEF Apart
  <2>2. ASSUME NEW i \in DOMAIN u, NEW j \in DOMAIN u, i # j
        PROVE  ToSet(u[i].messages) \cap ToSet(u[j].messages) = {}
    <3>1. CASE i \in DOMAIN p /\ u[i] = p[i] /\ j \in DOMAIN p /\ u[j] = p[j]
      BY <1>7, <2>2, <3>1 DEF Apart
    <3>2. CASE /\ i - Len(p) \in DOMAIN q /\ u[i] = q[i - Len(p)]
               /\ j - Len(p) \in DOMAIN q /\ u[j] = q[j - Len(p)]
      <4>1. i - Len(p) # j - Len(p)
        BY <1>1, <1>2, <2>2
      <4> QED BY <1>7, <3>2, <4>1 DEF Apart
    <3>3. CASE i \in DOMAIN p /\ u[i] = p[i] /\ j - Len(p) \in DOMAIN q /\ u[j] = q[j - Len(p)]
      BY <1>6, <1>7, <3>3
    <3>4. CASE j \in DOMAIN p /\ u[j] = p[j] /\ i - Len(p) \in DOMAIN q /\ u[i] = q[i - Len(p)]
      BY <1>6, <1>7, <3>4
    <3> QED BY <1>5, <3>1, <3>2, <3>3, <3>4
  <2> QED BY <2>1, <2>2 DEF Apart
<1> QED BY <1>1, <1>3, <1>4, <1>7 DEF u

\* What follows the direct messages of a target.
Barrier(t) == [messages |-> Collected(t), sources |-> FanInSources(t)]
AfterDirect(t) ==
    IF ~ IsBarrier(t) THEN Each(Routed(t))
    ELSE IF Routed(t) # <<>> /\ Fires(t) THEN <<Barrier(t)>> ELSE <<>>

LEMMA InvocationsAre ==
    ASSUME NEW t
    PROVE  Invocations(t) = Each(Direct(t)) \o AfterDirect(t)
BY DEF Invocations, Each, AfterDirect, Barrier

LEMMA Invoked ==
    ASSUME IsSeq(queue), NEW t, IsFiniteSet(fanin[t])
    PROVE  /\ PlanShape(Invocations(t))
           /\ ToSet(Direct(t)) \subseteq MessagesOf(Invocations(t))
           /\ \A inv \in ToSet(Invocations(t)) :
                 \/ \E m \in ToSet(Direct(t)) : inv = Single(m)
                 \/ ~ IsBarrier(t)
                 \/ IsBarrier(t) /\ Routed(t) # <<>> /\ Fires(t) /\ inv = Barrier(t)
<1> DEFINE d == Each(Direct(t))
           a == AfterDirect(t)
<1>1. /\ PlanShape(d) /\ MessagesOf(d) = ToSet(Direct(t))
      /\ \A inv \in ToSet(d) : \E m \in ToSet(Direct(t)) : inv = Single(m)
  BY DirectAndRouted, OneByOne
<1>2. /\ PlanShape(a)
      /\ \A inv \in ToSet(a) :
            \/ ~ IsBarrier(t)
            \/ IsBarrier(t) /\ Routed(t) # <<>> /\ Fires(t) /\ inv = Barrier(t)
  <2>1. CASE ~ IsBarrier(t)
    BY <2>1, DirectAndRouted, OneByOne DEF AfterDirect
  <2>2. CASE IsBarrier(t) /\ Routed(t) # <<>> /\ Fires(t)
    <3>1. a = <<Barrier(t)>>
      BY <2>2 DEF AfterDirect
    <3>2. IsSeq(Collected(t))
      BY <2>2, BufferedIsFinite, CollectedMessages
    <3>3. IsSeq(<<Barrier(t)>>) /\ ToSet(<<Barrier(t)>>) = {Barrier(t)} /\ Barrier(t).messages = Collected(t)
      BY Singleton DEF Barrier
    <3> HIDE DEF a
    <3> QED BY <2>2, <3>1, <3>2, <3>3 DEF PlanShape
  <2>3. CASE IsBarrier(t) /\ ~ (Routed(t) # <<>> /\ Fires(t))
    <3>1. a = <<>>
      BY <2>3 DEF AfterDirect
    <3> HIDE DEF a
    <3> QED BY <3>1, NoElements DEF PlanShape
  <2> QED BY <2>1, <2>2, <2>3
<1>3. Invocations(t) = d \o a
  BY InvocationsAre
<1> HIDE DEF d, a
<1>4. /\ PlanShape(d \o a) /\ MessagesOf(d \o a) = MessagesOf(d) \cup MessagesOf(a)
      /\ ToSet(d \o a) = ToSet(d) \cup ToSet(a)
  BY <1>1, <1>2, PlansJoined
<1> QED BY <1>1, <1>2, <1>3, <1>4

\* Planning moves messages from the queue and the barrier to the plan and the
\* barrier, each to one place.
LEMMA PlanningMoves ==
    ASSUME NEW t \in Executors, IsSeq(queue), IsFiniteSet(fanin[t]), Distinct(queue),
           ToSet(queue) \cap fanin[t] = {}
    PROVE  /\ Apart(Invocations(t))
           /\ MessagesOf(Invocations(t)) \cap FanInAfterPlanning[t] = {}
           /\ MessagesOf(Invocations(t)) \cup FanInAfterPlanning[t]
                 \subseteq ToSet(queue) \cup fanin[t]
<1> DEFINE d == Each(Direct(t))
           a == AfterDirect(t)
           F == FanInAfterPlanning[t]
           D == ToSet(Direct(t))
           R == ToSet(Routed(t))
<1>1. PlanShape(d) /\ MessagesOf(d) = D /\ Apart(d)
  BY DirectAndRouted, OneByOne
<1>2. D \subseteq ToSet(queue) /\ R \subseteq ToSet(queue) /\ D \cap R = {}
  BY DirectAndRouted DEF Delivered
<1>3. F = IF ~ IsBarrier(t) \/ Routed(t) = <<>> THEN fanin[t]
          ELSE IF Fires(t) THEN {} ELSE Buffered(t)
  BY DEF FanInAfterPlanning
<1>4. Buffered(t) \subseteq R \cup fanin[t] /\ IsFiniteSet(Buffered(t))
  BY BufferedIsFinite
<1>5. /\ PlanShape(a) /\ Apart(a)
      /\ MessagesOf(a) \cap F = {} /\ MessagesOf(a) \cup F \subseteq R \cup fanin[t]
  <2>1. CASE ~ IsBarrier(t)
    <3>1. a = Each(Routed(t)) /\ F = fanin[t]
      BY <1>3, <2>1 DEF AfterDirect
    <3>2. PlanShape(a) /\ Apart(a) /\ MessagesOf(a) = R
      BY <3>1, DirectAndRouted, OneByOne
    <3> HIDE DEF a, F, R
    <3> QED BY <1>2, <3>1, <3>2
  <2>2. CASE IsBarrier(t) /\ Routed(t) # <<>> /\ Fires(t)
    <3>1. a = <<Barrier(t)>> /\ F = {}
      BY <1>3, <2>2 DEF AfterDirect
    <3>2. /\ IsSeq(Collected(t)) /\ Distinct(Collected(t))
          /\ ToSet(Collected(t)) \subseteq Buffered(t)
      BY <1>4, <2>2, CollectedMessages
    <3>3. /\ IsSeq(<<Barrier(t)>>) /\ ToSet(<<Barrier(t)>>) = {Barrier(t)}
          /\ DOMAIN <<Barrier(t)>> = {1} /\ <<Barrier(t)>>[1] = Barrier(t)
      BY Singleton
    <3>4. Barrier(t).messages = Collected(t)
      BY DEF Barrier
    <3> HIDE DEF a, F, R
    <3>5. PlanShape(a)
      BY <3>1, <3>2, <3>3, <3>4 DEF PlanShape
    <3>6. Apart(a)
      BY <3>1, <3>2, <3>3, <3>4 DEF Apart
    <3>7. MessagesOf(a) = ToSet(Collected(t))
      BY <3>1, <3>3, <3>4 DEF MessagesOf
    <3> QED BY <1>4, <3>1, <3>2, <3>5, <3>6, <3>7
  <2>3. CASE IsBarrier(t) /\ ~ (Routed(t) # <<>> /\ Fires(t))
    <3>1. a = <<>> /\ F \subseteq R \cup fanin[t]
      BY <1>3, <1>4, <2>3 DEF AfterDirect
    <3> HIDE DEF a, F, R
    <3>2. PlanShape(a) /\ Apart(a) /\ MessagesOf(a) = {}
      BY <3>1, NoElements DEF PlanShape, Apart, MessagesOf
    <3> QED BY <3>1, <3>2
  <2> QED BY <2>1, <2>2, <2>3
<1>6. Invocations(t) = d \o a
  BY InvocationsAre
<1> HIDE DEF d, a, F, D, R
<1>7. D \cap F = {}
  BY <1>2, <1>5
<1>8. MessagesOf(d) \cap MessagesOf(a) = {}
  BY <1>1, <1>2, <1>5
<1>9. Apart(d \o a) /\ MessagesOf(d \o a) = MessagesOf(d) \cup MessagesOf(a)
  BY <1>1, <1>5, <1>8, PlansJoined
<1> QED BY <1>1, <1>2, <1>5, <1>6, <1>7, <1>9 DEF F

-----------------------------------------------------------------------------
(* What a superstep returned and sent.                                     *)

LEMMA Returned ==
    ASSUME ShapeInv
    PROVE  /\ IsSeq(Flat)
           /\ \A r \in ToSet(Flat) : \E e \in Executors : r \in ToSet(results[e])
<1> DEFINE ss == [i \in DOMAIN Ids |-> results[Ids[i]]]
<1>1. /\ Len(Ids) \in Nat /\ DOMAIN Ids = 1..Len(Ids) /\ \A i \in DOMAIN Ids : Ids[i] \in Executors
  BY GraphAssumption, LenProperties DEF GraphAssumption
<1>2. IsSeq(ss) /\ DOMAIN ss = DOMAIN Ids /\ \A i \in DOMAIN ss : ss[i] = results[Ids[i]]
  BY <1>1, SeqMade
<1>3. Flat = FlattenSeq(ss)
  BY DEF Flat
<1> HIDE DEF ss
<1>4. \A i \in DOMAIN ss : IsSeq(ss[i])
  BY <1>1, <1>2 DEF ShapeInv
<1>5. IsSeq(Flat) /\ ToSet(Flat) = UNION {ToSet(ss[i]) : i \in DOMAIN ss}
  BY <1>2, <1>3, <1>4, FlattenJoins
<1>6. \A i \in DOMAIN ss : \E e \in Executors : ss[i] = results[e]
  BY <1>1, <1>2
<1> QED BY <1>5, <1>6

\* The messages are numbered by the superstep and their place in it.
LEMMA SentShape ==
    ASSUME ShapeInv
    PROVE  /\ IsSeq(Sent)
           /\ \A n \in DOMAIN Sent : n \in Nat /\ Sent[n].tag = <<"message", iteration + 1, n>>
<1> DEFINE of(r) == [i \in DOMAIN r.effect.sends |->
                       [source |-> r.executor, label |-> r.effect.sends[i].label,
                        to |-> r.effect.sends[i].to]]
           ss == [i \in DOMAIN Flat |-> of(Flat[i])]
           all == FlattenSeq(ss)
<1>1. Sent = [n \in DOMAIN all |->
                [tag |-> <<"message", iteration + 1, n>>, source |-> all[n].source,
                 label |-> all[n].label, to |-> all[n].to]]
  BY DEF Sent
<1>2. Len(Flat) \in Nat /\ DOMAIN Flat = 1..Len(Flat)
  BY Returned, SeqShape
<1>3. \A i \in DOMAIN Flat : Flat[i].effect \in Effect
  BY Returned DEF ShapeInv, ToSet
<1>4. \A r : r.effect \in Effect => IsSeq(of(r))
  <2> SUFFICES ASSUME NEW r, r.effect \in Effect PROVE IsSeq(of(r))
    OBVIOUS
  <2>1. r.effect.sends \in Seq(Send)
    BY DEF Effect
  <2>2. Len(r.effect.sends) \in Nat /\ DOMAIN r.effect.sends = 1..Len(r.effect.sends)
    BY <2>1, LenProperties
  <2> DEFINE s == of(r)
  <2>3. s = [i \in 1..Len(r.effect.sends) |-> s[i]]
    BY <2>2
  <2> HIDE DEF s
  <2>4. IsSeq(s)
    BY <2>2, <2>3, SeqMade
  <2> QED BY <2>4 DEF s
<1>5. /\ ss = [i \in 1..Len(Flat) |-> ss[i]] /\ DOMAIN ss = DOMAIN Flat
      /\ \A i \in DOMAIN Flat : ss[i] = of(Flat[i])
  BY <1>2
<1> HIDE DEF of, ss
<1>6. IsSeq(ss) /\ \A i \in DOMAIN ss : IsSeq(ss[i])
  BY <1>2, <1>3, <1>4, <1>5, SeqMade
<1>7. IsSeq(all)
  BY <1>6, FlattenJoins
<1>8. Len(all) \in Nat /\ DOMAIN all = 1..Len(all)
  BY <1>7, SeqShape
<1> HIDE DEF all
<1> DEFINE s == Sent
<1>9. /\ s = [n \in 1..Len(all) |-> s[n]] /\ DOMAIN s = 1..Len(all)
      /\ \A n \in 1..Len(all) : s[n].tag = <<"message", iteration + 1, n>>
  BY <1>1, <1>8
<1>10. IsSeq(s)
  <2> HIDE DEF s
  <2> QED BY <1>8, <1>9, SeqMade
<1> QED BY <1>8, <1>9, <1>10

\* Only results of the superstep are applied, so a new request is one of theirs.
LEMMA AppliedRequests ==
    ASSUME ShapeInv
    PROVE  /\ IsFiniteSet(RequestsAfterApplying)
           /\ requests \subseteq RequestsAfterApplying
           /\ \A q \in RequestsAfterApplying :
                 \/ q \in requests
                 \/ q # Nothing /\ \E e \in Executors : \E r \in ToSet(results[e]) : q = r.request
<1>1. IsSeq(Flat) /\ Len(Flat) \in Nat /\ DOMAIN Flat = 1..Len(Flat)
  BY Returned, SeqShape
<1>2. \E n \in Nat : n <= Len(Flat) /\ DOMAIN Applied = 1..n /\ \A i \in 1..n : Applied[i] = Flat[i]
  <2>1. CASE Failures = {}
    <3>1. Applied = Flat
      BY <2>1 DEF Applied
    <3>2. Len(Flat) <= Len(Flat) /\ DOMAIN Applied = 1..Len(Flat) /\ \A i \in 1..Len(Flat) : Applied[i] = Flat[i]
      BY <1>1, <3>1
    <3> QED BY <1>1, <3>2
  <2>2. CASE Failures # {}
    <3> DEFINE first == CHOOSE i \in Failures : \A j \in Failures : i <= j
    <3>1. Failures \in SUBSET Nat
      BY <1>1 DEF Failures
    <3>2. \E i \in Failures : \A j \in Failures : i <= j
      BY <2>2, <3>1, Least
    <3>3. first \in Failures
      BY <3>2
    <3>4. first \in 1..Len(Flat) /\ first - 1 \in Nat
      BY <1>1, <3>3 DEF Failures
    <3>5. Applied = SubSeq(Flat, 1, first - 1)
      BY <2>2 DEF Applied
    <3> HIDE DEF first
    <3>6. \A i \in 1..(first - 1) : Flat[i] \in ToSet(Flat)
      BY <1>1, <3>4 DEF ToSet
    <3>7. /\ Applied \in Seq(ToSet(Flat)) /\ Len(Applied) = IF 1 <= first - 1 THEN first - 1 - 1 + 1 ELSE 0
          /\ \A i \in 1..(first - 1 - 1 + 1) : Applied[i] = Flat[1 + i - 1]
      BY <3>4, <3>5, <3>6, SubSeqProperties
    <3>8. Len(Applied) = first - 1 /\ DOMAIN Applied = 1..(first - 1)
      BY <3>4, <3>7, LenProperties
    <3>9. \A i \in 1..(first - 1) : Applied[i] = Flat[i]
      <4>1. \A i \in 1..(first - 1) : i \in 1..(first - 1 - 1 + 1) /\ 1 + i - 1 = i
        BY <3>4
      <4> QED BY <3>7, <4>1
    <3> QED BY <1>1, <3>4, <3>8, <3>9
  <2> QED BY <2>1, <2>2
<1>3. PICK n \in Nat : n <= Len(Flat) /\ DOMAIN Applied = 1..n /\ \A i \in 1..n : Applied[i] = Flat[i]
  BY <1>2
<1> DEFINE J == {j \in DOMAIN Applied : Applied[j].request # Nothing}
           new == {Applied[i].request : i \in J}
           f == [i \in J |-> Applied[i].request]
<1>4. RequestsAfterApplying = requests \cup new
  BY DEF RequestsAfterApplying
<1>5. IsFiniteSet(new)
  <2>1. IsFiniteSet(1..n)
    BY FS_Interval
  <2>2. IsFiniteSet(J)
    <3>1. J \subseteq 1..n
      BY <1>3
    <3> HIDE DEF J
    <3> QED BY <2>1, <3>1, FS_Subset
  <2>3. f \in Surjection(J, new)
    BY DEF Surjection
  <2> HIDE DEF J, new, f
  <2> QED BY <2>2, <2>3, FS_Surjection
<1>6. \A q \in new : q # Nothing /\ \E r \in ToSet(Flat) : q = r.request
  <2>1. \A i \in J : i \in DOMAIN Flat /\ Applied[i] = Flat[i]
    BY <1>1, <1>3
  <2> QED BY <2>1 DEF ToSet
<1>7. IsFiniteSet(RequestsAfterApplying)
  <2> HIDE DEF new
  <2> QED BY <1>4, <1>5, FS_Union DEF ShapeInv
<1> HIDE DEF new
<1> QED BY <1>4, <1>6, <1>7, Returned

\* The responses follow what was left in the queue.
LEMMA ResponsesQueued ==
    ASSUME NEW chosen, IsFiniteSet(chosen), NEW order \in SetToSeqs(chosen)
    PROVE  LET rs == [i \in DOMAIN order |-> Response(order[i])]
           IN  /\ IsSeq(rs) /\ ToSet(rs) = {Response(r) : r \in chosen}
               /\ (\A r, q \in chosen : r # q => Response(r) # Response(q)) => Distinct(rs)
<1> DEFINE n == Cardinality(chosen)
           rs == [i \in DOMAIN order |-> Response(order[i])]
<1>1. n \in Nat /\ IsFiniteSet(1..n) /\ Cardinality(1..n) = n
  <2>1. \A k \in Nat : IsFiniteSet(1..k) /\ Cardinality(1..k) = k
    BY FS_Interval
  <2> QED BY <2>1, FS_CardinalityType
<1>2. order \in [1..n -> chosen] /\ \A i, j \in 1..n : i # j => order[i] # order[j]
  BY DEF SetToSeqs
<1> HIDE DEF n
<1>3. order \in Injection(1..n, chosen)
  BY <1>2 DEF Injection, IsInjective
<1>4. order \in Surjection(1..n, chosen)
  <2>1. Cardinality(1..n) = Cardinality(chosen)
    BY <1>1 DEF n
  <2> QED BY <1>3, <2>1, FS_Injection
<1>5. /\ rs = [i \in 1..n |-> rs[i]] /\ DOMAIN rs = 1..n
      /\ \A i \in 1..n : rs[i] = Response(order[i]) /\ order[i] \in chosen
  BY <1>2
<1> HIDE DEF rs
<1>6. IsSeq(rs)
  BY <1>1, <1>5, SeqMade
<1>7. ToSet(rs) = {Response(r) : r \in chosen}
  BY <1>4, <1>5 DEF ToSet, Surjection
<1>8. (\A r, q \in chosen : r # q => Response(r) # Response(q)) => Distinct(rs)
  BY <1>2, <1>5 DEF Distinct
<1> QED BY <1>6, <1>7, <1>8 DEF rs

LEMMA NoStepShape ==
    ASSUME NoStep
    PROVE  /\ DOMAIN groups' = Executors /\ DOMAIN running' = Executors /\ DOMAIN results' = Executors
           /\ \A e \in Executors :
                 /\ PlanShape(groups'[e]) /\ groups'[e] = <<>>
                 /\ IsSeq(results'[e]) /\ results'[e] = <<>> /\ ToSet(results'[e]) = {}
                 /\ running'[e] = Nothing
BY NoElements DEF NoStep, NoSteps, NoneRunning, PlanShape

\* Where the requests of a superstep are kept until it ends.
FailKeeps(kept, asked) ==
    IsSeq(kept) /\ IsFiniteSet(asked)

LEMMA BlankShape ==
    ASSUME queue' = <<>>, fanin' = NoBarriers, requests' = {}
    PROVE  /\ IsSeq(queue') /\ IsFiniteSet(requests')
           /\ DOMAIN fanin' = Executors /\ \A t \in Executors : IsFiniteSet(fanin'[t])
BY NoElements, FS_EmptySet DEF NoBarriers

LEMMA FailShape ==
    ASSUME ShapeInv, NEW kept, NEW asked, NEW taken, Fail(kept, asked, taken),
           FailKeeps(kept, asked)
    PROVE  ShapeInv'
<1>1. NoStep /\ UNCHANGED <<memory, saved>>
  BY DEF Fail, Gone
<1>2. CASE Gone
  BY <1>1, <1>2, NoStepShape, BlankShape DEF Gone, Blank, ShapeInv, PlanShape
<1>3. CASE queue' = kept /\ requests' = asked /\ fanin' = fanin
  BY <1>1, <1>3, NoStepShape DEF ShapeInv, PlanShape, FailKeeps
<1> QED BY <1>2, <1>3 DEF Fail

\* ShapeInv is inductive.
LEMMA ShapeInvInit ==
    ASSUME Init
    PROVE  ShapeInv
<1>1. IsSeq(<<>>) /\ ToSet(<<>>) = {} /\ IsFiniteSet({})
  BY NoElements, FS_EmptySet
<1> QED BY <1>1 DEF Init, ShapeInv, NoBarriers, NoSteps, NoneRunning, Fresh

LEMMA ShapeInvStep ==
    ASSUME ShapeInv, [Next]_vars
    PROVE  ShapeInv'
<1>0. IsSeq(<<>>) /\ ToSet(<<>>) = {} /\ IsFiniteSet({})
  BY NoElements, FS_EmptySet
<1>1. CASE Start
  <2> DEFINE first == [tag |-> <<"message", 0, 1>>, source |-> SourceStart,
                       label |-> Nothing, to |-> StartId]
  <2>1. queue' = <<first>> /\ requests' = {} /\ fanin' = NoBarriers /\ NoStep /\ saved' = saved
    BY <1>1 DEF Start
  <2>2. IsSeq(queue')
    <3> HIDE DEF first
    <3> QED BY <2>1, Singleton
  <2>3. DOMAIN memory' = Executors /\ \A e \in Executors : IsSeq(memory'[e])
    BY <1>0, <1>1 DEF Start, ShapeInv
  <2>4. DOMAIN fanin' = Executors /\ \A t \in Executors : IsFiniteSet(fanin'[t])
    BY <1>0, <2>1 DEF NoBarriers
  <2> QED BY <1>0, <2>1, <2>2, <2>3, <2>4, NoStepShape DEF ShapeInv, PlanShape
<1>2. CASE Restore
  <2>1. NoStep /\ UNCHANGED saved /\ saved # Nothing
    BY <1>2 DEF Restore
  <2>2. DOMAIN memory' = Executors /\ \A e \in Executors : IsSeq(memory'[e])
    BY <1>2 DEF Restore, ShapeInv
  <2>3. queue' = saved.queue /\ fanin' = saved.fanin /\ requests' = saved.requests
    BY <1>2 DEF Restore
  <2> QED BY <2>1, <2>2, <2>3, NoStepShape DEF ShapeInv, PlanShape
<1>3. CASE StartFails \/ RestoreFails
  <2>1. UNCHANGED <<run, step, saved>>
    BY <1>3 DEF StartFails, RestoreFails
  <2>2. DOMAIN memory' = Executors /\ \A e \in Executors : IsSeq(memory'[e])
    <3>1. CASE StartFails
      BY <1>0, <3>1 DEF StartFails, ShapeInv
    <3>2. CASE RestoreFails
      BY <3>2 DEF RestoreFails, ShapeInv
    <3> QED BY <1>3, <3>1, <3>2
  <2> QED BY <2>1, <2>2 DEF ShapeInv, run, step
<1>4. CASE IterationLimit
  BY <1>4, FailShape DEF IterationLimit, FailKeeps, ShapeInv
<1>5. CASE RoutingFails
  BY <1>0, <1>5, FailShape DEF RoutingFails, FailKeeps, ShapeInv
<1>6. CASE FailSuperstep
  BY <1>0, <1>6, FailShape, AppliedRequests DEF FailSuperstep, FailKeeps
<1>7. CASE PlanSuperstep
  <2>1. /\ groups' = [t \in Executors |-> Invocations(t)] /\ fanin' = FanInAfterPlanning
        /\ queue' = <<>> /\ UNCHANGED <<requests, running, results, memory, saved>>
    BY <1>7 DEF PlanSuperstep
  <2>2. \A t \in Executors : PlanShape(groups'[t])
    BY <2>1, Invoked DEF ShapeInv
  <2>3. DOMAIN fanin' = Executors /\ \A t \in Executors : IsFiniteSet(fanin'[t])
    <3>1. \A t \in Executors : IsFiniteSet(Buffered(t))
      BY BufferedIsFinite DEF ShapeInv
    <3>2. \A t \in Executors : IsFiniteSet(fanin[t])
      BY DEF ShapeInv
    <3> QED BY <1>0, <2>1, <3>1, <3>2 DEF FanInAfterPlanning
  <2>4. DOMAIN groups' = Executors
    BY <2>1
  <2> QED BY <1>0, <2>1, <2>2, <2>3, <2>4 DEF ShapeInv, PlanShape
<1>8. ASSUME NEW e \in Executors, BeginExecute(e)
      PROVE  ShapeInv'
  <2> DEFINE inv == Head(groups[e])
             tags == [i \in DOMAIN inv.messages |-> inv.messages[i].tag]
  <2>1. PICK effect \in Effects[e] :
           /\ \E q : running' = [running EXCEPT ![e] = [executor |-> e, effect |-> effect, request |-> q]]
           /\ memory' = IF e \in Stateful THEN [memory EXCEPT ![e] = @ \o tags] ELSE memory
    BY <1>8 DEF BeginExecute
  <2>2. /\ groups[e] # <<>> /\ groups' = [groups EXCEPT ![e] = Tail(@)]
        /\ UNCHANGED <<queue, fanin, requests, results, saved>>
    BY <1>8 DEF BeginExecute
  <2>3. /\ inv \in ToSet(groups[e]) /\ IsSeq(Tail(groups[e]))
        /\ ToSet(Tail(groups[e])) \subseteq ToSet(groups[e])
    BY <2>2, HeadAndTail DEF ShapeInv
  <2>4. IsSeq(tags)
    <3>1. Len(inv.messages) \in Nat /\ DOMAIN inv.messages = 1..Len(inv.messages)
      BY <2>3, SeqShape DEF ShapeInv
    <3>2. tags = [i \in 1..Len(inv.messages) |-> tags[i]]
      BY <3>1
    <3> HIDE DEF tags
    <3> QED BY <3>1, <3>2, SeqMade
  <2> HIDE DEF tags, inv
  <2>5. IsSeq(memory[e] \o tags)
    BY <2>4, Concat DEF ShapeInv
  <2>6. DOMAIN memory' = Executors /\ \A f \in Executors : IsSeq(memory'[f])
    BY <2>1, <2>5 DEF ShapeInv
  <2>7. DOMAIN groups' = Executors /\ \A f \in Executors : PlanShape(groups'[f])
    BY <2>2, <2>3 DEF ShapeInv, PlanShape
  <2>8. /\ DOMAIN running' = Executors
        /\ \A f \in Executors : running'[f] # Nothing => running'[f].effect \in Effect
    <3>1. PICK q : running' = [running EXCEPT ![e] = [executor |-> e, effect |-> effect, request |-> q]]
      BY <2>1
    <3>2. effect \in Effect
      BY Parameters
    <3>3. DOMAIN running' = Executors /\ running'[e].effect = effect
      BY <3>1 DEF ShapeInv
    <3>4. \A f \in Executors : f # e => running'[f] = running[f]
      BY <3>1 DEF ShapeInv
    <3> QED BY <3>2, <3>3, <3>4 DEF ShapeInv
  <2> QED BY <2>2, <2>6, <2>7, <2>8 DEF ShapeInv, PlanShape
<1>9. ASSUME NEW e \in Executors, FinishExecute(e)
      PROVE  ShapeInv'
  <2>1. /\ running[e] # Nothing
        /\ results' = [results EXCEPT ![e] = Append(@, running[e])]
        /\ running' = [running EXCEPT ![e] = Nothing]
        /\ UNCHANGED <<run, groups, memory, saved>>
    BY <1>9 DEF FinishExecute
  <2> DEFINE T == ToSet(results[e]) \cup {running[e]}
             s == Append(results[e], running[e])
  <2>2. results[e] \in Seq(T) /\ running[e] \in T
    BY SeqWithin DEF ShapeInv
  <2>3. s \in Seq(T)
    <3> HIDE DEF T
    <3> QED BY <2>2
  <2>4. IsSeq(s) /\ ToSet(s) \subseteq T
    <3> HIDE DEF T, s
    <3> QED BY <2>3, SeqFacts
  <2> HIDE DEF s
  <2>5. DOMAIN results' = Executors /\ \A f \in Executors :
           IsSeq(results'[f]) /\ \A r \in ToSet(results'[f]) : r.effect \in Effect
    <3>1. \A r \in T : r.effect \in Effect
      BY <2>1 DEF ShapeInv
    <3>2. DOMAIN results' = Executors /\ results'[e] = s
      BY <2>1 DEF ShapeInv, s
    <3>3. \A f \in Executors : f # e => results'[f] = results[f]
      BY <2>1 DEF ShapeInv
    <3> HIDE DEF T
    <3> QED BY <2>4, <3>1, <3>2, <3>3 DEF ShapeInv
  <2>6. /\ DOMAIN running' = Executors
        /\ \A f \in Executors : running'[f] # Nothing => running'[f].effect \in Effect
    BY <2>1 DEF ShapeInv
  <2> QED BY <2>1, <2>5, <2>6 DEF ShapeInv, run
<1>10. CASE CompleteSuperstep
  <2>1. /\ queue' \in {<<>>, Sent} /\ requests' = RequestsAfterApplying
        /\ results' = NoSteps /\ UNCHANGED <<fanin, groups, running, memory, saved>>
    BY <1>10 DEF CompleteSuperstep, NextQueue
  <2>2. DOMAIN results' = Executors /\ \A e \in Executors : IsSeq(results'[e]) /\ ToSet(results'[e]) = {}
    BY <1>0, <2>1 DEF NoSteps
  <2>3. IsSeq(queue') /\ IsFiniteSet(requests')
    BY <1>0, <2>1, SentShape, AppliedRequests
  <2> QED BY <2>1, <2>2, <2>3 DEF ShapeInv
<1>11. CASE MaybeCheckpoint
  <2>1. UNCHANGED <<queue, fanin, requests, step, memory>> /\ (saved' = Checkpoint \/ saved' = saved)
    BY <1>11 DEF MaybeCheckpoint
  <2>2. CASE saved' = Checkpoint
    <3>1. /\ saved'.queue = queue /\ saved'.requests = requests /\ saved'.fanin = fanin
          /\ \A e \in Stateful : saved'.memory[e] = memory[e]
      BY <2>2 DEF Checkpoint
    <3>2. Stateful \subseteq Executors
      BY GraphAssumption DEF GraphAssumption
    <3> QED BY <2>1, <3>1, <3>2 DEF ShapeInv, step
  <2>3. CASE saved' = saved
    BY <2>1, <2>3 DEF ShapeInv, step
  <2> QED BY <2>1, <2>2, <2>3
<1>12. CASE Quiesce
  BY <1>12 DEF Quiesce, ShapeInv, step
<1>13. CASE SendResponses
  <2>1. PICK chosen \in SUBSET requests : \E order \in SetToSeqs(chosen) :
           /\ requests' = requests \ chosen
           /\ queue' = queue \o [i \in DOMAIN order |-> Response(order[i])]
    BY <1>13 DEF SendResponses
  <2>2. PICK order \in SetToSeqs(chosen) :
           /\ requests' = requests \ chosen
           /\ queue' = queue \o [i \in DOMAIN order |-> Response(order[i])]
    BY <2>1
  <2>3. IsFiniteSet(chosen) /\ IsFiniteSet(requests')
    <3>1. chosen \subseteq requests /\ requests' \subseteq requests
      BY <2>2
    <3> QED BY <3>1, FS_Subset DEF ShapeInv
  <2>4. IsSeq([i \in DOMAIN order |-> Response(order[i])])
    BY <2>3, ResponsesQueued
  <2>5. IsSeq(queue')
    BY <2>2, <2>4, Concat DEF ShapeInv
  <2>6. UNCHANGED <<fanin, step, memory, saved>>
    BY <1>13 DEF SendResponses
  <2> QED BY <2>3, <2>5, <2>6 DEF ShapeInv, step
<1>14. CASE Abandon
  <2>1. NoStep /\ UNCHANGED <<queue, fanin, requests, memory, saved>>
    BY <1>14 DEF Abandon
  <2> QED BY <2>1, NoStepShape DEF ShapeInv, PlanShape
<1>15. CASE Cancel \/ Crash
  <2>1. Gone /\ UNCHANGED saved /\ (memory' = memory \/ memory' = Fresh)
    BY <1>15 DEF Cancel, Crash
  <2>2. DOMAIN memory' = Executors /\ \A e \in Executors : IsSeq(memory'[e])
    BY <1>0, <2>1 DEF Fresh, ShapeInv
  <2> QED BY <2>1, <2>2, NoStepShape, BlankShape DEF Gone, Blank, ShapeInv, PlanShape
<1>16. CASE UNCHANGED vars
  BY <1>16 DEF vars, run, step, ShapeInv
<1>17. QED
  BY <1>1, <1>2, <1>3, <1>4, <1>5, <1>6, <1>7, <1>8, <1>9, <1>10, <1>11, <1>12,
     <1>13, <1>14, <1>15, <1>16 DEF Next, Engine

-----------------------------------------------------------------------------
(* The steps inside a superstep.                                           *)

\* Nothing is planned, running or returned outside of a superstep.
StepInv ==
    phase # "executing" =>
       \A e \in Executors : groups[e] = <<>> /\ running[e] = Nothing /\ results[e] = <<>>

LEMMA StepInvStep ==
    ASSUME ShapeInv, StepInv, [Next]_vars
    PROVE  StepInv'
<1> USE DEF StepInv, NoSteps, NoneRunning
<1>1. ASSUME NEW kept, NEW asked, NEW taken, Fail(kept, asked, taken)
      PROVE  StepInv'
  BY <1>1 DEF Fail, Gone, NoStep
<1>2. CASE Start \/ Restore
  BY <1>2 DEF Start, Restore, NoStep
<1>3. CASE StartFails \/ RestoreFails
  BY <1>3 DEF StartFails, RestoreFails, run, step
<1>4. CASE IterationLimit \/ RoutingFails \/ FailSuperstep
  BY <1>4, <1>1 DEF IterationLimit, RoutingFails, FailSuperstep
<1>5. CASE PlanSuperstep
  BY <1>5 DEF PlanSuperstep
<1>6. CASE \E e \in Executors : BeginExecute(e) \/ FinishExecute(e)
  BY <1>6 DEF BeginExecute, FinishExecute, run
<1>7. CASE CompleteSuperstep
  <2>1. \A e \in Executors : groups[e] = <<>> /\ running[e] = Nothing
    BY <1>7 DEF CompleteSuperstep, Joined
  <2>2. results' = NoSteps /\ UNCHANGED <<groups, running>>
    BY <1>7 DEF CompleteSuperstep
  <2> QED BY <2>1, <2>2 DEF ShapeInv
<1>8. CASE MaybeCheckpoint
  BY <1>8 DEF MaybeCheckpoint, step
<1>9. CASE Quiesce
  BY <1>9 DEF Quiesce, Looping, step
<1>10. CASE SendResponses
  BY <1>10 DEF SendResponses, step
<1>11. CASE Abandon
  BY <1>11 DEF Abandon, NoStep
<1>12. CASE Cancel \/ Crash
  BY <1>12 DEF Cancel, Crash, Gone, NoStep
<1>13. CASE UNCHANGED vars
  BY <1>13 DEF vars, run, step
<1> QED
  BY <1>2, <1>3, <1>4, <1>5, <1>6, <1>7, <1>8, <1>9, <1>10, <1>11, <1>12, <1>13
     DEF Next, Engine

LEMMA FirstOfPlan ==
    ASSUME NEW p, PlanShape(p), p # <<>>
    PROVE  /\ IsSeq(Head(p).messages) /\ PlanShape(Tail(p))
           /\ MessagesOf(p) = ToSet(Head(p).messages) \cup MessagesOf(Tail(p))
           /\ Apart(p) => /\ Apart(Tail(p)) /\ Distinct(Head(p).messages)
                          /\ ToSet(Head(p).messages) \cap MessagesOf(Tail(p)) = {}
<1> DEFINE h == Head(p)
           t == Tail(p)
<1>1. /\ 1 \in DOMAIN p /\ h = p[1] /\ IsSeq(t)
      /\ \A i \in DOMAIN t : i + 1 \in DOMAIN p /\ t[i] = p[i + 1]
      /\ ToSet(p) = ToSet(t) \cup {p[1]}
  BY HeadAndTail DEF PlanShape
<1>2. DOMAIN t = 1..Len(t) /\ Len(t) \in Nat
  <2> HIDE DEF t
  <2> QED BY <1>1, SeqShape
<1> HIDE DEF h, t
<1>3. IsSeq(h.messages) /\ PlanShape(t)
  BY <1>1 DEF PlanShape
<1>4. MessagesOf(p) = ToSet(h.messages) \cup MessagesOf(t)
  BY <1>1 DEF MessagesOf
<1>5. ASSUME Apart(p)
      PROVE  Apart(t) /\ Distinct(h.messages) /\ ToSet(h.messages) \cap MessagesOf(t) = {}
  <2>1. Distinct(h.messages)
    BY <1>1, <1>5 DEF Apart
  <2>2. Apart(t)
    <3>1. \A i \in DOMAIN t : Distinct(t[i].messages)
      BY <1>1, <1>5 DEF Apart
    <3>2. ASSUME NEW i \in DOMAIN t, NEW j \in DOMAIN t, i # j
          PROVE  ToSet(t[i].messages) \cap ToSet(t[j].messages) = {}
      <4>1. i + 1 # j + 1 /\ i + 1 \in DOMAIN p /\ j + 1 \in DOMAIN p
        BY <1>1, <1>2, <3>2
      <4>2. ToSet(p[i + 1].messages) \cap ToSet(p[j + 1].messages) = {}
        BY <1>5, <4>1 DEF Apart
      <4> QED BY <1>1, <4>2
    <3> QED BY <3>1, <3>2 DEF Apart
  <2>3. ASSUME NEW inv \in ToSet(t)
        PROVE  ToSet(h.messages) \cap ToSet(inv.messages) = {}
    <3>1. PICK i \in DOMAIN t : inv = t[i]
      BY DEF ToSet
    <3>2. i + 1 \in DOMAIN p /\ inv = p[i + 1] /\ i + 1 # 1
      BY <1>1, <1>2, <3>1
    <3> QED BY <1>1, <1>5, <3>2 DEF Apart
  <2> QED BY <2>1, <2>2, <2>3 DEF MessagesOf
<1> QED BY <1>3, <1>4, <1>5 DEF h, t

\* An executor that starts on a message remembers its tag, and the tags of all
\* the messages of a barrier.
LEMMA Begun ==
    ASSUME ShapeInv, NEW e \in Executors, BeginExecute(e)
    PROVE  /\ PlanShape(groups[e]) /\ groups[e] # <<>>
           /\ groups' = [groups EXCEPT ![e] = Tail(@)] /\ groups'[e] = Tail(groups[e])
           /\ \A f \in Executors : f # e => groups'[f] = groups[f] /\ memory'[f] = memory[f]
           /\ e \in Stateful =>
                 /\ ToSet(memory'[e]) = ToSet(memory[e])
                                        \cup {m.tag : m \in ToSet(Head(groups[e]).messages)}
                 /\ /\ Distinct(memory[e]) /\ Distinct(Head(groups[e]).messages)
                    /\ \A m, n \in ToSet(Head(groups[e]).messages) : m.tag = n.tag => m = n
                    /\ \A m \in ToSet(Head(groups[e]).messages) : m.tag \notin ToSet(memory[e])
                    => Distinct(memory'[e])
<1> DEFINE ms == Head(groups[e]).messages
           tags == [i \in DOMAIN ms |-> ms[i].tag]
<1>1. /\ groups[e] # <<>> /\ groups' = [groups EXCEPT ![e] = Tail(@)]
      /\ memory' = IF e \in Stateful THEN [memory EXCEPT ![e] = @ \o tags] ELSE memory
  BY DEF BeginExecute
<1>2. PlanShape(groups[e])
  BY DEF ShapeInv, PlanShape
<1>3. IsSeq(ms)
  BY <1>1, <1>2, FirstOfPlan
<1> HIDE DEF ms
<1>4. Len(ms) \in Nat /\ DOMAIN ms = 1..Len(ms)
  BY <1>3, SeqShape
<1>5. tags = [i \in 1..Len(ms) |-> tags[i]] /\ DOMAIN tags = DOMAIN ms /\ \A i \in DOMAIN ms : tags[i] = ms[i].tag
  BY <1>4
<1> HIDE DEF tags
<1>6. IsSeq(tags) /\ ToSet(tags) = {m.tag : m \in ToSet(ms)}
  <2>1. IsSeq(tags)
    BY <1>4, <1>5, SeqMade
  <2> QED BY <1>5, <2>1 DEF ToSet
<1>7. /\ \A f \in Executors : f # e => groups'[f] = groups[f] /\ memory'[f] = memory[f]
      /\ groups'[e] = Tail(groups[e])
      /\ e \in Stateful => memory'[e] = memory[e] \o tags
  BY <1>1 DEF ShapeInv
<1>8. IsSeq(memory[e])
  BY DEF ShapeInv
<1>9. /\ ToSet(memory[e] \o tags) = ToSet(memory[e]) \cup ToSet(tags)
      /\ Distinct(memory[e]) /\ Distinct(tags) /\ ToSet(memory[e]) \cap ToSet(tags) = {}
         => Distinct(memory[e] \o tags)
  BY <1>6, <1>8, Concat
<1>10. ASSUME Distinct(ms), \A m, n \in ToSet(ms) : m.tag = n.tag => m = n
       PROVE  Distinct(tags)
  <2>1. \A i \in DOMAIN ms : ms[i] \in ToSet(ms)
    BY DEF ToSet
  <2>2. ASSUME NEW i \in DOMAIN tags, NEW j \in DOMAIN tags, tags[i] = tags[j]
        PROVE  i = j
    <3>1. ms[i].tag = ms[j].tag /\ ms[i] \in ToSet(ms) /\ ms[j] \in ToSet(ms)
      BY <1>5, <2>1, <2>2
    <3>2. ms[i] = ms[j]
      BY <1>10, <3>1
    <3> QED BY <1>5, <1>10, <3>2 DEF Distinct
  <2> QED BY <2>2 DEF Distinct
<1>11. (\A m \in ToSet(ms) : m.tag \notin ToSet(memory[e])) => ToSet(memory[e]) \cap ToSet(tags) = {}
  BY <1>6
<1> QED BY <1>1, <1>2, <1>6, <1>7, <1>9, <1>10, <1>11 DEF ms

-----------------------------------------------------------------------------
(* Responses reach the executor that asked.                                *)

ResponseTag(id) == <<"response", id>>

Queued(a) == \E m \in ToSet(queue) : m.tag = ResponseTag(a[1]) /\ m.to = a[2]
Planned(a) == \E m \in MessagesOf(groups[a[2]]) : m.tag = ResponseTag(a[1])
Handled(a) == ResponseTag(a[1]) \in ToSet(memory[a[2]])

\* A response is in the queue, addressed to the executor, then in its plan, then
\* in its state: it is in no barrier, and no halt comes between.
AnswerInv ==
    \A a \in answered : a[2] \in Stateful =>
       /\ phase \in {"loop", "saving"} => Queued(a) \/ Handled(a)
       /\ phase = "executing" => Planned(a) \/ Handled(a)
       /\ status \in {"Idle", "IdleWithPendingRequests"} => Handled(a)

LEMMA StatefulAreExecutors ==
    Stateful \subseteq Executors /\ AllEdges \notin Executors /\ Nothing \notin Executors
BY GraphAssumption DEF GraphAssumption

LEMMA AnswersPlanned ==
    ASSUME ShapeInv, NEW a, a[2] \in Executors, Queued(a), PlanSuperstep
    PROVE  Planned(a)'
<1>1. PICK m \in ToSet(queue) : m.tag = ResponseTag(a[1]) /\ m.to = a[2]
  BY DEF Queued
<1>2. IsDirect(m) /\ Targets(m) = {a[2]}
  BY <1>1, StatefulAreExecutors DEF IsDirect, Targets
<1>3. m \in ToSet(Direct(a[2]))
  BY <1>2, DirectAndRouted DEF ShapeInv, Delivered
<1>4. m \in MessagesOf(Invocations(a[2]))
  BY <1>3, Invoked DEF ShapeInv
<1>5. groups' = [t \in Executors |-> Invocations(t)]
  BY DEF PlanSuperstep
<1>6. groups'[a[2]] = Invocations(a[2])
  BY <1>5
<1>7. m \in MessagesOf(groups'[a[2]])
  BY <1>4, <1>6
<1> QED BY <1>1, <1>7 DEF Planned, MessagesOf, ResponseTag

LEMMA AnswerInvStep ==
    ASSUME TypeInv, ShapeInv, AnswerInv, [Next]_vars
    PROVE  AnswerInv'
<1>1. ASSUME NEW kept, NEW asked, NEW taken, Fail(kept, asked, taken)
      PROVE  AnswerInv'
  <2>1. answered' = {} \/ (phase' = "none" /\ status' = "Failed")
    BY <1>1 DEF Fail, Gone
  <2> QED BY <2>1 DEF AnswerInv
<1>2. CASE Start \/ Restore \/ Cancel \/ Crash
  <2>1. answered' = {}
    BY <1>2 DEF Start, Restore, Cancel, Crash, Gone
  <2> QED BY <2>1 DEF AnswerInv
<1>3. CASE StartFails \/ RestoreFails
  <2>1. status' = Nothing /\ phase' = phase /\ answered' = answered /\ status = Nothing
    BY <1>3 DEF StartFails, RestoreFails, run, history
  <2>2. Nothing \notin {"Idle", "IdleWithPendingRequests"}
    BY GraphAssumption DEF GraphAssumption
  <2>3. phase' = "none"
    BY <2>1 DEF TypeInv, ControlInv
  <2> QED BY <2>1, <2>2, <2>3 DEF AnswerInv
<1>4. CASE IterationLimit \/ RoutingFails \/ FailSuperstep
  BY <1>4, <1>1 DEF IterationLimit, RoutingFails, FailSuperstep
<1>5. CASE PlanSuperstep
  <2>1. /\ phase = "loop" /\ phase' = "executing" /\ UNCHANGED <<status, answered, memory>>
    BY <1>5 DEF PlanSuperstep, Looping
  <2>2. ASSUME NEW a \in answered, a[2] \in Stateful
        PROVE  /\ Planned(a)' \/ Handled(a)'
               /\ status \in {"Idle", "IdleWithPendingRequests"} => Handled(a)'
    <3>1. Queued(a) \/ Handled(a)
      BY <2>1, <2>2 DEF AnswerInv
    <3>2. Handled(a)' <=> Handled(a)
      BY <2>1 DEF Handled, ResponseTag
    <3>3. Queued(a) => Planned(a)'
      BY <1>5, <2>2, AnswersPlanned, StatefulAreExecutors
    <3> QED BY <2>2, <3>1, <3>2, <3>3 DEF AnswerInv
  <2> QED BY <2>1, <2>2 DEF AnswerInv
<1>6. ASSUME NEW e \in Executors, BeginExecute(e)
      PROVE  AnswerInv'
  <2>1. phase = "executing" /\ UNCHANGED <<phase, status, answered>>
    BY <1>6 DEF BeginExecute
  <2>2. ASSUME NEW a \in answered, a[2] \in Stateful
        PROVE  /\ Planned(a)' \/ Handled(a)'
               /\ Handled(a) => Handled(a)'
    <3>1. a[2] \in Executors
      BY <2>2, StatefulAreExecutors
    <3>2. Planned(a) \/ Handled(a)
      BY <2>1, <2>2 DEF AnswerInv
    <3>3. CASE a[2] # e
      <4>1. groups'[a[2]] = groups[a[2]] /\ memory'[a[2]] = memory[a[2]]
        BY <1>6, <3>1, <3>3, Begun
      <4> QED BY <3>2, <4>1 DEF Planned, Handled, ResponseTag, MessagesOf
    <3>4. CASE a[2] = e
      <4>1. /\ PlanShape(groups[e]) /\ groups[e] # <<>> /\ groups'[e] = Tail(groups[e])
            /\ ToSet(memory'[e]) = ToSet(memory[e])
                                   \cup {m.tag : m \in ToSet(Head(groups[e]).messages)}
        BY <1>6, <2>2, <3>4, Begun
      <4>2. MessagesOf(groups[e]) = ToSet(Head(groups[e]).messages) \cup MessagesOf(groups'[e])
        BY <4>1, FirstOfPlan
      <4>3. Handled(a) => Handled(a)'
        BY <3>4, <4>1 DEF Handled, ResponseTag
      <4>4. Planned(a) => Planned(a)' \/ Handled(a)'
        <5>1. ASSUME Planned(a)
              PROVE  Planned(a)' \/ Handled(a)'
          <6>1. PICK m \in MessagesOf(groups[e]) : m.tag = ResponseTag(a[1])
            BY <3>4, <5>1 DEF Planned
          <6>2. CASE m \in MessagesOf(groups'[e])
            <7>1. \E n \in MessagesOf(groups'[a[2]]) : n.tag = ResponseTag(a[1])
              BY <3>4, <6>1, <6>2
            <7> QED BY <7>1 DEF Planned, MessagesOf, ResponseTag
          <6>3. CASE m \in ToSet(Head(groups[e]).messages)
            <7>1. m.tag \in ToSet(memory'[e])
              BY <4>1, <6>3
            <7>2. ResponseTag(a[1]) \in ToSet(memory'[a[2]])
              BY <3>4, <6>1, <7>1
            <7> QED BY <7>2 DEF Handled, ResponseTag
          <6> QED BY <4>2, <6>1, <6>2, <6>3
        <5> QED BY <5>1
      <4> QED BY <3>2, <4>3, <4>4
    <3> QED BY <3>3, <3>4
  <2> QED BY <2>1, <2>2 DEF AnswerInv
<1>7. ASSUME NEW e \in Executors, FinishExecute(e)
      PROVE  AnswerInv'
  <2>1. UNCHANGED <<status, phase, answered, queue, groups, memory>>
    BY <1>7 DEF FinishExecute, run, history
  <2> QED BY <2>1 DEF AnswerInv, Queued, Planned, Handled, ResponseTag, MessagesOf
<1>8. CASE CompleteSuperstep
  <2>1. /\ phase = "executing" /\ phase' = "saving" /\ \A e \in Executors : groups[e] = <<>>
        /\ UNCHANGED <<status, answered, memory>>
    BY <1>8 DEF CompleteSuperstep, Joined
  <2>2. ASSUME NEW a \in answered, a[2] \in Stateful
        PROVE  Handled(a)'
    <3>1. groups[a[2]] = <<>>
      BY <2>1, <2>2, StatefulAreExecutors
    <3>2. ~ Planned(a)
      BY <3>1, NoElements DEF Planned, MessagesOf
    <3> QED BY <2>1, <2>2, <3>2 DEF AnswerInv, Handled, ResponseTag
  <2> QED BY <2>1, <2>2 DEF AnswerInv
<1>9. CASE MaybeCheckpoint
  <2>1. phase = "saving" /\ phase' = "loop" /\ UNCHANGED <<status, answered, queue, memory>>
    BY <1>9 DEF MaybeCheckpoint, history
  <2> QED BY <2>1 DEF AnswerInv, Queued, Handled, ResponseTag
<1>10. CASE Quiesce
  <2>1. phase = "loop" /\ phase' = "none" /\ queue = <<>> /\ UNCHANGED <<answered, memory>>
    BY <1>10 DEF Quiesce, Looping, Quiet, history
  <2>2. \A a \in answered : ~ Queued(a)
    BY <2>1, NoElements DEF Queued
  <2>3. \A a \in answered : a[2] \in Stateful => Handled(a)
    BY <2>1, <2>2 DEF AnswerInv
  <2> QED BY <2>1, <2>3 DEF AnswerInv, Handled, ResponseTag
<1>11. CASE SendResponses
  <2>1. PICK chosen \in SUBSET requests : \E order \in SetToSeqs(chosen) :
           /\ queue' = queue \o [i \in DOMAIN order |-> Response(order[i])]
           /\ answered' = {<<r.id, r.replyTo>> : r \in chosen}
    BY <1>11 DEF SendResponses
  <2>2. PICK order \in SetToSeqs(chosen) :
           queue' = queue \o [i \in DOMAIN order |-> Response(order[i])]
    BY <2>1
  <2>3. IsFiniteSet(chosen)
    BY FS_Subset DEF ShapeInv
  <2> DEFINE rs == [i \in DOMAIN order |-> Response(order[i])]
  <2>4. IsSeq(rs) /\ ToSet(rs) = {Response(r) : r \in chosen}
    BY <2>3, ResponsesQueued
  <2> HIDE DEF rs
  <2>5. ToSet(queue \o rs) = ToSet(queue) \cup ToSet(rs)
    BY <2>4, Concat DEF ShapeInv
  <2>6. ASSUME NEW a \in answered'
        PROVE  Queued(a)'
    <3>1. PICK r \in chosen : a = <<r.id, r.replyTo>>
      BY <2>1, <2>6
    <3>2. Response(r) \in ToSet(queue')
      BY <2>2, <2>4, <2>5 DEF rs
    <3>3. Response(r).tag = ResponseTag(a[1]) /\ Response(r).to = a[2]
      BY <3>1 DEF Response, ResponseTag
    <3> QED BY <3>2, <3>3 DEF Queued, ResponseTag
  <2>7. phase' = "loop" /\ status' = "InProgress"
    BY <1>11 DEF SendResponses
  <2> QED BY <2>6, <2>7 DEF AnswerInv
<1>12. CASE Abandon
  <2>1. phase' = "none" /\ UNCHANGED <<status, answered, memory>>
    BY <1>12 DEF Abandon
  <2> QED BY <2>1 DEF AnswerInv, Handled, ResponseTag
<1>13. CASE UNCHANGED vars
  BY <1>13 DEF vars, run, step, history, AnswerInv, Queued, Planned, Handled, ResponseTag, MessagesOf
<1> QED
  BY <1>2, <1>3, <1>4, <1>5, <1>6, <1>7, <1>8, <1>9, <1>10, <1>11, <1>12, <1>13
     DEF Next, Engine

\* When drive() returns Ok, every response it was given has been handled by the
\* executor the request named: in every graph, with barriers in front of it,
\* after failures, restores and abandoned calls.
THEOREM ResponsesAreHandled == Spec => []AnswersHandled
<1>1. Init => AnswerInv
  BY DEF Init, AnswerInv
<1>2. AnswerInv => AnswersHandled
  BY DEF AnswerInv, AnswersHandled, Handled, ResponseTag
<1>3. QED
  BY TypeInvInit, TypeInvStep, ShapeInvInit, ShapeInvStep, AnswerInvStep,
     <1>1, <1>2, PTL DEF Spec

-----------------------------------------------------------------------------
(* No executor's state has a message twice.                                *)

\* The messages on their way to an executor: queued, at its barrier, planned.
Held(q, fan, plan) == ToSet(q) \cup fan \cup MessagesOf(plan)

\* A tag given out before: of a superstep up to k, or of a request up to ids
\* that is not pending any more.
Old(tag, asks, k, ids) ==
    \/ \E j \in 0..k, n \in Nat : tag = <<"message", j, n>>
    \/ \E id \in 1..ids : tag = ResponseTag(id) /\ \A r \in asks : r.id # id

\* What an executor holds and what it remembers are apart: every message is in
\* one place, once, under a tag of its own, and the executor has not seen it.
Cut(q, fan, plan, mem, asks, k, ids) ==
    /\ Distinct(q) /\ Distinct(mem) /\ Apart(plan)
    /\ ToSet(q) \cap fan = {} /\ ToSet(q) \cap MessagesOf(plan) = {}
    /\ fan \cap MessagesOf(plan) = {}
    /\ \A m, n \in Held(q, fan, plan) : m.tag = n.tag => m = n
    /\ \A m \in Held(q, fan, plan) : m.tag \notin ToSet(mem) /\ Old(m.tag, asks, k, ids)
    /\ \A tag \in ToSet(mem) : Old(tag, asks, k, ids)

\* Pending requests have ids of their own.
Numbered(asks, ids) ==
    /\ \A r \in asks : r.id \in 1..ids
    /\ \A r, s \in asks : r.id = s.id => r = s

\* The requests of the run: recorded, running, and returned.
Asked ==
    LET returned == UNION {ToSet(results[e]) : e \in Executors}
        begun == {running[e] : e \in Executors} \ {Nothing}
    IN  requests \cup ({res.request : res \in returned \cup begun} \ {Nothing})

\* The cut holds of a live run, and of the checkpoint at any time.
LiveOnce ==
    status # Nothing =>
       /\ Numbered(Asked, minted)
       /\ \A e \in Stateful :
             Cut(queue, fanin[e], groups[e], memory[e], Asked, iteration, minted)

SavedOnce ==
    saved # Nothing =>
       /\ Numbered(saved.requests, minted)
       /\ \A e \in Stateful : Cut(saved.queue, saved.fanin[e], <<>>, saved.memory[e],
                                  saved.requests, saved.iteration, minted)

OnceInv == LiveOnce /\ SavedOnce

LEMMA TagsDiffer ==
    /\ \A j, n, id : <<"message", j, n>> # ResponseTag(id)
    /\ \A j, n, k, l : <<"message", j, n>> = <<"message", k, l>> => j = k /\ n = l
    /\ \A i, j : ResponseTag(i) = ResponseTag(j) => i = j
<1>1. ASSUME NEW j, NEW n, NEW id, <<"message", j, n>> = <<"response", id>> PROVE FALSE
  <2>1. <<"message", j, n>>[1] = "message" /\ <<"response", id>>[1] = "response"
    OBVIOUS
  <2>2. "message" # "response"
    OBVIOUS
  <2> QED BY <1>1, <2>1, <2>2
<1>2. \A j, n, k, l : <<"message", j, n>> = <<"message", k, l>> => j = k /\ n = l
  OBVIOUS
<1>3. \A i, j : <<"response", i>> = <<"response", j>> => i = j
  OBVIOUS
<1> QED BY <1>1, <1>2, <1>3 DEF ResponseTag

\* Old tags stay old: a request that is added has a later id.
LEMMA OldStays ==
    ASSUME NEW tag, NEW asks, NEW k \in Nat, NEW ids \in Nat, Old(tag, asks, k, ids),
           NEW asks2, NEW k2 \in Nat, NEW ids2 \in Nat, k <= k2, ids <= ids2,
           \A r \in asks2 : r \in asks \/ r.id = ids + 1
    PROVE  Old(tag, asks2, k2, ids2)
<1>1. CASE \E j \in 0..k, n \in Nat : tag = <<"message", j, n>>
  BY <1>1 DEF Old
<1>2. CASE \E id \in 1..ids : tag = ResponseTag(id) /\ \A r \in asks : r.id # id
  <2>1. PICK id \in 1..ids : tag = ResponseTag(id) /\ \A r \in asks : r.id # id
    BY <1>2
  <2>2. id \in 1..ids2 /\ \A r \in asks2 : r.id # id
    BY <2>1
  <2> QED BY <2>1, <2>2 DEF Old
<1> QED BY <1>1, <1>2 DEF Old

\* Messages move between queue, barrier and plan, or are dropped.
LEMMA CutMoves ==
    ASSUME NEW q, NEW fan, NEW plan, NEW mem, NEW asks, NEW k \in Nat, NEW ids \in Nat,
           Cut(q, fan, plan, mem, asks, k, ids),
           NEW q2, NEW fan2, NEW plan2, NEW asks2, NEW k2 \in Nat, NEW ids2 \in Nat,
           Held(q2, fan2, plan2) \subseteq Held(q, fan, plan),
           Distinct(q2), Apart(plan2), ToSet(q2) \cap fan2 = {},
           ToSet(q2) \cap MessagesOf(plan2) = {}, fan2 \cap MessagesOf(plan2) = {},
           k <= k2, ids <= ids2, \A r \in asks2 : r \in asks \/ r.id = ids + 1
    PROVE  Cut(q2, fan2, plan2, mem, asks2, k2, ids2)
<1>1. \A tag : Old(tag, asks, k, ids) => Old(tag, asks2, k2, ids2)
  BY OldStays
<1> QED BY <1>1 DEF Cut

\* New messages are queued, under new tags.
LEMMA CutGains ==
    ASSUME NEW q, NEW fan, NEW plan, NEW mem, NEW asks, NEW k \in Nat, NEW ids \in Nat,
           Cut(q, fan, plan, mem, asks, k, ids), IsSeq(q),
           NEW new, IsSeq(new), Distinct(new), NEW asks2, NEW k2 \in Nat, k <= k2,
           \A r \in asks2 : r \in asks,
           \A m, n \in ToSet(new) : m.tag = n.tag => m = n,
           \A m \in ToSet(new) : Old(m.tag, asks2, k2, ids) /\ ~ Old(m.tag, asks, k, ids)
    PROVE  Cut(q \o new, fan, plan, mem, asks2, k2, ids)
<1>1. \A tag : Old(tag, asks, k, ids) => Old(tag, asks2, k2, ids)
  BY OldStays
<1>2. /\ ToSet(q \o new) = ToSet(q) \cup ToSet(new)
      /\ Distinct(q) /\ Distinct(new) /\ ToSet(q) \cap ToSet(new) = {} => Distinct(q \o new)
  BY Concat
<1> DEFINE H == Held(q, fan, plan)
           u == q \o new
<1>3. Held(u, fan, plan) = H \cup ToSet(new)
  BY <1>2 DEF Held
<1>4. /\ \A m \in H : Old(m.tag, asks, k, ids) /\ m.tag \notin ToSet(mem)
      /\ \A m, n \in H : m.tag = n.tag => m = n
      /\ \A tag \in ToSet(mem) : Old(tag, asks, k, ids)
      /\ Distinct(q) /\ Distinct(mem) /\ Apart(plan)
      /\ ToSet(q) \cap fan = {} /\ ToSet(q) \cap MessagesOf(plan) = {}
      /\ fan \cap MessagesOf(plan) = {}
  BY DEF Cut
<1>5. H \cap ToSet(new) = {}
  BY <1>4
<1>6. ToSet(q) \subseteq H /\ fan \subseteq H /\ MessagesOf(plan) \subseteq H
  BY DEF Held
<1> HIDE DEF H, u
<1>7. Distinct(u) /\ ToSet(u) \cap fan = {} /\ ToSet(u) \cap MessagesOf(plan) = {}
  BY <1>2, <1>4, <1>5, <1>6 DEF u
<1>8. \A m, n \in H \cup ToSet(new) : m.tag = n.tag => m = n
  BY <1>4
<1>9. \A m \in H \cup ToSet(new) : m.tag \notin ToSet(mem) /\ Old(m.tag, asks2, k2, ids)
  BY <1>1, <1>4
<1>10. \A tag \in ToSet(mem) : Old(tag, asks2, k2, ids)
  BY <1>1, <1>4
<1>11. Cut(u, fan, plan, mem, asks2, k2, ids)
  BY <1>3, <1>4, <1>7, <1>8, <1>9, <1>10 DEF Cut
<1> QED BY <1>11 DEF u

\* An executor takes the first invocation of its plan.
LEMMA CutTaken ==
    ASSUME NEW q, NEW fan, NEW plan, NEW mem, NEW asks, NEW k \in Nat, NEW ids \in Nat,
           Cut(q, fan, plan, mem, asks, k, ids), PlanShape(plan), plan # <<>>,
           NEW mem2, Distinct(mem2),
           ToSet(mem2) = ToSet(mem) \cup {m.tag : m \in ToSet(Head(plan).messages)}
    PROVE  Cut(q, fan, Tail(plan), mem2, asks, k, ids)
<1> DEFINE h == ToSet(Head(plan).messages)
           t == Tail(plan)
           T == MessagesOf(t)
           P == MessagesOf(plan)
<1>1. P = h \cup T /\ h \cap T = {} /\ Apart(t)
  BY FirstOfPlan DEF Cut
<1> HIDE DEF h, t, T, P
<1>2. /\ Held(q, fan, t) = ToSet(q) \cup fan \cup T
      /\ Held(q, fan, plan) = ToSet(q) \cup fan \cup P
  BY DEF Held, T, P
<1>3. ToSet(q) \cap P = {} /\ fan \cap P = {}
  BY DEF Cut, P
<1>4. Held(q, fan, t) \subseteq Held(q, fan, plan) /\ h \subseteq Held(q, fan, plan)
      /\ Held(q, fan, t) \cap h = {}
  BY <1>1, <1>2, <1>3
<1>5. /\ \A m, n \in Held(q, fan, plan) : m.tag = n.tag => m = n
      /\ \A m \in Held(q, fan, plan) : m.tag \notin ToSet(mem) /\ Old(m.tag, asks, k, ids)
      /\ \A tag \in ToSet(mem) : Old(tag, asks, k, ids)
      /\ Distinct(q) /\ ToSet(q) \cap fan = {}
  BY DEF Cut
<1>6. ToSet(mem2) = ToSet(mem) \cup {m.tag : m \in h}
  BY DEF h
<1>7. \A m \in Held(q, fan, t) : m.tag \notin ToSet(mem2) /\ Old(m.tag, asks, k, ids)
  BY <1>4, <1>5, <1>6
<1>8. \A tag \in ToSet(mem2) : Old(tag, asks, k, ids)
  BY <1>4, <1>5, <1>6
<1>9. \A m, n \in Held(q, fan, t) : m.tag = n.tag => m = n
  BY <1>4, <1>5
<1>10. ToSet(q) \cap MessagesOf(t) = {} /\ fan \cap MessagesOf(t) = {}
  BY <1>1, <1>3 DEF T
<1>11. Cut(q, fan, t, mem2, asks, k, ids)
  BY <1>1, <1>5, <1>7, <1>8, <1>9, <1>10 DEF Cut
<1> QED BY <1>11 DEF t

\* The numbers of a live run and of the checkpoint are natural numbers.
LEMMA Counters ==
    ASSUME TypeInv
    PROVE  /\ minted \in Nat /\ iteration \in Nat
           /\ saved # Nothing => saved.iteration \in Nat
BY Parameters DEF TypeInv, TypeOK, ControlInv

LEMMA NumberedStays ==
    ASSUME NEW asks, NEW ids \in Nat, Numbered(asks, ids), NEW asks2, NEW ids2 \in Nat,
           ids <= ids2, \A r \in asks2 : r \in asks
    PROVE  Numbered(asks2, ids2)
BY DEF Numbered

LEMMA NoMessagesPlanned ==
    /\ MessagesOf(<<>>) = {} /\ Apart(<<>>) /\ Distinct(<<>>) /\ ToSet(<<>>) = {} /\ IsSeq(<<>>)
<1>1. ToSet(<<>>) = {} /\ DOMAIN <<>> = {} /\ Distinct(<<>>) /\ IsSeq(<<>>)
  BY NoElements
<1> QED BY <1>1 DEF MessagesOf, Apart

\* A run that keeps its requests, or fewer, and whose messages stay or are lost.
LEMMA LiveLoses ==
    ASSUME TypeInv, TypeInv', LiveOnce, status # Nothing, minted' = minted,
           iteration' = iteration, memory' = memory,
           Distinct(queue'), ToSet(queue') \subseteq ToSet(queue),
           \A e \in Stateful : fanin'[e] = fanin[e] /\ (groups'[e] = groups[e] \/ groups'[e] = <<>>),
           \A r \in Asked' : r \in Asked
    PROVE  LiveOnce'
<1>1. Numbered(Asked, minted) /\ minted \in Nat /\ iteration \in Nat
  BY Counters DEF LiveOnce
<1> DEFINE A == Asked
           B == Asked'
<1>2. Numbered(B, minted)
  <2> HIDE DEF A, B
  <2>1. Numbered(A, minted) /\ (\A r \in B : r \in A)
    BY <1>1 DEF A, B
  <2> QED BY <1>1, <2>1, NumberedStays
<1>3. ASSUME NEW e \in Stateful
      PROVE  Cut(queue', fanin'[e], groups'[e], memory[e], B, iteration, minted)
  <2> DEFINE q == queue'
             p == groups'[e]
             f == fanin'[e]
  <2>1. Cut(queue, fanin[e], groups[e], memory[e], A, iteration, minted)
    BY DEF LiveOnce
  <2>2. f = fanin[e] /\ (p = groups[e] \/ p = <<>>) /\ Distinct(q) /\ ToSet(q) \subseteq ToSet(queue)
    OBVIOUS
  <2>3. \A r \in B : r \in A
    OBVIOUS
  <2> HIDE DEF q, p, f, A, B
  <2>4. Apart(p) /\ MessagesOf(p) \subseteq MessagesOf(groups[e])
    BY <2>1, <2>2, NoMessagesPlanned DEF Cut
  <2>5. /\ Held(q, f, p) \subseteq Held(queue, fanin[e], groups[e])
        /\ ToSet(q) \cap f = {} /\ ToSet(q) \cap MessagesOf(p) = {} /\ f \cap MessagesOf(p) = {}
    BY <2>1, <2>2, <2>4 DEF Cut, Held
  <2>6. Cut(q, f, p, memory[e], B, iteration, minted)
    BY <1>1, <2>1, <2>2, <2>3, <2>4, <2>5, CutMoves
  <2> QED BY <2>6 DEF q, p, f
<1>4. LiveOnce' <=> (status' # Nothing =>
         /\ Numbered(B, minted')
         /\ \A e \in Stateful :
               Cut(queue', fanin'[e], groups'[e], memory'[e], B, iteration', minted'))
  BY DEF LiveOnce, Cut, Held, Old, Numbered, MessagesOf, Apart, ResponseTag, Distinct
<1> QED BY <1>2, <1>3, <1>4

\* The requests asked for when no superstep runs are the recorded ones.
LEMMA AskedOutside ==
    ASSUME \A e \in Executors : running[e] = Nothing /\ results[e] = <<>>
    PROVE  Asked = requests
<1>1. UNION {ToSet(results[e]) : e \in Executors} = {}
  BY NoElements
<1>2. {running[e] : e \in Executors} \ {Nothing} = {}
  OBVIOUS
<1> QED BY <1>1, <1>2 DEF Asked

\* LiveOnce after a step, with the primes where they belong.
LEMMA LiveOnceNext ==
    LiveOnce' <=>
       (status' # Nothing =>
          /\ Numbered(Asked', minted')
          /\ \A e \in Stateful :
                Cut(queue', fanin'[e], groups'[e], memory'[e], Asked', iteration', minted'))
BY DEF LiveOnce, Cut, Held, Old, Numbered, MessagesOf, Apart, ResponseTag, Distinct

LEMMA SavedOnceNext ==
    SavedOnce' <=>
       (saved' # Nothing =>
          /\ Numbered(saved'.requests, minted')
          /\ \A e \in Stateful : Cut(saved'.queue, saved'.fanin[e], <<>>, saved'.memory[e],
                                     saved'.requests, saved'.iteration, minted'))
BY DEF SavedOnce, Cut, Held, Old, Numbered, MessagesOf, Apart, ResponseTag, Distinct

LEMMA AskedAfter ==
    ASSUME \A e \in Executors : running'[e] = Nothing /\ results'[e] = <<>>
    PROVE  Asked' = requests'
<1>1. \A e \in Executors : ToSet(results'[e]) = {}
  BY NoElements
<1>2. UNION {ToSet(results'[e]) : e \in Executors} = {}
  BY <1>1
<1>3. {running'[e] : e \in Executors} \ {Nothing} = {}
  OBVIOUS
<1>4. Asked' = requests' \cup ({res.request : res \in
                   UNION {ToSet(results'[e]) : e \in Executors}
                   \cup ({running'[e] : e \in Executors} \ {Nothing})} \ {Nothing})
  BY DEF Asked
<1> QED BY <1>2, <1>3, <1>4

\* A run that starts: one message, under the first tag.
LEMMA LiveOnceStart ==
    ASSUME TypeInv, Start
    PROVE  LiveOnce'
<1> DEFINE first == [tag |-> <<"message", 0, 1>>, source |-> SourceStart,
                     label |-> Nothing, to |-> StartId]
           q == <<first>>
<1>1. /\ queue' = q /\ requests' = {} /\ iteration' = 0 /\ minted' = minted /\ NoStep
      /\ \A e \in Stateful : fanin'[e] = {} /\ memory'[e] = <<>>
  BY StatefulAreExecutors DEF Start, NoBarriers
<1>2. \A e \in Executors : groups'[e] = <<>> /\ running'[e] = Nothing /\ results'[e] = <<>>
  BY <1>1, NoStepShape
<1>3. Asked' = {}
  BY <1>1, <1>2, AskedAfter
<1>4. first.tag = <<"message", 0, 1>> /\ IsSeq(q) /\ ToSet(q) = {first} /\ Distinct(q)
  <2>1. first.tag = <<"message", 0, 1>>
    OBVIOUS
  <2> HIDE DEF first
  <2> QED BY <2>1, Singleton
<1>5. Old(first.tag, {}, 0, minted)
  <2>1. 0 \in 0..0 /\ 1 \in Nat
    OBVIOUS
  <2> HIDE DEF first
  <2> QED BY <1>4, <2>1 DEF Old
<1> HIDE DEF q, first
<1>6. Held(q, {}, <<>>) = {first}
  BY <1>4, NoMessagesPlanned DEF Held
<1>7. Cut(q, {}, <<>>, <<>>, {}, 0, minted)
  BY <1>4, <1>5, <1>6, NoMessagesPlanned DEF Cut
<1>8. Numbered({}, minted)
  BY DEF Numbered
<1> QED BY <1>1, <1>2, <1>3, <1>7, <1>8, LiveOnceNext, StatefulAreExecutors

\* A run rebuilt from the checkpoint is cut where the checkpoint was.
LEMMA LiveOnceRestore ==
    ASSUME SavedOnce, Restore
    PROVE  LiveOnce'
<1>1. /\ saved # Nothing /\ queue' = saved.queue /\ fanin' = saved.fanin
      /\ requests' = saved.requests /\ iteration' = saved.iteration /\ minted' = minted
      /\ NoStep /\ \A e \in Stateful : memory'[e] = saved.memory[e]
  BY StatefulAreExecutors DEF Restore
<1>2. \A e \in Executors : groups'[e] = <<>> /\ running'[e] = Nothing /\ results'[e] = <<>>
  BY <1>1, NoStepShape
<1>3. Asked' = requests'
  BY <1>2, AskedAfter
<1> QED BY <1>1, <1>2, <1>3, LiveOnceNext, StatefulAreExecutors DEF SavedOnce

\* Planning: the messages of the queue and the barrier go to the plan, or wait.
LEMMA LiveOncePlan ==
    ASSUME TypeInv, ShapeInv, LiveOnce, PlanSuperstep
    PROVE  LiveOnce'
<1>1. /\ groups' = [t \in Executors |-> Invocations(t)] /\ fanin' = FanInAfterPlanning
      /\ queue' = <<>> /\ status # Nothing
      /\ UNCHANGED <<iteration, requests, running, results, memory, minted>>
  BY DEF PlanSuperstep, Looping, TypeInv, ControlInv
<1>2. Asked' = Asked
  BY <1>1 DEF Asked
<1>3. Numbered(Asked, minted) /\ minted \in Nat /\ iteration \in Nat
  BY <1>1, Counters DEF LiveOnce
<1>4. ASSUME NEW e \in Stateful
      PROVE  Cut(<<>>, FanInAfterPlanning[e], Invocations(e), memory[e], Asked, iteration, minted)
  <2> DEFINE F == FanInAfterPlanning[e]
             P == Invocations(e)
             A == Asked
  <2>1. Cut(queue, fanin[e], groups[e], memory[e], A, iteration, minted)
    BY <1>1 DEF LiveOnce
  <2>2. e \in Executors /\ IsSeq(queue) /\ IsFiniteSet(fanin[e])
    BY StatefulAreExecutors DEF ShapeInv
  <2>3. /\ Apart(P) /\ MessagesOf(P) \cap F = {}
        /\ MessagesOf(P) \cup F \subseteq ToSet(queue) \cup fanin[e]
    BY <2>1, <2>2, PlanningMoves DEF Cut
  <2> HIDE DEF F, P, A
  <2>4. Held(<<>>, F, P) \subseteq Held(queue, fanin[e], groups[e])
    BY <2>3, NoMessagesPlanned DEF Held
  <2>5. /\ ToSet(<<>>) \cap F = {} /\ ToSet(<<>>) \cap MessagesOf(P) = {}
        /\ F \cap MessagesOf(P) = {} /\ Distinct(<<>>)
    BY <2>3, NoMessagesPlanned
  <2>6. Cut(<<>>, F, P, memory[e], A, iteration, minted)
    BY <1>3, <2>1, <2>3, <2>4, <2>5, CutMoves
  <2> QED BY <2>6 DEF F, P, A
<1>5. \A e \in Stateful : groups'[e] = Invocations(e) /\ fanin'[e] = FanInAfterPlanning[e]
  BY <1>1, StatefulAreExecutors
<1> QED BY <1>1, <1>2, <1>3, <1>4, <1>5, LiveOnceNext

\* Time passes for a cut: a later superstep, more ids, fewer requests or one
\* under the next id.
LEMMA CutStays ==
    ASSUME NEW q, NEW fan, NEW plan, NEW mem, NEW asks, NEW k \in Nat, NEW ids \in Nat,
           Cut(q, fan, plan, mem, asks, k, ids),
           NEW asks2, NEW k2 \in Nat, NEW ids2 \in Nat, k <= k2, ids <= ids2,
           \A r \in asks2 : r \in asks \/ r.id = ids + 1
    PROVE  Cut(q, fan, plan, mem, asks2, k2, ids2)
<1>1. /\ Distinct(q) /\ Apart(plan) /\ ToSet(q) \cap fan = {}
      /\ ToSet(q) \cap MessagesOf(plan) = {} /\ fan \cap MessagesOf(plan) = {}
  BY DEF Cut
<1>2. Held(q, fan, plan) \subseteq Held(q, fan, plan)
  OBVIOUS
<1> QED BY <1>1, <1>2, CutMoves

\* An executor starts: at most one new request, under the next id.
LEMMA BegunAsks ==
    ASSUME TypeInv, ShapeInv, Numbered(Asked, minted), NEW e \in Executors, BeginExecute(e)
    PROVE  /\ minted' \in Nat /\ minted <= minted'
           /\ \A r \in Asked' : r \in Asked \/ r.id = minted + 1
           /\ Numbered(Asked', minted')
<1>1. PICK effect \in Effects[e] :
         LET inv == Head(groups[e])
             asks == effect.asks # "none"
         IN  /\ minted' = IF asks THEN minted + 1 ELSE minted
             /\ running' = [running EXCEPT ![e] =
                  [executor |-> e, effect |-> effect,
                   request |-> IF asks THEN Request(minted + 1, e, effect, inv.sources)
                               ELSE Nothing]]
  BY DEF BeginExecute
<1> DEFINE req == IF effect.asks # "none"
                  THEN Request(minted + 1, e, effect, Head(groups[e]).sources) ELSE Nothing
           rec == [executor |-> e, effect |-> effect, request |-> req]
           A == Asked
           B == Asked'
<1>2. running'[e] = rec /\ \A f \in Executors : f # e => running'[f] = running[f]
  BY <1>1 DEF ShapeInv
<1>3. UNCHANGED <<requests, results>>
  BY DEF BeginExecute
<1>4. minted \in Nat /\ minted' \in Nat /\ minted <= minted'
  <2>1. minted \in Nat
    BY Counters
  <2> QED BY <1>1, <2>1
<1>5. req # Nothing => req.id = minted + 1 /\ minted' = minted + 1
  BY <1>1 DEF Request
<1>6. rec.request = req
  OBVIOUS
<1> HIDE DEF req, rec
<1>7. \A r \in Asked' : r \in Asked \/ (r = req /\ req # Nothing)
  BY <1>2, <1>3, <1>6 DEF Asked
<1>8. /\ Numbered(A, minted)
      /\ \A r \in B : r \in A \/ (r = req /\ req # Nothing)
  BY <1>7
<1> HIDE DEF A, B
<1>9. \A r \in B : r \in A \/ r.id = minted + 1
  BY <1>5, <1>8
<1>10. \A r \in B : r.id \in 1..minted'
  BY <1>4, <1>5, <1>8 DEF Numbered
<1>11. ASSUME NEW r \in B, NEW s \in B, r.id = s.id
       PROVE  r = s
  <2>1. CASE r \in A /\ s \in A
    BY <1>8, <1>11, <2>1 DEF Numbered
  <2>2. CASE r \in A /\ s = req /\ req # Nothing
    BY <1>4, <1>5, <1>8, <1>11, <2>2 DEF Numbered
  <2>3. CASE s \in A /\ r = req /\ req # Nothing
    BY <1>4, <1>5, <1>8, <1>11, <2>3 DEF Numbered
  <2> QED BY <1>8, <2>1, <2>2, <2>3
<1>12. Numbered(B, minted')
  BY <1>10, <1>11 DEF Numbered
<1> QED BY <1>4, <1>9, <1>12 DEF A, B

\* Executing: the messages of the first invocation become memories.
LEMMA LiveOnceBegin ==
    ASSUME TypeInv, ShapeInv, LiveOnce, NEW e \in Executors, BeginExecute(e)
    PROVE  LiveOnce'
<1>1. /\ phase = "executing" /\ status # Nothing /\ UNCHANGED <<queue, fanin, iteration>>
  BY DEF BeginExecute, TypeInv, ControlInv
<1>2. Numbered(Asked, minted) /\ minted \in Nat /\ iteration \in Nat
  BY <1>1, Counters DEF LiveOnce
<1> DEFINE A == Asked
           B == Asked'
<1>3. /\ minted' \in Nat /\ minted <= minted' /\ Numbered(B, minted')
      /\ \A r \in B : r \in A \/ r.id = minted + 1
  BY <1>2, BegunAsks
<1>4. \A f \in Stateful : Cut(queue, fanin[f], groups[f], memory[f], A, iteration, minted)
  BY <1>1 DEF LiveOnce
<1>5. ASSUME NEW f \in Stateful
      PROVE  Cut(queue, fanin[f], groups'[f], memory'[f], A, iteration, minted)
  <2>1. CASE f # e
    <3>1. groups'[f] = groups[f] /\ memory'[f] = memory[f]
      BY <2>1, Begun, StatefulAreExecutors
    <3> QED BY <1>4, <3>1
  <2>2. CASE f = e
    <3> DEFINE h == Head(groups[e]).messages
               p == groups[e]
    <3>1. /\ PlanShape(p) /\ p # <<>> /\ groups'[e] = Tail(p)
          /\ ToSet(memory'[e]) = ToSet(memory[e]) \cup {m.tag : m \in ToSet(h)}
          /\ /\ Distinct(memory[e]) /\ Distinct(h)
             /\ \A m, n \in ToSet(h) : m.tag = n.tag => m = n
             /\ \A m \in ToSet(h) : m.tag \notin ToSet(memory[e])
             => Distinct(memory'[e])
      BY <2>2, Begun
    <3>2. /\ MessagesOf(p) = ToSet(h) \cup MessagesOf(Tail(p))
          /\ Apart(p) => Distinct(h)
      BY <3>1, FirstOfPlan
    <3>3. Cut(queue, fanin[e], p, memory[e], A, iteration, minted)
      BY <1>4, <2>2
    <3> HIDE DEF h, p, A
    <3>4. ToSet(h) \subseteq Held(queue, fanin[e], p)
      BY <3>2 DEF Held
    <3>5. Distinct(memory'[e])
      BY <3>1, <3>2, <3>3, <3>4 DEF Cut
    <3>6. ToSet(memory'[e]) = ToSet(memory[e]) \cup {m.tag : m \in ToSet(Head(p).messages)}
      BY <3>1 DEF h, p
    <3>7. Cut(queue, fanin[e], Tail(p), memory'[e], A, iteration, minted)
      BY <1>2, <3>1, <3>3, <3>5, <3>6, CutTaken
    <3> QED BY <2>2, <3>1, <3>7
  <2> QED BY <2>1, <2>2
<1> HIDE DEF A, B
<1>6. \A f \in Stateful : Cut(queue, fanin[f], groups'[f], memory'[f], B, iteration, minted')
  BY <1>2, <1>3, <1>5, CutStays
<1> QED BY <1>1, <1>3, <1>6, LiveOnceNext DEF B

\* An invocation returns: its request is asked for as before.
LEMMA FinishedAsks ==
    ASSUME ShapeInv, NEW e \in Executors, FinishExecute(e)
    PROVE  \A r \in Asked' : r \in Asked
<1>1. /\ running[e] # Nothing /\ results' = [results EXCEPT ![e] = Append(@, running[e])]
      /\ running' = [running EXCEPT ![e] = Nothing] /\ requests' = requests
  BY DEF FinishExecute, run
<1>2. IsSeq(results[e])
  BY DEF ShapeInv
<1> DEFINE T == ToSet(results[e]) \cup {running[e]}
<1>3. results[e] \in Seq(T) /\ running[e] \in T
  BY <1>2, SeqWithin
<1>4. ToSet(Append(results[e], running[e])) = ToSet(results[e]) \cup {running[e]}
  <2> HIDE DEF T
  <2> QED BY <1>3, AppendToSet
<1>5. /\ \A f \in Executors : f # e => results'[f] = results[f] /\ running'[f] = running[f]
      /\ ToSet(results'[e]) = ToSet(results[e]) \cup {running[e]} /\ running'[e] = Nothing
  BY <1>1, <1>4 DEF ShapeInv
<1>6. \A res : res \in UNION {ToSet(results'[f]) : f \in Executors}
               => res \in UNION {ToSet(results[f]) : f \in Executors} \/ res = running[e]
  BY <1>5
<1>7. {running'[f] : f \in Executors} \ {Nothing} \subseteq {running[f] : f \in Executors} \ {Nothing}
  BY <1>5
<1>8. running[e] \in {running[f] : f \in Executors} \ {Nothing}
  BY <1>1
<1> QED BY <1>1, <1>6, <1>7, <1>8 DEF Asked

\* The requests of the applied results were asked for.
LEMMA AppliedAsks ==
    ASSUME ShapeInv
    PROVE  \A r \in RequestsAfterApplying : r \in Asked
<1>1. ASSUME NEW r \in RequestsAfterApplying, r \notin requests
      PROVE  r \in Asked
  <2>1. PICK e \in Executors : r # Nothing /\ \E res \in ToSet(results[e]) : r = res.request
    BY <1>1, AppliedRequests
  <2>2. PICK res \in ToSet(results[e]) : r = res.request
    BY <2>1
  <2>3. res \in UNION {ToSet(results[f]) : f \in Executors}
    OBVIOUS
  <2> QED BY <2>1, <2>2, <2>3 DEF Asked
<1> QED BY <1>1 DEF Asked

\* The end of a superstep: its messages are younger than all the others.
LEMMA LiveOnceComplete ==
    ASSUME TypeInv, TypeInv', ShapeInv, LiveOnce, CompleteSuperstep
    PROVE  LiveOnce'
<1>1. /\ phase = "executing" /\ status # Nothing /\ iteration' = iteration + 1
      /\ queue' = NextQueue /\ requests' = RequestsAfterApplying
      /\ \A e \in Executors : running[e] = Nothing /\ groups[e] = <<>>
      /\ results' = NoSteps /\ UNCHANGED <<fanin, groups, running, memory, minted>>
  BY DEF CompleteSuperstep, Joined, TypeInv, ControlInv
<1>2. Numbered(Asked, minted) /\ minted \in Nat /\ iteration \in Nat /\ iteration' \in Nat
  BY <1>1, Counters DEF LiveOnce
<1> DEFINE A == Asked
           B == Asked'
           k == iteration
<1>3. \A r \in B : r \in A
  <2>1. \A e \in Executors : running'[e] = Nothing /\ results'[e] = <<>>
    BY <1>1 DEF NoSteps
  <2>2. B = RequestsAfterApplying
    BY <1>1, <2>1, AskedAfter
  <2> HIDE DEF A, B
  <2> QED BY <2>2, AppliedAsks DEF A
<1>4. Numbered(B, minted)
  <2>1. Numbered(A, minted) /\ \A r \in B : r \in A
    BY <1>2, <1>3
  <2> HIDE DEF A, B
  <2> QED BY <1>2, <2>1, NumberedStays
<1>5. /\ IsSeq(Sent)
      /\ \A n \in DOMAIN Sent : n \in Nat /\ Sent[n].tag = <<"message", k + 1, n>>
  BY SentShape
<1> DEFINE S == Sent
<1> HIDE DEF S, k
<1>6. \A i, j \in DOMAIN S : S[i].tag = S[j].tag => i = j
  BY <1>5, TagsDiffer DEF S
<1>7. Distinct(S) /\ \A m, n \in ToSet(S) : m.tag = n.tag => m = n
  BY <1>6 DEF Distinct, ToSet
<1> HIDE DEF A, B
<1>8. ASSUME NEW m \in ToSet(S)
      PROVE  Old(m.tag, B, k + 1, minted) /\ ~ Old(m.tag, A, k, minted)
  <2>1. PICK n \in DOMAIN S : n \in Nat /\ m.tag = <<"message", k + 1, n>>
    BY <1>5 DEF S, ToSet
  <2>2. k + 1 \in 0..(k + 1) /\ k + 1 \notin 0..k
    BY <1>2 DEF k
  <2> QED BY <2>1, <2>2, TagsDiffer DEF Old
<1>9. ASSUME NEW e \in Stateful
      PROVE  /\ Cut(<<>>, fanin[e], groups[e], memory[e], B, k + 1, minted)
             /\ Cut(S, fanin[e], groups[e], memory[e], B, k + 1, minted)
  <2>1. Cut(queue, fanin[e], groups[e], memory[e], A, k, minted)
    BY <1>1 DEF LiveOnce, A, k
  <2> DEFINE p == groups[e]
             f == fanin[e]
  <2> HIDE DEF p, f
  <2>2. /\ Held(<<>>, f, p) \subseteq Held(queue, f, p) /\ Distinct(<<>>)
        /\ ToSet(<<>>) \cap f = {} /\ ToSet(<<>>) \cap MessagesOf(p) = {}
    BY NoMessagesPlanned DEF Held
  <2>3. Apart(p) /\ f \cap MessagesOf(p) = {}
    BY <2>1 DEF Cut, p, f
  <2>4. k \in Nat /\ k + 1 \in Nat /\ k <= k + 1 /\ k <= k
    BY <1>2 DEF k
  <2>5. Cut(queue, f, p, memory[e], A, k, minted)
    BY <2>1 DEF p, f
  <2>6. /\ Cut(<<>>, f, p, memory[e], A, k, minted)
        /\ Cut(<<>>, f, p, memory[e], B, k + 1, minted)
    BY <1>2, <1>3, <2>2, <2>3, <2>4, <2>5, CutMoves
  <2>7. Cut(<<>> \o S, f, p, memory[e], B, k + 1, minted)
    BY <1>2, <1>3, <1>5, <1>7, <1>8, <2>4, <2>6, NoElements, CutGains DEF S
  <2>8. <<>> \o S = S
    BY <1>5 DEF S, IsSeq
  <2> QED BY <2>6, <2>7, <2>8 DEF p, f
<1>10. queue' = <<>> \/ queue' = S
  BY <1>1 DEF NextQueue, S
<1>11. \A e \in Stateful :
          Cut(queue', fanin'[e], groups'[e], memory'[e], Asked', iteration', minted')
  BY <1>1, <1>9, <1>10 DEF B, k
<1> QED BY <1>1, <1>4, <1>11, LiveOnceNext DEF B

\* Responses are queued: their requests are not pending any more, and no other
\* response has their tags.
LEMMA LiveOnceRespond ==
    ASSUME TypeInv, ShapeInv, StepInv, LiveOnce, SendResponses
    PROVE  LiveOnce'
<1>0. PICK chosen \in SUBSET requests : \E order \in SetToSeqs(chosen) :
         /\ requests' = requests \ chosen
         /\ queue' = queue \o [i \in DOMAIN order |-> Response(order[i])]
  BY DEF SendResponses
<1>1. PICK order \in SetToSeqs(chosen) :
         /\ requests' = requests \ chosen
         /\ queue' = queue \o [i \in DOMAIN order |-> Response(order[i])]
  BY <1>0
<1>2. /\ status # Nothing /\ phase = "none"
      /\ UNCHANGED <<fanin, iteration, groups, running, results, memory, minted>>
  BY DEF SendResponses, step
<1>3. Asked = requests /\ Asked' = requests'
  <2>1. \A e \in Executors : running[e] = Nothing /\ results[e] = <<>>
    BY <1>2 DEF StepInv
  <2>2. \A e \in Executors : running'[e] = Nothing /\ results'[e] = <<>>
    BY <1>2, <2>1
  <2> QED BY <2>1, <2>2, AskedOutside, AskedAfter
<1>4. Numbered(requests, minted) /\ minted \in Nat /\ iteration \in Nat
  BY <1>2, <1>3, Counters DEF LiveOnce
<1> DEFINE rs == [i \in DOMAIN order |-> Response(order[i])]
           left == requests \ chosen
<1>5. \A r \in chosen : Response(r).tag = ResponseTag(r.id)
  BY DEF Response, ResponseTag
<1>6. \A r, q \in chosen : Response(r).tag = Response(q).tag => r = q
  BY <1>4, <1>5, TagsDiffer DEF Numbered
<1>7. /\ IsSeq(rs) /\ ToSet(rs) = {Response(r) : r \in chosen}
      /\ (\A r, q \in chosen : r # q => Response(r) # Response(q)) => Distinct(rs)
  <2>1. IsFiniteSet(chosen)
    BY FS_Subset DEF ShapeInv
  <2> QED BY <2>1, ResponsesQueued
<1> HIDE DEF rs
<1>8. Distinct(rs) /\ \A m, n \in ToSet(rs) : m.tag = n.tag => m = n
  BY <1>6, <1>7
<1>9. ASSUME NEW m \in ToSet(rs)
      PROVE  Old(m.tag, left, iteration, minted) /\ ~ Old(m.tag, requests, iteration, minted)
  <2>1. PICK r \in chosen : m.tag = ResponseTag(r.id)
    BY <1>5, <1>7
  <2>2. r.id \in 1..minted /\ \A q \in left : q.id # r.id
    BY <1>4 DEF Numbered
  <2>3. ~ Old(m.tag, requests, iteration, minted)
    BY <2>1, TagsDiffer DEF Old
  <2> QED BY <2>1, <2>2, <2>3 DEF Old
<1>10. \A r \in left : r \in requests
  OBVIOUS
<1>11. Numbered(left, minted)
  BY <1>4, <1>10, NumberedStays
<1> HIDE DEF left
<1>12. ASSUME NEW e \in Stateful
       PROVE  Cut(queue \o rs, fanin[e], groups[e], memory[e], left, iteration, minted)
  <2>1. Cut(queue, fanin[e], groups[e], memory[e], requests, iteration, minted)
    BY <1>2, <1>3 DEF LiveOnce
  <2>2. IsSeq(queue) /\ iteration <= iteration
    BY <1>4 DEF ShapeInv
  <2> QED BY <1>4, <1>7, <1>8, <1>9, <1>10, <2>1, <2>2, CutGains
<1>13. queue' = queue \o rs /\ Asked' = left
  BY <1>1, <1>3 DEF rs, left
<1> QED BY <1>2, <1>11, <1>12, <1>13, LiveOnceNext

\* A checkpoint is cut where the run is, between two supersteps.
LEMMA SavedOnceCheckpoint ==
    ASSUME TypeInv, StepInv, LiveOnce, SavedOnce, MaybeCheckpoint
    PROVE  SavedOnce'
<1>1. phase = "saving" /\ status # Nothing /\ minted' = minted /\ (saved' = Checkpoint \/ saved' = saved)
  BY DEF MaybeCheckpoint, TypeInv, ControlInv
<1>2. CASE saved' = saved
  BY <1>1, <1>2, SavedOnceNext DEF SavedOnce
<1>3. CASE saved' = Checkpoint
  <2>1. \A e \in Executors : groups[e] = <<>> /\ running[e] = Nothing /\ results[e] = <<>>
    BY <1>1 DEF StepInv
  <2>2. Asked = requests
    BY <2>1, AskedOutside
  <2>3. /\ saved'.queue = queue /\ saved'.fanin = fanin /\ saved'.requests = requests
        /\ saved'.iteration = iteration
        /\ \A e \in Stateful : saved'.memory[e] = memory[e]
    BY <1>3 DEF Checkpoint
  <2>4. \A e \in Stateful :
           Cut(queue, fanin[e], <<>>, memory[e], requests, iteration, minted)
    BY <1>1, <2>1, <2>2, StatefulAreExecutors DEF LiveOnce
  <2>5. Numbered(requests, minted)
    BY <1>1, <2>2 DEF LiveOnce
  <2> QED BY <1>1, <2>3, <2>4, <2>5, SavedOnceNext
<1> QED BY <1>1, <1>2, <1>3

\* The checkpoint stays cut while ids are generated.
LEMMA SavedOnceStays ==
    ASSUME TypeInv, SavedOnce, saved' = saved, minted' \in Nat, minted <= minted'
    PROVE  SavedOnce'
<1>1. CASE saved = Nothing
  BY <1>1, SavedOnceNext
<1>2. CASE saved # Nothing
  <2>1. minted \in Nat /\ saved.iteration \in Nat /\ saved.iteration <= saved.iteration
    BY <1>2, Counters
  <2> DEFINE R == saved.requests
             k == saved.iteration
  <2>2. Numbered(R, minted')
    BY <1>2, <2>1, NumberedStays DEF SavedOnce
  <2>3. ASSUME NEW e \in Stateful
        PROVE  Cut(saved.queue, saved.fanin[e], <<>>, saved.memory[e], R, k, minted')
    <3>1. Cut(saved.queue, saved.fanin[e], <<>>, saved.memory[e], R, k, minted)
      BY <1>2 DEF SavedOnce
    <3>2. \A r \in R : r \in R \/ r.id = minted + 1
      OBVIOUS
    <3> HIDE DEF R, k
    <3> QED BY <2>1, <3>1, <3>2, CutStays DEF k
  <2> QED BY <2>2, <2>3, SavedOnceNext
<1> QED BY <1>1, <1>2

\* A failing drive loses what it leaves behind.
LEMMA LiveOnceFail ==
    ASSUME TypeInv, TypeInv', ShapeInv, LiveOnce, phase # "none",
           NEW kept, NEW asked, NEW taken, Fail(kept, asked, taken),
           kept = queue \/ kept = <<>>, \A r \in asked : r \in Asked
    PROVE  LiveOnce'
<1>1. CASE Gone
  BY <1>1, LiveOnceNext DEF Gone
<1>2. CASE /\ queue' = kept /\ requests' = asked /\ NoStep
           /\ UNCHANGED <<fanin, iteration, memory, minted>>
  <2>1. status # Nothing
    BY DEF TypeInv, ControlInv
  <2>2. \A e \in Executors : groups'[e] = <<>> /\ running'[e] = Nothing /\ results'[e] = <<>>
    BY <1>2, NoStepShape
  <2>3. Asked' = asked
    BY <1>2, <2>2, AskedAfter
  <2>4. ASSUME NEW e \in Stateful
        PROVE  Distinct(queue)
    BY <2>1 DEF LiveOnce, Cut
  <2>5. CASE Stateful = {}
    <3>1. Numbered(Asked, minted) /\ minted \in Nat
      BY <2>1, Counters DEF LiveOnce
    <3>2. Numbered(asked, minted)
      BY <3>1, NumberedStays
    <3> QED BY <1>2, <2>3, <2>5, <3>2, LiveOnceNext
  <2>6. CASE Stateful # {}
    <3>1. Distinct(queue') /\ ToSet(queue') \subseteq ToSet(queue)
      BY <1>2, <2>4, <2>6, NoElements
    <3>2. \A e \in Stateful :
             fanin'[e] = fanin[e] /\ (groups'[e] = groups[e] \/ groups'[e] = <<>>)
      BY <1>2, <2>2, StatefulAreExecutors
    <3> QED BY <1>2, <2>1, <2>3, <3>1, <3>2, LiveLoses
  <2> QED BY <2>5, <2>6
<1> QED BY <1>1, <1>2 DEF Fail

\* LiveOnce and SavedOnce are inductive.
LEMMA LiveOnceStep ==
    ASSUME TypeInv, TypeInv', ShapeInv, StepInv, OnceInv, [Next]_vars
    PROVE  LiveOnce'
<1> USE DEF OnceInv
<1>0. ASSUME status # Nothing, UNCHANGED <<queue, fanin, groups, memory, iteration, minted>>,
             \A r \in Asked' : r \in Asked
      PROVE  LiveOnce'
  <2>1. CASE Stateful = {}
    <3>1. Numbered(Asked, minted) /\ minted \in Nat
      BY <1>0, Counters DEF LiveOnce
    <3> DEFINE B == Asked'
    <3>2. Numbered(B, minted)
      <4>1. \A r \in B : r \in Asked
        BY <1>0
      <4> HIDE DEF B
      <4> QED BY <3>1, <4>1, NumberedStays
    <3> QED BY <1>0, <2>1, <3>2, LiveOnceNext
  <2>2. CASE Stateful # {}
    <3>1. Distinct(queue)
      BY <1>0, <2>2 DEF LiveOnce, Cut
    <3> QED BY <1>0, <3>1, LiveLoses
  <2> QED BY <2>1, <2>2
<1>1. CASE Start
  BY <1>1, LiveOnceStart
<1>2. CASE Restore
  BY <1>2, LiveOnceRestore
<1>3. CASE StartFails \/ RestoreFails
  <2>1. status' = Nothing
    BY <1>3 DEF StartFails, RestoreFails, run
  <2> QED BY <2>1, LiveOnceNext
<1>4. CASE IterationLimit
  <2>1. phase # "none" /\ \A r \in requests : r \in Asked
    BY <1>4 DEF IterationLimit, Looping, Asked
  <2>2. Fail(queue, requests, inFlight)
    BY <1>4 DEF IterationLimit
  <2> QED BY <2>1, <2>2, LiveOnceFail
<1>5. CASE RoutingFails
  <2>1. phase # "none" /\ \A r \in requests : r \in Asked
    BY <1>5 DEF RoutingFails, Looping, Asked
  <2>2. Fail(<<>>, requests, queue)
    BY <1>5 DEF RoutingFails
  <2> QED BY <2>1, <2>2, LiveOnceFail
<1>6. CASE PlanSuperstep
  BY <1>6, LiveOncePlan
<1>7. ASSUME NEW e \in Executors, BeginExecute(e)
      PROVE  LiveOnce'
  BY <1>7, LiveOnceBegin
<1>8. ASSUME NEW e \in Executors, FinishExecute(e)
      PROVE  LiveOnce'
  <2>1. /\ status # Nothing
        /\ UNCHANGED <<queue, fanin, groups, memory, iteration, minted>>
    BY <1>8 DEF FinishExecute, run, TypeInv, ControlInv
  <2> QED BY <1>0, <1>8, <2>1, FinishedAsks
<1>9. CASE FailSuperstep
  <2>1. phase # "none" /\ Fail(<<>>, RequestsAfterApplying, inFlight)
    BY <1>9 DEF FailSuperstep, Joined
  <2> QED BY <2>1, AppliedAsks, LiveOnceFail
<1>10. CASE CompleteSuperstep
  BY <1>10, LiveOnceComplete
<1>11. CASE MaybeCheckpoint
  <2>1. /\ status # Nothing /\ UNCHANGED <<requests, running, results>>
        /\ UNCHANGED <<queue, fanin, groups, memory, iteration, minted>>
    BY <1>11 DEF MaybeCheckpoint, step, TypeInv, ControlInv
  <2>2. Asked' = Asked
    BY <2>1 DEF Asked
  <2> QED BY <1>0, <2>1, <2>2
<1>12. CASE Quiesce
  <2>1. /\ status # Nothing /\ UNCHANGED <<requests, running, results>>
        /\ UNCHANGED <<queue, fanin, groups, memory, iteration, minted>>
    BY <1>12 DEF Quiesce, Looping, step, TypeInv, ControlInv
  <2>2. Asked' = Asked
    BY <2>1 DEF Asked
  <2> QED BY <1>0, <2>1, <2>2
<1>13. CASE SendResponses
  BY <1>13, LiveOnceRespond
<1>14. CASE Abandon
  <2>1. /\ status # Nothing /\ NoStep /\ UNCHANGED <<queue, fanin, iteration, requests, memory, minted>>
    BY <1>14 DEF Abandon, TypeInv, ControlInv
  <2>2. \A e \in Executors : groups'[e] = <<>> /\ running'[e] = Nothing /\ results'[e] = <<>>
    BY <2>1, NoStepShape
  <2>3. Asked' = requests
    BY <2>1, <2>2, AskedAfter
  <2>4. \A r \in Asked' : r \in Asked
    BY <2>3 DEF Asked
  <2>5. CASE Stateful = {}
    <3>1. Numbered(Asked, minted) /\ minted \in Nat
      BY <2>1, Counters DEF LiveOnce
    <3>2. Numbered(requests, minted)
      BY <2>3, <2>4, <3>1, NumberedStays
    <3> QED BY <2>1, <2>3, <2>5, <3>2, LiveOnceNext
  <2>6. CASE Stateful # {}
    <3>1. Distinct(queue)
      BY <2>1, <2>6 DEF LiveOnce, Cut
    <3>2. \A e \in Stateful : groups'[e] = <<>> /\ fanin'[e] = fanin[e]
      BY <2>1, <2>2, StatefulAreExecutors
    <3> QED BY <2>1, <2>4, <3>1, <3>2, LiveLoses
  <2> QED BY <2>5, <2>6
<1>15. CASE Cancel \/ Crash
  <2>1. status' = Nothing
    BY <1>15 DEF Cancel, Crash, Gone
  <2> QED BY <2>1, LiveOnceNext
<1>16. CASE UNCHANGED vars
  <2>1. UNCHANGED <<status, requests, running, results, queue, fanin, groups, memory, iteration, minted>>
    BY <1>16 DEF vars, run, step
  <2>2. Asked' = Asked
    BY <2>1 DEF Asked
  <2>3. CASE status = Nothing
    BY <2>1, <2>3, LiveOnceNext
  <2>4. CASE status # Nothing
    BY <1>0, <2>1, <2>2, <2>4
  <2> QED BY <2>3, <2>4
<1> QED
  BY <1>1, <1>2, <1>3, <1>4, <1>5, <1>6, <1>7, <1>8, <1>9, <1>10, <1>11, <1>12,
     <1>13, <1>14, <1>15, <1>16 DEF Next, Engine

LEMMA SavedOnceStep ==
    ASSUME TypeInv, ShapeInv, StepInv, OnceInv, [Next]_vars
    PROVE  SavedOnce'
<1> USE DEF OnceInv
<1>0. minted \in Nat /\ minted <= minted
  BY Counters
<1>1. CASE MaybeCheckpoint
  BY <1>1, SavedOnceCheckpoint
<1>2. ASSUME UNCHANGED <<saved, minted>>
      PROVE  SavedOnce'
  BY <1>0, <1>2, SavedOnceStays
<1>3. ASSUME NEW e \in Executors, BeginExecute(e)
      PROVE  SavedOnce'
  <2>1. saved' = saved /\ status # Nothing
    BY <1>3 DEF BeginExecute, TypeInv, ControlInv
  <2>2. Numbered(Asked, minted)
    BY <2>1 DEF LiveOnce
  <2>3. minted' \in Nat /\ minted <= minted'
    BY <1>3, <2>2, BegunAsks
  <2> QED BY <2>1, <2>3, SavedOnceStays
<1>4. ASSUME NEW kept, NEW asked, NEW taken, Fail(kept, asked, taken)
      PROVE  SavedOnce'
  BY <1>2, <1>4 DEF Fail
<1>5. CASE IterationLimit \/ RoutingFails \/ FailSuperstep
  BY <1>4, <1>5 DEF IterationLimit, RoutingFails, FailSuperstep
<1>6. CASE Start \/ Restore \/ StartFails \/ RestoreFails
  BY <1>2, <1>6 DEF Start, Restore, StartFails, RestoreFails
<1>7. CASE PlanSuperstep \/ CompleteSuperstep \/ Quiesce \/ SendResponses \/ Abandon
  BY <1>2, <1>7 DEF PlanSuperstep, CompleteSuperstep, Quiesce, SendResponses, Abandon
<1>8. ASSUME NEW e \in Executors, FinishExecute(e)
      PROVE  SavedOnce'
  BY <1>2, <1>8 DEF FinishExecute
<1>9. CASE Cancel \/ Crash
  BY <1>2, <1>9 DEF Cancel, Crash
<1>10. CASE UNCHANGED vars
  BY <1>2, <1>10 DEF vars
<1> QED
  BY <1>1, <1>3, <1>5, <1>6, <1>7, <1>8, <1>9, <1>10 DEF Next, Engine

\* However a run is failed, cancelled, crashed, restored and resumed, in every
\* graph and every interleaving, no executor's state holds a message twice:
\* queue, barriers and snapshots of a checkpoint are a consistent cut.
THEOREM MessagesHandledOnce == Spec => []ExactlyOnce
<1>1. Init => StepInv /\ OnceInv
  BY DEF Init, StepInv, NoSteps, NoneRunning, OnceInv, LiveOnce, SavedOnce
<1>2. TypeInv /\ TypeInv' /\ ShapeInv /\ StepInv /\ OnceInv /\ [Next]_vars => OnceInv'
  <2>1. LiveOnce' /\ SavedOnce' => OnceInv'
    BY DEF OnceInv, LiveOnce, SavedOnce, Cut, Held, Old, Numbered, MessagesOf, Apart, ResponseTag, Distinct
  <2> QED BY <2>1, LiveOnceStep, SavedOnceStep
<1>3. ShapeInv /\ OnceInv => ExactlyOnce
  <2>1. ASSUME ShapeInv, OnceInv, status # Nothing, NEW e \in Stateful
        PROVE  Cardinality(ToSet(memory[e])) = Len(memory[e])
    <3>1. Distinct(memory[e])
      BY <2>1 DEF OnceInv, LiveOnce, Cut
    <3>2. IsSeq(memory[e])
      BY <2>1, StatefulAreExecutors DEF ShapeInv
    <3> QED BY <3>1, <3>2, SeqFinite
  <2> QED BY <2>1 DEF ExactlyOnce
<1>4. QED
  BY TypeInvInit, TypeInvStep, ShapeInvInit, ShapeInvStep, StepInvStep,
     <1>1, <1>2, <1>3, PTL DEF Spec

-----------------------------------------------------------------------------
(* Barriers fire when they are full.                                       *)

\* No declared source is repeated: validate_workflow_graph does not look for a
\* repetition inside a group, and a barrier counts sources.
DistinctSources == \A t \in Executors : IsBarrier(t) => Distinct(FanInSources(t))

\* Only the declared sources of a barrier have an edge to it: another group may
\* name its target too, and what it delivers lands in the same buffer.
NoSideEdges ==
    \A i \in DOMAIN EdgeGroups : \A t \in ToSet(EdgeGroups[i].targets) :
       IsBarrier(t) => ToSet(EdgeGroups[i].sources) \subseteq ToSet(FanInSources(t))

\* A waiting barrier is not full; it holds one message per source, of declared
\* sources.
Counted(t, buffer) ==
    buffer # {} => IsBarrier(t) /\ Cardinality(buffer) < Len(FanInSources(t))
OnePerSource(buffer) == \A m, n \in buffer : m.source = n.source => m = n
Sourced(t, buffer) ==
    /\ OnePerSource(buffer)
    /\ IsBarrier(t) => \A m \in buffer : m.source \in ToSet(FanInSources(t))

\* ... in a run and in a checkpoint.
CountInv ==
    \A t \in Executors : /\ Counted(t, fanin[t])
                         /\ saved # Nothing => Counted(t, saved.fanin[t])
SourceInv ==
    \A t \in Executors : /\ Sourced(t, fanin[t])
                         /\ saved # Nothing => Sourced(t, saved.fanin[t])

\* Where the barriers of a step come from.
LEMMA BarriersMove ==
    ASSUME [Next]_vars
    PROVE  /\ \/ fanin' = fanin
              \/ fanin' = NoBarriers
              \/ saved # Nothing /\ fanin' = saved.fanin
              \/ PlanSuperstep /\ fanin' = FanInAfterPlanning
           /\ saved' = saved \/ (saved' = Checkpoint /\ fanin' = fanin)
<1>1. ASSUME NEW kept, NEW asked, NEW taken, Fail(kept, asked, taken)
      PROVE  (fanin' = fanin \/ fanin' = NoBarriers) /\ saved' = saved
  BY <1>1 DEF Fail, Gone, Blank
<1>2. CASE Start \/ Restore
  BY <1>2 DEF Start, Restore
<1>3. CASE StartFails \/ RestoreFails
  BY <1>3 DEF StartFails, RestoreFails, run
<1>4. CASE IterationLimit \/ RoutingFails \/ FailSuperstep
  BY <1>4, <1>1 DEF IterationLimit, RoutingFails, FailSuperstep
<1>5. CASE PlanSuperstep
  BY <1>5 DEF PlanSuperstep
<1>6. CASE \E e \in Executors : BeginExecute(e) \/ FinishExecute(e)
  BY <1>6 DEF BeginExecute, FinishExecute, run
<1>7. CASE CompleteSuperstep \/ SendResponses \/ Abandon
  BY <1>7 DEF CompleteSuperstep, SendResponses, Abandon
<1>8. CASE MaybeCheckpoint
  BY <1>8 DEF MaybeCheckpoint
<1>9. CASE Quiesce
  BY <1>9 DEF Quiesce
<1>10. CASE Cancel \/ Crash
  BY <1>10 DEF Cancel, Crash, Gone, Blank
<1>11. CASE UNCHANGED vars
  BY <1>11 DEF vars, run
<1> QED
  BY <1>2, <1>3, <1>4, <1>5, <1>6, <1>7, <1>8, <1>9, <1>10, <1>11 DEF Next, Engine

\* A barrier that does not fire stays below its sources.
LEMMA CountInvStep ==
    ASSUME ShapeInv, CountInv, [Next]_vars
    PROVE  CountInv'
<1>1. ASSUME NEW t \in Executors, PlanSuperstep
      PROVE  Counted(t, FanInAfterPlanning[t])
  <2>1. FanInAfterPlanning[t] = IF ~ IsBarrier(t) \/ Routed(t) = <<>> THEN fanin[t]
                                ELSE IF Fires(t) THEN {} ELSE Buffered(t)
    BY DEF FanInAfterPlanning
  <2>2. CASE IsBarrier(t) /\ ~ Fires(t)
    <3>1. IsFiniteSet(Buffered(t)) /\ Cardinality(Buffered(t)) \in Nat
      BY BufferedIsFinite, FS_CardinalityType DEF ShapeInv
    <3>2. Len(FanInSources(t)) \in Nat
      BY <2>2, DeclaredSources, LenProperties
    <3>3. Cardinality(Buffered(t)) < Len(FanInSources(t))
      BY <2>2, <3>1, <3>2 DEF Fires
    <3> QED BY <2>1, <2>2, <3>3 DEF Counted, CountInv
  <2>3. CASE ~ (IsBarrier(t) /\ ~ Fires(t))
    BY <2>1, <2>3 DEF Counted, CountInv
  <2> QED BY <2>2, <2>3
<1>2. ASSUME NEW t \in Executors
      PROVE  /\ Counted(t, fanin'[t])
             /\ saved' # Nothing => Counted(t, saved'.fanin[t])
  <2>1. Counted(t, fanin[t]) /\ (saved # Nothing => Counted(t, saved.fanin[t]))
    BY DEF CountInv
  <2>2. Counted(t, NoBarriers[t])
    BY DEF NoBarriers, Counted
  <2>3. Checkpoint.fanin = fanin
    BY DEF Checkpoint
  <2> QED BY <1>1, <2>1, <2>2, <2>3, BarriersMove
<1> QED BY <1>2 DEF CountInv, Counted

\* What is routed to a barrier comes from a declared source.
LEMMA RoutedSources ==
    ASSUME ShapeInv, NoSideEdges, NEW t \in Executors, IsBarrier(t),
           \A i \in DOMAIN queue : ~ CannotRoute(queue[i])
    PROVE  \A m \in ToSet(Routed(t)) : m.source \in ToSet(FanInSources(t))
<1>1. ASSUME NEW m \in ToSet(Routed(t))
      PROVE  m.source \in ToSet(FanInSources(t))
  <2>1. m \in ToSet(queue) /\ t \in Targets(m) /\ ~ IsDirect(m)
    BY <1>1, DirectAndRouted DEF ShapeInv, Delivered
  <2>2. ~ CannotRoute(m)
    BY <2>1 DEF ToSet
  <2>3. m.to = AllEdges
    BY <2>1 DEF IsDirect
  <2>4. PICK i \in DOMAIN EdgeGroups : Matches(EdgeGroups[i], m) /\ t \in EdgeGroups[i].select[m.label]
    BY <2>1, <2>3 DEF Targets
  <2>5. t \in ToSet(EdgeGroups[i].targets)
    BY <2>2, <2>4 DEF CannotRoute
  <2>6. m.source \in ToSet(EdgeGroups[i].sources)
    BY <2>4 DEF Matches
  <2> QED BY <2>5, <2>6 DEF NoSideEdges
<1> QED BY <1>1

\* Buffering keeps one message per source, of declared sources.
LEMMA BufferedSources ==
    ASSUME ShapeInv, NEW t \in Executors, Sourced(t, fanin[t]),
           IsBarrier(t) => \A m \in ToSet(Routed(t)) : m.source \in ToSet(FanInSources(t))
    PROVE  Sourced(t, Buffered(t))
<1> DEFINE new == Routed(t)
           ends == {j \in DOMAIN new : \A k \in DOMAIN new : k > j => new[k].source # new[j].source}
           last == {new[i] : i \in ends}
           B == Buffered(t)
<1>1. B = last \cup {m \in fanin[t] : \A n \in last : n.source # m.source}
  BY DEF Buffered
<1>2. Len(new) \in Nat /\ DOMAIN new = 1..Len(new)
  BY DirectAndRouted, SeqShape DEF ShapeInv
<1>3. \A i, j \in ends : new[i].source = new[j].source => i = j
  <2>1. ASSUME NEW i \in ends, NEW j \in ends, new[i].source = new[j].source, i # j
        PROVE  FALSE
    <3>1. i \in 1..Len(new) /\ j \in 1..Len(new)
      BY <1>2
    <3>2. i > j \/ j > i
      BY <1>2, <2>1, <3>1
    <3> QED BY <2>1, <3>2
  <2> QED BY <2>1
<1>4. last \subseteq ToSet(new)
  BY DEF ToSet
<1>5. OnePerSource(last)
  <2> HIDE DEF ends
  <2> QED BY <1>3 DEF OnePerSource
<1> HIDE DEF last, B
<1>6. OnePerSource(B)
  BY <1>1, <1>5 DEF OnePerSource, Sourced
<1>7. IsBarrier(t) => \A m \in B : m.source \in ToSet(FanInSources(t))
  BY <1>1, <1>4 DEF Sourced
<1> QED BY <1>6, <1>7 DEF Sourced, B

LEMMA SourceInvStep ==
    ASSUME NoSideEdges, ShapeInv, SourceInv, [Next]_vars
    PROVE  SourceInv'
<1>1. ASSUME NEW t \in Executors, PlanSuperstep
      PROVE  Sourced(t, FanInAfterPlanning[t])
  <2>1. FanInAfterPlanning[t] = IF ~ IsBarrier(t) \/ Routed(t) = <<>> THEN fanin[t]
                                ELSE IF Fires(t) THEN {} ELSE Buffered(t)
    BY DEF FanInAfterPlanning
  <2>2. Sourced(t, fanin[t]) /\ Sourced(t, {})
    BY DEF SourceInv, Sourced, OnePerSource
  <2>3. IsBarrier(t) => Sourced(t, Buffered(t))
    BY <1>1, <2>2, RoutedSources, BufferedSources DEF PlanSuperstep
  <2> QED BY <2>1, <2>2, <2>3
<1>2. ASSUME NEW t \in Executors
      PROVE  /\ Sourced(t, fanin'[t])
             /\ saved' # Nothing => Sourced(t, saved'.fanin[t])
  <2>1. Sourced(t, fanin[t]) /\ (saved # Nothing => Sourced(t, saved.fanin[t]))
    BY DEF SourceInv
  <2>2. Sourced(t, NoBarriers[t])
    BY DEF NoBarriers, Sourced, OnePerSource
  <2>3. Checkpoint.fanin = fanin
    BY DEF Checkpoint
  <2> QED BY <1>1, <2>1, <2>2, <2>3, BarriersMove
<1> QED BY <1>2 DEF SourceInv, Sourced, OnePerSource

\* As many messages as sources, one per source: one message of every source.
LEMMA FullBuffer ==
    ASSUME NEW B, IsFiniteSet(B), OnePerSource(B), NEW declared, IsSeq(declared),
           \A m \in B : m.source \in ToSet(declared), Cardinality(B) >= Len(declared)
    PROVE  /\ Distinct(declared)
           /\ \A s \in ToSet(declared) : \E m \in B : m.source = s
<1> DEFINE D == ToSet(declared)
           f == [m \in B |-> m.source]
<1>1. IsFiniteSet(D) /\ Cardinality(D) \in Nat /\ Cardinality(D) <= Len(declared)
      /\ (Cardinality(D) = Len(declared) <=> Distinct(declared)) /\ Len(declared) \in Nat
  BY SeqFinite, SeqShape
<1>2. f \in Injection(B, D)
  BY DEF Injection, IsInjective, OnePerSource
<1> HIDE DEF D
<1>3. /\ Cardinality(B) <= Cardinality(D)
      /\ Cardinality(B) = Cardinality(D) <=> f \in Surjection(B, D)
  <2> HIDE DEF f
  <2> QED BY <1>1, <1>2, FS_Injection
<1>4. Cardinality(B) \in Nat
  BY FS_CardinalityType
<1>5. Cardinality(D) = Len(declared) /\ Cardinality(B) = Cardinality(D)
  BY <1>1, <1>3, <1>4
<1>6. f \in Surjection(B, D)
  BY <1>3, <1>5
<1>7. \A s \in D : \E m \in B : m.source = s
  BY <1>6 DEF Surjection
<1> QED BY <1>1, <1>5, <1>7 DEF D

\* A firing barrier hands over the messages of its sources in declared order.
LEMMA CollectedInOrder ==
    ASSUME ShapeInv, NEW t \in Executors, IsBarrier(t), Sourced(t, Buffered(t)), Fires(t)
    PROVE  [j \in DOMAIN Collected(t) |-> Collected(t)[j].source] = FanInSources(t)
<1> DEFINE declared == FanInSources(t)
           B == Buffered(t)
           ss == [i \in DOMAIN declared |-> SetToSeq(From(t, i))]
           C == Collected(t)
<1>1. declared \in Seq(Executors) /\ Len(declared) \in Nat /\ DOMAIN declared = 1..Len(declared)
      /\ IsSeq(declared)
  BY DeclaredSources, LenProperties, SeqFacts
<1>2. IsFiniteSet(B) /\ OnePerSource(B) /\ Cardinality(B) >= Len(declared)
      /\ \A m \in B : m.source \in ToSet(declared)
  BY BufferedIsFinite DEF ShapeInv, Sourced, Fires
<1>3. Distinct(declared) /\ \A s \in ToSet(declared) : \E m \in B : m.source = s
  <2> HIDE DEF B, declared
  <2> QED BY <1>1, <1>2, FullBuffer
<1>4. C = FlattenSeq(ss)
  BY DEF Collected, From
<1>5. IsSeq(ss) /\ Len(ss) = Len(declared) /\ DOMAIN ss = DOMAIN declared
  BY <1>1, SeqMade
<1>6. ASSUME NEW i \in DOMAIN declared
      PROVE  IsSeq(ss[i]) /\ Len(ss[i]) = 1 /\ ss[i][1].source = declared[i]
  <2>1. ~ \E j \in 1..(i - 1) : declared[j] = declared[i]
    <3>1. \A j \in 1..(i - 1) : j \in DOMAIN declared /\ j # i
      BY <1>1
    <3> QED BY <1>3, <3>1 DEF Distinct
  <2>2. From(t, i) = {m \in B : m.source = declared[i]}
    BY <2>1 DEF From
  <2>3. PICK m \in B : m.source = declared[i]
    BY <1>3 DEF ToSet
  <2>4. From(t, i) = {m}
    BY <1>2, <2>2, <2>3 DEF OnePerSource
  <2>5. IsFiniteSet({m}) /\ Cardinality({m}) = 1
    BY FS_Singleton
  <2> DEFINE q == SetToSeq({m})
  <2>6. IsSeq(q) /\ ToSet(q) = {m} /\ Len(q) = 1
    BY <2>5, SetInASeq
  <2>7. ss[i] = q
    BY <2>4
  <2> HIDE DEF q, ss
  <2>8. q[1] = m
    <3>1. 1 \in DOMAIN q
      BY <2>6, SeqShape
    <3> QED BY <2>6, <3>1 DEF ToSet
  <2> QED BY <2>3, <2>6, <2>7, <2>8
<1> HIDE DEF ss
<1>7. /\ IsSeq(FlattenSeq(ss)) /\ Len(FlattenSeq(ss)) = Len(ss)
      /\ \A i \in DOMAIN ss : FlattenSeq(ss)[i] = ss[i][1]
  BY <1>5, <1>6, FlattenJoins
<1> HIDE DEF C, declared
<1>8. DOMAIN C = DOMAIN declared /\ \A i \in DOMAIN declared : C[i].source = declared[i]
  BY <1>1, <1>4, <1>5, <1>6, <1>7, SeqShape
<1>9. declared = [j \in DOMAIN declared |-> declared[j]]
  BY <1>1
<1>10. [j \in DOMAIN C |-> C[j].source] = declared
  BY <1>8, <1>9
<1> QED BY <1>10 DEF C, declared

\* An invocation of e that a barrier planned names every source in order.
Complete(e, inv) ==
    /\ IsBarrier(e)
    /\ inv.messages # <<>>
    /\ ~ IsDirect(inv.messages[1])
    => [j \in DOMAIN inv.messages |-> inv.messages[j].source] = FanInSources(e)

LEMMA PlanComplete ==
    ASSUME ShapeInv, SourceInv, NoSideEdges, PlanSuperstep, NEW t \in Executors,
           NEW inv \in ToSet(Invocations(t))
    PROVE  Complete(t, inv)
<1>1. IsSeq(queue) /\ IsFiniteSet(fanin[t])
  BY DEF ShapeInv
<1>2. CASE \E m \in ToSet(Direct(t)) : inv = Single(m)
  <2>1. PICK m \in ToSet(Direct(t)) : inv = Single(m)
    BY <1>2
  <2>2. IsDirect(m)
    BY <1>1, DirectAndRouted
  <2>3. inv.messages = <<m>> /\ <<m>>[1] = m
    BY <2>1, Singleton DEF Single
  <2> QED BY <2>2, <2>3 DEF Complete
<1>3. CASE ~ IsBarrier(t)
  BY <1>3 DEF Complete
<1>4. CASE IsBarrier(t) /\ Fires(t) /\ inv = Barrier(t)
  <2>1. Sourced(t, Buffered(t))
    BY <1>4, RoutedSources, BufferedSources DEF PlanSuperstep, SourceInv
  <2>2. inv.messages = Collected(t)
    BY <1>4 DEF Barrier
  <2> QED BY <1>4, <2>1, <2>2, CollectedInOrder DEF Complete
<1> QED BY <1>1, <1>2, <1>3, <1>4, Invoked

\* Every planned invocation is complete, until it is taken.
CompleteInv == \A e \in Executors : \A inv \in ToSet(groups[e]) : Complete(e, inv)

LEMMA CompleteInvStep ==
    ASSUME NoSideEdges, ShapeInv, SourceInv, CompleteInv, [Next]_vars
    PROVE  CompleteInv'
<1>0. ASSUME \A e \in Executors : \A inv \in ToSet(groups'[e]) : Complete(e, inv)
      PROVE  CompleteInv'
  BY <1>0 DEF CompleteInv, Complete
<1>1. CASE NoStep
  <2>1. \A e \in Executors : groups'[e] = <<>>
    BY <1>1, NoStepShape
  <2> QED BY <1>0, <2>1, NoElements
<1>2. CASE groups' = groups
  BY <1>0, <1>2 DEF CompleteInv
<1>3. CASE PlanSuperstep
  <2>1. \A t \in Executors : groups'[t] = Invocations(t)
    BY <1>3 DEF PlanSuperstep
  <2> QED BY <1>0, <1>3, <2>1, PlanComplete
<1>4. ASSUME NEW e \in Executors, BeginExecute(e)
      PROVE  CompleteInv'
  <2>1. /\ PlanShape(groups[e]) /\ groups[e] # <<>> /\ groups'[e] = Tail(groups[e])
        /\ \A f \in Executors : f # e => groups'[f] = groups[f]
    BY <1>4, Begun
  <2>2. ToSet(groups'[e]) \subseteq ToSet(groups[e])
    BY <2>1, HeadAndTail DEF PlanShape
  <2> QED BY <1>0, <2>1, <2>2 DEF CompleteInv
<1>5. ASSUME NEW kept, NEW asked, NEW taken, Fail(kept, asked, taken)
      PROVE  NoStep
  BY <1>5 DEF Fail, Gone
<1>6. CASE IterationLimit \/ RoutingFails \/ FailSuperstep
  BY <1>1, <1>5, <1>6 DEF IterationLimit, RoutingFails, FailSuperstep
<1>7. CASE Start \/ Restore \/ Abandon \/ Cancel \/ Crash
  BY <1>1, <1>7 DEF Start, Restore, Abandon, Cancel, Crash, Gone
<1>8. CASE StartFails \/ RestoreFails \/ CompleteSuperstep \/ MaybeCheckpoint \/ SendResponses
  BY <1>2, <1>8 DEF StartFails, RestoreFails, CompleteSuperstep, MaybeCheckpoint, SendResponses, step
<1>9. CASE Quiesce
  BY <1>2, <1>9 DEF Quiesce, step
<1>10. ASSUME NEW e \in Executors, FinishExecute(e)
       PROVE  CompleteInv'
  BY <1>2, <1>10 DEF FinishExecute
<1>11. CASE UNCHANGED vars
  BY <1>2, <1>11 DEF vars, step
<1> QED
  BY <1>3, <1>4, <1>6, <1>7, <1>8, <1>9, <1>10, <1>11 DEF Next, Engine

\* A waiting barrier lacks a source, if no source is declared twice.
LEMMA WaitingLacksASource ==
    ASSUME DistinctSources, ShapeInv, CountInv
    PROVE  FullBarrierFires
<1> SUFFICES ASSUME NEW t \in Executors, fanin[t] # {},
                    ToSet(FanInSources(t)) \subseteq {m.source : m \in fanin[t]}
             PROVE  FALSE
  BY DEF FullBarrierFires
<1> DEFINE F == fanin[t]
           declared == FanInSources(t)
           S == {m.source : m \in F}
           f == [m \in F |-> m.source]
<1>1. IsBarrier(t) /\ Cardinality(F) < Len(declared) /\ IsFiniteSet(F)
  BY DEF CountInv, Counted, ShapeInv
<1>2. Distinct(declared) /\ IsSeq(declared) /\ Len(declared) \in Nat
  <2>1. declared \in Seq(Executors)
    BY <1>1, DeclaredSources
  <2>2. IsSeq(declared) /\ Len(declared) \in Nat
    <3> HIDE DEF declared
    <3> QED BY <2>1, SeqFacts
  <2> QED BY <1>1, <2>2 DEF DistinctSources
<1>3. Cardinality(ToSet(declared)) = Len(declared)
  <2> HIDE DEF declared
  <2> QED BY <1>2, SeqFinite
<1>4. f \in Surjection(F, S)
  BY DEF Surjection
<1>5. IsFiniteSet(S) /\ Cardinality(S) <= Cardinality(F)
  <2> HIDE DEF f, S, F
  <2> QED BY <1>1, <1>4, FS_Surjection
<1>6. Cardinality(ToSet(declared)) <= Cardinality(S)
  <2>1. ToSet(declared) \subseteq S
    OBVIOUS
  <2> HIDE DEF S, declared
  <2> QED BY <1>5, <2>1, FS_Subset
<1>7. Cardinality(S) \in Nat /\ Cardinality(F) \in Nat
  <2> HIDE DEF S, F
  <2> QED BY <1>1, <1>5, FS_CardinalityType
<1> HIDE DEF F, S, declared
<1> QED BY <1>1, <1>2, <1>3, <1>5, <1>6, <1>7

LEMMA NothingWaits ==
    ASSUME Init
    PROVE  CountInv /\ SourceInv /\ CompleteInv
<1>1. CountInv /\ SourceInv
  BY DEF Init, CountInv, SourceInv, NoBarriers, Counted, Sourced, OnePerSource
<1>2. \A e \in Executors : ToSet(groups[e]) = {}
  BY NoElements DEF Init, NoSteps
<1> QED BY <1>1, <1>2 DEF CompleteInv

\* When only its declared sources have edges to it, a fan-in target is invoked
\* with one message of each of them, in declared order, over any number of
\* supersteps, checkpoints and restores.
THEOREM BarriersAreComplete ==
    ASSUME NoSideEdges
    PROVE  Spec => []BarrierComplete
<1>1. ShapeInv /\ CompleteInv => BarrierComplete
  BY DEF CompleteInv, Complete, BarrierComplete, ToSet
<1> QED
  BY ShapeInvInit, ShapeInvStep, NothingWaits, SourceInvStep, CompleteInvStep, <1>1, PTL
     DEF Spec

\* When no barrier declares a source twice, none that has heard from all its
\* sources is left waiting.
THEOREM FullBarriersFire ==
    ASSUME DistinctSources
    PROVE  Spec => []FullBarrierFires
BY ShapeInvInit, ShapeInvStep, NothingWaits, CountInvStep, WaitingLacksASource, PTL
   DEF Spec

\* Barriers fire exactly when they are full, in every graph without repeated
\* sources and without side edges to a barrier.
THEOREM BarriersFire ==
    ASSUME DistinctSources, NoSideEdges
    PROVE  Spec => []BarriersFireWhenFull
<1>1. BarrierComplete /\ FullBarrierFires => BarriersFireWhenFull
  BY DEF BarriersFireWhenFull
<1> QED
  BY BarriersAreComplete, FullBarriersFire, <1>1, PTL

-----------------------------------------------------------------------------
(***************************************************************************)
(* The store the run takes from SharedState, for every set of keys and of  *)
(* JSON values: it is type correct and implements TransactionalState.      *)
(***************************************************************************)
CONSTANT Jsons     \* JSON values
VARIABLE result    \* the value the latest operation returned to its caller

Shared == INSTANCE SharedState WITH Values <- Jsons

\* StoreAssumption of SharedState, for these values.
StoreFacts == NoEntry \notin Jsons /\ Tombstone \notin Jsons /\ Tombstone # NoEntry

(* Every operation of shared_state.rs keeps committed free of tombstones and
   both maps total over the keys. *)
THEOREM StoreTypeCorrect == ASSUME StoreFacts PROVE Shared!Spec => []Shared!TypeOK
<1> USE DEF StoreFacts
<1>1. Shared!Init => Shared!TypeOK
  BY DEF Shared!Init, Shared!TypeOK, Shared!Empty, Shared!Maybe
<1>2. Shared!TypeOK /\ [Shared!Next]_(Shared!vars) => Shared!TypeOK'
  <2> SUFFICES ASSUME Shared!TypeOK, [Shared!Next]_(Shared!vars) PROVE Shared!TypeOK'
    OBVIOUS
  <2> USE DEF Shared!TypeOK, Shared!Maybe, Shared!Empty
  <2>1. ASSUME NEW k \in Keys, Shared!Get(k) \/ Shared!Has(k) \/ Shared!Delete(k) PROVE Shared!TypeOK'
    BY <2>1 DEF Shared!Get, Shared!Has, Shared!Delete
  <2>2. ASSUME NEW k \in Keys, NEW v \in Jsons, Shared!Set(k, v) PROVE Shared!TypeOK'
    BY <2>2 DEF Shared!Set
  <2>3. ASSUME NEW k \in Keys, NEW f \in Shared!Updates, Shared!Update(k, f) PROVE Shared!TypeOK'
    <3>1. Shared!Lookup(k) \in Shared!Maybe
      BY DEF Shared!Lookup
    <3> QED
      BY <2>3, <3>1 DEF Shared!Update, Shared!Updates
  <2>4. CASE Shared!Commit
    BY <2>4 DEF Shared!Commit
  <2>5. CASE Shared!Discard \/ Shared!Export \/ Shared!Clear
    BY <2>5 DEF Shared!Discard, Shared!Export, Shared!Clear
  <2>6. ASSUME NEW m \in [Keys -> Shared!Maybe], Shared!Import(m) PROVE Shared!TypeOK'
    BY <2>6 DEF Shared!Import
  <2>7. CASE UNCHANGED Shared!vars
    BY <2>7 DEF Shared!vars
  <2> QED
    BY <2>1, <2>2, <2>3, <2>4, <2>5, <2>6, <2>7 DEF Shared!Next
<1> QED
  BY <1>1, <1>2, PTL DEF Shared!Spec

-----------------------------------------------------------------------------
View == [k \in Keys |-> Shared!Lookup(k)]

(* A step that stages one entry of the pending map changes what a reader
   sees for that key only. *)
LEMMA StagingChangesOneKey ==
  ASSUME StoreFacts, Shared!TypeOK, NEW k \in Keys, NEW e \in Shared!Maybe \cup {Tombstone},
         pending' = [pending EXCEPT ![k] = e], committed' = committed
  PROVE  View' = [View EXCEPT ![k] = CASE e = Tombstone -> NoEntry
                                       [] e = NoEntry   -> committed[k]
                                       [] OTHER         -> e]
<1> USE DEF StoreFacts, Shared!Maybe
<1>1. \A j \in Keys : j # k => Shared!Lookup(j)' = Shared!Lookup(j)
  BY DEF Shared!TypeOK, Shared!Lookup
<1>2. Shared!Lookup(k)' = CASE e = Tombstone -> NoEntry
                     [] e = NoEntry   -> committed[k]
                     [] OTHER         -> e
  BY DEF Shared!TypeOK, Shared!Lookup
<1> QED
  BY <1>1, <1>2, Zenon DEF View

(* With nothing staged, a reader sees the committed map. *)
LEMMA NothingStaged ==
  ASSUME StoreFacts, Shared!TypeOK', pending' = Shared!Empty
  PROVE  View' = committed'
BY DEF StoreFacts, Shared!Maybe, View, Shared!Lookup, Shared!Empty, Shared!TypeOK

(* The staged store implements the transactional one: initial states map to
   initial states, and each operation to the abstract operation with the same
   returned value. *)
THEOREM StoreRefinement == ASSUME StoreFacts PROVE Shared!Spec => Shared!ImplementsTransactionalState
<1> USE DEF StoreFacts
<1>1. Shared!Init => Shared!Abstract!Init
  BY DEF Shared!Init, Shared!Abstract!Init, Shared!Lookup, Shared!Empty
<1>2. Shared!TypeOK /\ Shared!TypeOK' /\ [Shared!Next]_(Shared!vars) => [Shared!Abstract!Next]_(Shared!Abstract!vars)
  <2> SUFFICES ASSUME Shared!TypeOK, Shared!TypeOK', [Shared!Next]_(Shared!vars)
               PROVE  [Shared!Abstract!Next]_(Shared!Abstract!vars)
    OBVIOUS
  <2>a. \A k \in Keys : View[k] = Shared!Lookup(k) /\ Shared!Lookup(k) \in Shared!Maybe
    BY DEF View, Shared!Lookup, Shared!TypeOK, Shared!Maybe
  <2>b. UNCHANGED <<committed, pending>> => UNCHANGED View
    BY DEF View, Shared!Lookup
  <2> USE DEF View
  <2>1. ASSUME NEW k \in Keys, Shared!Get(k) PROVE Shared!Abstract!Read(k)
    BY <2>1, <2>a, <2>b DEF Shared!Get, Shared!Abstract!Read
  <2>2. ASSUME NEW k \in Keys, Shared!Has(k) PROVE Shared!Abstract!Exists(k)
    BY <2>2, <2>a, <2>b DEF Shared!Has, Shared!Abstract!Exists
  <2>3. ASSUME NEW k \in Keys, Shared!Delete(k) PROVE Shared!Abstract!Erase(k)
    <3> DEFINE staged == IF pending[k] = Tombstone THEN Tombstone
                         ELSE IF committed[k] # NoEntry THEN Tombstone ELSE NoEntry
    <3>1. pending' = [pending EXCEPT ![k] = staged] /\ committed' = committed
      BY <2>3 DEF Shared!Delete
    <3>2. staged \in Shared!Maybe \cup {Tombstone}
      BY DEF Shared!Maybe
    <3>3. View' = [View EXCEPT ![k] = CASE staged = Tombstone -> NoEntry
                                        [] staged = NoEntry   -> committed[k]
                                        [] OTHER              -> staged]
      BY <3>1, <3>2, StagingChangesOneKey, Zenon
    <3>4. View' = [View EXCEPT ![k] = NoEntry]
      BY <3>3
    <3>5. result' = <<"delete", Shared!Lookup(k) # NoEntry>>
      BY <2>3 DEF Shared!Delete, Shared!Lookup, Shared!TypeOK, Shared!Maybe
    <3> QED
      BY <3>1, <3>4, <3>5, <2>a DEF Shared!Abstract!Erase
  <2>4. ASSUME NEW k \in Keys, NEW v \in Jsons, Shared!Set(k, v) PROVE Shared!Abstract!Write(k, v)
    <3>1. View' = [View EXCEPT ![k] = v]
      BY <2>4, StagingChangesOneKey DEF Shared!Set, Shared!Maybe
    <3> QED
      BY <2>4, <3>1 DEF Shared!Set, Shared!Abstract!Write
  <2>5. ASSUME NEW k \in Keys, NEW f \in Shared!Updates, Shared!Update(k, f)
        PROVE  \E v \in Jsons : Shared!Abstract!Write(k, v)
    <3>1. f[Shared!Lookup(k)] \in Jsons
      BY <2>a DEF Shared!Updates
    <3>2. View' = [View EXCEPT ![k] = f[Shared!Lookup(k)]]
      BY <2>5, <3>1, StagingChangesOneKey DEF Shared!Update, Shared!Maybe
    <3> QED
      BY <2>5, <3>1, <3>2 DEF Shared!Update, Shared!Abstract!Write
  <2>6. ASSUME Shared!Commit PROVE Shared!Abstract!Commit
    <3>1. committed' = View
      BY <2>6 DEF Shared!Commit, Shared!Lookup
    <3>2. View' = committed'
      BY <2>6, NothingStaged DEF Shared!Commit
    <3> QED
      BY <2>6, <3>1, <3>2 DEF Shared!Commit, Shared!Abstract!Commit
  <2>7. ASSUME Shared!Discard PROVE Shared!Abstract!Rollback
    BY <2>7, NothingStaged DEF Shared!Discard, Shared!Abstract!Rollback
  <2>8. ASSUME Shared!Export PROVE Shared!Abstract!Export
    BY <2>8, <2>b DEF Shared!Export, Shared!Abstract!Export
  <2>9. ASSUME NEW m \in [Keys -> Shared!Maybe], Shared!Import(m) PROVE Shared!Abstract!Load(m)
    <3>1. View' \in [Keys -> Jsons \cup {NoEntry}]
      BY DEF Shared!Lookup, Shared!TypeOK, Shared!Maybe
    <3>2. \A k \in Keys : View'[k] \in IF m[k] # NoEntry THEN {m[k], View[k]} ELSE {View[k]}
      BY <2>9 DEF Shared!Import, Shared!Lookup, Shared!TypeOK
    <3> QED
      BY <2>9, <3>1, <3>2 DEF Shared!Import, Shared!Abstract!Load
  <2>10. ASSUME Shared!Clear PROVE Shared!Abstract!Reset
    BY <2>10, NothingStaged DEF Shared!Clear, Shared!Abstract!Reset, Shared!Empty
  <2>11. CASE UNCHANGED Shared!vars
    BY <2>11, <2>b DEF Shared!vars, Shared!Abstract!vars
  <2> QED
    BY <2>1, <2>2, <2>3, <2>4, <2>5, <2>6, <2>7, <2>8, <2>9, <2>10, <2>11
       DEF Shared!Next, Shared!Abstract!Next, Shared!Maybe
<1> QED
  BY <1>1, <1>2, StoreTypeCorrect, PTL DEF Shared!Spec, Shared!ImplementsTransactionalState, Shared!Abstract!Spec

=============================================================================
