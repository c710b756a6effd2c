---------------------- MODULE FunctionInvocationProofs ----------------------
(***************************************************************************)
(* Theorems about FunctionInvocation for every set of tools, every policy  *)
(* of the caller and every budget: its state is well typed, no call is     *)
(* executed without the approval it needs, and none is executed twice;     *)
(* calls and results match in what the model is sent and in what a caller  *)
(* is left with; and a run keeps within its budget, however it is paused.  *)
(***************************************************************************)
EXTENDS FunctionInvocation, FiniteSetTheorems, SequenceTheorems, TLAPS

(* What the typing needs beside StateOK: a request has its tools and budget. *)
TypeInv ==
    /\ StateOK
    /\ clock \in 0..MaxClock
    /\ tool \in [Calls -> Requested \cup {None}]
    /\ pc # "idle" => live \in Policies /\ budget \in Budget
    /\ deferred # None => deferred \in [calls : SUBSET Calls, hosts : SUBSET Calls]
    /\ batch \subseteq Calls
    /\ ran \in Nat

(* What the steps need of the parameters. *)
LEMMA Parameters ==
    /\ MaxIterations \in Nat \ {0} /\ MaxCalls \in Nat /\ MaxClock \in Nat
    /\ Policies \subseteq [Tools -> Availability]
    /\ None \notin Requested
BY ConfigAssumption DEF ConfigAssumption

LEMMA WithType ==
    ASSUME NEW f \in [Calls -> Status], NEW S, NEW s \in Status
    PROVE  With(f, S, s) \in [Calls -> Status]
BY DEF With

(* Naming the tools of new calls changes no other call. *)
LEMMA NamedCalls ==
    ASSUME tool \in [Calls -> Requested \cup {None}],
           NEW calls \in SUBSET Calls, NEW names \in Named(calls)
    PROVE  /\ names \in [Calls -> Requested \cup {None}]
           /\ \A c \in calls : names[c] \in Requested
           /\ \A c \in Calls \ calls : names[c] = tool[c]
<1>1. PICK named \in [calls -> Requested] :
         names = [c \in Calls |-> IF c \in calls THEN named[c] ELSE tool[c]]
  BY DEF Named
<1>2. QED
  BY <1>1

(* The end of a request leaves nothing of its local state. *)
LEMMA ReturnTypes ==
    ASSUME Return, clock' \in 0..MaxClock
    PROVE  /\ conv' \in [Calls -> Status]
           /\ live' = None /\ token' = None /\ budget' = None /\ pc' = "idle"
           /\ todo' = {} /\ now' = {} /\ batch' = {} /\ ran' = 0
BY DEF Return, NoConversation, Status

(* The execution counts stay counts when an answer is given. *)
LEMMA AnswerTypes ==
    ASSUME TypeInv, NEW c \in [Calls -> Status], Answer(c)
    PROVE  transcript' \in [Calls -> Status] /\ executions' \in [Calls -> Nat]
<1>1. executions \in [Calls -> Nat]
  BY DEF TypeInv, StateOK
<1>2. QED
  BY <1>1 DEF Answer

LEMMA ChargedType ==
    ASSUME TypeInv, pc # "idle"
    PROVE  Charged \in Budget
BY DEF Charged, TypeInv, Budget

(* A resumed budget is the parked one, its iterations kept or reset. *)
LEMMA ResumeOrStartType ==
    ASSUME TypeInv, NEW resuming, NEW continuing
    PROVE  ResumeOrStart(resuming, continuing) \in Budget
<1>1. Started \in Budget
  BY Parameters DEF Started, Budget, TypeInv
<1>2. ASSUME parked # None PROVE [parked EXCEPT !.iterations = 0] \in Budget /\ parked \in Budget
  BY <1>2, Parameters DEF TypeInv, StateOK, Budget
<1>3. [parked EXCEPT !.iterations = IF continuing THEN @ ELSE 0]
         \in {parked, [parked EXCEPT !.iterations = 0]} \/ parked = None
  BY <1>2 DEF Budget
<1>4. QED
  BY <1>1, <1>2, <1>3 DEF ResumeOrStart

(* A request that ends keeps the types, given what it leaves behind. *)
LEMMA ReturnKeepsTypes ==
    ASSUME TypeInv, Return, UNCHANGED world,
           tool' \in [Calls -> Requested \cup {None}],
           transcript' \in [Calls -> Status], executions' \in [Calls -> Nat],
           polling' \in {"on", "off", None},
           parked' \in Budget \cup {None}, tools' \in Policies \cup {None},
           deferred' # None => deferred' \in [calls : SUBSET Calls, hosts : SUBSET Calls]
    PROVE  TypeInv'
<1>1. clock' \in 0..MaxClock
  BY DEF TypeInv, world
<1>2. QED
  BY <1>1, ReturnTypes DEF TypeInv, StateOK

LEMMA FinishKeepsTypes ==
    ASSUME TypeInv, NEW c \in [Calls -> Status], Finish(c), UNCHANGED world,
           tool' \in [Calls -> Requested \cup {None}], UNCHANGED deferred
    PROVE  TypeInv'
<1>1. transcript' \in [Calls -> Status] /\ executions' \in [Calls -> Nat]
  BY AnswerTypes DEF Finish
<1>2. QED
  BY <1>1, ReturnKeepsTypes DEF Finish, Answer, TypeInv, StateOK

LEMMA PauseKeepsTypes ==
    ASSUME TypeInv, NEW c \in [Calls -> Status], NEW b \in Budget, Pause(c, b),
           UNCHANGED world, tool' \in [Calls -> Requested \cup {None}],
           deferred' # None => deferred' \in [calls : SUBSET Calls, hosts : SUBSET Calls]
    PROVE  TypeInv'
<1>1. transcript' \in [Calls -> Status] /\ executions' \in [Calls -> Nat]
  BY AnswerTypes DEF Pause
<1>2. parked' \in Budget \cup {None}
  BY DEF Pause
<1>3. QED
  BY <1>1, <1>2, ReturnKeepsTypes DEF Pause, Answer, TypeInv, StateOK

LEMMA BeginKeepsTypes ==
    ASSUME TypeInv, NEW c \in [Calls -> Status], NEW operation \in {"on", "off", None},
           Begin(c, operation)
    PROVE  TypeInv'
<1> USE DEF TypeInv, StateOK
<1>1. budget' \in Budget
  BY ResumeOrStartType DEF Begin
<1>2. live' \in Policies
  BY DEF Begin
<1>3. parked' \in Budget \cup {None} /\ tools' = None /\ token' = operation /\ conv' = c
  BY DEF Begin
<1>4. /\ deferred' # None => deferred' \in [calls : SUBSET Calls, hosts : SUBSET Calls]
      /\ batch' \subseteq Calls
  BY DEF Begin, StillDeferred
<1>5. todo' \subseteq Calls
  BY <1>4 DEF Begin, Runnable
<1>6. pc' \in {"siblings", "top"}
  BY DEF Begin
<1>7. UNCHANGED <<clock, tool, transcript, polling, ran, now, executions>>
  BY DEF Begin, world, caller
<1>8. QED
  BY <1>1, <1>2, <1>3, <1>4, <1>5, <1>6, <1>7

LEMMA ReadingType ==
    ASSUME NEW f \in [Calls -> Status], NEW h
    PROVE  Reading(f, h) \in [Calls -> Status]
BY DEF Reading, Status

LEMMA ReplyType ==
    ASSUME TypeInv, NEW A, NEW B, NEW C
    PROVE  With(With(With(transcript, A, "done"), B, "approved"), C, "rejected")
             \in [Calls -> Status]
BY WithType DEF TypeInv, StateOK, Status

(* The types of what a response with new calls does. *)
LEMMA NewCalls ==
    ASSUME TypeInv, NEW n \in Nat, NextCalls(n) \subseteq Calls,
           NEW names \in Named(NextCalls(n))
    PROVE  /\ names \in [Calls -> Requested \cup {None}]
           /\ Hosts(names, NextCalls(n)) \subseteq NextCalls(n)
BY NamedCalls DEF Hosts, TypeInv

LEMMA ModelCallsKeepsTypes ==
    ASSUME TypeInv, ModelCalls
    PROVE  TypeInv'
<1> USE DEF TypeInv, StateOK
<1>1. PICK n \in 1..MaxBatch : /\ NextCalls(n) \subseteq Calls
         /\ \E names \in Named(NextCalls(n)) :
              /\ tool' = names
              /\ \/ DropCalls(NextCalls(n)) \/ AskApproval(NextCalls(n), names)
                 \/ DeferSiblings(NextCalls(n), names) \/ RunBatch(NextCalls(n), names)
  BY DEF ModelCalls
<1> DEFINE calls == NextCalls(n)
<1>2. PICK names \in Named(calls) :
              /\ tool' = names
              /\ \/ DropCalls(calls) \/ AskApproval(calls, names)
                 \/ DeferSiblings(calls, names) \/ RunBatch(calls, names)
  BY <1>1
<1>3. n \in Nat /\ calls \subseteq Calls
  BY <1>1, ConfigAssumption DEF ConfigAssumption
<1>4. tool' \in [Calls -> Requested \cup {None}] /\ Hosts(names, calls) \subseteq calls
  BY <1>2, <1>3, NewCalls
<1>5. token' = None /\ UNCHANGED world /\ clock' = clock
  BY DEF ModelCalls, world
<1>6. budget \in Budget /\ live \in Policies
  BY DEF ModelCalls
<1>7. With(conv, calls, "open") \in [Calls -> Status]
  BY WithType DEF Status
<1> HIDE DEF calls
<1>8. CASE DropCalls(calls)
  BY <1>8, <1>4, <1>5, <1>6 DEF DropCalls, Stripped, caller, ghosts
<1>9. CASE AskApproval(calls, names)
  <2>1. With(With(conv, calls, "asked"), Hosts(names, calls), "open") \in [Calls -> Status]
    BY WithType DEF Status
  <2>2. QED
    BY <1>9, <2>1, <1>4, <1>5, <1>6, PauseKeepsTypes DEF AskApproval
<1>10. CASE DeferSiblings(calls, names)
  <2>1. deferred' # None => deferred' \in [calls : SUBSET Calls, hosts : SUBSET Calls]
    BY <1>10, <1>3, <1>4 DEF DeferSiblings, Siblings
  <2>2. QED
    BY <1>10, <2>1, <1>4, <1>5, <1>6, <1>7, PauseKeepsTypes DEF DeferSiblings
<1>11. CASE RunBatch(calls, names)
  BY <1>11, <1>3, <1>4, <1>5, <1>6, <1>7 DEF RunBatch, caller, session, ghosts
<1>12. QED
  BY <1>2, <1>8, <1>9, <1>10, <1>11

(* TypeInv is inductive. *)
LEMMA TypeInvInit ==
    ASSUME Init
    PROVE  TypeInv
BY Parameters DEF Init, TypeInv, StateOK, NoConversation, Status

LEMMA TypeInvStep ==
    ASSUME TypeInv, [Next]_vars
    PROVE  TypeInv'
<1> USE DEF TypeInv, StateOK
<1>1. CASE Fresh
  BY <1>1, BeginKeepsTypes, ReadingType DEF Fresh, Request, NoConversation, Status
<1>2. CASE Reply
  <2>1. With(transcript, Hosted, "done") \in [Calls -> Status]
    BY WithType DEF Status
  <2>2. QED
    BY <1>2, <2>1, BeginKeepsTypes, ReadingType DEF Reply, Request
<1>3. CASE Turn \/ Poll
  BY <1>3, BeginKeepsTypes, ReadingType DEF Turn, Poll, Request
<1>4. CASE Drop
  BY <1>4, ReturnKeepsTypes DEF Drop, session
<1>5. CASE Tick
  BY <1>5, Parameters DEF Tick, caller, session, local, ghosts
<1>6. ASSUME NEW c \in Calls, Execute(c)
      PROVE  TypeInv'
  BY <1>6 DEF Execute, Due, world, caller, session
<1>7. ASSUME NEW c \in Calls, Refuse(c)
      PROVE  TypeInv'
  BY <1>7 DEF Refuse, Due, world, caller, session, ghosts
<1>8. ASSUME Err
      PROVE  TypeInv'
  BY <1>8, ReturnKeepsTypes DEF Err
<1>9. CASE SiblingsDone
  <2> DEFINE waiting == Gated(tool, batch, live)
             answered == With(conv, batch \ waiting, "done")
  <2>1. answered \in [Calls -> Status] /\ With(answered, waiting, "asked") \in [Calls -> Status]
    BY WithType DEF Status
  <2>2. Charged \in Budget
    BY <1>9, ChargedType DEF SiblingsDone
  <2>3. UNCHANGED <<world, tool, deferred, clock>>
    BY <1>9 DEF SiblingsDone, world
  <2> HIDE DEF waiting, answered
  <2>4. CASE Pause(With(answered, waiting, "asked"), Charged)
    BY <2>1, <2>2, <2>3, <2>4, PauseKeepsTypes
  <2>5. CASE /\ pc' = "top" /\ conv' = answered
             /\ budget' = Charged /\ ran' = 0 /\ batch' = {}
             /\ UNCHANGED <<caller, parked, tools, live, token, todo, computer, ghosts>>
    BY <1>9, <2>1, <2>2, <2>3, <2>5 DEF SiblingsDone, caller, ghosts
  <2>6. QED
    BY <1>9, <2>4, <2>5 DEF SiblingsDone, waiting, answered
<1>10. CASE IterationLimit
  BY <1>10 DEF IterationLimit, Failsafe, world, caller, ghosts
<1>11. CASE Top
  <2>1. budget' \in Budget
    BY <1>11, Parameters DEF Top, LimitReached, Budget
  <2>2. todo' \subseteq Calls
    BY <1>11 DEF Top, Where
  <2>3. QED
    BY <1>11, <2>1, <2>2 DEF Top, world, caller, session, ghosts
<1>12. CASE ReplayDone
  <2>1. Charged \in Budget /\ Resolved \in [Calls -> Status]
    BY <1>12, ChargedType, WithType DEF ReplayDone, Resolved, Status
  <2>2. QED
    BY <1>12, <2>1 DEF ReplayDone, Failsafe, world, caller, session
<1>13. CASE BatchDone
  <2> DEFINE answered == With(conv, batch \ Hosts(tool, batch), "done")
  <2>1. answered \in [Calls -> Status]
    BY WithType DEF Status
  <2>2. Charged \in Budget
    BY <1>13, ChargedType DEF BatchDone
  <2>3. UNCHANGED <<world, tool, deferred, clock>>
    BY <1>13 DEF BatchDone, world
  <2> HIDE DEF answered
  <2>4. CASE Finish(answered)
    BY <2>1, <2>3, <2>4, FinishKeepsTypes
  <2>5. CASE /\ pc' = "top" /\ conv' = answered
             /\ budget' = Charged /\ ran' = 0 /\ batch' = {}
             /\ UNCHANGED <<caller, parked, tools, live, token, todo, computer, ghosts>>
    BY <1>13, <2>1, <2>2, <2>3, <2>5 DEF BatchDone, caller, ghosts
  <2>6. QED
    BY <1>13, <2>4, <2>5 DEF BatchDone, answered
<1>14. CASE ModelPending
  <2>1. transcript' \in [Calls -> Status] /\ executions' \in [Calls -> Nat]
    BY <1>14, AnswerTypes DEF ModelPending, HandBack
  <2>2. parked' \in Budget \cup {None} /\ tools' \in Policies \cup {None}
    BY <1>14 DEF ModelPending, Modelling, HandBack
  <2>3. polling' \in {"on", "off", None}
    BY <1>14 DEF ModelPending, HandBack
  <2>4. QED
    BY <1>14, <2>1, <2>2, <2>3, ReturnKeepsTypes DEF ModelPending, HandBack, Answer
<1>15. CASE ModelAnswers
  BY <1>15, FinishKeepsTypes DEF ModelAnswers
<1>16. CASE ModelCalls
  BY <1>16, ModelCallsKeepsTypes
<1>17. CASE FailsafeReturnsCalls
  <2>1. PICK n \in 1..MaxBatch : /\ NextCalls(n) \subseteq Calls
         /\ \E names \in Named(NextCalls(n)) :
              LET hosts == Hosts(names, NextCalls(n))
              IN  /\ tool' = names
                  /\ Finish(With(With(conv, hosts, "open"), NextCalls(n) \ hosts, "late"))
    BY <1>17 DEF FailsafeReturnsCalls
  <2>2. PICK names \in Named(NextCalls(n)) :
           /\ tool' = names
           /\ Finish(With(With(conv, Hosts(names, NextCalls(n)), "open"),
                          NextCalls(n) \ Hosts(names, NextCalls(n)), "late"))
    BY <2>1
  <2>3. tool' \in [Calls -> Requested \cup {None}]
    BY <2>1, <2>2, NamedCalls
  <2>4. With(With(conv, Hosts(names, NextCalls(n)), "open"),
             NextCalls(n) \ Hosts(names, NextCalls(n)), "late") \in [Calls -> Status]
    BY WithType DEF Status
  <2>5. QED
    BY <1>17, <2>2, <2>3, <2>4, FinishKeepsTypes DEF FailsafeReturnsCalls
<1>18. CASE UNCHANGED vars
  BY <1>18 DEF vars, world, caller, session, local, ghosts
<1>19. QED
  BY <1>1, <1>2, <1>3, <1>4, <1>5, <1>6, <1>7, <1>8, <1>9, <1>10, <1>11, <1>12, <1>13,
     <1>14, <1>15, <1>16, <1>17, <1>18
     DEF Next, ModelFails, Terminate

-----------------------------------------------------------------------------
(* The settlement of approvals is well typed. *)
LEMMA SupersededType ==
    ASSUME NEW waiting \in Seq(Response), NEW c
    PROVE  Superseded(waiting, c) \in Seq(Response)
<1> DEFINE own == {i \in DOMAIN waiting : waiting[i].call = c}
<1>1. CASE own = {}
  BY <1>1 DEF Superseded
<1>2. CASE own # {}
  <2> DEFINE i == CHOOSE j \in own : TRUE
  <2>1. /\ i \in 1..Len(waiting)
        /\ Superseded(waiting, c)
              = SubSeq(waiting, 1, i - 1) \o SubSeq(waiting, i + 1, Len(waiting))
    <3>1. Superseded(waiting, c) = RemoveAt(waiting, i)
      BY <1>2 DEF Superseded
    <3>2. i \in own
      BY <1>2
    <3>3. QED
      BY <3>1, <3>2 DEF RemoveAt
  <2> HIDE DEF i
  <2>2. /\ i \in Int /\ i - 1 \in Int /\ i + 1 \in Int /\ Len(waiting) \in Int
        /\ \A j \in 1..(i - 1) : waiting[j] \in Response
        /\ \A j \in (i + 1)..Len(waiting) : waiting[j] \in Response
    BY <2>1
  <2>3. /\ SubSeq(waiting, 1, i - 1) \in Seq(Response)
        /\ SubSeq(waiting, i + 1, Len(waiting)) \in Seq(Response)
    BY <2>2, SubSeqProperties
  <2>4. QED
    BY <2>1, <2>3, ConcatProperties
<1>3. QED
  BY <1>1, <1>2

LEMMA CorrelationTypes ==
    ASSUME NEW a \in Correlation, NEW c \in Calls, NEW approved \in BOOLEAN
    PROVE  /\ OnRequest(a, c) \in Correlation
           /\ OnResponse(a, c, approved) \in Correlation
           /\ OnResult(a) \in Correlation
<1>1. OnRequest(a, c) \in Correlation
  BY SupersededType DEF OnRequest, Correlation
<1>2. OnResponse(a, c, approved) \in Correlation
  <2>1. [call |-> c, approved |-> approved] \in Response
    BY DEF Response
  <2>2. Append(a.waiting, [call |-> c, approved |-> approved]) \in Seq(Response)
    BY <2>1, AppendProperties DEF Correlation
  <2>3. QED
    BY <2>2 DEF OnResponse, Correlation
<1>3. OnResult(a) \in Correlation
  <2>1. CASE a.waiting = <<>>
    BY <2>1 DEF OnResult, Correlation
  <2>2. CASE a.waiting # <<>>
    <3>1. Tail(a.waiting) \in Seq(Response)
      BY <2>2, HeadTailProperties DEF Correlation
    <3>2. a.closed \cup ({Head(a.waiting).call} \cap a.requested) \in SUBSET Calls
      BY DEF Correlation
    <3>3. QED
      BY <2>2, <3>1, <3>2 DEF OnResult, Correlation
  <2>3. QED
    BY <2>1, <2>2
<1>4. QED
  BY <1>1, <1>2, <1>3

LEMMA HistoryTypes ==
    ASSUME NEW h \in [Ids -> Correlation], NEW S \in SUBSET Calls, NEW approved \in BOOLEAN
    PROVE  /\ Requests(h, S) \in [Ids -> Correlation]
           /\ Responses(h, S, approved) \in [Ids -> Correlation]
           /\ Results(h, S) \in [Ids -> Correlation]
<1>1. ASSUME NEW x \in Ids, Under(S, x) # {}
      PROVE  The(Under(S, x)) \in Calls
  BY <1>1 DEF Under, The
<1>2. QED
  BY <1>1, CorrelationTypes DEF Requests, Responses, Results

LEMMA NoHistoryType == NoHistory \in [Ids -> Correlation]
<1>1. [waiting |-> <<>>, requested |-> {}, unanswered |-> {}, closed |-> {}] \in Correlation
  BY EmptySeq DEF Correlation
<1>2. QED
  BY <1>1 DEF NoHistory

LEMMA HistoryOKInit ==
    ASSUME Init
    PROVE  HistoryOK
BY NoHistoryType DEF Init, HistoryOK

LEMMA HistoryOKStep ==
    ASSUME TypeInv, HistoryOK, [Next]_vars
    PROVE  HistoryOK'
<1> USE DEF HistoryOK
<1>1. /\ history \in [Ids -> Correlation] /\ said \in [Ids -> Correlation]
      /\ batch \subseteq Calls /\ TRUE \in BOOLEAN /\ FALSE \in BOOLEAN
  BY DEF TypeInv
<1>2. CASE Fresh
  BY <1>1, <1>2, NoHistoryType DEF Fresh, Request, Begin, caller
<1>3. CASE Reply
  <2>1. PICK yes \in SUBSET Asked, again \in Repeatable, d \in BOOLEAN :
           Request(With(transcript, Hosted, "done"),
                   Results(Responses(Responses(Responses(history, yes, TRUE),
                                               Asked \ yes, FALSE), again, d), Hosted), None)
    BY <1>3 DEF Reply
  <2>2. /\ yes \in SUBSET Calls /\ Asked \ yes \in SUBSET Calls /\ again \in SUBSET Calls
        /\ Hosted \in SUBSET Calls
    BY DEF Asked, Hosted, Hosts, Where, Repeatable
  <2>3. Responses(history, yes, TRUE) \in [Ids -> Correlation]
    BY <1>1, <2>2, HistoryTypes
  <2>4. Responses(Responses(history, yes, TRUE), Asked \ yes, FALSE) \in [Ids -> Correlation]
    BY <1>1, <2>2, <2>3, HistoryTypes
  <2>5. said' \in [Ids -> Correlation]
    <3>1. Responses(Responses(Responses(history, yes, TRUE), Asked \ yes, FALSE), again, d)
             \in [Ids -> Correlation]
      BY <2>2, <2>4, HistoryTypes
    <3>2. QED
      BY <2>1, <2>2, <3>1, HistoryTypes DEF Request
  <2>6. history' = history
    BY <2>1 DEF Request, Begin, caller
  <2>7. QED
    BY <1>1, <2>5, <2>6
<1>4. CASE Turn
  <2>1. PICK again \in Repeatable, d \in BOOLEAN :
           said' = Responses(history, again, d) /\ history' = history
    BY <1>4 DEF Turn, Request, Begin, caller
  <2>2. again \in SUBSET Calls
    BY DEF Where, Repeatable
  <2>3. QED
    BY <1>1, <2>1, <2>2, HistoryTypes
<1>5. CASE Poll
  BY <1>1, <1>5 DEF Poll, Request, Begin, caller
<1>6. CASE Drop \/ Err
  BY <1>1, <1>6, NoHistoryType DEF Drop, Err, Return
<1>7. CASE Tick \/ UNCHANGED vars \/ \E c \in Calls : Execute(c) \/ Refuse(c)
  BY <1>1, <1>7 DEF Tick, vars, caller, local, Execute, Refuse
<1>8. CASE SiblingsDone
  <2> DEFINE waiting == Gated(tool, batch, live)
  <2>1. waiting \in SUBSET Calls /\ batch \ waiting \in SUBSET Calls
    BY <1>1 DEF Gated
  <2>2. Results(said, batch \ waiting) \in [Ids -> Correlation]
    BY <1>1, <2>1, HistoryTypes
  <2>3. Requests(Results(said, batch \ waiting), waiting) \in [Ids -> Correlation]
    BY <1>1, <2>1, <2>2, HistoryTypes
  <2>4. QED
    BY <1>1, <1>8, <2>2, <2>3, NoHistoryType DEF SiblingsDone, Pause, Answer, Return, caller
<1>9. CASE IterationLimit \/ Top
  BY <1>1, <1>9 DEF IterationLimit, Failsafe, Top, caller
<1>10. CASE ReplayDone
  <2>1. Where(conv, "approved") \cup Where(conv, "rejected") \in SUBSET Calls
    BY DEF Where
  <2>2. said' \in [Ids -> Correlation]
    BY <1>1, <1>10, <2>1, HistoryTypes DEF ReplayDone
  <2>3. QED
    BY <1>1, <1>10, <2>2 DEF ReplayDone, Failsafe, caller
<1>11. CASE BatchDone
  <2>1. Results(said, batch \ Hosts(tool, batch)) \in [Ids -> Correlation]
    BY <1>1, HistoryTypes
  <2>2. QED
    BY <1>1, <1>11, <2>1, NoHistoryType DEF BatchDone, Finish, Answer, Return, caller
<1>12. CASE ModelPending \/ ModelAnswers \/ FailsafeReturnsCalls
  BY <1>1, <1>12, NoHistoryType
     DEF ModelPending, HandBack, ModelAnswers, FailsafeReturnsCalls, Finish, Answer, Return
<1>13. CASE ModelCalls
  <2>1. PICK n \in 1..MaxBatch : /\ NextCalls(n) \subseteq Calls
         /\ \E names \in Named(NextCalls(n)) :
              \/ DropCalls(NextCalls(n)) \/ AskApproval(NextCalls(n), names)
              \/ DeferSiblings(NextCalls(n), names) \/ RunBatch(NextCalls(n), names)
    BY <1>13 DEF ModelCalls
  <2>2. PICK names : \/ DropCalls(NextCalls(n)) \/ AskApproval(NextCalls(n), names)
                     \/ DeferSiblings(NextCalls(n), names) \/ RunBatch(NextCalls(n), names)
    BY <2>1
  <2>3. Requests(said, Siblings(NextCalls(n), names)) \in [Ids -> Correlation]
    BY <1>1, <2>1, HistoryTypes DEF Siblings
  <2>4. QED
    BY <1>1, <2>2, <2>3, NoHistoryType
       DEF DropCalls, AskApproval, DeferSiblings, RunBatch, Pause, Answer, Return, caller
<1>14. QED
  BY <1>2, <1>3, <1>4, <1>5, <1>6, <1>7, <1>8, <1>9, <1>10, <1>11, <1>12, <1>13
     DEF Next, ModelFails, Terminate

(* Whatever the tools, the policies and the caller: the state of a request and
   what the session keeps for the next are well typed, and the iterations of a
   budget, resumed or not, never exceed max_iterations. *)
THEOREM TypeCorrect == Spec => []TypeOK
<1>1. TypeInv /\ HistoryOK => TypeOK
  BY DEF TypeInv, TypeOK
<1>2. QED
  BY TypeInvInit, TypeInvStep, HistoryOKInit, HistoryOKStep, <1>1, PTL DEF Spec

-----------------------------------------------------------------------------
(* The approvals of a conversation, as the walk over it finds them, agree with
   what the conversation says of the calls: the calls whose request waits for an
   answer are asked, those with an answer that waits for a result are decided,
   and a request whose call has a result is closed, to every later answer. *)
Decided == {"approved", "rejected"}
Deciding == {"asked"} \cup Decided

Correlated(h, f) ==
    \A c \in Calls :
       /\ f[c] \in Deciding => c \in h[CallId[c]].requested
       /\ c \in h[CallId[c]].requested => f[c] \in Deciding \cup {"done"}
       /\ c \in h[CallId[c]].closed <=> c \in h[CallId[c]].requested /\ f[c] = "done"
       /\ c \in h[CallId[c]].unanswered <=> f[c] = "asked"
       /\ f[c] = "approved" => h[CallId[c]].waiting = <<[call |-> c, approved |-> TRUE]>>
       /\ f[c] = "rejected" => h[CallId[c]].waiting = <<[call |-> c, approved |-> FALSE]>>
       /\ h[CallId[c]].waiting # <<>> =>
             \E d \in Calls : CallId[d] = CallId[c] /\ f[d] \in Decided

(* The calls that a caller has answered or has to, all of one response. *)
Pending(names, f) == {c \in Calls : f[c] \in Deciding \/ (f[c] = "open" /\ names[c] = Host)}

(* Both conversations are correlated; what is pending at a time is apart; and the
   calls a caller runs are open in a request only in the batch that ends it. *)
HistoryInv ==
    /\ HistoryOK
    /\ Correlated(history, transcript) /\ Correlated(said, conv)
    /\ Apart(Pending(tool, transcript)) /\ Apart(Pending(tool, conv))
    /\ Apart(batch) /\ batch \subseteq Drawn
    /\ deferred # None => Apart(deferred.calls)
    /\ polling # None => Asked \cup Hosted = {}
    /\ \A c \in Calls : conv[c] = "open" /\ tool[c] = Host => pc = "batch" /\ c \in batch
    /\ \A c \in Calls \ Drawn : transcript[c] = "absent" /\ conv[c] = "absent"

LEMMA Identified == CallId \in [Calls -> Ids]
BY ConfigAssumption DEF ConfigAssumption

(* Of calls that are apart at most one is under an id. *)
LEMMA OneUnder ==
    ASSUME NEW S \in SUBSET Calls, Apart(S)
    PROVE  /\ \A c \in S : Under(S, CallId[c]) = {c} /\ The(Under(S, CallId[c])) = c
           /\ \A d \in Calls : Under(S, CallId[d]) # {} =>
                 \E c \in S : CallId[c] = CallId[d] /\ Under(S, CallId[d]) = {c}
<1>1. \A c \in S : Under(S, CallId[c]) = {c}
  BY DEF Under, Apart
<1>2. \A c : The({c}) = c
  BY DEF The
<1>3. ASSUME NEW d \in Calls, Under(S, CallId[d]) # {}
      PROVE  \E c \in S : CallId[c] = CallId[d] /\ Under(S, CallId[d]) = {c}
  BY <1>1, <1>3 DEF Under
<1>4. QED
  BY <1>1, <1>2, <1>3

(* Answers to calls that are asked for decide them. *)
LEMMA ResponsesDecide ==
    ASSUME NEW h \in [Ids -> Correlation], NEW f \in [Calls -> Status],
           NEW S \in SUBSET Where(f, "asked"), NEW approved \in BOOLEAN, NEW s,
           s = IF approved THEN "approved" ELSE "rejected",
           Apart({c \in Calls : f[c] \in Deciding}), Correlated(h, f)
    PROVE  /\ Correlated(Responses(h, S, approved), With(f, S, s))
           /\ {c \in Calls : With(f, S, s)[c] \in Deciding} = {c \in Calls : f[c] \in Deciding}
           /\ \A x \in Ids : Responses(h, S, approved)[x].requested = h[x].requested
<1> DEFINE g == With(f, S, s)
           k == Responses(h, S, approved)
<1>1. S \in SUBSET Calls /\ \A c \in S : f[c] = "asked"
  BY DEF Where
<1>2. Apart(S)
  BY <1>1 DEF Apart, Deciding
<1>3. s \in Decided
  BY DEF Decided
<1>4. \A c \in Calls : g[c] = IF c \in S THEN s ELSE f[c]
  BY DEF With
<1>5. ASSUME NEW c \in S
      PROVE  /\ h[CallId[c]].waiting = <<>> /\ c \in h[CallId[c]].requested
             /\ c \notin h[CallId[c]].closed
             /\ k[CallId[c]].requested = h[CallId[c]].requested
             /\ k[CallId[c]].closed = h[CallId[c]].closed
             /\ k[CallId[c]].unanswered = h[CallId[c]].unanswered \ {c}
             /\ k[CallId[c]].waiting = <<[call |-> c, approved |-> approved]>>
  <2>1. h[CallId[c]].waiting = <<>>
    <3>1. SUFFICES ASSUME NEW d \in Calls, CallId[d] = CallId[c], f[d] \in Decided
                   PROVE  FALSE
      BY <1>1 DEF Correlated
    <3>2. c = d
      BY <1>1, <3>1 DEF Apart, Deciding
    <3>3. QED
      BY <1>1, <3>1, <3>2 DEF Decided
  <2>2. c \in h[CallId[c]].requested /\ c \notin h[CallId[c]].closed
    BY <1>1 DEF Correlated, Deciding
  <2>3. k[CallId[c]] = OnResponse(h[CallId[c]], c, approved)
    BY <1>1, <1>2, OneUnder, Identified DEF Responses
  <2>4. Append(<<>>, [call |-> c, approved |-> approved])
           = <<[call |-> c, approved |-> approved]>>
    OBVIOUS
  <2>5. h[CallId[c]] \in Correlation
    BY <1>1, Identified
  <2>6. QED
    BY <2>1, <2>2, <2>3, <2>4, <2>5 DEF OnResponse, Correlation
<1>6. ASSUME NEW d \in Calls, Under(S, CallId[d]) = {}
      PROVE  k[CallId[d]] = h[CallId[d]] /\ d \notin S
  BY <1>6, Identified DEF Responses, Under
<1>7. \A x \in Ids : h[x] \in Correlation
  OBVIOUS
<1> HIDE DEF g, k
<1>8. ASSUME NEW d \in Calls
      PROVE  /\ g[d] \in Deciding => d \in k[CallId[d]].requested
             /\ d \in k[CallId[d]].requested => g[d] \in Deciding \cup {"done"}
             /\ d \in k[CallId[d]].closed <=> d \in k[CallId[d]].requested /\ g[d] = "done"
             /\ d \in k[CallId[d]].unanswered <=> g[d] = "asked"
             /\ g[d] = "approved" => k[CallId[d]].waiting = <<[call |-> d, approved |-> TRUE]>>
             /\ g[d] = "rejected" => k[CallId[d]].waiting = <<[call |-> d, approved |-> FALSE]>>
             /\ k[CallId[d]].waiting # <<>> =>
                   \E e \in Calls : CallId[e] = CallId[d] /\ g[e] \in Decided
  <2>1. CASE Under(S, CallId[d]) = {}
    <3>1. k[CallId[d]] = h[CallId[d]] /\ g[d] = f[d]
      BY <1>4, <1>6, <2>1
    <3>2. \A e \in Calls : CallId[e] = CallId[d] => g[e] = f[e]
      BY <1>4, <1>6, <2>1
    <3>3. QED
      BY <3>1, <3>2 DEF Correlated
  <2>2. CASE d \in S
    <3>1. /\ k[CallId[d]].requested = h[CallId[d]].requested
          /\ k[CallId[d]].closed = h[CallId[d]].closed
          /\ k[CallId[d]].unanswered = h[CallId[d]].unanswered \ {d}
          /\ k[CallId[d]].waiting = <<[call |-> d, approved |-> approved]>>
      BY <1>5, <2>2
    <3>2. g[d] = s
      BY <1>4, <2>2
    <3>3. QED
      BY <1>3, <1>5, <2>2, <3>1, <3>2 DEF Deciding, Decided
  <2>3. CASE d \notin S /\ Under(S, CallId[d]) # {}
    <3>1. PICK c \in S : CallId[c] = CallId[d]
      BY <2>3 DEF Under
    <3>2. /\ k[CallId[d]].requested = h[CallId[d]].requested
          /\ k[CallId[d]].closed = h[CallId[d]].closed
          /\ k[CallId[d]].unanswered = h[CallId[d]].unanswered \ {c}
          /\ c # d /\ g[c] = s /\ c \in Calls
      BY <1>1, <1>4, <1>5, <2>3, <3>1
    <3>3. g[d] = f[d] /\ f[d] \notin Deciding
      BY <1>1, <1>4, <2>3, <3>1 DEF Apart, Deciding
    <3>4. QED
      BY <1>1, <1>3, <3>1, <3>2, <3>3 DEF Correlated, Deciding, Decided
  <2>4. QED
    BY <2>1, <2>2, <2>3
<1>9. Correlated(k, g)
  BY <1>8 DEF Correlated
<1>10. {c \in Calls : g[c] \in Deciding} = {c \in Calls : f[c] \in Deciding}
  BY <1>1, <1>3, <1>4 DEF Deciding
<1>11. \A x \in Ids : k[x].requested = h[x].requested
  BY <1>7 DEF k, Responses, OnResponse, Correlation
<1>12. QED
  BY <1>9, <1>10, <1>11 DEF g, k

(* Answers to closed requests change nothing. *)
LEMMA RepeatsChangeNothing ==
    ASSUME NEW h \in [Ids -> Correlation], NEW S \in SUBSET Calls, NEW approved,
           \A c \in S : c \in h[CallId[c]].closed
    PROVE  Responses(h, S, approved) = h
<1>1. ASSUME NEW x \in Ids, Under(S, x) # {}
      PROVE  The(Under(S, x)) \in h[x].closed
  BY <1>1 DEF Under, The
<1>2. QED
  BY <1>1 DEF Responses, OnResponse

(* Results settle what is decided, and close nothing else. *)
LEMMA ResultsSettle ==
    ASSUME NEW h \in [Ids -> Correlation], NEW f \in [Calls -> Status],
           NEW S \in SUBSET Calls, Apart(S), Correlated(h, f),
           \A c \in S, d \in Calls :
              CallId[c] = CallId[d] /\ f[d] \in Deciding => c = d /\ f[d] \in Decided
    PROVE  Correlated(Results(h, S), With(f, S, "done"))
<1> DEFINE g == With(f, S, "done")
           k == Results(h, S)
<1>1. \A c \in Calls : g[c] = IF c \in S THEN "done" ELSE f[c]
  BY DEF With
<1>2. \A x \in Ids : h[x] \in Correlation
  OBVIOUS
<1>3. ASSUME NEW d \in Calls, Under(S, CallId[d]) = {}
      PROVE  k[CallId[d]] = h[CallId[d]] /\ d \notin S
  BY <1>3, Identified DEF Results, Under
<1>4. ASSUME NEW c \in S
      PROVE  k[CallId[c]] = OnResult(h[CallId[c]])
  BY OneUnder, Identified DEF Results
<1> HIDE DEF g, k
<1>5. ASSUME NEW c \in S, NEW d \in Calls, CallId[d] = CallId[c]
      PROVE  /\ g[d] \notin Deciding
             /\ d \in k[CallId[d]].requested => g[d] = "done"
             /\ d \in k[CallId[d]].closed <=> d \in k[CallId[d]].requested /\ g[d] = "done"
             /\ d \notin k[CallId[d]].unanswered
             /\ k[CallId[d]].waiting = <<>>
  <2>1. g[d] \notin Deciding
    BY <1>1, <1>5 DEF Deciding, Decided
  <2>2. d \notin h[CallId[d]].unanswered
    BY <1>5 DEF Correlated, Deciding, Decided
  <2>3. h[CallId[c]] \in Correlation /\ k[CallId[d]] = OnResult(h[CallId[c]])
    BY <1>2, <1>4, <1>5, Identified
  <2>4. CASE f[c] \in Decided
    <3>1. PICK b : h[CallId[c]].waiting = <<[call |-> c, approved |-> b]>>
      BY <2>4 DEF Correlated, Decided
    <3>2. /\ h[CallId[c]].waiting # <<>> /\ Tail(h[CallId[c]].waiting) = <<>>
          /\ Head(h[CallId[c]].waiting).call = c
      BY <3>1
    <3>3. c \in h[CallId[c]].requested
      BY <2>4 DEF Correlated, Deciding
    <3>4. /\ k[CallId[d]].waiting = <<>>
          /\ k[CallId[d]].requested = h[CallId[c]].requested
          /\ k[CallId[d]].unanswered = h[CallId[c]].unanswered
          /\ k[CallId[d]].closed = h[CallId[c]].closed \cup {c}
      BY <2>3, <3>2, <3>3 DEF OnResult, Correlation
    <3>5. QED
      <4>1. d # c => f[d] \notin Deciding /\ d \notin S
        BY <1>5, <2>4 DEF Apart
      <4>2. /\ d \in h[CallId[d]].closed <=> d \in h[CallId[d]].requested /\ f[d] = "done"
            /\ d \in h[CallId[d]].requested => f[d] \in Deciding \cup {"done"}
        BY DEF Correlated
      <4>3. QED
        BY <1>1, <1>5, <2>1, <2>2, <3>3, <3>4, <4>1, <4>2
  <2>5. CASE f[c] \notin Decided
    <3>1. h[CallId[c]].waiting = <<>>
      BY <2>5 DEF Correlated, Deciding
    <3>2. \A e \in h[CallId[c]].unanswered : e \in Calls
      BY <2>3 DEF Correlation
    <3>3. /\ k[CallId[d]].waiting = <<>>
          /\ k[CallId[d]].requested = h[CallId[c]].requested
          /\ k[CallId[d]].unanswered \subseteq h[CallId[c]].unanswered
          /\ h[CallId[c]].closed \subseteq k[CallId[d]].closed
          /\ k[CallId[d]].closed \subseteq h[CallId[c]].closed \cup h[CallId[c]].unanswered
      BY <2>3, <3>1 DEF OnResult, Correlation
    <3>4. /\ d \in h[CallId[d]].closed <=> d \in h[CallId[d]].requested /\ f[d] = "done"
          /\ d \in h[CallId[d]].requested => f[d] \in Deciding \cup {"done"}
          /\ f[d] \in Deciding => c = d /\ f[c] \in Decided
      BY <1>5 DEF Correlated
    <3>5. d \in h[CallId[d]].requested => f[d] = "done"
      BY <2>5, <3>4
    <3>6. d \in S => g[d] = "done"
      BY <1>1
    <3>7. QED
      BY <1>1, <1>5, <2>1, <2>2, <3>3, <3>4, <3>5, <3>6
  <2>6. QED
    BY <2>4, <2>5
<1>6. ASSUME NEW d \in Calls, Under(S, CallId[d]) = {}
      PROVE  /\ k[CallId[d]] = h[CallId[d]]
             /\ \A e \in Calls : CallId[e] = CallId[d] => g[e] = f[e]
  BY <1>1, <1>3, <1>6
<1>7. \A d \in Calls : Under(S, CallId[d]) # {} => \E c \in S : CallId[d] = CallId[c]
  BY DEF Under
<1>8. Correlated(k, g)
  <2>1. SUFFICES ASSUME NEW d \in Calls
                 PROVE  /\ g[d] \in Deciding => d \in k[CallId[d]].requested
                        /\ d \in k[CallId[d]].requested => g[d] \in Deciding \cup {"done"}
                        /\ d \in k[CallId[d]].closed
                              <=> d \in k[CallId[d]].requested /\ g[d] = "done"
                        /\ d \in k[CallId[d]].unanswered <=> g[d] = "asked"
                        /\ g[d] = "approved"
                              => k[CallId[d]].waiting = <<[call |-> d, approved |-> TRUE]>>
                        /\ g[d] = "rejected"
                              => k[CallId[d]].waiting = <<[call |-> d, approved |-> FALSE]>>
                        /\ k[CallId[d]].waiting # <<>> =>
                              \E e \in Calls : CallId[e] = CallId[d] /\ g[e] \in Decided
    BY DEF Correlated
  <2>2. CASE Under(S, CallId[d]) = {}
    <3>1. /\ k[CallId[d]] = h[CallId[d]] /\ g[d] = f[d]
          /\ \A e \in Calls : CallId[e] = CallId[d] => g[e] = f[e]
      BY <1>6, <2>2
    <3>2. QED
      BY <3>1 DEF Correlated
  <2>3. CASE Under(S, CallId[d]) # {}
    <3>1. PICK c \in S : CallId[d] = CallId[c]
      BY <1>7, <2>3
    <3>2. QED
      BY <1>5, <3>1 DEF Deciding, Decided
  <2>4. QED
    BY <2>2, <2>3
<1>9. QED
  BY <1>8 DEF g, k

(* Requests ask for calls with ids under which nothing is to be decided. *)
LEMMA RequestsAsk ==
    ASSUME NEW h \in [Ids -> Correlation], NEW f \in [Calls -> Status],
           NEW S \in SUBSET Calls, Apart(S), Correlated(h, f),
           \A d \in Calls : f[d] \notin Deciding
    PROVE  Correlated(Requests(h, S), With(f, S, "asked"))
<1> DEFINE g == With(f, S, "asked")
           k == Requests(h, S)
<1>1. \A c \in Calls : g[c] = IF c \in S THEN "asked" ELSE f[c]
  BY DEF With
<1>2. \A d \in Calls : h[CallId[d]] \in Correlation /\ h[CallId[d]].waiting = <<>>
  BY Identified DEF Correlated, Deciding
<1>3. ASSUME NEW d \in Calls, Under(S, CallId[d]) = {}
      PROVE  k[CallId[d]] = h[CallId[d]] /\ d \notin S
  BY <1>3, Identified DEF Requests, Under
<1>4. ASSUME NEW c \in S
      PROVE  /\ k[CallId[c]].waiting = <<>>
             /\ k[CallId[c]].requested = h[CallId[c]].requested \cup {c}
             /\ k[CallId[c]].unanswered = h[CallId[c]].unanswered \cup {c}
             /\ k[CallId[c]].closed = h[CallId[c]].closed \ {c}
  <2>1. k[CallId[c]] = OnRequest(h[CallId[c]], c)
    <3>1. Under(S, CallId[c]) = {c} /\ The(Under(S, CallId[c])) = c /\ CallId[c] \in Ids
      BY OneUnder, Identified
    <3>2. QED
      BY <3>1 DEF Requests
  <2>2. Superseded(<<>>, c) = <<>>
    BY DEF Superseded
  <2>3. QED
    BY <1>2, <2>1, <2>2 DEF OnRequest, Correlation
<1>5. \A d \in Calls : Under(S, CallId[d]) # {} => \E c \in S : CallId[d] = CallId[c]
  BY DEF Under
<1>6. \A c \in S, d \in S : CallId[c] = CallId[d] => c = d
  BY DEF Apart
<1> HIDE DEF g, k
<1>7. ASSUME NEW d \in Calls
      PROVE  /\ g[d] \in Deciding => d \in k[CallId[d]].requested
             /\ d \in k[CallId[d]].requested => g[d] \in Deciding \cup {"done"}
             /\ d \in k[CallId[d]].closed <=> d \in k[CallId[d]].requested /\ g[d] = "done"
             /\ d \in k[CallId[d]].unanswered <=> g[d] = "asked"
             /\ g[d] # "approved" /\ g[d] # "rejected"
             /\ k[CallId[d]].waiting = <<>>
  <2>1. CASE Under(S, CallId[d]) = {}
    BY <1>1, <1>2, <1>3, <2>1 DEF Correlated, Deciding, Decided
  <2>2. CASE Under(S, CallId[d]) # {}
    <3>1. PICK c \in S : CallId[d] = CallId[c]
      BY <1>5, <2>2
    <3>2. CASE c = d
      BY <1>1, <1>4, <3>1, <3>2 DEF Deciding
    <3>3. CASE c # d
      <4>1. d \notin S
        BY <1>6, <3>1, <3>3
      <4>2. /\ f[d] \notin Deciding
            /\ d \in h[CallId[d]].closed <=> d \in h[CallId[d]].requested /\ f[d] = "done"
            /\ d \in h[CallId[d]].requested => f[d] \in Deciding \cup {"done"}
            /\ d \notin h[CallId[d]].unanswered
        BY DEF Correlated, Deciding
      <4>3. QED
        BY <1>1, <1>4, <3>1, <3>3, <4>1, <4>2 DEF Deciding, Decided
    <3>4. QED
      BY <3>2, <3>3
  <2>3. QED
    BY <2>1, <2>2
<1>8. Correlated(k, g)
  BY <1>7 DEF Correlated
<1>9. QED
  BY <1>8 DEF g, k

(* Calls that are made, and no more, leave the approvals alone. *)
LEMMA CallsAreCorrelated ==
    ASSUME NEW h, NEW f \in [Calls -> Status], NEW S \in SUBSET Calls,
           NEW s \in {"open", "late"}, Correlated(h, f),
           \A c \in S : f[c] = "absent"
    PROVE  Correlated(h, With(f, S, s))
<1>1. \A c \in Calls : With(f, S, s)[c] = IF c \in S THEN s ELSE f[c]
  BY DEF With
<1>2. \A c \in Calls : With(f, S, s)[c] \in Decided <=> f[c] \in Decided
  BY <1>1 DEF Decided
<1>3. \A c \in S : c \notin h[CallId[c]].requested /\ c \notin h[CallId[c]].closed
                    /\ c \notin h[CallId[c]].unanswered
  BY DEF Correlated, Deciding, Decided
<1> DEFINE g == With(f, S, s)
<1>4. \A c \in Calls : g[c] # f[c] => c \in S /\ g[c] \notin Deciding \cup {"done"}
                                    /\ f[c] \notin Deciding \cup {"done"}
  BY <1>1 DEF Deciding, Decided
<1>5. \A c \in Calls : g[c] \in Decided <=> f[c] \in Decided
  BY <1>2
<1> HIDE DEF g
<1>6. Correlated(h, g)
  <2>1. ASSUME NEW d \in Calls, g[d] = f[d]
        PROVE  /\ g[d] \in Deciding => d \in h[CallId[d]].requested
               /\ d \in h[CallId[d]].requested => g[d] \in Deciding \cup {"done"}
               /\ d \in h[CallId[d]].closed <=> d \in h[CallId[d]].requested /\ g[d] = "done"
               /\ d \in h[CallId[d]].unanswered <=> g[d] = "asked"
    BY <2>1 DEF Correlated
  <2>2. ASSUME NEW d \in Calls, g[d] # f[d]
        PROVE  /\ g[d] \notin Deciding /\ d \notin h[CallId[d]].requested
               /\ d \notin h[CallId[d]].closed /\ d \notin h[CallId[d]].unanswered
    BY <1>3, <1>4, <2>2
  <2>3. ASSUME NEW d \in Calls
        PROVE  /\ g[d] = "approved" => h[CallId[d]].waiting = <<[call |-> d, approved |-> TRUE]>>
               /\ g[d] = "rejected" => h[CallId[d]].waiting = <<[call |-> d, approved |-> FALSE]>>
               /\ h[CallId[d]].waiting # <<>> =>
                     \E e \in Calls : CallId[e] = CallId[d] /\ g[e] \in Decided
    BY <1>4, <1>5 DEF Correlated, Deciding, Decided
  <2>4. QED
    BY <2>1, <2>2, <2>3 DEF Correlated, Deciding, Decided
<1>7. QED
  BY <1>6 DEF g

LEMMA EmptyIsCorrelated == Correlated(NoHistory, NoConversation)
BY Identified DEF Correlated, NoHistory, NoConversation, Deciding, Decided

LEMMA SingleAnswer ==
    ASSUME NEW r
    PROVE  DOMAIN <<r>> = {1} /\ <<r>>[1] = r
OBVIOUS

(* What a request reads in correlated messages. *)
LEMMA ReadingIs ==
    ASSUME NEW h, NEW f \in [Calls -> Status], NEW m \in [Calls -> Status], Correlated(h, f),
           \A c \in Calls : f[c] # "asked" /\ (f[c] \notin Decided => m[c] = f[c])
    PROVE  Reading(m, h) = f
<1>1. ASSUME NEW c \in Calls
      PROVE  Reading(m, h)[c] = f[c]
  <2>1. CASE f[c] = "approved"
    <3>1. h[CallId[c]].waiting = <<[call |-> c, approved |-> TRUE]>>
      BY <2>1 DEF Correlated
    <3>2. Stands(h, c, TRUE)
      BY <3>1, SingleAnswer DEF Stands
    <3>3. QED
      BY <2>1, <3>2 DEF Reading
  <2>2. CASE f[c] = "rejected"
    <3>1. h[CallId[c]].waiting = <<[call |-> c, approved |-> FALSE]>>
      BY <2>2 DEF Correlated
    <3>2. [call |-> c, approved |-> FALSE] # [call |-> c, approved |-> TRUE]
      <4>1. [call |-> c, approved |-> FALSE].approved # [call |-> c, approved |-> TRUE].approved
        OBVIOUS
      <4>2. QED
        BY <4>1
    <3>3. Stands(h, c, FALSE) /\ ~ Stands(h, c, TRUE)
      BY <3>1, <3>2, SingleAnswer DEF Stands
    <3>4. QED
      BY <2>2, <3>3 DEF Reading
  <2>3. CASE f[c] \notin Decided
    <3>1. SUFFICES ASSUME NEW b \in BOOLEAN PROVE ~ Stands(h, c, b)
      BY <2>3 DEF Reading
    <3>2. CASE h[CallId[c]].waiting = <<>>
      BY <3>2 DEF Stands
    <3>3. CASE h[CallId[c]].waiting # <<>>
      <4>1. PICK d \in Calls : CallId[d] = CallId[c] /\ f[d] \in Decided
        BY <3>3 DEF Correlated
      <4>2. c # d /\ \E v \in BOOLEAN : h[CallId[c]].waiting = <<[call |-> d, approved |-> v]>>
        <5>1. c # d
          BY <2>3, <4>1
        <5>2. \/ f[d] = "approved" /\ h[CallId[d]].waiting = <<[call |-> d, approved |-> TRUE]>>
              \/ f[d] = "rejected" /\ h[CallId[d]].waiting = <<[call |-> d, approved |-> FALSE]>>
          BY <4>1 DEF Correlated, Decided
        <5>3. QED
          BY <4>1, <5>1, <5>2
      <4>3. QED
        BY <4>2, SingleAnswer DEF Stands
    <3>4. QED
      BY <3>2, <3>3
  <2>4. QED
    BY <2>1, <2>2, <2>3 DEF Decided
<1>2. QED
  BY <1>1 DEF Reading

(* What a reply says, in the order in which its messages are walked, agrees with
   the conversation once the caller has decided and answered. *)
LEMMA ReplySettles ==
    ASSUME TypeInv, HistoryInv, NEW yes \in SUBSET Asked, NEW again \in Repeatable,
           NEW approved \in BOOLEAN,
           NEW h, h = Results(Responses(Responses(Responses(history, yes, TRUE),
                                                  Asked \ yes, FALSE), again, approved), Hosted),
           NEW f, f = With(With(With(transcript, Hosted, "done"), yes, "approved"),
                           Asked \ yes, "rejected")
    PROVE  Correlated(h, f)
<1> DEFINE no == Asked \ yes
           f1 == With(transcript, yes, "approved")
           h1 == Responses(history, yes, TRUE)
           f2 == With(f1, no, "rejected")
           h2 == Responses(h1, no, FALSE)
<1>1. /\ history \in [Ids -> Correlation] /\ transcript \in [Calls -> Status]
      /\ TRUE \in BOOLEAN /\ FALSE \in BOOLEAN
  BY DEF HistoryInv, HistoryOK, TypeInv, StateOK
<1>2. /\ yes \in SUBSET Where(transcript, "asked") /\ yes \in SUBSET Calls
      /\ no \in SUBSET Calls /\ Hosted \in SUBSET Calls
      /\ \A c \in Hosted : transcript[c] = "open" /\ tool[c] = Host
  BY DEF Asked, Hosted, Hosts, Where
<1>3. Apart({c \in Calls : transcript[c] \in Deciding}) /\ Correlated(history, transcript)
  BY DEF HistoryInv, Apart, Pending
<1>4. /\ Correlated(h1, f1)
      /\ {c \in Calls : f1[c] \in Deciding} = {c \in Calls : transcript[c] \in Deciding}
      /\ \A x \in Ids : h1[x].requested = history[x].requested
  BY <1>1, <1>2, <1>3, ResponsesDecide
<1>5. h1 \in [Ids -> Correlation] /\ f1 \in [Calls -> Status]
  BY <1>1, <1>2, HistoryTypes, WithType DEF Status
<1>6. no \in SUBSET Where(f1, "asked")
  BY DEF With, Where, Asked
<1>7. Apart({c \in Calls : f1[c] \in Deciding})
  BY <1>3, <1>4
<1> HIDE DEF f1, h1
<1>8. /\ Correlated(h2, f2)
      /\ {c \in Calls : f2[c] \in Deciding} = {c \in Calls : f1[c] \in Deciding}
      /\ \A x \in Ids : h2[x].requested = h1[x].requested
  BY <1>1, <1>4, <1>5, <1>6, <1>7, ResponsesDecide
<1>9. h2 \in [Ids -> Correlation] /\ f2 \in [Calls -> Status]
  BY <1>1, <1>2, <1>5, HistoryTypes, WithType DEF Status
<1>10. \A c \in Calls : c \notin Asked => f2[c] = transcript[c]
  BY <1>2 DEF f1, With, Asked
<1> HIDE DEF f2, h2
<1>11. Responses(h2, again, approved) = h2
  <2>1. ASSUME NEW c \in again
        PROVE  c \in Calls /\ c \in h2[CallId[c]].closed
    <3>1. /\ c \in Calls /\ transcript[c] = "done" /\ c \in history[CallId[c]].requested
          /\ c \notin Asked
      BY DEF Repeatable, Where, Asked
    <3>2. c \in h2[CallId[c]].requested /\ f2[c] = "done"
      BY <1>4, <1>8, <1>10, <3>1, Identified
    <3>3. QED
      BY <1>8, <3>1, <3>2 DEF Correlated
  <2>2. QED
    BY <1>9, <2>1, RepeatsChangeNothing
<1>12. Correlated(Results(h2, Hosted), With(f2, Hosted, "done"))
  <2>1. Apart(Hosted)
    BY <1>2 DEF HistoryInv, Apart, Pending
  <2>2. \A c \in Hosted, d \in Calls : ~ (CallId[c] = CallId[d] /\ f2[d] \in Deciding)
    <3>1. SUFFICES ASSUME NEW c \in Hosted, NEW d \in Calls, CallId[c] = CallId[d],
                          f2[d] \in Deciding
                   PROVE  FALSE
      OBVIOUS
    <3>2. transcript[d] \in Deciding
      BY <1>4, <1>8, <3>1
    <3>3. c = d
      BY <1>2, <3>1, <3>2 DEF HistoryInv, Apart, Pending
    <3>4. QED
      BY <1>2, <3>2, <3>3 DEF Deciding, Decided
  <2>3. QED
    BY <1>2, <1>8, <1>9, <2>1, <2>2, ResultsSettle
<1>13. With(f2, Hosted, "done") = f
  BY <1>2 DEF f2, f1, With, Asked, Where
<1>14. h = Results(h2, Hosted)
  BY <1>11 DEF h2, h1
<1>15. QED
  BY <1>12, <1>13, <1>14

(* How requests begin: an unrelated one with no conversation, a reply with what
   the caller decided now, whatever it repeats, and the others as before. *)
LEMMA FreshBegins ==
    ASSUME Fresh
    PROVE  Begin(NoConversation, None) /\ said' = NoHistory
<1>1. Reading(NoConversation, NoHistory) = NoConversation
  BY EmptyIsCorrelated, ReadingIs DEF NoConversation, Status, Decided
<1>2. QED
  BY <1>1 DEF Fresh, Request

LEMMA ReplyBegins ==
    ASSUME TypeInv, HistoryInv, Reply
    PROVE  \E yes \in SUBSET Where(transcript, "asked") :
              LET f == With(With(With(transcript, Hosts(tool, Where(transcript, "open")), "done"),
                                 yes, "approved"),
                            Where(transcript, "asked") \ yes, "rejected")
              IN  Begin(f, None) /\ Correlated(said', f)
<1>1. PICK yes \in SUBSET Asked, again \in Repeatable, d \in BOOLEAN :
         Request(With(transcript, Hosted, "done"),
                 Results(Responses(Responses(Responses(history, yes, TRUE), Asked \ yes, FALSE),
                                   again, d), Hosted), None)
  BY DEF Reply
<1> DEFINE h == Results(Responses(Responses(Responses(history, yes, TRUE), Asked \ yes, FALSE),
                                  again, d), Hosted)
           m == With(transcript, Hosted, "done")
           f == With(With(m, yes, "approved"), Asked \ yes, "rejected")
<1>2. Correlated(h, f)
  BY ReplySettles
<1>3. m \in [Calls -> Status] /\ f \in [Calls -> Status]
  BY WithType DEF TypeInv, StateOK, Status
<1>4. \A c \in Calls : /\ f[c] # "asked" /\ (f[c] \notin Decided => m[c] = f[c])
  BY DEF With, Asked, Where, Decided
<1> HIDE DEF h, m, f
<1>5. Reading(m, h) = f
  BY <1>2, <1>3, <1>4, ReadingIs
<1>6. Begin(f, None) /\ said' = h
  BY <1>1, <1>5 DEF Request, m, h
<1>7. QED
  BY <1>2, <1>6 DEF f, m, Asked, Hosted

LEMMA OthersBegin ==
    ASSUME TypeInv, HistoryInv, Turn \/ Poll
    PROVE  /\ Turn => Begin(transcript, None)
           /\ Poll => Begin(transcript, polling)
           /\ said' = history /\ Where(transcript, "asked") = {} /\ Hosted = {}
<1>1. transcript \in [Calls -> Status] /\ history \in [Ids -> Correlation]
      /\ Correlated(history, transcript)
  BY DEF TypeInv, StateOK, HistoryOK, HistoryInv
<1>2. Reading(transcript, history) = transcript /\ Where(transcript, "asked") = {} /\ Hosted = {}
  <2>1. Asked = {} /\ Hosted = {}
    BY DEF Turn, Poll, HistoryInv
  <2>2. QED
    BY <1>1, <2>1, ReadingIs DEF Where, Asked
<1>3. ASSUME NEW again \in Repeatable, NEW d
      PROVE  Responses(history, again, d) = history
  <2>1. \A c \in again : c \in Calls /\ c \in history[CallId[c]].closed
    BY <1>1 DEF Repeatable, Where, Correlated
  <2>2. QED
    BY <1>1, <2>1, RepeatsChangeNothing
<1>4. CASE Turn
  <2>1. PICK again \in Repeatable, d \in BOOLEAN :
           Request(transcript, Responses(history, again, d), None)
    BY <1>4 DEF Turn
  <2>2. Request(transcript, history, None)
    BY <1>3, <2>1
  <2>3. Turn => Begin(transcript, None) /\ said' = history
    BY <1>2, <2>2 DEF Request
  <2>4. Poll => Begin(transcript, polling)
    BY <1>2 DEF Poll, Request
  <2>5. QED
    BY <1>2, <1>4, <2>3, <2>4
<1>5. CASE ~ Turn
  BY <1>2, <1>5 DEF Poll, Request
<1>6. QED
  BY <1>4, <1>5

-----------------------------------------------------------------------------
(* A deferred batch and the caller's calls it waits for appear in a
   conversation together, the batch without results. *)
Together(f) == (\E h \in deferred.hosts : f[h] # "absent")
                  => \A c \in deferred.calls : f[c] = "open"

(* The calls made so far are the first ones. *)
DrawnInv == \E k \in 0..MaxCalls : Drawn = 1..k

(* What the session holds back. *)
DeferredInv ==
    deferred # None =>
       /\ deferred.hosts # {} /\ deferred.hosts \cup deferred.calls \subseteq Drawn
       /\ \A c \in deferred.calls : tool[c] # Host
       /\ Together(transcript) /\ Together(conv)
       /\ pc # "siblings"
       /\ pc = "batch" => batch \cap (deferred.hosts \cup deferred.calls) = {}

(* The calls that are about to run are allowed to. *)
TodoInv ==
    /\ pc = "replay" => \A c \in todo : conv[c] = "approved"
    /\ pc \in {"siblings", "batch"} =>
          \A c \in todo : conv[c] = "open" /\ c \notin Gated(tool, Calls, live)

ApprovalInv == TypeInv /\ DrawnInv /\ DeferredInv /\ TodoInv

(* The calls of a response are new ones, and complete an initial segment. *)
LEMMA NextCallsAreNew ==
    ASSUME DrawnInv, NEW n \in 1..MaxBatch, NextCalls(n) \subseteq Calls
    PROVE  /\ NextCalls(n) \cap Drawn = {}
           /\ \E k \in 0..MaxCalls : Drawn \cup NextCalls(n) = 1..k
<1>1. PICK k \in 0..MaxCalls : Drawn = 1..k
  BY DEF DrawnInv
<1>2. n \in Nat \ {0} /\ MaxCalls \in Nat /\ k \in Nat
  BY ConfigAssumption DEF ConfigAssumption
<1>3. Cardinality(1..k) = k
  BY <1>2, FS_Interval
<1>4. NextCalls(n) = (k + 1)..(k + n)
  BY <1>1, <1>3 DEF NextCalls
<1>5. k + n \in NextCalls(n)
  BY <1>2, <1>4
<1>6. k + n \in 0..MaxCalls
  BY <1>5, <1>2 DEF Calls
<1>7. QED
  BY <1>1, <1>2, <1>4, <1>6

(* A response with new calls leaves what the session holds back as it is. *)
LEMMA NewCallsKeepDeferred ==
    ASSUME ApprovalInv, NEW n \in 1..MaxBatch, NextCalls(n) \subseteq Calls,
           NEW names \in Named(NextCalls(n)), tool' = names
    PROVE  /\ DrawnInv' /\ Drawn \subseteq Drawn' /\ NextCalls(n) \subseteq Drawn'
           /\ \A c \in Drawn : tool'[c] = tool[c] /\ c \notin NextCalls(n)
<1>1. /\ names \in [Calls -> Requested \cup {None}]
      /\ \A c \in NextCalls(n) : names[c] \in Requested
      /\ \A c \in Calls \ NextCalls(n) : names[c] = tool[c]
  BY NamedCalls DEF ApprovalInv, TypeInv
<1>2. Drawn' = Drawn \cup NextCalls(n)
  BY <1>1, Parameters DEF Drawn
<1>3. Drawn \subseteq Calls
  BY DEF Drawn
<1>4. QED
  BY <1>1, <1>2, <1>3, NextCallsAreNew DEF ApprovalInv, DrawnInv

(* Adding what a response says of new calls to a conversation. *)
LEMMA TogetherWithNewCalls ==
    ASSUME NEW f \in [Calls -> Status], NEW S, NEW s, deferred # None, Together(f),
           deferred.hosts \cup deferred.calls \subseteq Calls \ S
    PROVE  Together(With(f, S, s))
BY DEF Together, With

(* An approval reply, or a poll, extends a conversation that the deferred batch
   is in, or is not in, as a whole; if it is due, its calls are open. *)
LEMMA BeginKeepsApproval ==
    ASSUME ApprovalInv, NEW c \in [Calls -> Status], NEW operation \in {"on", "off", None},
           Begin(c, operation), deferred # None => Together(c)
    PROVE  ApprovalInv'
<1>1. TypeInv'
  BY BeginKeepsTypes DEF ApprovalInv
<1> USE DEF ApprovalInv
<1>2. UNCHANGED <<tool, transcript>> /\ conv' = c /\ pc' \in {"siblings", "top"}
  BY DEF Begin, world, caller
<1>3. DrawnInv'
  BY <1>2 DEF DrawnInv, Drawn
<1> DEFINE ready == deferred # None /\ \A h \in deferred.hosts : c[h] = "done"
<1>4. CASE ready
  <2>1. deferred' = None /\ pc' = "siblings" /\ todo' = Runnable(deferred.calls, live')
    BY <1>4 DEF Begin, StillDeferred
  <2>2. \A x \in deferred.calls : c[x] = "open"
    BY <1>4 DEF DeferredInv, Together
  <2>3. \A x \in todo' : x \notin Gated(tool, Calls, live')
    BY <2>1 DEF Runnable, Gated
  <2>4. todo' \subseteq deferred.calls
    BY <2>1 DEF Runnable
  <2>5. TodoInv'
    BY <1>2, <2>1, <2>2, <2>3, <2>4 DEF TodoInv, Gated
  <2>6. QED
    BY <1>1, <1>3, <2>1, <2>5 DEF DeferredInv
<1>5. CASE ~ ready
  <2>1. deferred' = deferred /\ pc' = "top"
    BY <1>5 DEF Begin, StillDeferred
  <2>2. DeferredInv'
    BY <1>2, <2>1 DEF DeferredInv, Together, Drawn
  <2>3. QED
    BY <1>1, <1>3, <2>1, <2>2 DEF TodoInv
<1>6. QED
  BY <1>4, <1>5

(* An answer to the caller keeps what the session holds back. *)
LEMMA AnswerKeepsApproval ==
    ASSUME DeferredInv, NEW c \in [Calls -> Status], Answer(c), UNCHANGED deferred,
           Drawn \subseteq Drawn', \A x \in Drawn : tool'[x] = tool[x],
           TypeInv, deferred # None => Together(c)
    PROVE  DeferredInv' /\ TodoInv'
<1>1. pc' = "idle" /\ transcript' = c /\ conv' = NoConversation
  BY DEF Answer, Return
<1>2. deferred # None => deferred.hosts \subseteq Calls
  BY DEF TypeInv
<1>3. deferred' # None => Together(c)' /\ Together(conv)'
  BY <1>1, <1>2 DEF Together, NoConversation
<1>4. QED
  BY <1>1, <1>3 DEF DeferredInv, TodoInv, Together

(* A request that ends without an answer does so as well. *)
LEMMA ErrKeepsApproval ==
    ASSUME ApprovalInv, Return, UNCHANGED <<world, tool, transcript, deferred>>
    PROVE  DrawnInv' /\ DeferredInv' /\ TodoInv'
<1>1. pc' = "idle" /\ conv' = NoConversation
  BY DEF Return
<1>2. deferred # None => deferred.hosts \subseteq Calls
  BY DEF ApprovalInv, TypeInv
<1>3. DrawnInv'
  BY DEF ApprovalInv, DrawnInv, Drawn
<1>4. QED
  BY <1>1, <1>2, <1>3
     DEF ApprovalInv, DeferredInv, TodoInv, Together, Drawn, NoConversation

(* The answers of the caller touch neither half of a deferred batch alone. *)
LEMMA ReplyKeepsTogether ==
    ASSUME ApprovalInv, deferred # None, NEW yes \in SUBSET Where(transcript, "asked")
    PROVE  Together(With(With(With(transcript, Hosts(tool, Where(transcript, "open")), "done"),
                              yes, "approved"),
                         Where(transcript, "asked") \ yes, "rejected"))
<1> DEFINE hosted == Hosts(tool, Where(transcript, "open"))
           no == Where(transcript, "asked") \ yes
           f == With(With(With(transcript, hosted, "done"), yes, "approved"), no, "rejected")
<1>1. /\ deferred.hosts \cup deferred.calls \subseteq Calls
      /\ \A c \in deferred.calls : tool[c] # Host
      /\ Together(transcript)
  BY DEF ApprovalInv, TypeInv, DeferredInv
<1>2. \A c \in Calls : f[c] # "absent" => transcript[c] # "absent"
  BY DEF With, Where, Hosts
<1>3. \A c \in Calls : transcript[c] = "open" /\ tool[c] # Host => f[c] = "open"
  BY DEF With, Where, Hosts
<1>4. Together(f)
  BY <1>1, <1>2, <1>3 DEF Together
<1>5. QED
  BY <1>4

LEMMA ModelCallsKeepsApproval ==
    ASSUME ApprovalInv, ModelCalls
    PROVE  DrawnInv' /\ DeferredInv' /\ TodoInv'
<1>1. PICK n \in 1..MaxBatch : /\ NextCalls(n) \subseteq Calls
         /\ \E names \in Named(NextCalls(n)) :
              /\ tool' = names
              /\ \/ DropCalls(NextCalls(n)) \/ AskApproval(NextCalls(n), names)
                 \/ DeferSiblings(NextCalls(n), names) \/ RunBatch(NextCalls(n), names)
  BY DEF ModelCalls
<1> DEFINE calls == NextCalls(n)
<1>2. PICK names \in Named(calls) :
              /\ tool' = names
              /\ \/ DropCalls(calls) \/ AskApproval(calls, names)
                 \/ DeferSiblings(calls, names) \/ RunBatch(calls, names)
  BY <1>1
<1>3. calls \subseteq Calls /\ Hosts(names, calls) \subseteq calls
  BY <1>1 DEF Hosts
<1>4. /\ DrawnInv' /\ Drawn \subseteq Drawn' /\ calls \subseteq Drawn'
      /\ \A c \in Drawn : tool'[c] = tool[c] /\ c \notin calls
  BY <1>1, <1>2, NewCallsKeepDeferred
<1>5. /\ TypeInv /\ DeferredInv /\ conv \in [Calls -> Status]
      /\ deferred # None => deferred.hosts \cup deferred.calls \subseteq Drawn /\ Together(conv)
      /\ Drawn \subseteq Calls
  BY DEF ApprovalInv, TypeInv, StateOK, DeferredInv, Drawn
<1>6. /\ With(conv, calls, "open") \in [Calls -> Status]
      /\ With(conv, calls, "asked") \in [Calls -> Status]
      /\ With(With(conv, calls, "asked"), Hosts(names, calls), "open") \in [Calls -> Status]
  BY <1>5, WithType DEF Status
<1>7. deferred # None =>
         /\ Together(With(conv, calls, "open"))
         /\ Together(With(With(conv, calls, "asked"), Hosts(names, calls), "open"))
  <2>1. SUFFICES ASSUME deferred # None
                 PROVE  /\ Together(With(conv, calls, "open"))
                        /\ Together(With(With(conv, calls, "asked"), Hosts(names, calls), "open"))
    OBVIOUS
  <2>2. deferred.hosts \cup deferred.calls \subseteq Calls \ calls
    BY <2>1, <1>4, <1>5
  <2>3. Together(With(conv, calls, "open")) /\ Together(With(conv, calls, "asked"))
    BY <2>1, <2>2, <1>5, TogetherWithNewCalls
  <2>4. deferred.hosts \cup deferred.calls \subseteq Calls \ Hosts(names, calls)
    BY <2>2, <1>3
  <2>5. QED
    BY <2>1, <2>3, <2>4, <1>6, TogetherWithNewCalls
<1> HIDE DEF calls
<1>8. CASE DropCalls(calls)
  <2>1. UNCHANGED <<transcript, deferred>> /\ conv' = conv /\ pc' = "failsafe"
    BY <1>8 DEF DropCalls, Stripped, caller
  <2>2. QED
    BY <2>1, <1>4, <1>5 DEF DeferredInv, TodoInv, Together
<1>9. CASE AskApproval(calls, names)
  BY <1>9, <1>4, <1>5, <1>6, <1>7, AnswerKeepsApproval DEF AskApproval, Pause
<1>10. CASE DeferSiblings(calls, names)
  <2>1. transcript' = With(conv, calls, "open") /\ conv' = NoConversation /\ pc' = "idle"
    BY <1>10 DEF DeferSiblings, Pause, Answer, Return
  <2>2. /\ deferred' = [calls |-> Siblings(calls, names), hosts |-> Hosts(names, calls)]
        /\ Hosts(names, calls) # {}
    BY <1>10 DEF DeferSiblings, Mixed
  <2>3. Siblings(calls, names) \subseteq calls /\ \A c \in Siblings(calls, names) : names[c] # Host
    BY DEF Siblings, Hosts
  <2>4. \A c \in deferred'.calls : transcript'[c] = "open"
    BY <2>1, <2>2, <2>3, <1>3 DEF With
  <2>5. \A h \in deferred'.hosts : conv'[h] = "absent"
    BY <2>1, <2>2, <1>3 DEF NoConversation
  <2>6. QED
    BY <2>1, <2>2, <2>3, <2>4, <2>5, <1>2, <1>3, <1>4 DEF DeferredInv, TodoInv, Together
<1>11. CASE RunBatch(calls, names)
  <2>1. /\ UNCHANGED <<transcript, deferred, live>> /\ conv' = With(conv, calls, "open")
        /\ pc' = "batch" /\ batch' = calls /\ todo' = calls \ Hosts(names, calls)
    BY <1>11 DEF RunBatch, caller, session
  <2>2. Gated(names, calls, live) = {}
    BY <1>11 DEF RunBatch, NeedsApproval
  <2>3. \A c \in todo' : conv'[c] = "open"
    BY <2>1, <1>3 DEF With
  <2>4. \A c \in todo' : c \notin Gated(tool', Calls, live')
    BY <2>1, <2>2, <1>2 DEF Gated
  <2>5. deferred' # None => Together(transcript)' /\ Together(conv)'
    BY <2>1, <1>5, <1>7 DEF DeferredInv, Together
  <2>6. DeferredInv'
    BY <2>1, <2>5, <1>4, <1>5 DEF DeferredInv
  <2>7. QED
    BY <2>1, <2>3, <2>4, <2>6, <1>4 DEF TodoInv
<1>12. QED
  BY <1>2, <1>8, <1>9, <1>10, <1>11

LEMMA ApprovalInvInit ==
    ASSUME Init
    PROVE  ApprovalInv
<1>1. TypeInv
  BY TypeInvInit
<1>2. Drawn = 1..0 /\ 0 \in 0..MaxCalls
  BY Parameters DEF Init, Drawn
<1>3. QED
  BY <1>1, <1>2 DEF Init, ApprovalInv, DrawnInv, DeferredInv, TodoInv

LEMMA ApprovalInvStep ==
    ASSUME ApprovalInv, HistoryInv, [Next]_vars
    PROVE  ApprovalInv'
<1>1. TypeInv /\ TypeInv' /\ DrawnInv /\ DeferredInv /\ TodoInv
  BY TypeInvStep DEF ApprovalInv
<1>2. CASE Fresh
  BY <1>2, FreshBegins, BeginKeepsApproval
     DEF NoConversation, Status, Together, ApprovalInv, TypeInv
<1>3. CASE Reply
  <2>1. PICK yes \in SUBSET Where(transcript, "asked") :
           Begin(With(With(With(transcript, Hosts(tool, Where(transcript, "open")), "done"),
                           yes, "approved"),
                      Where(transcript, "asked") \ yes, "rejected"), None)
    BY <1>1, <1>3, ReplyBegins
  <2>2. QED
    BY <2>1, <1>1, ReplyType, ReplyKeepsTogether, BeginKeepsApproval
<1>4. CASE Turn \/ Poll
  BY <1>1, <1>4, OthersBegin, BeginKeepsApproval DEF TypeInv, StateOK, DeferredInv
<1>5. CASE Drop
  BY <1>1, <1>5, ErrKeepsApproval DEF Drop, session, ApprovalInv
<1>6. CASE Err
  BY <1>1, <1>6, ErrKeepsApproval DEF Err, ApprovalInv
<1>7. CASE Tick
  BY <1>1, <1>7 DEF Tick, caller, session, local, ApprovalInv, DrawnInv, Drawn, DeferredInv,
                    Together, TodoInv
<1>8. ASSUME NEW c \in Calls, Execute(c) \/ Refuse(c)
      PROVE  ApprovalInv'
  <2>1. /\ UNCHANGED <<tool, transcript, deferred, pc, live, conv, batch>>
        /\ todo' \subseteq todo
    BY <1>8 DEF Execute, Refuse, caller, session
  <2>2. QED
    BY <1>1, <2>1 DEF ApprovalInv, DrawnInv, Drawn, DeferredInv, Together, TodoInv
<1>9. CASE SiblingsDone
  <2>1. deferred = None /\ deferred' = None /\ tool' = tool /\ pc' \in {"idle", "top"}
    BY <1>1, <1>9 DEF SiblingsDone, DeferredInv, Pause, Answer, Return
  <2>2. QED
    BY <1>1, <2>1 DEF ApprovalInv, DrawnInv, Drawn, DeferredInv, TodoInv
<1>10. CASE IterationLimit
  BY <1>1, <1>10 DEF IterationLimit, Failsafe, caller, ApprovalInv, DrawnInv, Drawn,
                     DeferredInv, Together, TodoInv
<1>11. CASE Top
  <2>1. UNCHANGED <<tool, transcript, deferred, conv>> /\ pc' = "replay"
    BY <1>11 DEF Top, caller, session
  <2>2. todo' \subseteq Where(conv, "approved")
    BY <1>11 DEF Top
  <2>3. QED
    BY <1>1, <2>1, <2>2 DEF ApprovalInv, DrawnInv, Drawn, DeferredInv, Together, TodoInv, Where
<1>12. CASE ReplayDone
  <2>1. /\ UNCHANGED <<tool, transcript, deferred>> /\ conv' = Resolved
        /\ pc' \in {"model", "failsafe"}
    BY <1>12 DEF ReplayDone, Failsafe, caller, session
  <2>2. conv \in [Calls -> Status]
    BY <1>1 DEF TypeInv, StateOK
  <2>3. \A c \in Calls : /\ conv'[c] = "absent" <=> conv[c] = "absent"
                         /\ conv[c] = "open" => conv'[c] = "open"
    BY <2>1, <2>2 DEF Resolved, With, Where
  <2>4. deferred # None => deferred.hosts \cup deferred.calls \subseteq Calls
    BY <1>1 DEF TypeInv
  <2>5. deferred # None => Together(conv)'
    BY <1>1, <2>1, <2>3, <2>4 DEF DeferredInv, Together
  <2>6. DeferredInv'
    BY <1>1, <2>1, <2>5 DEF DeferredInv, Together, Drawn
  <2>7. QED
    BY <1>1, <2>1, <2>6 DEF ApprovalInv, DrawnInv, Drawn, TodoInv
<1>13. CASE BatchDone
  <2> DEFINE done == batch \ Hosts(tool, batch)
             answered == With(conv, done, "done")
  <2>1. conv \in [Calls -> Status] /\ answered \in [Calls -> Status]
    BY <1>1, WithType DEF TypeInv, StateOK, Status
  <2>2. UNCHANGED <<tool, deferred>> /\ DrawnInv'
    BY <1>1, <1>13 DEF BatchDone, DrawnInv, Drawn
  <2>3. deferred # None => deferred.hosts \cup deferred.calls \subseteq Calls \ done
    BY <1>1, <1>13 DEF BatchDone, DeferredInv, TypeInv
  <2>4. deferred # None => Together(answered)
    BY <1>1, <2>1, <2>3, TogetherWithNewCalls DEF DeferredInv
  <2> HIDE DEF done
  <2>5. CASE Finish(answered)
    BY <1>1, <2>1, <2>2, <2>4, <2>5, AnswerKeepsApproval DEF Finish, ApprovalInv, Drawn
  <2>6. CASE pc' = "top" /\ conv' = answered /\ UNCHANGED caller
    <3>1. DeferredInv'
      BY <1>1, <2>2, <2>4, <2>6 DEF DeferredInv, Together, Drawn, caller
    <3>2. QED
      BY <1>1, <2>2, <2>6, <3>1 DEF ApprovalInv, TodoInv
  <2>7. QED
    BY <1>13, <2>5, <2>6 DEF BatchDone, done
<1>14. CASE ModelPending
  BY <1>1, <1>14, AnswerKeepsApproval
     DEF ModelPending, HandBack, TypeInv, StateOK, DeferredInv, ApprovalInv, DrawnInv, Drawn
<1>15. CASE ModelAnswers
  BY <1>1, <1>15, AnswerKeepsApproval
     DEF ModelAnswers, Finish, TypeInv, StateOK, DeferredInv, ApprovalInv, DrawnInv, Drawn
<1>16. CASE ModelCalls
  BY <1>1, <1>16, ModelCallsKeepsApproval DEF ApprovalInv
<1>17. CASE FailsafeReturnsCalls
  <2>1. PICK n \in 1..MaxBatch : /\ NextCalls(n) \subseteq Calls
         /\ \E names \in Named(NextCalls(n)) :
              LET hosts == Hosts(names, NextCalls(n))
              IN  /\ tool' = names
                  /\ Finish(With(With(conv, hosts, "open"), NextCalls(n) \ hosts, "late"))
    BY <1>17 DEF FailsafeReturnsCalls
  <2>2. PICK names \in Named(NextCalls(n)) :
           /\ tool' = names
           /\ Finish(With(With(conv, Hosts(names, NextCalls(n)), "open"),
                          NextCalls(n) \ Hosts(names, NextCalls(n)), "late"))
    BY <2>1
  <2> DEFINE hosts == Hosts(names, NextCalls(n))
             others == NextCalls(n) \ hosts
             answered == With(With(conv, hosts, "open"), others, "late")
  <2>3. /\ DrawnInv' /\ Drawn \subseteq Drawn'
        /\ \A c \in Drawn : tool'[c] = tool[c] /\ c \notin NextCalls(n)
    BY <2>1, <2>2, NewCallsKeepDeferred
  <2>4. /\ conv \in [Calls -> Status] /\ With(conv, hosts, "open") \in [Calls -> Status]
        /\ answered \in [Calls -> Status]
    BY <1>1, WithType DEF TypeInv, StateOK, Status
  <2>5. deferred # None =>
           /\ deferred.hosts \cup deferred.calls \subseteq Calls \ hosts
           /\ deferred.hosts \cup deferred.calls \subseteq Calls \ others
    BY <1>1, <2>3 DEF DeferredInv, TypeInv, Hosts
  <2>6. deferred # None => Together(With(conv, hosts, "open"))
    BY <1>1, <2>4, <2>5, TogetherWithNewCalls DEF DeferredInv
  <2>7. deferred # None => Together(answered)
    BY <2>4, <2>5, <2>6, TogetherWithNewCalls
  <2>8. Answer(answered) /\ UNCHANGED deferred
    BY <1>17, <2>2 DEF FailsafeReturnsCalls, Finish
  <2> HIDE DEF answered
  <2>9. DeferredInv' /\ TodoInv'
    BY <1>1, <2>3, <2>4, <2>7, <2>8, AnswerKeepsApproval
  <2>10. QED
    BY <1>1, <2>3, <2>9 DEF ApprovalInv
<1>18. CASE UNCHANGED vars
  BY <1>1, <1>18 DEF vars, caller, session, local, ApprovalInv, DrawnInv, Drawn, DeferredInv,
                     Together, TodoInv
<1>19. QED
  BY <1>2, <1>3, <1>4, <1>5, <1>6, <1>7, <1>8, <1>9, <1>10, <1>11, <1>12, <1>13, <1>14,
     <1>15, <1>16, <1>17, <1>18
     DEF Next, ModelFails, Terminate

(* What a conversation says of a call that needs no answer any more. *)
Settled == {"absent", "done", "late"}

(* A deferred batch is in the caller's conversation with all of the caller's
   calls unanswered, or not at all; a request that leaves it deferred works on a
   conversation without it. *)
HeldInv ==
    deferred # None =>
       /\ \A h \in deferred.hosts : tool[h] = Host /\ conv[h] = "absent"
       /\ \/ \A h \in deferred.hosts : transcript[h] = "absent"
          \/ polling = None /\ \A h \in deferred.hosts : transcript[h] = "open"

(* The approvals of a conversation: requested of a caller, who is no poller, and
   answered in a request until its loop resolves them, which it does before it
   gives up: their answers start a new count of iterations. *)
AskedInv ==
    /\ \A c \in Calls : transcript[c] \in Settled \cup {"asked", "open"}
    /\ polling # None => Where(transcript, "asked") = {}
    /\ deferred # None /\ (\E h \in deferred.hosts : transcript[h] # "absent")
          => Where(transcript, "asked") = {}
    /\ \A c \in Calls : conv[c] \in Settled \cup
          (IF pc \in {"top", "replay"} THEN {"approved", "rejected", "open"} ELSE {"open"})
    /\ pc = "top" /\ Where(conv, "approved") \cup Where(conv, "rejected") # {}
          => budget.iterations < MaxIterations

HoldInv == ApprovalInv /\ HeldInv /\ AskedInv

(* A response of the model, or to the failsafe, with calls: new ones, as many as
   a batch may hold, and at least one. *)
LEMMA ResponseCalls ==
    ASSUME ApprovalInv, ModelCalls \/ FailsafeReturnsCalls
    PROVE  \E calls \in SUBSET Calls, names \in [Calls -> Requested \cup {None}] :
              /\ tool' = names /\ calls # {} /\ calls \cap Drawn = {} /\ Apart(calls)
              /\ \A c \in calls : names[c] \in Requested
              /\ IsFiniteSet(calls) /\ Cardinality(calls) <= MaxBatch
              /\ Drawn \subseteq Drawn' /\ \A c \in Drawn : tool'[c] = tool[c]
              /\ \/ /\ ModelCalls
                    /\ \/ DropCalls(calls) \/ AskApproval(calls, names)
                       \/ DeferSiblings(calls, names) \/ RunBatch(calls, names)
                 \/ /\ FailsafeReturnsCalls
                    /\ Finish(With(With(conv, Hosts(names, calls), "open"),
                                   calls \ Hosts(names, calls), "late"))
<1>1. PICK n \in 1..MaxBatch :
         /\ NextCalls(n) \subseteq Calls /\ Apart(NextCalls(n))
         /\ \E names \in Named(NextCalls(n)) :
              /\ tool' = names
              /\ \/ /\ ModelCalls
                    /\ \/ DropCalls(NextCalls(n)) \/ AskApproval(NextCalls(n), names)
                       \/ DeferSiblings(NextCalls(n), names) \/ RunBatch(NextCalls(n), names)
                 \/ /\ FailsafeReturnsCalls
                    /\ Finish(With(With(conv, Hosts(names, NextCalls(n)), "open"),
                                   NextCalls(n) \ Hosts(names, NextCalls(n)), "late"))
  BY DEF ModelCalls, FailsafeReturnsCalls
<1> DEFINE calls == NextCalls(n)
<1>2. PICK names \in Named(calls) :
              /\ tool' = names
              /\ \/ /\ ModelCalls
                    /\ \/ DropCalls(calls) \/ AskApproval(calls, names)
                       \/ DeferSiblings(calls, names) \/ RunBatch(calls, names)
                 \/ /\ FailsafeReturnsCalls
                    /\ Finish(With(With(conv, Hosts(names, calls), "open"),
                                   calls \ Hosts(names, calls), "late"))
  BY <1>1
<1>3. /\ Drawn \subseteq Drawn' /\ calls \cap Drawn = {}
      /\ \A c \in Drawn : tool'[c] = tool[c]
  BY <1>1, <1>2, NewCallsKeepDeferred
<1>4. names \in [Calls -> Requested \cup {None}] /\ \A c \in calls : names[c] \in Requested
  BY <1>1, <1>2, NamedCalls DEF ApprovalInv, TypeInv
<1>5. calls # {} /\ IsFiniteSet(calls) /\ Cardinality(calls) <= MaxBatch
  <2>1. PICK k \in 0..MaxCalls : Drawn = 1..k
    BY DEF ApprovalInv, DrawnInv
  <2>2. n \in Nat \ {0} /\ k \in Nat /\ MaxBatch \in Nat /\ n <= MaxBatch
    BY ConfigAssumption DEF ConfigAssumption
  <2>3. Cardinality(1..k) = k
    BY <2>2, FS_Interval
  <2>4. calls = (k + 1)..(k + n)
    BY <2>1, <2>3 DEF NextCalls
  <2>5. IsFiniteSet((k + 1)..(k + n)) /\ Cardinality((k + 1)..(k + n)) = n
    BY <2>2, FS_Interval
  <2>6. k + n \in (k + 1)..(k + n)
    BY <2>2
  <2> HIDE DEF calls
  <2>7. QED
    BY <2>2, <2>4, <2>5, <2>6
<1> HIDE DEF calls
<1>6. calls \in SUBSET Calls /\ Apart(calls)
  BY <1>1 DEF calls
<1>7. QED
  BY <1>2, <1>3, <1>4, <1>5, <1>6

(* An answer without the calls that the session holds back. *)
LEMMA AnswerKeepsHold ==
    ASSUME HoldInv, NEW f \in [Calls -> Status], Answer(f), UNCHANGED deferred,
           \A x \in Drawn : tool'[x] = tool[x],
           deferred # None => \A h \in deferred.hosts : f[h] = "absent",
           \A c \in Calls : f[c] \in Settled \cup {"asked", "open"},
           polling' # None => Where(f, "asked") = {}
    PROVE  HeldInv' /\ AskedInv'
<1>1. pc' = "idle" /\ transcript' = f /\ conv' = NoConversation
  BY DEF Answer, Return
<1>2. deferred # None => deferred.hosts \subseteq Drawn /\ deferred.hosts \subseteq Calls
  BY DEF HoldInv, ApprovalInv, DeferredInv, TypeInv
<1>3. \A c \in Calls : conv'[c] = "absent"
  BY <1>1 DEF NoConversation
<1>4. HeldInv'
  BY <1>1, <1>2, <1>3 DEF HoldInv, HeldInv
<1>5. AskedInv'
  BY <1>1, <1>2, <1>3 DEF AskedInv, Where, Settled
<1>6. QED
  BY <1>4, <1>5

(* The end of a request without an answer. *)
LEMMA ErrKeepsHold ==
    ASSUME HoldInv, Return, UNCHANGED <<tool, transcript, polling, deferred>>
    PROVE  HeldInv' /\ AskedInv'
<1>1. pc' = "idle" /\ \A c \in Calls : conv'[c] = "absent"
  BY DEF Return, NoConversation
<1>2. deferred # None => deferred.hosts \subseteq Calls
  BY DEF HoldInv, ApprovalInv, TypeInv
<1>3. QED
  BY <1>1, <1>2 DEF HoldInv, HeldInv, AskedInv, Where, Settled

(* The start of a request with a conversation in which the deferred batch is due
   or is not. *)
LEMMA BeginKeepsHold ==
    ASSUME HoldInv, NEW f \in [Calls -> Status], NEW operation, Begin(f, operation),
           deferred # None => \/ \A h \in deferred.hosts : f[h] = "absent"
                              \/ \A h \in deferred.hosts : f[h] = "done",
           \A c \in Calls : f[c] \in Settled \cup {"approved", "rejected", "open"},
           (deferred # None /\ \A h \in deferred.hosts : f[h] = "done")
              => \A c \in Calls : f[c] \in Settled \cup {"open"},
           operation = None \/ \A c \in Calls : f[c] \in Settled \cup {"open"}
    PROVE  HeldInv' /\ AskedInv'
<1>1. UNCHANGED <<tool, transcript, polling>> /\ conv' = f
  BY DEF Begin, world, caller
<1>2. CASE deferred # None /\ \A h \in deferred.hosts : f[h] = "done"
  <2>1. deferred' = None /\ pc' = "siblings"
    BY <1>2 DEF Begin, StillDeferred
  <2>2. QED
    BY <1>1, <1>2, <2>1 DEF HoldInv, HeldInv, AskedInv
<1>3. CASE ~ (deferred # None /\ \A h \in deferred.hosts : f[h] = "done")
  <2>1. deferred' = deferred /\ pc' = "top"
    BY <1>3 DEF Begin, StillDeferred
  <2>2. HeldInv'
    BY <1>1, <1>3, <2>1 DEF HoldInv, HeldInv
  <2>3. CASE operation = None
    <3>1. \/ budget' \in {Started} \cup {[parked EXCEPT !.iterations = 0]} /\ parked \in Budget
          \/ budget' = Started
      BY <2>3 DEF Begin, ResumeOrStart, HoldInv, ApprovalInv, TypeInv, StateOK
    <3>2. budget'.iterations = 0 /\ 0 < MaxIterations
      BY <3>1, Parameters DEF Started, Budget
    <3>3. QED
      BY <1>1, <2>1, <2>2, <3>2 DEF HoldInv, AskedInv, Where
  <2>4. CASE \A c \in Calls : f[c] \in Settled \cup {"open"}
    <3>1. Where(f, "approved") = {} /\ Where(f, "rejected") = {}
      BY <2>4 DEF Where, Settled
    <3>2. QED
      BY <1>1, <2>1, <2>2, <3>1 DEF HoldInv, AskedInv, Where
  <2>5. QED
    BY <2>2, <2>3, <2>4
<1>4. QED
  BY <1>2, <1>3

(* What a reply says of each call. *)
LEMMA ReplyStatus ==
    ASSUME HoldInv, NEW yes \in SUBSET Where(transcript, "asked"), NEW c \in Calls,
           NEW f, f = With(With(With(transcript, Hosts(tool, Where(transcript, "open")), "done"),
                                yes, "approved"),
                           Where(transcript, "asked") \ yes, "rejected")
    PROVE  /\ transcript[c] = "asked" => f[c] = IF c \in yes THEN "approved" ELSE "rejected"
           /\ transcript[c] = "open" /\ tool[c] = Host => f[c] = "done"
           /\ transcript[c] = "open" /\ tool[c] # Host => f[c] = "open"
           /\ transcript[c] \in Settled => f[c] = transcript[c]
BY DEF With, Where, Hosts, Settled

(* A reply answers all of the caller's calls of a deferred batch, or none. *)
LEMMA ReplyOfDeferred ==
    ASSUME HoldInv, NEW yes \in SUBSET Where(transcript, "asked"),
           NEW f, f = With(With(With(transcript, Hosts(tool, Where(transcript, "open")), "done"),
                                yes, "approved"),
                           Where(transcript, "asked") \ yes, "rejected")
    PROVE  /\ deferred # None => \/ \A h \in deferred.hosts : f[h] = "absent"
                                 \/ \A h \in deferred.hosts : f[h] = "done"
           /\ \A c \in Calls : f[c] \in Settled \cup {"approved", "rejected", "open"}
           /\ (deferred # None /\ \A h \in deferred.hosts : f[h] = "done")
                 => \A c \in Calls : f[c] \in Settled \cup {"open"}
<1>1. \A c \in Calls :
         /\ transcript[c] = "asked" => f[c] \in {"approved", "rejected"}
         /\ transcript[c] = "open" /\ tool[c] = Host => f[c] = "done"
         /\ transcript[c] = "open" /\ tool[c] # Host => f[c] = "open"
         /\ transcript[c] \in Settled => f[c] = transcript[c]
  BY ReplyStatus
<1>2. \A c \in Calls : transcript[c] \in Settled \cup {"asked", "open"}
  BY DEF HoldInv, AskedInv
<1>3. deferred # None =>
         /\ deferred.hosts \subseteq Calls /\ deferred.hosts # {}
         /\ \A h \in deferred.hosts : tool[h] = Host
         /\ \/ \A h \in deferred.hosts : transcript[h] = "absent"
            \/ \A h \in deferred.hosts : transcript[h] = "open"
         /\ (\E h \in deferred.hosts : transcript[h] # "absent") => Where(transcript, "asked") = {}
  BY DEF HoldInv, HeldInv, AskedInv, ApprovalInv, DeferredInv, TypeInv
<1>4. deferred # None => \/ \A h \in deferred.hosts : f[h] = "absent"
                         \/ \A h \in deferred.hosts : f[h] = "done"
  BY <1>1, <1>3 DEF Settled
<1>5. \A c \in Calls : f[c] \in Settled \cup {"approved", "rejected", "open"}
  BY <1>1, <1>2 DEF Settled
<1>6. ASSUME deferred # None, \A h \in deferred.hosts : f[h] = "done"
      PROVE  \A c \in Calls : f[c] \in Settled \cup {"open"}
  <2>1. Where(transcript, "asked") = {}
    BY <1>1, <1>3, <1>6 DEF Settled
  <2>2. QED
    BY <1>1, <1>2, <2>1 DEF Where, Settled
<1>7. QED
  BY <1>4, <1>5, <1>6

LEMMA ResponseKeepsHold ==
    ASSUME HoldInv, ModelCalls \/ FailsafeReturnsCalls
    PROVE  HeldInv' /\ AskedInv'
<1>1. PICK calls \in SUBSET Calls, names \in [Calls -> Requested \cup {None}] :
              /\ tool' = names /\ calls # {} /\ calls \cap Drawn = {}
              /\ Drawn \subseteq Drawn' /\ \A c \in Drawn : tool'[c] = tool[c]
              /\ \/ /\ ModelCalls
                    /\ \/ DropCalls(calls) \/ AskApproval(calls, names)
                       \/ DeferSiblings(calls, names) \/ RunBatch(calls, names)
                 \/ /\ FailsafeReturnsCalls
                    /\ Finish(With(With(conv, Hosts(names, calls), "open"),
                                   calls \ Hosts(names, calls), "late"))
  BY ResponseCalls DEF HoldInv
<1>2. /\ conv \in [Calls -> Status] /\ pc \in {"model", "failsafe"}
      /\ \A c \in Calls : conv[c] \in Settled \cup {"open"}
  BY DEF HoldInv, ApprovalInv, TypeInv, StateOK, AskedInv, ModelCalls, FailsafeReturnsCalls
<1>3. deferred # None => /\ deferred.hosts \subseteq Calls \ calls
                         /\ \A h \in deferred.hosts : tool'[h] = Host /\ conv[h] = "absent"
  BY <1>1 DEF HoldInv, HeldInv, ApprovalInv, DeferredInv, TypeInv
<1>4. Hosts(names, calls) \subseteq calls
  BY DEF Hosts
<1> DEFINE opened == With(conv, calls, "open")
           asking == With(With(conv, calls, "asked"), Hosts(names, calls), "open")
           late == With(With(conv, Hosts(names, calls), "open"), calls \ Hosts(names, calls), "late")
<1>5. /\ opened \in [Calls -> Status] /\ asking \in [Calls -> Status]
      /\ late \in [Calls -> Status]
  BY <1>2, WithType DEF Status
<1>6. /\ \A c \in Calls : opened[c] \in Settled \cup {"open"}
      /\ \A c \in Calls : asking[c] \in Settled \cup {"asked", "open"}
      /\ \A c \in Calls : late[c] \in Settled \cup {"open"}
  BY <1>2 DEF With, Settled
<1>7. deferred # None => \A h \in deferred.hosts :
         opened[h] = "absent" /\ asking[h] = "absent" /\ late[h] = "absent"
  BY <1>3, <1>4 DEF With
<1>8. Where(opened, "asked") = {} /\ Where(late, "asked") = {}
  BY <1>6 DEF Where, Settled
<1> HIDE DEF opened, asking, late
<1>9. CASE DropCalls(calls)
  <2>1. UNCHANGED <<transcript, polling, deferred, conv>> /\ pc' = "failsafe"
    BY <1>9 DEF DropCalls, Stripped, caller
  <2>2. QED
    BY <2>1, <1>2, <1>3 DEF HoldInv, HeldInv, AskedInv, Where
<1>10. CASE AskApproval(calls, names)
  <2>1. Answer(asking) /\ UNCHANGED deferred /\ polling' = None
    BY <1>10 DEF AskApproval, Pause, asking
  <2>2. QED
    BY <2>1, <1>1, <1>5, <1>6, <1>7, AnswerKeepsHold
<1>11. CASE DeferSiblings(calls, names)
  <2>1. transcript' = opened /\ pc' = "idle" /\ polling' = None /\ conv' = NoConversation
    BY <1>11 DEF DeferSiblings, Pause, Answer, Return, opened
  <2>2. deferred' = [calls |-> Siblings(calls, names), hosts |-> Hosts(names, calls)]
    BY <1>11 DEF DeferSiblings, Mixed
  <2>3. \A h \in deferred'.hosts : tool'[h] = Host /\ conv'[h] = "absent" /\ transcript'[h] = "open"
    BY <2>1, <2>2, <1>1, <1>4 DEF Hosts, NoConversation, With, opened
  <2>4. AskedInv'
    BY <2>1, <1>6, <1>8 DEF AskedInv, NoConversation, Where, Settled
  <2>5. QED
    BY <2>1, <2>3, <2>4 DEF HeldInv
<1>12. CASE RunBatch(calls, names)
  <2>1. UNCHANGED <<transcript, polling, deferred>> /\ conv' = opened /\ pc' = "batch"
    BY <1>12 DEF RunBatch, caller, session, opened
  <2>2. QED
    BY <2>1, <1>3, <1>6, <1>7 DEF HoldInv, HeldInv, AskedInv, Where
<1>13. CASE FailsafeReturnsCalls /\ Finish(late)
  <2>1. Answer(late) /\ UNCHANGED deferred /\ polling' = None
    BY <1>13 DEF FailsafeReturnsCalls, Finish
  <2>2. QED
    BY <2>1, <1>1, <1>5, <1>6, <1>7, AnswerKeepsHold DEF Settled
<1>14. QED
  BY <1>1, <1>9, <1>10, <1>11, <1>12, <1>13 DEF late

LEMMA HoldInvInit ==
    ASSUME Init
    PROVE  HoldInv
BY ApprovalInvInit DEF Init, HoldInv, HeldInv, AskedInv, NoConversation, Settled

LEMMA HoldInvStep ==
    ASSUME HoldInv, HistoryInv, [Next]_vars
    PROVE  HoldInv'
<1>1. ApprovalInv /\ ApprovalInv' /\ HeldInv /\ AskedInv
  BY ApprovalInvStep DEF HoldInv
<1>2. /\ conv \in [Calls -> Status] /\ transcript \in [Calls -> Status] /\ batch \subseteq Calls
      /\ deferred # None => deferred.hosts \subseteq Drawn /\ deferred.hosts \subseteq Calls
  BY <1>1 DEF ApprovalInv, TypeInv, StateOK, DeferredInv
<1>3. SUFFICES HeldInv' /\ AskedInv'
  BY <1>1 DEF HoldInv
<1>4. CASE Fresh
  BY <1>2, <1>4, FreshBegins, BeginKeepsHold DEF NoConversation, Status, Settled
<1>5. CASE Reply
  <2> DEFINE reply(yes) ==
        With(With(With(transcript, Hosts(tool, Where(transcript, "open")), "done"),
                  yes, "approved"),
             Where(transcript, "asked") \ yes, "rejected")
  <2>1. PICK yes \in SUBSET Where(transcript, "asked") : Begin(reply(yes), None)
    BY <1>1, <1>5, ReplyBegins DEF ApprovalInv
  <2>2. reply(yes) \in [Calls -> Status]
    BY <1>1, ReplyType DEF ApprovalInv
  <2>3. /\ deferred # None => \/ \A h \in deferred.hosts : reply(yes)[h] = "absent"
                              \/ \A h \in deferred.hosts : reply(yes)[h] = "done"
        /\ \A c \in Calls : reply(yes)[c] \in Settled \cup {"approved", "rejected", "open"}
        /\ (deferred # None /\ \A h \in deferred.hosts : reply(yes)[h] = "done")
              => \A c \in Calls : reply(yes)[c] \in Settled \cup {"open"}
    BY ReplyOfDeferred
  <2> HIDE DEF reply
  <2>4. QED
    BY <2>1, <2>2, <2>3, BeginKeepsHold
<1>6. CASE Turn \/ Poll
  <2>1. PICK operation \in {None, polling} : Begin(transcript, operation)
    BY <1>1, <1>6, OthersBegin DEF ApprovalInv
  <2>2. Where(transcript, "asked") = {} /\ Hosted = {}
    BY <1>1, <1>6, OthersBegin DEF ApprovalInv
  <2>3. \A c \in Calls : transcript[c] \in Settled \cup {"open"}
    BY <1>1, <2>2 DEF AskedInv, Where
  <2>4. deferred # None => \A h \in deferred.hosts : transcript[h] = "absent"
    <3>1. deferred # None => \A h \in deferred.hosts : tool[h] = Host /\ h \in Calls
      BY <1>1, <1>2 DEF HeldInv
    <3>2. deferred # None => deferred.hosts # {}
      BY <1>1 DEF ApprovalInv, DeferredInv
    <3>3. QED
      BY <1>1, <2>2, <3>1, <3>2 DEF HeldInv, Hosted, Hosts, Where
  <2>5. QED
    BY <1>2, <2>1, <2>3, <2>4, BeginKeepsHold
<1>7. CASE Drop \/ Err
  BY <1>7, ErrKeepsHold DEF Drop, Err, session
<1>8. CASE Tick \/ UNCHANGED vars
  BY <1>1, <1>8 DEF Tick, vars, world, caller, session, local, HeldInv, AskedInv, Where
<1>9. ASSUME NEW c \in Calls, Execute(c) \/ Refuse(c)
      PROVE  HeldInv' /\ AskedInv'
  <2>1. UNCHANGED <<tool, transcript, polling, deferred, pc, conv, budget>>
    BY <1>9 DEF Execute, Refuse, caller, session
  <2>2. QED
    BY <1>1, <2>1 DEF HeldInv, AskedInv, Where
<1>10. CASE SiblingsDone
  <2> DEFINE waiting == Gated(tool, batch, live)
             answered == With(conv, batch \ waiting, "done")
             asking == With(answered, waiting, "asked")
  <2>1. pc = "siblings" /\ deferred = None /\ UNCHANGED <<tool, deferred>>
    BY <1>1, <1>10 DEF SiblingsDone, ApprovalInv, DeferredInv
  <2>2. answered \in [Calls -> Status] /\ asking \in [Calls -> Status]
    BY <1>2, WithType DEF Status
  <2>3. /\ \A c \in Calls : answered[c] \in Settled \cup {"open"}
        /\ \A c \in Calls : asking[c] \in Settled \cup {"asked", "open"}
    BY <1>1, <2>1 DEF AskedInv, With, Settled
  <2> HIDE DEF waiting, answered, asking
  <2>4. CASE Pause(asking, Charged)
    BY <2>1, <2>2, <2>3, <2>4, AnswerKeepsHold DEF Pause
  <2>5. CASE pc' = "top" /\ conv' = answered /\ UNCHANGED caller
    <3>1. Where(answered, "approved") = {} /\ Where(answered, "rejected") = {}
      BY <2>3 DEF Where, Settled
    <3>2. QED
      BY <1>1, <2>1, <2>3, <2>5, <3>1 DEF caller, HeldInv, AskedInv, Where
  <2>6. QED
    BY <1>10, <2>4, <2>5 DEF SiblingsDone, waiting, answered, asking
<1>11. CASE IterationLimit
  <2>1. /\ UNCHANGED <<tool, transcript, polling, deferred, conv, budget>>
        /\ pc = "top" /\ pc' = "failsafe" /\ budget.iterations >= MaxIterations
    BY <1>11 DEF IterationLimit, LimitReached, Failsafe, caller
  <2>2. budget \in Budget
    BY <1>1, <2>1 DEF ApprovalInv, TypeInv
  <2>3. Where(conv, "approved") \cup Where(conv, "rejected") = {}
    BY <1>1, <2>1, <2>2, Parameters DEF AskedInv, Budget
  <2>4. QED
    BY <1>1, <2>1, <2>3 DEF HeldInv, AskedInv, Where
<1>12. CASE Top
  BY <1>1, <1>12 DEF Top, caller, session, HeldInv, AskedInv, Where
<1>13. CASE ReplayDone
  <2>1. /\ UNCHANGED <<tool, transcript, polling, deferred>> /\ conv' = Resolved
        /\ pc = "replay" /\ pc' \in {"model", "failsafe"}
    BY <1>13 DEF ReplayDone, Failsafe, caller, session
  <2>2. \A c \in Calls : /\ conv[c] = "absent" => Resolved[c] = "absent"
                         /\ Resolved[c] \in Settled \cup {"open"}
    BY <1>1, <2>1 DEF AskedInv, Resolved, With, Where, Settled
  <2>3. QED
    BY <1>1, <1>2, <2>1, <2>2 DEF HeldInv, AskedInv, Where
<1>14. CASE BatchDone
  <2> DEFINE finished == batch \ Hosts(tool, batch)
             answered == With(conv, finished, "done")
  <2>1. pc = "batch" /\ UNCHANGED <<tool, deferred>>
    BY <1>14 DEF BatchDone
  <2>2. answered \in [Calls -> Status]
    BY <1>2, WithType DEF Status
  <2>3. \A c \in Calls : answered[c] \in Settled \cup {"open"}
    BY <1>1, <2>1 DEF AskedInv, With, Settled
  <2>4. deferred # None => deferred.hosts \cap finished = {}
    BY <1>1, <2>1 DEF ApprovalInv, DeferredInv
  <2>5. deferred # None => \A h \in deferred.hosts : answered[h] = "absent"
    BY <1>1, <1>2, <2>4 DEF HeldInv, With
  <2> HIDE DEF finished, answered
  <2>6. CASE Finish(answered)
    BY <2>1, <2>2, <2>3, <2>5, <2>6, AnswerKeepsHold DEF Finish
  <2>7. CASE pc' = "top" /\ conv' = answered /\ UNCHANGED caller
    <3>1. Where(answered, "approved") = {} /\ Where(answered, "rejected") = {}
      BY <2>3 DEF Where, Settled
    <3>2. QED
      BY <1>1, <2>1, <2>3, <2>5, <2>7, <3>1 DEF caller, HeldInv, AskedInv, Where
  <2>8. QED
    BY <1>14, <2>6, <2>7 DEF BatchDone, finished, answered
<1>15. CASE ModelPending \/ ModelAnswers
  <2>1. /\ pc \in {"model", "failsafe"} /\ Answer(conv) /\ UNCHANGED <<tool, deferred>>
    BY <1>15 DEF ModelPending, ModelAnswers, Modelling, HandBack, Finish
  <2>2. \A c \in Calls : conv[c] \in Settled \cup {"open"}
    BY <1>1, <2>1 DEF AskedInv
  <2>3. Where(conv, "asked") = {}
    BY <2>2 DEF Where, Settled
  <2>4. deferred # None => \A h \in deferred.hosts : conv[h] = "absent"
    BY <1>1 DEF HeldInv
  <2>5. QED
    BY <1>2, <2>1, <2>2, <2>3, <2>4, AnswerKeepsHold
<1>16. CASE ModelCalls \/ FailsafeReturnsCalls
  BY <1>16, ResponseKeepsHold
<1>17. QED
  BY <1>4, <1>5, <1>6, <1>7, <1>8, <1>9, <1>10, <1>11, <1>12, <1>13, <1>14,
     <1>15, <1>16
     DEF Next, ModelFails, Terminate

(* An answer that is correlated, with the calls that are pending apart. *)
LEMMA AnswerKeepsHistory ==
    ASSUME HoldInv, NEW f \in [Calls -> Status], Answer(f), HistoryOK',
           Correlated(history', f), Apart(Pending(tool', f)),
           deferred' # None => Apart(deferred'.calls),
           polling' # None => Pending(tool', f) = {},
           \A c \in Calls \ Drawn' : f[c] = "absent"
    PROVE  HistoryInv'
<1>1. /\ transcript' = f /\ conv' = NoConversation /\ said' = NoHistory /\ batch' = {}
  BY DEF Answer, Return
<1>2. \A c \in Calls : conv'[c] = "absent"
  BY <1>1 DEF NoConversation
<1>3. Correlated(said', conv') /\ Pending(tool', conv') = {}
  BY <1>1, <1>2, EmptyIsCorrelated DEF Pending, Deciding, Decided
<1>4. polling' # None => (Asked \cup Hosted)' = {}
  BY <1>1 DEF Asked, Hosted, Hosts, Where, Pending, Deciding
<1>5. Apart(Pending(tool', conv')) /\ Apart(batch')
  BY <1>1, <1>3 DEF Apart
<1>6. QED
  BY <1>1, <1>2, <1>3, <1>4, <1>5 DEF HistoryInv

(* The end of a request without an answer. *)
LEMMA ErrKeepsHistory ==
    ASSUME HistoryInv, Return, UNCHANGED <<tool, transcript, history, polling, deferred>>,
           HistoryOK'
    PROVE  HistoryInv'
<1>1. conv' = NoConversation /\ said' = NoHistory /\ batch' = {}
  BY DEF Return
<1>2. \A c \in Calls : conv'[c] = "absent"
  BY <1>1 DEF NoConversation
<1>3. Correlated(said', conv') /\ Pending(tool', conv') = {}
  BY <1>1, <1>2, EmptyIsCorrelated DEF Pending, Deciding, Decided
<1>4. Apart(Pending(tool', conv')) /\ Apart(batch')
  BY <1>1, <1>3 DEF Apart
<1>5. polling' # None => (Asked \cup Hosted)' = {}
  BY DEF HistoryInv, Asked, Hosted, Hosts, Where
<1>6. Drawn' = Drawn
  BY DEF Drawn
<1>7. QED
  BY <1>1, <1>2, <1>3, <1>4, <1>5, <1>6 DEF HistoryInv

(* The start of a request, with the caller's calls answered. *)
LEMMA BeginKeepsHistory ==
    ASSUME HoldInv, HistoryInv, NEW f \in [Calls -> Status], NEW operation, Begin(f, operation),
           HistoryOK', Correlated(said', f), Apart({c \in Calls : f[c] \in Deciding}),
           \A c \in Calls : f[c] = "open" => tool[c] # Host,
           \A c \in Calls \ Drawn : f[c] = "absent"
    PROVE  HistoryInv'
<1>1. UNCHANGED <<tool, transcript, history, polling>> /\ conv' = f
  BY DEF Begin, world, caller
<1>2. /\ deferred' # None => deferred' = deferred
      /\ batch' = {} \/ (deferred # None /\ batch' = deferred.calls)
  BY DEF Begin, StillDeferred
<1>3. Apart(batch') /\ batch' \subseteq Drawn
  BY <1>2 DEF HistoryInv, Apart, HoldInv, ApprovalInv, DeferredInv
<1>4. Pending(tool', conv') = {c \in Calls : f[c] \in Deciding}
  BY <1>1 DEF Pending
<1>5. Drawn' = Drawn /\ (Asked \cup Hosted)' = Asked \cup Hosted
  BY <1>1 DEF Drawn, Asked, Hosted, Hosts, Where
<1>6. QED
  BY <1>1, <1>2, <1>3, <1>4, <1>5 DEF HistoryInv

(* A response with calls: none is under the id of another, nor was in a
   conversation before. *)
LEMMA ResponseKeepsHistory ==
    ASSUME HoldInv, HistoryInv, ModelCalls \/ FailsafeReturnsCalls, HistoryOK'
    PROVE  HistoryInv'
<1>1. PICK calls \in SUBSET Calls, names \in [Calls -> Requested \cup {None}] :
              /\ tool' = names /\ calls \cap Drawn = {} /\ Apart(calls)
              /\ \A c \in calls : names[c] \in Requested
              /\ Drawn \subseteq Drawn' /\ \A c \in Drawn : tool'[c] = tool[c]
              /\ \/ /\ ModelCalls
                    /\ \/ DropCalls(calls) \/ AskApproval(calls, names)
                       \/ DeferSiblings(calls, names) \/ RunBatch(calls, names)
                 \/ /\ FailsafeReturnsCalls
                    /\ Finish(With(With(conv, Hosts(names, calls), "open"),
                                   calls \ Hosts(names, calls), "late"))
  BY ResponseCalls DEF HoldInv
<1>2. /\ conv \in [Calls -> Status] /\ said \in [Ids -> Correlation]
      /\ pc \in {"model", "failsafe"}
      /\ \A c \in Calls : conv[c] \in Settled \cup {"open"}
  BY DEF HoldInv, ApprovalInv, TypeInv, StateOK, AskedInv, HistoryInv, HistoryOK, ModelCalls,
         FailsafeReturnsCalls
<1>3. /\ \A c \in Calls : conv[c] \notin Deciding /\ (conv[c] = "open" => tool[c] # Host)
      /\ \A c \in calls : conv[c] = "absent"
  BY <1>1, <1>2 DEF Settled, Deciding, Decided, HistoryInv
<1>4. calls \subseteq Drawn'
  BY <1>1, Parameters DEF Drawn
<1>5. \A c \in Calls : conv[c] # "absent" \/ transcript[c] # "absent"
                          => c \in Drawn /\ tool'[c] = tool[c]
  BY <1>1 DEF HistoryInv
<1>6. Hosts(names, calls) \subseteq calls
  BY DEF Hosts
<1> DEFINE opened == With(conv, calls, "open")
           asking == With(With(conv, calls, "asked"), Hosts(names, calls), "open")
           late == With(With(conv, Hosts(names, calls), "open"), calls \ Hosts(names, calls), "late")
<1>7. /\ opened \in [Calls -> Status] /\ asking \in [Calls -> Status]
      /\ late \in [Calls -> Status]
  BY <1>2, WithType DEF Status
<1>8. \A c \in Calls : c \notin calls =>
         /\ opened[c] = conv[c] /\ asking[c] = conv[c] /\ late[c] = conv[c]
  BY <1>2, <1>6 DEF With
<1>9. /\ Pending(tool', opened) \subseteq calls
      /\ Pending(tool', asking) \subseteq calls
      /\ Pending(tool', late) \subseteq calls
  BY <1>3, <1>5, <1>8 DEF Pending
<1>10. /\ Apart(Pending(tool', opened)) /\ Apart(Pending(tool', asking))
       /\ Apart(Pending(tool', late))
  BY <1>1, <1>9 DEF Apart
<1>11. \A c \in Calls \ Drawn' :
          opened[c] = "absent" /\ asking[c] = "absent" /\ late[c] = "absent"
  BY <1>1, <1>4, <1>8 DEF HistoryInv
<1>12. Correlated(said, opened) /\ Correlated(said, late)
  <2>1. Correlated(said, conv)
    BY DEF HistoryInv
  <2>2. Correlated(said, opened)
    BY <1>2, <1>3, <2>1, CallsAreCorrelated
  <2>3. Correlated(said, With(conv, Hosts(names, calls), "open"))
    BY <1>2, <1>3, <1>6, <2>1, CallsAreCorrelated
  <2>4. With(conv, Hosts(names, calls), "open") \in [Calls -> Status]
    BY <1>2, WithType DEF Status
  <2>5. \A c \in calls \ Hosts(names, calls) : With(conv, Hosts(names, calls), "open")[c] = "absent"
    BY <1>2, <1>3 DEF With
  <2>6. QED
    BY <2>2, <2>3, <2>4, <2>5, CallsAreCorrelated
<1>13. Correlated(Requests(said, Siblings(calls, names)), asking)
  <2> DEFINE sibs == Siblings(calls, names)
             asked == With(conv, sibs, "asked")
  <2>1. sibs \in SUBSET Calls /\ Apart(sibs)
    BY <1>1 DEF Siblings, Apart
  <2>2. Correlated(Requests(said, sibs), asked)
    BY <1>2, <1>3, <2>1, RequestsAsk DEF HistoryInv
  <2>3. asked \in [Calls -> Status]
    BY <1>2, WithType DEF Status
  <2>4. \A c \in Hosts(names, calls) : asked[c] = "absent"
    BY <1>2, <1>3, <1>6 DEF With, Siblings
  <2>5. With(asked, Hosts(names, calls), "open") = asking
    BY <1>2, <1>6 DEF With, Siblings
  <2>6. Hosts(names, calls) \in SUBSET Calls
    BY <1>6
  <2> HIDE DEF sibs, asked, asking
  <2>7. Correlated(Requests(said, sibs), With(asked, Hosts(names, calls), "open"))
    BY <2>2, <2>3, <2>4, <2>6, CallsAreCorrelated
  <2>8. QED
    BY <2>5, <2>7 DEF sibs
<1> HIDE DEF opened, asking, late
<1>14. /\ Apart(Pending(tool, transcript)) /\ Apart(batch) /\ Drawn \subseteq Drawn'
       /\ deferred # None => Apart(deferred.calls)
       /\ polling # None => Asked \cup Hosted = {}
       /\ Correlated(history, transcript) /\ Correlated(said, conv)
       /\ batch \subseteq Drawn
  BY <1>1 DEF HistoryInv
<1>15. ASSUME UNCHANGED <<transcript, polling>>
       PROVE  /\ Pending(tool', transcript') = Pending(tool, transcript)
              /\ (Asked \cup Hosted)' = Asked \cup Hosted
              /\ \A c \in Calls \ Drawn' : transcript'[c] = "absent"
  <2>1. Pending(tool', transcript') = Pending(tool, transcript)
    BY <1>5, <1>15 DEF Pending, Deciding, Decided
  <2>2. (Asked \cup Hosted)' = Asked \cup Hosted
    BY <1>5, <1>15 DEF Asked, Hosted, Hosts, Where
  <2>3. \A c \in Calls \ Drawn' : transcript'[c] = "absent"
    BY <1>5, <1>14, <1>15
  <2>4. QED
    BY <2>1, <2>2, <2>3
<1>16. CASE DropCalls(calls)
  <2>1. UNCHANGED <<transcript, history, polling, deferred, said, conv, batch>>
    BY <1>16 DEF DropCalls, Stripped, caller
  <2>2. /\ Pending(tool', transcript') = Pending(tool, transcript)
        /\ (Asked \cup Hosted)' = Asked \cup Hosted
        /\ \A c \in Calls \ Drawn' : transcript'[c] = "absent" /\ conv'[c] = "absent"
    BY <1>5, <1>14, <1>15, <2>1
  <2>3. Pending(tool', conv') = {}
    BY <1>3, <1>5, <2>1 DEF Pending
  <2>4. \A c \in Calls : conv'[c] = "open" => tool'[c] # Host
    BY <1>3, <1>5, <2>1
  <2>5. QED
    BY <1>14, <2>1, <2>2, <2>3, <2>4 DEF HistoryInv, Apart
<1>17. CASE AskApproval(calls, names)
  <2>1. /\ Answer(asking) /\ UNCHANGED deferred /\ polling' = None
        /\ history' = Requests(said, Siblings(calls, names))
    BY <1>17 DEF AskApproval, Pause, asking
  <2>2. QED
    BY <1>7, <1>10, <1>11, <1>13, <1>14, <2>1, AnswerKeepsHistory
<1>18. CASE DeferSiblings(calls, names)
  <2>1. Answer(opened) /\ polling' = None /\ history' = said
    BY <1>18 DEF DeferSiblings, Pause, opened
  <2>2. deferred' = [calls |-> Siblings(calls, names), hosts |-> Hosts(names, calls)]
    BY <1>18 DEF DeferSiblings, Mixed
  <2>3. Apart(deferred'.calls)
    BY <1>1, <2>2 DEF Siblings, Apart
  <2>4. QED
    BY <1>7, <1>10, <1>11, <1>12, <2>1, <2>3, AnswerKeepsHistory
<1>19. CASE RunBatch(calls, names)
  <2>1. /\ UNCHANGED <<transcript, history, polling, deferred, said>>
        /\ conv' = opened /\ batch' = calls /\ pc' = "batch"
    BY <1>19 DEF RunBatch, caller, session, opened
  <2>2. /\ Pending(tool', transcript') = Pending(tool, transcript)
        /\ (Asked \cup Hosted)' = Asked \cup Hosted
        /\ \A c \in Calls \ Drawn' : transcript'[c] = "absent" /\ conv'[c] = "absent"
    BY <1>11, <1>15, <2>1
  <2>3. \A c \in Calls : conv'[c] = "open" /\ tool'[c] = Host => c \in batch'
    BY <1>9, <2>1 DEF Pending
  <2>4. QED
    BY <1>1, <1>4, <1>10, <1>12, <1>14, <2>1, <2>2, <2>3 DEF HistoryInv
<1>20. CASE FailsafeReturnsCalls /\ Finish(late)
  <2>1. Answer(late) /\ UNCHANGED deferred /\ polling' = None /\ history' = said
    BY <1>20 DEF FailsafeReturnsCalls, Finish
  <2>2. QED
    BY <1>7, <1>10, <1>11, <1>12, <1>14, <2>1, AnswerKeepsHistory
<1>21. QED
  BY <1>1, <1>16, <1>17, <1>18, <1>19, <1>20 DEF late

LEMMA HistoryInvInit ==
    ASSUME Init
    PROVE  HistoryInv
<1>1. HistoryOK
  BY HistoryOKInit
<1>2. /\ transcript = NoConversation /\ conv = NoConversation
      /\ history = NoHistory /\ said = NoHistory /\ batch = {} /\ deferred = None
      /\ polling = None
  BY DEF Init
<1>3. \A c \in Calls : transcript[c] = "absent" /\ conv[c] = "absent"
  BY <1>2 DEF NoConversation
<1>4. Pending(tool, transcript) = {} /\ Pending(tool, conv) = {}
  BY <1>3 DEF Pending, Deciding, Decided
<1>5. QED
  BY <1>1, <1>2, <1>3, <1>4, EmptyIsCorrelated DEF HistoryInv, Apart

LEMMA HistoryInvStep ==
    ASSUME HoldInv, HistoryInv, [Next]_vars
    PROVE  HistoryInv'
<1>1. TypeInv /\ HistoryOK /\ HistoryOK' /\ HeldInv /\ AskedInv
  BY HistoryOKStep DEF HoldInv, ApprovalInv, HistoryInv
<1>2. /\ conv \in [Calls -> Status] /\ transcript \in [Calls -> Status] /\ batch \in SUBSET Calls
      /\ said \in [Ids -> Correlation] /\ Drawn \subseteq Calls
      /\ Correlated(said, conv) /\ Correlated(history, transcript)
      /\ Apart(batch) /\ batch \subseteq Drawn
      /\ deferred # None => Apart(deferred.calls)
      /\ \A c \in Calls \ Drawn : conv[c] = "absent" /\ transcript[c] = "absent"
  BY <1>1 DEF TypeInv, StateOK, HistoryOK, HistoryInv, Drawn
<1>3. ASSUME UNCHANGED <<tool, transcript, history, polling, deferred>>,
             Correlated(said', conv'), Apart(Pending(tool', conv')), batch' = batch \/ batch' = {},
             \A c \in Calls : conv'[c] = "open" /\ tool[c] = Host => pc' = "batch" /\ c \in batch',
             \A c \in Calls \ Drawn : conv'[c] = "absent"
      PROVE  HistoryInv'
  <2>1. Apart(batch') /\ batch' \subseteq Drawn
    BY <1>2, <1>3 DEF Apart
  <2>2. Drawn' = Drawn /\ (Asked \cup Hosted)' = Asked \cup Hosted
    BY <1>3 DEF Drawn, Asked, Hosted, Hosts, Where
  <2>3. QED
    BY <1>1, <1>3, <2>1, <2>2 DEF HistoryInv
<1>4. CASE Fresh
  <2>1. Begin(NoConversation, None) /\ said' = NoHistory
    BY <1>4, FreshBegins
  <2>2. \A c \in Calls : NoConversation[c] = "absent"
    BY DEF NoConversation
  <2>3. NoConversation \in [Calls -> Status] /\ {c \in Calls : NoConversation[c] \in Deciding} = {}
    BY <2>2 DEF NoConversation, Status, Deciding, Decided
  <2>4. QED
    BY <1>1, <2>1, <2>2, <2>3, EmptyIsCorrelated, BeginKeepsHistory DEF Apart
<1>5. CASE Reply
  <2> DEFINE reply(yes) ==
        With(With(With(transcript, Hosts(tool, Where(transcript, "open")), "done"),
                  yes, "approved"),
             Where(transcript, "asked") \ yes, "rejected")
  <2>1. PICK yes \in SUBSET Where(transcript, "asked") :
           Begin(reply(yes), None) /\ Correlated(said', reply(yes))
    BY <1>1, <1>5, ReplyBegins
  <2>2. reply(yes) \in [Calls -> Status]
    BY <1>1, ReplyType
  <2>3. \A c \in Calls :
           /\ transcript[c] = "asked" => reply(yes)[c] \in Decided
           /\ transcript[c] = "open" /\ tool[c] = Host => reply(yes)[c] = "done"
           /\ transcript[c] = "open" /\ tool[c] # Host => reply(yes)[c] = "open"
           /\ transcript[c] \in Settled => reply(yes)[c] = transcript[c]
           /\ transcript[c] \in Settled \cup {"asked", "open"}
    BY <1>1, ReplyStatus DEF AskedInv, Decided
  <2> HIDE DEF reply
  <2>4. \A c \in Calls : /\ reply(yes)[c] \in Deciding => transcript[c] \in Deciding
                         /\ reply(yes)[c] = "open" => tool[c] # Host
    BY <2>3 DEF Settled, Deciding, Decided
  <2>5. Apart({c \in Calls : reply(yes)[c] \in Deciding})
    BY <2>4 DEF HistoryInv, Apart, Pending
  <2>6. \A c \in Calls \ Drawn : reply(yes)[c] = "absent"
    BY <1>2, <2>3 DEF Settled
  <2>7. QED
    BY <1>1, <2>1, <2>2, <2>4, <2>5, <2>6, BeginKeepsHistory
<1>6. CASE Turn \/ Poll
  <2>1. PICK operation \in {None, polling} : Begin(transcript, operation)
    BY <1>1, <1>6, OthersBegin
  <2>2. said' = history /\ Where(transcript, "asked") = {} /\ Hosted = {}
    BY <1>1, <1>6, OthersBegin
  <2>3. {c \in Calls : transcript[c] \in Deciding} = {}
    BY <1>1, <2>2 DEF AskedInv, Settled, Deciding, Decided, Where
  <2>4. \A c \in Calls : transcript[c] = "open" => tool[c] # Host
    BY <2>2 DEF Hosted, Hosts, Where
  <2>5. QED
    BY <1>1, <1>2, <2>1, <2>2, <2>3, <2>4, BeginKeepsHistory DEF Apart
<1>7. CASE Drop \/ Err
  BY <1>1, <1>7, ErrKeepsHistory DEF Drop, Err, session
<1>8. CASE Tick \/ UNCHANGED vars \/ \E c \in Calls : Execute(c) \/ Refuse(c)
  <2>1. UNCHANGED <<tool, transcript, history, polling, deferred, said, conv, batch, pc>>
    BY <1>8 DEF Tick, vars, Execute, Refuse, world, caller, session, local
  <2>2. QED
    BY <1>2, <1>3, <2>1 DEF HistoryInv
<1>9. CASE SiblingsDone
  <2> DEFINE waiting == Gated(tool, batch, live)
             answered == With(conv, batch \ waiting, "done")
             results == Results(said, batch \ waiting)
             asking == With(answered, waiting, "asked")
  <2>1. /\ pc = "siblings" /\ deferred = None /\ UNCHANGED <<tool, deferred>>
        /\ waiting \in SUBSET Calls /\ waiting \subseteq batch
    BY <1>2, <1>9 DEF SiblingsDone, HoldInv, ApprovalInv, DeferredInv, Gated
  <2>2. answered \in [Calls -> Status] /\ asking \in [Calls -> Status]
    BY <1>2, WithType DEF Status
  <2>3. \A c \in Calls : conv[c] \notin Deciding /\ (conv[c] = "open" => tool[c] # Host)
    BY <1>1, <2>1 DEF AskedInv, Settled, Deciding, Decided, HistoryInv
  <2>4. batch \ waiting \in SUBSET Calls /\ Apart(batch \ waiting) /\ Apart(waiting)
    BY <1>2, <2>1 DEF Apart
  <2>5. Correlated(results, answered) /\ results \in [Ids -> Correlation]
    BY <1>2, <2>3, <2>4, ResultsSettle, HistoryTypes
  <2>6. \A c \in Calls : /\ answered[c] \notin Deciding
                         /\ answered[c] = "open" => tool[c] # Host
                         /\ c \notin waiting => asking[c] = answered[c]
                         /\ c \in waiting => asking[c] = "asked"
                         /\ c \notin Drawn => answered[c] = "absent" /\ asking[c] = "absent"
    BY <1>2, <2>1, <2>3 DEF With, Deciding, Decided
  <2> HIDE DEF waiting, answered, asking, results
  <2>7. Correlated(Requests(results, waiting), asking)
    BY <2>1, <2>2, <2>4, <2>5, <2>6, RequestsAsk DEF asking
  <2>8. Pending(tool, asking) \subseteq waiting /\ Pending(tool, answered) = {}
    BY <2>6 DEF Pending
  <2>9. Apart(Pending(tool, asking)) /\ Apart(Pending(tool, answered))
    BY <2>4, <2>8 DEF Apart
  <2>10. Drawn' = Drawn
    BY <2>1 DEF Drawn
  <2>11. CASE Pause(asking, Charged) /\ history' = Requests(results, waiting)
    <3>1. Answer(asking) /\ polling' = None
      BY <2>11 DEF Pause
    <3>2. QED
      BY <1>1, <2>1, <2>2, <2>6, <2>7, <2>9, <2>10, <2>11, <3>1, AnswerKeepsHistory
  <2>12. CASE /\ pc' = "top" /\ conv' = answered /\ said' = results
              /\ batch' = {} /\ UNCHANGED caller
    BY <1>3, <2>1, <2>5, <2>6, <2>9, <2>12 DEF caller
  <2>13. QED
    BY <1>9, <2>11, <2>12 DEF SiblingsDone, waiting, answered, asking, results
<1>10. CASE IterationLimit \/ Top
  <2>1. /\ UNCHANGED <<tool, transcript, history, polling, deferred, said, conv, batch>>
        /\ pc # "batch"
    BY <1>10 DEF IterationLimit, Failsafe, Top, caller, session
  <2>2. QED
    BY <1>2, <1>3, <2>1 DEF HistoryInv
<1>11. CASE ReplayDone
  <2> DEFINE S == Where(conv, "approved") \cup Where(conv, "rejected")
  <2>1. /\ UNCHANGED <<tool, transcript, history, polling, deferred, batch>> /\ pc = "replay"
        /\ conv' = With(conv, S, "done") /\ said' = Results(said, S)
    BY <1>11 DEF ReplayDone, Failsafe, Resolved, caller, session
  <2>2. \A c \in Calls : /\ conv[c] \in Deciding => conv[c] \in Decided /\ c \in S
                         /\ conv[c] = "open" => tool[c] # Host
    BY <1>1, <2>1 DEF AskedInv, Settled, Deciding, Decided, HistoryInv, Where
  <2>3. S \in SUBSET Calls /\ \A c \in S : conv[c] \in Deciding
    BY DEF Where, Deciding, Decided
  <2>4. Apart({c \in Calls : conv[c] \in Deciding})
    BY DEF HistoryInv, Apart, Pending
  <2>5. Apart(S) /\ \A c \in S, d \in Calls :
           CallId[c] = CallId[d] /\ conv[d] \in Deciding => c = d /\ conv[d] \in Decided
    BY <2>2, <2>3, <2>4 DEF Apart
  <2> HIDE DEF S
  <2>6. Correlated(said', conv')
    BY <1>2, <2>1, <2>3, <2>5, ResultsSettle
  <2>7. \A c \in Calls : /\ conv'[c] \notin Deciding /\ (conv'[c] = "open" => tool[c] # Host)
                         /\ c \notin Drawn => conv'[c] = "absent"
    BY <1>2, <2>1, <2>2, <2>3 DEF With, Deciding, Decided
  <2>8. Pending(tool', conv') = {}
    BY <2>1, <2>7 DEF Pending
  <2>9. QED
    BY <1>3, <2>1, <2>6, <2>7, <2>8 DEF Apart
<1>12. CASE BatchDone
  <2> DEFINE finished == batch \ Hosts(tool, batch)
             answered == With(conv, finished, "done")
             results == Results(said, finished)
  <2>1. /\ pc = "batch" /\ UNCHANGED <<tool, deferred>>
        /\ finished \in SUBSET Calls /\ finished \subseteq batch /\ Apart(finished)
    BY <1>2, <1>12 DEF BatchDone, Apart
  <2>2. answered \in [Calls -> Status]
    BY <1>2, WithType DEF Status
  <2>3. \A c \in Calls : /\ conv[c] \notin Deciding
                         /\ conv[c] = "open" /\ tool[c] = Host => c \in batch
    BY <1>1, <2>1 DEF AskedInv, Settled, Deciding, Decided, HistoryInv
  <2>4. Correlated(results, answered)
    BY <1>2, <2>1, <2>3, ResultsSettle
  <2>5. \A c \in Calls :
           /\ answered[c] \notin Deciding
           /\ answered[c] = "open" /\ tool[c] = Host => c \in Hosts(tool, batch)
           /\ c \notin Drawn => answered[c] = "absent"
    BY <1>2, <2>1, <2>3 DEF With, Deciding, Decided, Hosts
  <2>6. Pending(tool, answered) \subseteq Hosts(tool, batch)
    BY <2>5 DEF Pending
  <2>7. Apart(Pending(tool, answered))
    BY <1>2, <2>6 DEF Apart, Hosts
  <2>8. Drawn' = Drawn
    BY <2>1 DEF Drawn
  <2> HIDE DEF finished, answered, results
  <2>9. CASE Finish(answered) /\ history' = results
    <3>1. Answer(answered) /\ polling' = None
      BY <2>9 DEF Finish
    <3>2. QED
      BY <1>1, <1>2, <2>1, <2>2, <2>4, <2>5, <2>7, <2>8, <2>9, <3>1, AnswerKeepsHistory
  <2>10. CASE /\ Hosts(tool, batch) = {} /\ conv' = answered /\ said' = results
              /\ batch' = {} /\ UNCHANGED caller
    <3>1. \A c \in Calls : ~ (conv'[c] = "open" /\ tool[c] = Host)
      BY <2>5, <2>10
    <3>2. QED
      BY <1>3, <2>1, <2>4, <2>5, <2>7, <2>10, <3>1 DEF caller
  <2>11. QED
    BY <1>12, <2>9, <2>10 DEF BatchDone, finished, answered, results
<1>13. CASE ModelPending \/ ModelAnswers
  <2>1. /\ pc \in {"model", "failsafe"} /\ Answer(conv) /\ history' = said
        /\ UNCHANGED <<tool, deferred>>
    BY <1>13 DEF ModelPending, ModelAnswers, Modelling, HandBack, Finish
  <2>2. \A c \in Calls : conv[c] \notin Deciding /\ (conv[c] = "open" => tool[c] # Host)
    BY <1>1, <2>1 DEF AskedInv, Settled, Deciding, Decided, HistoryInv
  <2>3. Pending(tool', conv) = {} /\ Drawn' = Drawn
    BY <2>1, <2>2 DEF Pending, Drawn
  <2>4. Apart(Pending(tool', conv))
    BY <2>3 DEF Apart
  <2>5. QED
    BY <1>1, <1>2, <2>1, <2>3, <2>4, AnswerKeepsHistory
<1>14. CASE ModelCalls \/ FailsafeReturnsCalls
  BY <1>1, <1>14, ResponseKeepsHistory
<1>15. QED
  BY <1>4, <1>5, <1>6, <1>7, <1>8, <1>9, <1>10, <1>11, <1>12, <1>13, <1>14
     DEF Next, ModelFails, Terminate

(* What the theorems below rest on: that the session and the conversations are
   as they should be, and what is said of approvals in them agrees. *)
LEMMA Invariants == Spec => [](HoldInv /\ HistoryInv)
<1>1. Init => HoldInv /\ HistoryInv
  BY HoldInvInit, HistoryInvInit
<1>2. HoldInv /\ HistoryInv /\ [Next]_vars => (HoldInv /\ HistoryInv)'
  BY HoldInvStep, HistoryInvStep
<1>3. QED
  BY <1>1, <1>2, PTL DEF Spec

-----------------------------------------------------------------------------
(* Only execute_tool_call runs a call. *)
LEMMA ExecutesCalls ==
    ASSUME [Next]_vars, now' \ now # {}
    PROVE  \E x \in Calls : Execute(x)
<1>1. ASSUME NEW f, NEW operation, Begin(f, operation)
      PROVE  now' = now
  BY <1>1 DEF Begin
<1>2. Fresh \/ Reply \/ Turn \/ Poll => now' = now
  BY <1>1 DEF Fresh, Reply, Turn, Poll, Request
<1>3. Return => now' = {}
  BY DEF Return
<1>4. QED
  BY <1>2, <1>3
     DEF Next, Drop, Tick, Refuse, Terminate, SiblingsDone, IterationLimit, Top, ReplayDone,
         BatchDone, ModelFails, ModelPending, ModelAnswers, ModelCalls, FailsafeReturnsCalls, Err,
         Failsafe, HandBack, Answer, Finish, Pause, DropCalls, AskApproval, DeferSiblings,
         RunBatch, vars, ghosts

(* What execute_tool_call is given may run. *)
LEMMA ExecutesAllowedCalls ==
    ASSUME ApprovalInv, [Next]_vars, NEW c \in now' \ now
    PROVE  conv[c] = "approved" \/ (conv[c] = "open" /\ live[tool[c]] = "free")
<1>1. c \in Calls /\ Execute(c)
  <2>1. PICK x \in Calls : Execute(x)
    BY ExecutesCalls
  <2>2. c = x
    BY <2>1 DEF Execute
  <2>3. QED
    BY <2>1, <2>2
<1>2. c \in todo /\ pc \in {"siblings", "replay", "batch"} /\ Known(c)
  BY <1>1 DEF Execute, Due
<1>3. CASE pc = "replay"
  BY <1>2, <1>3 DEF ApprovalInv, TodoInv
<1>4. CASE pc \in {"siblings", "batch"}
  <2>1. conv[c] = "open" /\ c \notin Gated(tool, Calls, live)
    BY <1>2, <1>4 DEF ApprovalInv, TodoInv
  <2>2. live \in [Tools -> Availability]
    BY <1>4, Parameters DEF ApprovalInv, TypeInv
  <2>3. QED
    BY <1>1, <1>2, <2>1, <2>2 DEF Known, Gated, Availability
<1>5. QED
  BY <1>2, <1>3, <1>4

(* Whatever the tools, the policies and the caller: a call is executed only
   with the caller's approval, or when the tools in force required none, also
   when it was deferred to a later request. *)
THEOREM ApprovalRequired == Spec => ApprovedOnly
<1>1. ApprovalInv /\ [Next]_vars
         => [\A c \in now' \ now :
               conv[c] = "approved" \/ (conv[c] = "open" /\ live[tool[c]] = "free")]_vars
  BY ExecutesAllowedCalls
<1>2. HoldInv => ApprovalInv
  BY DEF HoldInv
<1>3. QED
  BY Invariants, <1>1, <1>2, PTL DEF Spec, ApprovedOnly

-----------------------------------------------------------------------------
(* A batch that is being executed has no results yet. *)
BatchInv == pc \in {"siblings", "batch"} =>
               todo \subseteq batch /\ \A c \in batch : conv[c] = "open"

(* A call counted as executed has its result, or is of another conversation. *)
CountInv ==
    \A c \in Calls :
       /\ executions[c] \in {0, 1}
       /\ executions[c] = 1 => /\ transcript[c] \in {"absent", "done"}
                               /\ conv[c] \in {"absent", "done"}
                               /\ c \in Drawn

(* A call the current request executed has its result, or gets it once the
   calls beside it have run. *)
NowInv ==
    /\ pc = "idle" => now = {}
    /\ \A c \in now :
          /\ executions[c] = 0 /\ c \in Drawn /\ c \notin todo
          /\ \/ conv[c] = "done"
             \/ pc = "siblings" /\ c \in batch \ Gated(tool, batch, live)
             \/ pc = "replay" /\ conv[c] = "approved"
             \/ pc = "batch" /\ c \in batch \ Hosts(tool, batch)

OnceInv == ApprovalInv /\ BatchInv /\ CountInv /\ NowInv

(* The end of a request without an answer forgets what it executed. *)
LEMMA ErrKeepsOnce ==
    ASSUME OnceInv, Return, UNCHANGED <<tool, transcript, executions>>
    PROVE  BatchInv' /\ CountInv' /\ NowInv'
<1>1. pc' = "idle" /\ now' = {} /\ \A c \in Calls : conv'[c] = "absent"
  BY DEF Return, NoConversation
<1>2. QED
  BY <1>1 DEF OnceInv, BatchInv, CountInv, NowInv, Drawn

(* An answer counts what the request executed, all of which it holds the
   results of. *)
LEMMA AnswerKeepsOnce ==
    ASSUME OnceInv, NEW f \in [Calls -> Status], Answer(f),
           Drawn \subseteq Drawn',
           \A c \in Calls : executions[c] = 1 => f[c] \in {"absent", "done"},
           \A c \in now : f[c] = "done"
    PROVE  BatchInv' /\ CountInv' /\ NowInv'
<1>1. /\ pc' = "idle" /\ now' = {} /\ transcript' = f
      /\ \A c \in Calls : conv'[c] = "absent"
  BY DEF Answer, Return, NoConversation
<1>2. executions' = [c \in Calls |-> IF c \in now THEN executions[c] + 1 ELSE executions[c]]
  BY DEF Answer
<1>3. \A c \in Calls : /\ executions[c] \in {0, 1}
                       /\ c \in now => executions[c] = 0 /\ c \in Drawn
                       /\ executions[c] = 1 => c \in Drawn
  BY DEF OnceInv, CountInv, NowInv
<1>4. CountInv'
  BY <1>1, <1>2, <1>3 DEF CountInv
<1>5. QED
  BY <1>1, <1>4 DEF BatchInv, NowInv

LEMMA BeginKeepsOnce ==
    ASSUME OnceInv, NEW f \in [Calls -> Status], NEW operation \in {"on", "off", None},
           Begin(f, operation), deferred # None => Together(f),
           \A c \in Calls : transcript[c] \in {"absent", "done"} => f[c] \in {"absent", "done"}
    PROVE  BatchInv' /\ CountInv' /\ NowInv'
<1>1. /\ UNCHANGED <<tool, transcript, now, executions>> /\ conv' = f
      /\ pc = "idle" /\ pc' \in {"siblings", "top"}
  BY DEF Begin, world, caller
<1>2. now' = {}
  BY <1>1 DEF OnceInv, NowInv
<1>3. CountInv'
  BY <1>1 DEF OnceInv, CountInv, Drawn
<1>4. BatchInv'
  <2>1. SUFFICES ASSUME pc' = "siblings"
                 PROVE  todo' \subseteq batch' /\ \A c \in batch' : f[c] = "open"
    BY <1>1 DEF BatchInv
  <2>2. /\ deferred # None /\ batch' = deferred.calls /\ todo' \subseteq batch'
        /\ \A h \in deferred.hosts : f[h] = "done"
    BY <2>1 DEF Begin, Runnable
  <2>3. QED
    BY <2>2 DEF OnceInv, ApprovalInv, DeferredInv, Together
<1>5. QED
  BY <1>1, <1>2, <1>3, <1>4 DEF NowInv

(* A response with new calls changes nothing of the calls executed so far. *)
LEMMA NewCallsKeepOnce ==
    ASSUME OnceInv, NEW f \in [Calls -> Status], NEW S, NEW s, S \cap Drawn = {}
    PROVE  \A c \in Calls : executions[c] = 1 \/ c \in now => With(f, S, s)[c] = f[c]
BY DEF OnceInv, CountInv, NowInv, With

(* Outside an execution phase what was executed has its result. *)
LEMMA ExecutedHaveResults ==
    ASSUME OnceInv, pc \in {"top", "model", "failsafe"}
    PROVE  /\ \A c \in now : conv[c] = "done"
           /\ \A c \in Calls : executions[c] = 1 => conv[c] \in {"absent", "done"}
BY DEF OnceInv, CountInv, NowInv

LEMMA ModelCallsKeepsOnce ==
    ASSUME OnceInv, ModelCalls
    PROVE  BatchInv' /\ CountInv' /\ NowInv'
<1>1. PICK n \in 1..MaxBatch : /\ NextCalls(n) \subseteq Calls
         /\ \E names \in Named(NextCalls(n)) :
              /\ tool' = names
              /\ \/ DropCalls(NextCalls(n)) \/ AskApproval(NextCalls(n), names)
                 \/ DeferSiblings(NextCalls(n), names) \/ RunBatch(NextCalls(n), names)
  BY DEF ModelCalls
<1> DEFINE calls == NextCalls(n)
<1>2. PICK names \in Named(calls) :
              /\ tool' = names
              /\ \/ DropCalls(calls) \/ AskApproval(calls, names)
                 \/ DeferSiblings(calls, names) \/ RunBatch(calls, names)
  BY <1>1
<1>3. Drawn \subseteq Drawn' /\ calls \cap Drawn = {} /\ calls \subseteq Calls
  BY <1>1, <1>2, NewCallsKeepDeferred DEF OnceInv
<1>4. Hosts(names, calls) \subseteq calls /\ Hosts(names, calls) \cap Drawn = {}
  BY <1>3 DEF Hosts
<1>5. /\ conv \in [Calls -> Status]
      /\ With(conv, calls, "open") \in [Calls -> Status]
      /\ With(conv, calls, "asked") \in [Calls -> Status]
      /\ With(With(conv, calls, "asked"), Hosts(names, calls), "open") \in [Calls -> Status]
  BY WithType DEF OnceInv, ApprovalInv, TypeInv, StateOK, Status
<1> DEFINE executed == {c \in Calls : executions[c] = 1 \/ c \in now}
<1>6. \A c \in executed :
         /\ With(conv, calls, "open")[c] = conv[c]
         /\ With(With(conv, calls, "asked"), Hosts(names, calls), "open")[c] = conv[c]
  BY <1>3, <1>4, <1>5, NewCallsKeepOnce
<1>7. /\ \A c \in now : conv[c] = "done" /\ c \in executed
      /\ \A c \in Calls : executions[c] = 1 => conv[c] \in {"absent", "done"} /\ c \in executed
  BY ExecutedHaveResults DEF ModelCalls, OnceInv, ApprovalInv, TypeInv, StateOK
<1> HIDE DEF calls, executed
<1>8. CASE DropCalls(calls)
  <2>1. /\ UNCHANGED <<transcript, todo, now, executions>>
        /\ conv' = conv /\ pc' = "failsafe"
    BY <1>8 DEF DropCalls, Stripped, caller, ghosts
  <2>2. QED
    BY <2>1, <1>3, <1>7 DEF OnceInv, BatchInv, CountInv, NowInv
<1>9. CASE AskApproval(calls, names)
  BY <1>9, <1>3, <1>5, <1>6, <1>7, AnswerKeepsOnce DEF AskApproval, Pause
<1>10. CASE DeferSiblings(calls, names)
  BY <1>10, <1>3, <1>5, <1>6, <1>7, AnswerKeepsOnce DEF DeferSiblings, Pause
<1>11. CASE RunBatch(calls, names)
  <2>1. /\ UNCHANGED <<transcript, now, executions>> /\ conv' = With(conv, calls, "open")
        /\ pc' = "batch" /\ batch' = calls /\ todo' \subseteq calls
    BY <1>11 DEF RunBatch, caller, ghosts
  <2>2. BatchInv'
    BY <2>1, <1>3 DEF BatchInv, With
  <2>3. CountInv'
    BY <2>1, <1>3, <1>6, <1>7 DEF OnceInv, CountInv
  <2>4. NowInv'
    BY <2>1, <1>3, <1>6, <1>7 DEF OnceInv, NowInv
  <2>5. QED
    BY <2>2, <2>3, <2>4
<1>12. QED
  BY <1>2, <1>8, <1>9, <1>10, <1>11

LEMMA OnceInvInit ==
    ASSUME Init
    PROVE  OnceInv
<1>1. ApprovalInv
  BY ApprovalInvInit
<1>2. pc = "idle" /\ now = {} /\ executions = [c \in Calls |-> 0]
  BY DEF Init
<1>3. CountInv
  BY <1>2 DEF CountInv
<1>4. BatchInv /\ NowInv
  BY <1>2 DEF BatchInv, NowInv
<1>5. QED
  BY <1>1, <1>3, <1>4 DEF OnceInv

LEMMA OnceInvStep ==
    ASSUME OnceInv, HistoryInv, [Next]_vars
    PROVE  OnceInv'
<1>1. ApprovalInv /\ ApprovalInv' /\ BatchInv /\ CountInv /\ NowInv
  BY ApprovalInvStep DEF OnceInv
<1>2. /\ conv \in [Calls -> Status] /\ transcript \in [Calls -> Status]
      /\ batch \subseteq Calls /\ now \subseteq Calls
  BY <1>1 DEF ApprovalInv, TypeInv, StateOK
<1>3. deferred # None => Together(transcript) /\ Together(conv)
  BY <1>1 DEF ApprovalInv, DeferredInv
<1>4. SUFFICES BatchInv' /\ CountInv' /\ NowInv'
  BY <1>1 DEF OnceInv
<1>5. CASE Fresh
  BY <1>5, FreshBegins, BeginKeepsOnce
     DEF NoConversation, Status, Together, OnceInv, ApprovalInv, TypeInv
<1>6. CASE Reply
  <2> DEFINE reply(yes) ==
        With(With(With(transcript, Hosts(tool, Where(transcript, "open")), "done"),
                  yes, "approved"),
             Where(transcript, "asked") \ yes, "rejected")
  <2>1. PICK yes \in SUBSET Where(transcript, "asked") : Begin(reply(yes), None)
    BY <1>1, <1>6, ReplyBegins DEF ApprovalInv
  <2>2. reply(yes) \in [Calls -> Status]
    BY <1>1, ReplyType DEF ApprovalInv
  <2>3. deferred # None => Together(reply(yes))
    BY <1>1, ReplyKeepsTogether
  <2>4. \A c \in Calls : transcript[c] \in {"absent", "done"} => reply(yes)[c] = transcript[c]
    BY DEF With, Where, Hosts
  <2> HIDE DEF reply
  <2>5. QED
    BY <2>1, <2>2, <2>3, <2>4, BeginKeepsOnce
<1>7. CASE Turn \/ Poll
  BY <1>1, <1>2, <1>3, <1>7, OthersBegin, BeginKeepsOnce DEF ApprovalInv, TypeInv, StateOK
<1>8. CASE Drop \/ Err
  BY <1>8, ErrKeepsOnce DEF Drop, Err, world
<1>9. CASE Tick \/ UNCHANGED vars
  BY <1>1, <1>9 DEF Tick, vars, world, caller, session, local, ghosts, BatchInv, CountInv, NowInv,
                    Drawn
<1>10. ASSUME NEW c \in Calls, Execute(c)
       PROVE  BatchInv' /\ CountInv' /\ NowInv'
  <2>1. /\ UNCHANGED <<tool, transcript, pc, live, conv, batch, executions>>
        /\ todo' = todo \ {c} /\ now' = now \cup {c}
    BY <1>10 DEF Execute, caller
  <2>2. c \in todo /\ pc \in {"siblings", "replay", "batch"} /\ tool[c] \in Tools
    BY <1>10 DEF Execute, Due, Known
  <2>3. c \in Drawn /\ c \notin Hosts(tool, batch)
    BY <2>2, ConfigAssumption DEF ConfigAssumption, Drawn, Hosts
  <2>4. conv[c] \in {"open", "approved"} /\ executions[c] = 0
    BY <1>1, <2>2 DEF ApprovalInv, TodoInv, CountInv
  <2>5. \/ pc = "siblings" /\ c \in batch \ Gated(tool, batch, live)
        \/ pc = "replay" /\ conv[c] = "approved"
        \/ pc = "batch" /\ c \in batch \ Hosts(tool, batch)
    BY <1>1, <2>2, <2>3 DEF ApprovalInv, TodoInv, BatchInv, Gated
  <2>6. BatchInv' /\ CountInv'
    BY <1>1, <2>1 DEF BatchInv, CountInv, Drawn
  <2>7. NowInv'
    BY <1>1, <2>1, <2>2, <2>3, <2>4, <2>5 DEF NowInv, Drawn
  <2>8. QED
    BY <2>6, <2>7
<1>11. ASSUME NEW c \in Calls, Refuse(c)
       PROVE  BatchInv' /\ CountInv' /\ NowInv'
  BY <1>1, <1>11 DEF Refuse, caller, ghosts, BatchInv, CountInv, NowInv, Drawn
<1>12. CASE SiblingsDone
  <2> DEFINE waiting == Gated(tool, batch, live)
             answered == With(conv, batch \ waiting, "done")
             asking == With(answered, waiting, "asked")
  <2>1. pc = "siblings" /\ tool' = tool /\ waiting \subseteq batch
    BY <1>12 DEF SiblingsDone, Gated
  <2>2. answered \in [Calls -> Status] /\ asking \in [Calls -> Status]
    BY <1>2, WithType DEF Status
  <2>3. \A c \in Calls : executions[c] = 1 => c \notin batch /\ conv[c] \in {"absent", "done"}
    BY <1>1, <2>1 DEF BatchInv, CountInv
  <2>4. \A c \in now : conv[c] = "done" \/ c \in batch \ waiting
    BY <1>1, <2>1 DEF NowInv
  <2>5. \A c \in now : conv[c] = "done" => c \notin batch
    BY <1>1, <2>1 DEF BatchInv
  <2>6. /\ \A c \in Calls : executions[c] = 1 => /\ answered[c] \in {"absent", "done"}
                                                /\ asking[c] \in {"absent", "done"}
        /\ \A c \in now : answered[c] = "done" /\ asking[c] = "done"
    BY <1>2, <2>1, <2>3, <2>4, <2>5 DEF With
  <2> HIDE DEF waiting, answered, asking
  <2>7. CASE Pause(asking, Charged)
    BY <2>1, <2>2, <2>6, <2>7, AnswerKeepsOnce DEF Pause, Drawn
  <2>8. CASE /\ pc' = "top" /\ conv' = answered
             /\ UNCHANGED <<caller, todo, ghosts>>
    BY <1>1, <2>1, <2>6, <2>8 DEF caller, ghosts, BatchInv, CountInv, NowInv, Drawn
  <2>9. QED
    BY <1>12, <2>7, <2>8 DEF SiblingsDone, waiting, answered, asking
<1>13. CASE IterationLimit
  BY <1>1, <1>13 DEF IterationLimit, Failsafe, caller, ghosts, BatchInv, CountInv, NowInv, Drawn
<1>14. CASE Top
  <2>1. /\ UNCHANGED <<tool, transcript, conv, now, executions>>
        /\ pc = "top" /\ pc' = "replay" /\ todo' \subseteq Where(conv, "approved")
    BY <1>14 DEF Top, caller, ghosts
  <2>2. \A c \in now : conv[c] = "done" /\ c \notin todo'
    BY <1>1, <2>1 DEF NowInv, Where
  <2>3. QED
    BY <1>1, <2>1, <2>2 DEF BatchInv, CountInv, NowInv, Drawn
<1>15. CASE ReplayDone
  <2>1. /\ UNCHANGED <<tool, transcript, now, executions, todo>> /\ conv' = Resolved
        /\ pc = "replay" /\ pc' \in {"model", "failsafe"}
    BY <1>15 DEF ReplayDone, Failsafe, caller
  <2>2. \A c \in Calls : /\ conv[c] \in {"absent", "done"} => Resolved[c] = conv[c]
                         /\ conv[c] = "approved" => Resolved[c] = "done"
    BY <1>2 DEF Resolved, With, Where
  <2>3. QED
    BY <1>1, <1>2, <2>1, <2>2 DEF BatchInv, CountInv, NowInv, Drawn
<1>16. CASE BatchDone
  <2> DEFINE finished == batch \ Hosts(tool, batch)
             answered == With(conv, finished, "done")
  <2>1. pc = "batch" /\ tool' = tool
    BY <1>16 DEF BatchDone
  <2>2. answered \in [Calls -> Status]
    BY <1>2, WithType DEF Status
  <2>3. \A c \in Calls : executions[c] = 1 => answered[c] \in {"absent", "done"}
    BY <1>1, <1>2 DEF CountInv, With
  <2>4. \A c \in now : answered[c] = "done"
    BY <1>1, <1>2, <2>1 DEF NowInv, With
  <2> HIDE DEF finished, answered
  <2>5. CASE Finish(answered)
    BY <2>1, <2>2, <2>3, <2>4, <2>5, AnswerKeepsOnce DEF Finish, Drawn
  <2>6. CASE /\ pc' = "top" /\ conv' = answered
             /\ UNCHANGED <<caller, todo, ghosts>>
    BY <1>1, <2>1, <2>3, <2>4, <2>6 DEF caller, ghosts, BatchInv, CountInv, NowInv, Drawn
  <2>7. QED
    BY <1>16, <2>5, <2>6 DEF BatchDone, finished, answered
<1>17. CASE ModelPending
  BY <1>2, <1>17, ExecutedHaveResults, AnswerKeepsOnce
     DEF ModelPending, Modelling, HandBack, Drawn
<1>18. CASE ModelAnswers
  BY <1>2, <1>18, ExecutedHaveResults, AnswerKeepsOnce
     DEF ModelAnswers, Modelling, Finish, Drawn
<1>19. CASE ModelCalls
  BY <1>19, ModelCallsKeepsOnce
<1>20. CASE FailsafeReturnsCalls
  <2>1. PICK n \in 1..MaxBatch : /\ NextCalls(n) \subseteq Calls
         /\ \E names \in Named(NextCalls(n)) :
              LET hosts == Hosts(names, NextCalls(n))
              IN  /\ tool' = names
                  /\ Finish(With(With(conv, hosts, "open"), NextCalls(n) \ hosts, "late"))
    BY <1>20 DEF FailsafeReturnsCalls
  <2>2. PICK names \in Named(NextCalls(n)) :
           /\ tool' = names
           /\ Finish(With(With(conv, Hosts(names, NextCalls(n)), "open"),
                          NextCalls(n) \ Hosts(names, NextCalls(n)), "late"))
    BY <2>1
  <2> DEFINE hosts == Hosts(names, NextCalls(n))
             others == NextCalls(n) \ hosts
             opened == With(conv, hosts, "open")
             answered == With(opened, others, "late")
  <2>3. Drawn \subseteq Drawn' /\ \A c \in Drawn : c \notin NextCalls(n)
    BY <1>1, <2>1, <2>2, NewCallsKeepDeferred
  <2>4. hosts \cap Drawn = {} /\ others \cap Drawn = {}
    BY <2>3 DEF Hosts
  <2>5. opened \in [Calls -> Status] /\ answered \in [Calls -> Status]
    BY <1>2, WithType DEF Status
  <2> HIDE DEF hosts, others
  <2>6. \A c \in Calls : executions[c] = 1 \/ c \in now => opened[c] = conv[c]
    BY <1>2, <2>4, NewCallsKeepOnce
  <2>7. \A c \in Calls : executions[c] = 1 \/ c \in now => answered[c] = opened[c]
    BY <2>4, <2>5, NewCallsKeepOnce
  <2> HIDE DEF opened, answered
  <2>8. /\ \A c \in now : conv[c] = "done"
        /\ \A c \in Calls : executions[c] = 1 => conv[c] \in {"absent", "done"}
    BY <1>20, ExecutedHaveResults DEF FailsafeReturnsCalls
  <2>9. Answer(answered)
    BY <2>2 DEF Finish, hosts, others, opened, answered
  <2>10. QED
    BY <1>2, <2>3, <2>5, <2>6, <2>7, <2>8, <2>9, AnswerKeepsOnce
<1>21. QED
  BY <1>5, <1>6, <1>7, <1>8, <1>9, <1>10, <1>11, <1>12, <1>13, <1>14, <1>15, <1>16, <1>17,
     <1>18, <1>19, <1>20
     DEF Next, ModelFails, Terminate

(* Whatever the tools, the policies and the caller: no call is executed by two
   answered requests, nor twice by one, however its run is paused and resumed,
   and whichever answers the caller repeats, under whatever call ids. *)
THEOREM CallsRunOnce == Spec => []ExecutedOnce
<1>1. OnceInv => ExecutedOnce
  BY DEF OnceInv, CountInv, NowInv, ExecutedOnce
<1>2. QED
  BY Invariants, OnceInvInit, OnceInvStep, <1>1, PTL DEF Spec
-----------------------------------------------------------------------------
(* What CallsMatchResults supposes of the caller: it does not repeat a failed
   reply that answered calls of its own, which left the deferred ones behind
   (MCDeferredRetry shows what the model is sent then). *)
AnswersOnce == Retries => Host \notin Requested

(* Who answers the calls a caller holds no result of. *)
OwedInv ==
    (pc = "idle" /\ ~ failed) \/ Host \notin Requested =>
       /\ polling # None => Where(transcript, "open") = {}
       /\ \A c \in Where(transcript, "open") :
             tool[c] = Host \/ (/\ deferred # None /\ c \in deferred.calls
                                /\ \A h \in deferred.hosts : transcript[h] = "open")

(* Only the batch at hand is without results. *)
LoopInv ==
    /\ pc \in {"top", "replay", "model", "failsafe"} => Where(conv, "open") = {}
    /\ pc \in {"siblings", "batch"} => Where(conv, "open") \subseteq batch

MatchInv == HoldInv /\ OwedInv /\ LoopInv

(* Without calls of the caller's own nothing is ever deferred or left open. *)
LEMMA NothingOwed ==
    ASSUME MatchInv, Host \notin Requested
    PROVE  deferred = None /\ Where(transcript, "open") = {}
<1>1. \A c \in Calls : tool[c] # Host
  BY ConfigAssumption DEF ConfigAssumption, MatchInv, HoldInv, ApprovalInv, TypeInv
<1>2. deferred = None
  BY <1>1 DEF MatchInv, HoldInv, HeldInv, ApprovalInv, DeferredInv, TypeInv
<1>3. QED
  BY <1>1, <1>2 DEF MatchInv, OwedInv, Where

(* In a request the caller's conversation is not answered. *)
LEMMA RequestKeepsOwed ==
    ASSUME MatchInv, UNCHANGED transcript, pc' # "idle" \/ failed'
    PROVE  OwedInv'
<1>1. SUFFICES ASSUME Host \notin Requested
               PROVE  OwedInv'
  BY DEF OwedInv
<1>2. Where(transcript, "open") = {}
  BY <1>1, NothingOwed
<1>3. Where(transcript', "open") = {}
  BY <1>2 DEF Where
<1>4. QED
  BY <1>3 DEF OwedInv, Where

(* An answer whose open calls are the caller's own, or deferred by it. *)
LEMMA AnswerKeepsMatch ==
    ASSUME MatchInv, NEW f \in [Calls -> Status], Answer(f),
           polling' # None => Where(f, "open") = {},
           \A c \in Where(f, "open") :
              tool'[c] = Host \/ (/\ deferred' # None /\ c \in deferred'.calls
                                  /\ \A h \in deferred'.hosts : f[h] = "open")
    PROVE  OwedInv' /\ LoopInv'
<1>1. pc' = "idle" /\ transcript' = f
  BY DEF Answer, Return
<1>2. QED
  BY <1>1 DEF OwedInv, LoopInv, Where

(* A request starts with the calls open that are due, and no other. *)
LEMMA BeginKeepsMatch ==
    ASSUME MatchInv, NEW f \in [Calls -> Status], NEW operation, Begin(f, operation),
           \/ Where(f, "open") = {}
           \/ /\ deferred # None /\ \A h \in deferred.hosts : f[h] = "done"
              /\ Where(f, "open") \subseteq deferred.calls
    PROVE  OwedInv' /\ LoopInv'
<1>1. UNCHANGED transcript /\ conv' = f /\ pc' \in {"siblings", "top"}
  BY DEF Begin, caller
<1>2. OwedInv'
  BY <1>1, RequestKeepsOwed
<1>3. CASE deferred # None /\ \A h \in deferred.hosts : f[h] = "done"
  <2>1. pc' = "siblings" /\ batch' = deferred.calls
    BY <1>3 DEF Begin
  <2>2. QED
    BY <1>1, <1>2, <2>1 DEF LoopInv, Where
<1>4. CASE Where(f, "open") = {}
  BY <1>1, <1>2, <1>4 DEF LoopInv, Where
<1>5. QED
  BY <1>3, <1>4

(* All that a reply leaves open is due. *)
LEMMA ReplyLeavesDue ==
    ASSUME AnswersOnce, MatchInv, pc = "idle", failed => Retries,
           NEW yes \in SUBSET Where(transcript, "asked"),
           NEW f, f = With(With(With(transcript, Hosts(tool, Where(transcript, "open")), "done"),
                                yes, "approved"),
                           Where(transcript, "asked") \ yes, "rejected")
    PROVE  \/ Where(f, "open") = {}
           \/ /\ deferred # None /\ \A h \in deferred.hosts : f[h] = "done"
              /\ Where(f, "open") \subseteq deferred.calls
<1>1. \A c \in Calls :
         /\ transcript[c] = "asked" => f[c] \in {"approved", "rejected"}
         /\ transcript[c] = "open" /\ tool[c] = Host => f[c] = "done"
         /\ transcript[c] \in Settled => f[c] = transcript[c]
         /\ transcript[c] \in Settled \cup {"asked", "open"}
  BY ReplyStatus DEF MatchInv, HoldInv, AskedInv
<1>2. \A c \in Where(f, "open") : transcript[c] = "open" /\ tool[c] # Host
  BY <1>1 DEF Where, Settled
<1>3. \A c \in Where(f, "open") :
         /\ deferred # None /\ c \in deferred.calls
         /\ \A h \in deferred.hosts : transcript[h] = "open"
  BY <1>2 DEF MatchInv, OwedInv, AnswersOnce, Where
<1>4. deferred # None => \A h \in deferred.hosts : h \in Calls /\ tool[h] = Host
  BY DEF MatchInv, HoldInv, HeldInv, ApprovalInv, TypeInv
<1>5. QED
  BY <1>1, <1>3, <1>4

LEMMA ResponseKeepsMatch ==
    ASSUME MatchInv, ModelCalls \/ FailsafeReturnsCalls
    PROVE  OwedInv' /\ LoopInv'
<1>1. PICK calls \in SUBSET Calls, names \in [Calls -> Requested \cup {None}] :
              /\ tool' = names
              /\ \/ /\ ModelCalls
                    /\ \/ DropCalls(calls) \/ AskApproval(calls, names)
                       \/ DeferSiblings(calls, names) \/ RunBatch(calls, names)
                 \/ /\ FailsafeReturnsCalls
                    /\ Finish(With(With(conv, Hosts(names, calls), "open"),
                                   calls \ Hosts(names, calls), "late"))
  BY ResponseCalls DEF MatchInv, HoldInv
<1>2. conv \in [Calls -> Status] /\ \A c \in Calls : conv[c] # "open"
  BY DEF MatchInv, HoldInv, ApprovalInv, TypeInv, StateOK, LoopInv, Where, ModelCalls,
         FailsafeReturnsCalls
<1> DEFINE opened == With(conv, calls, "open")
           asking == With(With(conv, calls, "asked"), Hosts(names, calls), "open")
           late == With(With(conv, Hosts(names, calls), "open"), calls \ Hosts(names, calls), "late")
<1>3. /\ opened \in [Calls -> Status] /\ asking \in [Calls -> Status]
      /\ late \in [Calls -> Status]
  BY <1>2, WithType DEF Status
<1>4. /\ Where(opened, "open") = calls
      /\ Where(asking, "open") = Hosts(names, calls)
      /\ Where(late, "open") = Hosts(names, calls)
  BY <1>2 DEF With, Where, Hosts
<1>5. \A c \in Hosts(names, calls) : tool'[c] = Host
  BY <1>1 DEF Hosts
<1> HIDE DEF opened, asking, late
<1>6. CASE DropCalls(calls)
  <2>1. UNCHANGED <<transcript, conv>> /\ pc' = "failsafe"
    BY <1>6 DEF DropCalls, Stripped, caller
  <2>2. OwedInv'
    BY <2>1, RequestKeepsOwed
  <2>3. QED
    BY <2>1, <2>2, <1>2 DEF LoopInv, Where
<1>7. CASE AskApproval(calls, names)
  <2>1. Answer(asking) /\ polling' = None
    BY <1>7 DEF AskApproval, Pause, asking
  <2>2. QED
    BY <2>1, <1>3, <1>4, <1>5, AnswerKeepsMatch
<1>8. CASE DeferSiblings(calls, names)
  <2>1. Answer(opened) /\ polling' = None
    BY <1>8 DEF DeferSiblings, Pause, opened
  <2>2. deferred' = [calls |-> Siblings(calls, names), hosts |-> Hosts(names, calls)]
    BY <1>8 DEF DeferSiblings, Mixed
  <2>5. deferred' \in Deferred
    BY <2>2 DEF Deferred, Siblings, Hosts
  <2>6. deferred' # None
    BY <2>5, ConfigAssumption DEF ConfigAssumption
  <2>3. /\ \A h \in deferred'.hosts : opened[h] = "open"
        /\ \A c \in calls : c \in Hosts(names, calls) \/ c \in deferred'.calls
    BY <2>2, <1>4 DEF Siblings, Where, Hosts
  <2>4. QED
    BY <2>1, <2>2, <2>3, <2>6, <1>3, <1>4, <1>5, AnswerKeepsMatch
<1>9. CASE RunBatch(calls, names)
  <2>1. UNCHANGED transcript /\ conv' = opened /\ pc' = "batch" /\ batch' = calls
    BY <1>9 DEF RunBatch, caller, opened
  <2>2. OwedInv'
    BY <2>1, RequestKeepsOwed
  <2>3. QED
    BY <2>1, <2>2, <1>4 DEF LoopInv, Where
<1>10. CASE FailsafeReturnsCalls /\ Finish(late)
  <2>1. Answer(late) /\ polling' = None
    BY <1>10 DEF Finish
  <2>2. QED
    BY <2>1, <1>3, <1>4, <1>5, AnswerKeepsMatch
<1>11. QED
  BY <1>1, <1>6, <1>7, <1>8, <1>9, <1>10 DEF late

LEMMA MatchInvInit ==
    ASSUME Init
    PROVE  MatchInv
BY HoldInvInit DEF Init, MatchInv, OwedInv, LoopInv, NoConversation, Where

LEMMA MatchInvStep ==
    ASSUME AnswersOnce, MatchInv, HistoryInv, [Next]_vars
    PROVE  MatchInv'
<1>1. HoldInv /\ HoldInv' /\ OwedInv /\ LoopInv
  BY HoldInvStep DEF MatchInv
<1>2. /\ conv \in [Calls -> Status] /\ transcript \in [Calls -> Status] /\ batch \subseteq Calls
  BY <1>1 DEF HoldInv, ApprovalInv, TypeInv, StateOK
<1>3. SUFFICES OwedInv' /\ LoopInv'
  BY <1>1 DEF MatchInv
<1>4. CASE Fresh
  BY <1>4, FreshBegins, BeginKeepsMatch DEF NoConversation, Status, Where
<1>5. CASE Reply
  <2> DEFINE reply(yes) ==
        With(With(With(transcript, Hosts(tool, Where(transcript, "open")), "done"),
                  yes, "approved"),
             Where(transcript, "asked") \ yes, "rejected")
  <2>1. PICK yes \in SUBSET Where(transcript, "asked") : Begin(reply(yes), None)
    BY <1>1, <1>5, ReplyBegins DEF HoldInv, ApprovalInv
  <2>2. reply(yes) \in [Calls -> Status]
    BY <1>1, ReplyType DEF HoldInv, ApprovalInv
  <2>3. pc = "idle" /\ (failed => Retries)
    BY <1>5, <2>1 DEF Reply, Begin
  <2>4. \/ Where(reply(yes), "open") = {}
        \/ /\ deferred # None /\ \A h \in deferred.hosts : reply(yes)[h] = "done"
           /\ Where(reply(yes), "open") \subseteq deferred.calls
    BY <2>3, ReplyLeavesDue
  <2> HIDE DEF reply
  <2>5. QED
    BY <2>1, <2>2, <2>4, BeginKeepsMatch
<1>6. CASE Turn \/ Poll
  <2>1. PICK operation \in {None, polling} : Begin(transcript, operation)
    BY <1>1, <1>6, OthersBegin DEF HoldInv, ApprovalInv
  <2>2. Hosted = {}
    BY <1>1, <1>6, OthersBegin DEF HoldInv, ApprovalInv
  <2>3. pc = "idle" /\ (failed => Retries)
    BY <1>6, <2>1 DEF Turn, Poll, Begin
  <2>4. Where(transcript, "open") = {}
    <3>1. \A c \in Where(transcript, "open") :
             tool[c] = Host \/ (/\ deferred # None /\ c \in deferred.calls
                                /\ \A h \in deferred.hosts : transcript[h] = "open")
      BY <1>1, <2>3 DEF OwedInv, AnswersOnce
    <3>2. deferred # None => /\ deferred.hosts # {}
                             /\ \A h \in deferred.hosts : tool[h] = Host /\ h \in Calls
      BY <1>1 DEF HoldInv, HeldInv, ApprovalInv, DeferredInv, TypeInv
    <3>3. QED
      BY <2>2, <3>1, <3>2 DEF Hosted, Hosts, Where
  <2>5. QED
    BY <1>2, <2>1, <2>4, BeginKeepsMatch
<1>7. CASE Drop \/ Err
  <2>1. UNCHANGED transcript /\ failed' /\ pc' = "idle"
    BY <1>7 DEF Drop, Err, Return
  <2>2. QED
    BY <2>1, RequestKeepsOwed DEF LoopInv
<1>8. CASE Tick \/ UNCHANGED vars
  BY <1>1, <1>8 DEF Tick, vars, world, caller, session, local, OwedInv, LoopInv, Where
<1>9. ASSUME NEW c \in Calls, Execute(c) \/ Refuse(c)
      PROVE  OwedInv' /\ LoopInv'
  <2>1. UNCHANGED <<transcript, pc, conv, batch>> /\ pc # "idle"
    BY <1>9 DEF Execute, Refuse, Due, caller
  <2>2. QED
    BY <1>1, <2>1, RequestKeepsOwed DEF LoopInv, Where
<1>10. CASE SiblingsDone
  <2> DEFINE waiting == Gated(tool, batch, live)
             answered == With(conv, batch \ waiting, "done")
             asking == With(answered, waiting, "asked")
  <2>1. pc = "siblings" /\ waiting \subseteq batch /\ Where(conv, "open") \subseteq batch
    BY <1>1, <1>10 DEF SiblingsDone, LoopInv, Gated
  <2>2. asking \in [Calls -> Status]
    BY <1>2, WithType DEF Status
  <2>3. /\ Where(asking, "open") = {}
        /\ waiting = {} => Where(answered, "open") = {}
    BY <2>1 DEF With, Where
  <2> HIDE DEF waiting, answered, asking
  <2>4. CASE Pause(asking, Charged)
    BY <2>2, <2>3, <2>4, AnswerKeepsMatch DEF Pause
  <2>5. CASE waiting = {} /\ pc' = "top" /\ conv' = answered /\ UNCHANGED caller
    BY <2>3, <2>5, RequestKeepsOwed DEF caller, LoopInv, Where
  <2>6. QED
    BY <1>10, <2>4, <2>5 DEF SiblingsDone, waiting, answered, asking
<1>11. CASE IterationLimit \/ Top
  <2>1. UNCHANGED <<transcript, conv>> /\ pc = "top" /\ pc' \in {"replay", "failsafe"}
    BY <1>11 DEF IterationLimit, Failsafe, Top, caller
  <2>2. QED
    BY <1>1, <2>1, RequestKeepsOwed DEF LoopInv, Where
<1>12. CASE ReplayDone
  <2>1. /\ UNCHANGED transcript /\ conv' = Resolved
        /\ pc = "replay" /\ pc' \in {"model", "failsafe"}
    BY <1>12 DEF ReplayDone, Failsafe, caller
  <2>2. Where(Resolved, "open") = {}
    BY <1>1, <2>1 DEF LoopInv, Resolved, With, Where
  <2>3. QED
    BY <2>1, <2>2, RequestKeepsOwed DEF LoopInv, Where
<1>13. CASE BatchDone
  <2> DEFINE finished == batch \ Hosts(tool, batch)
             answered == With(conv, finished, "done")
  <2>1. /\ pc = "batch" /\ tool' = tool /\ Hosts(tool, batch) \subseteq batch
        /\ Where(conv, "open") \subseteq batch
    BY <1>1, <1>13 DEF BatchDone, LoopInv, Hosts
  <2>2. answered \in [Calls -> Status]
    BY <1>2, WithType DEF Status
  <2>3. Where(answered, "open") \subseteq Hosts(tool, batch)
    BY <2>1 DEF With, Where
  <2>4. \A c \in Hosts(tool, batch) : tool'[c] = Host
    BY <2>1 DEF Hosts
  <2> HIDE DEF finished, answered
  <2>5. CASE Finish(answered)
    BY <2>2, <2>3, <2>4, <2>5, AnswerKeepsMatch DEF Finish
  <2>6. CASE Hosts(tool, batch) = {} /\ pc' = "top" /\ conv' = answered /\ UNCHANGED caller
    BY <2>3, <2>6, RequestKeepsOwed DEF caller, LoopInv, Where
  <2>7. QED
    BY <1>13, <2>5, <2>6 DEF BatchDone, finished, answered
<1>14. CASE ModelPending \/ ModelAnswers
  <2>1. pc \in {"model", "failsafe"} /\ Answer(conv)
    BY <1>14 DEF ModelPending, ModelAnswers, Modelling, HandBack, Finish
  <2>2. Where(conv, "open") = {}
    BY <1>1, <2>1 DEF LoopInv
  <2>3. QED
    BY <1>2, <2>1, <2>2, AnswerKeepsMatch
<1>15. CASE ModelCalls \/ FailsafeReturnsCalls
  BY <1>15, ResponseKeepsMatch DEF MatchInv
<1>16. QED
  BY <1>4, <1>5, <1>6, <1>7, <1>8, <1>9, <1>10, <1>11, <1>12, <1>13, <1>14, <1>15
     DEF Next, ModelFails, Terminate

(* Whatever the tools, the policies and the limits: the model is never sent a
   call without a result, and no caller is left with a call that nobody answers,
   as long as no failed reply to the caller's own calls is repeated. *)
THEOREM ResultsAccompanyCalls ==
    ASSUME AnswersOnce
    PROVE  Spec => []CallsMatchResults
<1>1. MatchInv => CallsMatchResults
  <2>1. SUFFICES ASSUME MatchInv
                 PROVE  NoDanglingCall /\ NoOrphanCall
    BY DEF CallsMatchResults
  <2>2. NoDanglingCall
    <3>1. SUFFICES ASSUME pc \in {"model", "failsafe"}, NEW c \in Calls
                   PROVE  conv[c] \in {"absent", "done", "late"}
      BY DEF NoDanglingCall, Modelling
    <3>2. conv[c] \in Settled \cup {"open"}
      BY <2>1, <3>1 DEF MatchInv, HoldInv, AskedInv
    <3>3. conv[c] # "open"
      BY <2>1, <3>1 DEF MatchInv, LoopInv, Where
    <3>4. QED
      BY <3>2, <3>3 DEF Settled
  <2>3. NoOrphanCall
    BY <2>1 DEF MatchInv, OwedInv, NoOrphanCall
  <2>4. QED
    BY <2>2, <2>3
<1>2. AnswersOnce /\ MatchInv /\ HistoryInv /\ [Next]_vars => MatchInv'
  BY MatchInvStep
<1>3. QED
  BY Invariants, MatchInvInit, <1>1, <1>2, PTL DEF Spec

-----------------------------------------------------------------------------
(* At most a batch of calls waits: for approval, for the caller, to be run. *)
WaitingInv ==
    /\ Cardinality(Where(transcript, "asked")) <= MaxBatch
    /\ pc = "top" => Cardinality(Where(conv, "approved")) <= MaxBatch
    /\ deferred # None => Cardinality(deferred.calls) <= MaxBatch
    /\ pc = "siblings" => Cardinality(batch) <= MaxBatch
    /\ pc \notin {"siblings", "replay", "batch"} => todo = {} /\ ran = 0

(* A run that was paused is resumed, with its budget: the session has parked it,
   and the caller has something to answer, or to poll.  Calls are deferred in a
   run that may still execute some. *)
PausedInv ==
    pc = "idle" /\ tally # None =>
       /\ hasSession => /\ parked # None /\ tally.executed <= parked.executed
                        /\ tally.submitted <= parked.iterations
       /\ polling = None => \/ Where(transcript, "asked") # {}
                            \/ deferred # None /\ \A h \in deferred.hosts : transcript[h] = "open"
       /\ deferred # None /\ (\E h \in deferred.hosts : transcript[h] # "absent")
             => tally.executed < MaxFunctionCalls

Tally == [executed : Nat, submitted : Nat]

(* With n calls to execute yet, a run stays within its limit. *)
Within(n) == tally \in Tally /\ tally.executed + n <= MaxFunctionCalls - 1 + MaxBatch

(* Its budget accounts for what a run executed and submitted, and what the head
   of the loop has counted is about to be submitted. *)
RunningInv ==
    /\ tally # None \/ pc # "idle" => Within(Cardinality(todo)) /\ tally.submitted <= MaxIterations
    /\ pc # "idle" => /\ tally.executed <= budget.executed + ran
                      /\ tally.submitted + (IF pc = "replay" /\ token = None THEN 1 ELSE 0)
                            <= budget.iterations

BudgetInv == HoldInv /\ WaitingInv /\ PausedInv /\ RunningInv

LEMMA Limits ==
    /\ MaxBatch \in Nat /\ MaxFunctionCalls \in Nat /\ MaxIterations \in Nat
    /\ MaxBatch >= 1 /\ MaxFunctionCalls >= 1
    /\ Cardinality({}) = 0
BY ConfigAssumption, FS_EmptySet DEF ConfigAssumption

(* Sets of calls are finite, and their sizes grow with them. *)
LEMMA SizesOfCalls ==
    ASSUME NEW S \in SUBSET Calls
    PROVE  /\ IsFiniteSet(S) /\ Cardinality(S) \in Nat
           /\ \A T \in SUBSET S : Cardinality(T) <= Cardinality(S)
           /\ \A c \in S : Cardinality(S \ {c}) = Cardinality(S) - 1
<1>1. IsFiniteSet(Calls)
  BY Parameters, FS_Interval DEF Calls
<1>2. IsFiniteSet(S) /\ Cardinality(S) \in Nat
  BY <1>1, FS_Subset, FS_CardinalityType
<1>3. \A T \in SUBSET S : Cardinality(T) <= Cardinality(S)
  BY <1>2, FS_Subset
<1>4. \A c \in S : Cardinality(S \ {c}) = Cardinality(S) - 1
  BY <1>2, FS_RemoveElement
<1>5. QED
  BY <1>2, <1>3, <1>4

(* A request that ends without an answer ends its run. *)
LEMMA ErrKeepsBudget ==
    ASSUME BudgetInv, Return, tally' = None, UNCHANGED <<transcript, deferred>>
    PROVE  WaitingInv' /\ PausedInv' /\ RunningInv'
<1>1. pc' = "idle" /\ todo' = {} /\ ran' = 0
  BY DEF Return
<1>2. QED
  BY <1>1 DEF BudgetInv, WaitingInv, PausedInv, RunningInv, Where

(* An answer ends a run, or leaves it resumable. *)
LEMMA AnswerKeepsBudget ==
    ASSUME BudgetInv, NEW f, Answer(f),
           Cardinality(Where(f, "asked")) <= MaxBatch,
           deferred' # None => Cardinality(deferred'.calls) <= MaxBatch,
           \/ tally' = None
           \/ /\ tally' = tally /\ pc # "idle" /\ hasSession' = hasSession
              /\ hasSession => /\ parked' # None /\ tally.executed <= parked'.executed
                               /\ tally.submitted <= parked'.iterations
              /\ polling' = None =>
                    \/ Where(f, "asked") # {}
                    \/ deferred' # None /\ \A h \in deferred'.hosts : f[h] = "open"
              /\ deferred' # None /\ (\E h \in deferred'.hosts : f[h] # "absent")
                    => tally.executed < MaxFunctionCalls
    PROVE  WaitingInv' /\ PausedInv' /\ RunningInv'
<1>1. pc' = "idle" /\ todo' = {} /\ ran' = 0 /\ transcript' = f
  BY DEF Answer, Return
<1>2. WaitingInv'
  BY <1>1 DEF WaitingInv, Where
<1>3. CASE tally' = None
  BY <1>1, <1>2, <1>3 DEF PausedInv, RunningInv
<1>4. CASE tally' # None
  <2>1. PausedInv'
    BY <1>1, <1>4 DEF PausedInv, Where
  <2>2. /\ tally' = tally /\ Within(Cardinality(todo)) /\ tally.submitted <= MaxIterations
        /\ todo \subseteq Calls
    BY <1>4 DEF BudgetInv, RunningInv, HoldInv, ApprovalInv, TypeInv, StateOK
  <2>3. Within(0)
    BY <2>2, Limits, SizesOfCalls DEF Within, Tally
  <2>4. Cardinality(todo') = 0
    BY <1>1, Limits
  <2>5. Within(Cardinality(todo))' /\ tally'.submitted <= MaxIterations
    BY <2>2, <2>3, <2>4 DEF Within
  <2>6. QED
    BY <1>1, <1>2, <2>1, <2>5 DEF RunningInv
<1>5. QED
  BY <1>3, <1>4

(* A request starts within the budget it resumes. *)
LEMMA BeginKeepsBudget ==
    ASSUME BudgetInv, NEW f \in [Calls -> Status], NEW operation \in {"on", "off", None},
           Begin(f, operation), Cardinality(Where(f, "approved")) <= MaxBatch,
           tally' \in Tally, tally'.executed <= MaxFunctionCalls - 1 + MaxBatch,
           tally'.executed <= budget'.executed, tally'.submitted <= budget'.iterations,
           (deferred # None /\ \A h \in deferred.hosts : f[h] = "done")
              => tally'.executed < MaxFunctionCalls
    PROVE  WaitingInv' /\ PausedInv' /\ RunningInv'
<1>1. /\ pc = "idle" /\ pc' \in {"siblings", "top"} /\ conv' = f
      /\ UNCHANGED <<transcript, ran>>
      /\ ran = 0 /\ todo' \subseteq batch'
  BY DEF Begin, caller, BudgetInv, WaitingInv, Runnable
<1>2. budget' \in Budget
  BY ResumeOrStartType DEF Begin, BudgetInv, HoldInv, ApprovalInv
<1>3. PausedInv'
  BY <1>1 DEF PausedInv
<1>4. tally'.submitted <= MaxIterations
  <2>1. budget'.iterations \in 0..MaxIterations
    BY <1>2 DEF Budget
  <2>2. QED
    BY <2>1, Limits DEF Tally
<1>5. /\ tally'.executed <= budget'.executed + ran'
      /\ tally'.submitted + (IF pc' = "replay" /\ token' = None THEN 1 ELSE 0)
            <= budget'.iterations
  <2>1. budget'.executed \in Nat /\ budget'.iterations \in Nat
    BY <1>2, Parameters DEF Budget
  <2>2. QED
    BY <1>1, <2>1 DEF Tally
<1>6. CASE deferred # None /\ \A h \in deferred.hosts : f[h] = "done"
  <2>1. deferred' = None /\ pc' = "siblings" /\ batch' = deferred.calls
    BY <1>6 DEF Begin, StillDeferred
  <2>2. deferred.calls \subseteq Calls /\ Cardinality(deferred.calls) <= MaxBatch
    BY <1>6 DEF BudgetInv, HoldInv, ApprovalInv, TypeInv, WaitingInv
  <2>3. Cardinality(todo') <= Cardinality(deferred.calls) /\ Cardinality(todo') \in Nat
    BY <1>1, <2>1, <2>2, SizesOfCalls
  <2>4. Cardinality(deferred.calls) \in Nat
    BY <2>2, SizesOfCalls
  <2>5. tally'.executed + Cardinality(todo') <= MaxFunctionCalls - 1 + MaxBatch
    BY <1>6, <2>2, <2>3, <2>4, Limits DEF Tally
  <2>6. RunningInv'
    BY <1>4, <1>5, <2>5 DEF RunningInv, Within
  <2>7. WaitingInv'
    BY <1>1, <2>1, <2>2 DEF BudgetInv, WaitingInv, Where
  <2>8. QED
    BY <1>3, <2>6, <2>7
<1>7. CASE ~ (deferred # None /\ \A h \in deferred.hosts : f[h] = "done")
  <2>1. deferred' = deferred /\ pc' = "top" /\ batch' = {}
    BY <1>7 DEF Begin, StillDeferred
  <2>2. todo' = {} /\ Cardinality(todo') = 0
    BY <1>1, <2>1, Limits
  <2>3. tally'.executed + Cardinality(todo') <= MaxFunctionCalls - 1 + MaxBatch
    BY <2>2 DEF Tally
  <2>4. RunningInv'
    BY <1>4, <1>5, <2>3 DEF RunningInv, Within
  <2>5. WaitingInv'
    BY <1>1, <2>1, <2>2 DEF BudgetInv, WaitingInv, Where
  <2>6. QED
    BY <1>3, <2>4, <2>5
<1>8. QED
  BY <1>6, <1>7

(* What a reply or a poll carries on is what the resumed budget accounts for. *)
LEMMA CarriedIsBudgeted ==
    ASSUME BudgetInv, NEW f \in [Calls -> Status], NEW operation \in {"on", "off", None},
           Begin(f, operation),
           \A h \in Calls : f[h] = "done" => transcript[h] # "absent",
           tally # None =>
              \/ operation # None
              \/ Where(f, "approved") \cup Where(f, "rejected") # {}
              \/ deferred # None /\ \A h \in deferred.hosts : f[h] = "done",
           NEW t, t = Carried(operation # None)
    PROVE  /\ t \in Tally /\ t.executed <= MaxFunctionCalls - 1 + MaxBatch
           /\ t.executed <= budget'.executed /\ t.submitted <= budget'.iterations
           /\ (deferred # None /\ \A h \in deferred.hosts : f[h] = "done")
                 => t.executed < MaxFunctionCalls
<1>1. budget' \in Budget /\ pc = "idle"
  BY ResumeOrStartType DEF Begin, BudgetInv, HoldInv, ApprovalInv
<1>2. budget'.executed \in Nat /\ budget'.iterations \in Nat
  BY <1>1, Parameters DEF Budget
<1>3. CASE tally = None \/ ~ hasSession
  <2>1. t = [executed |-> 0, submitted |-> 0]
    BY <1>3 DEF Carried, ZeroTally
  <2>2. QED
    BY <1>2, <2>1, Limits DEF Tally
<1>4. CASE tally # None /\ hasSession
  <2>1. t = [tally EXCEPT !.submitted = IF operation # None THEN @ ELSE 0]
    BY <1>4 DEF Carried
  <2>2. /\ parked # None /\ tally.executed <= parked.executed
        /\ tally.submitted <= parked.iterations
        /\ deferred # None /\ (\E h \in deferred.hosts : transcript[h] # "absent")
              => tally.executed < MaxFunctionCalls
    BY <1>1, <1>4 DEF BudgetInv, PausedInv
  <2>3. todo \subseteq Calls /\ Within(Cardinality(todo)) /\ parked \in Budget
    BY <1>4, <2>2 DEF BudgetInv, RunningInv, HoldInv, ApprovalInv, TypeInv, StateOK
  <2>4. tally \in Tally /\ tally.executed <= MaxFunctionCalls - 1 + MaxBatch
    BY <2>3, SizesOfCalls, Limits DEF Within, Tally
  <2>5. /\ t \in Tally /\ t.executed = tally.executed
        /\ t.submitted = IF operation # None THEN tally.submitted ELSE 0
    BY <2>1, <2>4 DEF Tally
  <2>6. budget' = [parked EXCEPT !.iterations = IF operation # None THEN @ ELSE 0]
    BY <1>4, <2>2 DEF Begin, ResumeOrStart
  <2>7. /\ budget'.executed = parked.executed
        /\ budget'.iterations = IF operation # None THEN parked.iterations ELSE 0
    BY <2>3, <2>6 DEF Budget
  <2>8. ASSUME deferred # None, \A h \in deferred.hosts : f[h] = "done"
        PROVE  tally.executed < MaxFunctionCalls
    <3>1. deferred.hosts # {} /\ deferred.hosts \subseteq Calls
      BY <2>8 DEF BudgetInv, HoldInv, ApprovalInv, TypeInv, DeferredInv
    <3>2. QED
      BY <2>2, <2>8, <3>1
  <2>9. QED
    BY <2>2, <2>4, <2>5, <2>7, <2>8
<1>5. QED
  BY <1>3, <1>4

(* What a request that calls the model knows of its run. *)
LEMMA RunOfRequest ==
    ASSUME BudgetInv, pc # "idle"
    PROVE  /\ budget \in Budget /\ budget # None /\ ran \in Nat /\ todo \in SUBSET Calls
           /\ budget.executed \in Nat /\ budget.iterations \in Nat
           /\ Within(Cardinality(todo)) /\ tally.submitted <= MaxIterations
           /\ tally.executed \in Nat /\ tally.submitted \in Nat
           /\ tally.executed <= budget.executed + ran
           /\ tally.submitted <= budget.iterations
<1>1. /\ budget \in Budget /\ ran \in Nat /\ todo \in SUBSET Calls
      /\ Within(Cardinality(todo)) /\ tally.submitted <= MaxIterations
      /\ tally.executed <= budget.executed + ran
      /\ tally.submitted + (IF pc = "replay" /\ token = None THEN 1 ELSE 0) <= budget.iterations
  BY DEF BudgetInv, RunningInv, HoldInv, ApprovalInv, TypeInv, StateOK
<1>2. budget # None
  BY <1>1, ConfigAssumption DEF ConfigAssumption
<1>3. /\ budget.executed \in Nat /\ budget.iterations \in Nat
      /\ tally.executed \in Nat /\ tally.submitted \in Nat
  BY <1>1, Parameters DEF Budget, Within, Tally
<1>4. QED
  BY <1>1, <1>2, <1>3

(* A run that is not out of calls may begin a batch. *)
LEMMA BatchWithin ==
    ASSUME tally \in Tally, tally.executed < MaxFunctionCalls,
           NEW S \in SUBSET Calls, Cardinality(S) <= MaxBatch
    PROVE  Within(Cardinality(S))
BY Limits, SizesOfCalls DEF Within, Tally

LEMMA ResponseKeepsBudget ==
    ASSUME BudgetInv, ModelCalls \/ FailsafeReturnsCalls
    PROVE  WaitingInv' /\ PausedInv' /\ RunningInv'
<1>1. PICK calls \in SUBSET Calls, names \in [Calls -> Requested \cup {None}] :
              /\ tool' = names /\ calls # {} /\ calls \cap Drawn = {}
              /\ Cardinality(calls) <= MaxBatch
              /\ \/ /\ ModelCalls
                    /\ \/ DropCalls(calls) \/ AskApproval(calls, names)
                       \/ DeferSiblings(calls, names) \/ RunBatch(calls, names)
                 \/ /\ FailsafeReturnsCalls
                    /\ Finish(With(With(conv, Hosts(names, calls), "open"),
                                   calls \ Hosts(names, calls), "late"))
  BY ResponseCalls DEF BudgetInv, HoldInv
<1>2. /\ pc \in {"model", "failsafe"} /\ todo = {} /\ ran = 0 /\ hasSession' = hasSession
      /\ conv \in [Calls -> Status]
      /\ \A c \in Calls : conv[c] \in Settled \cup {"open"}
  BY DEF BudgetInv, HoldInv, ApprovalInv, TypeInv, StateOK, AskedInv, WaitingInv, ModelCalls,
         FailsafeReturnsCalls, world
<1>3. /\ budget # None /\ budget.executed \in Nat
      /\ Within(Cardinality(todo)) /\ tally.submitted <= MaxIterations
      /\ tally.executed \in Nat
      /\ tally.executed <= budget.executed /\ tally.submitted <= budget.iterations
  BY <1>2, RunOfRequest
<1>4. /\ Cardinality(Where(transcript, "asked")) <= MaxBatch
      /\ deferred # None => Cardinality(deferred.calls) <= MaxBatch
      /\ deferred # None => /\ deferred.hosts \subseteq Calls \ calls
                            /\ \A h \in deferred.hosts : conv[h] = "absent"
  BY <1>1 DEF BudgetInv, WaitingInv, HoldInv, HeldInv, ApprovalInv, TypeInv, DeferredInv
<1>5. Hosts(names, calls) \subseteq calls
  BY DEF Hosts
<1> DEFINE opened == With(conv, calls, "open")
           asking == With(With(conv, calls, "asked"), Hosts(names, calls), "open")
           late == With(With(conv, Hosts(names, calls), "open"), calls \ Hosts(names, calls), "late")
<1>6. /\ Where(opened, "asked") = {} /\ Where(late, "asked") = {}
      /\ Where(asking, "asked") = calls \ Hosts(names, calls)
  BY <1>2 DEF With, Where, Settled
<1>7. /\ Cardinality(Where(opened, "asked")) <= MaxBatch
      /\ Cardinality(Where(late, "asked")) <= MaxBatch
      /\ Cardinality(Where(asking, "asked")) <= MaxBatch
  <2>1. /\ Cardinality(calls \ Hosts(names, calls)) <= Cardinality(calls)
        /\ Cardinality(calls) \in Nat /\ Cardinality(calls \ Hosts(names, calls)) \in Nat
    BY SizesOfCalls
  <2>2. QED
    BY <1>1, <1>6, <2>1, Limits
<1> HIDE DEF opened, asking, late
<1>8. CASE DropCalls(calls)
  <2>1. /\ UNCHANGED <<transcript, deferred, budget, todo, ran, tally>>
        /\ pc' = "failsafe"
    BY <1>8 DEF DropCalls, caller, ghosts
  <2>2. WaitingInv' /\ PausedInv'
    BY <2>1, <1>2, <1>4 DEF WaitingInv, PausedInv, Where
  <2>3. Within(Cardinality(todo))'
    BY <2>1, <1>3 DEF Within
  <2>4. RunningInv'
    BY <2>1, <2>3, <1>2, <1>3 DEF RunningInv, Within, Tally
  <2>5. QED
    BY <2>2, <2>4
<1>9. CASE AskApproval(calls, names)
  <2>1. /\ Answer(asking) /\ UNCHANGED <<deferred, tally>> /\ polling' = None
        /\ parked' = IF hasSession THEN budget ELSE None
        /\ Gated(names, calls, live) # {}
    BY <1>9 DEF AskApproval, Pause, NeedsApproval, asking
  <2>2. calls \ Hosts(names, calls) # {}
    BY <2>1, ConfigAssumption DEF ConfigAssumption, Gated, Hosts
  <2>3. deferred # None => \A h \in deferred.hosts : asking[h] = "absent"
    BY <1>4, <1>5 DEF asking, With
  <2>4. /\ hasSession => /\ parked' # None /\ tally.executed <= parked'.executed
                         /\ tally.submitted <= parked'.iterations
        /\ Where(asking, "asked") # {}
    BY <2>1, <2>2, <1>3, <1>6
  <2>5. QED
    BY <2>1, <2>3, <2>4, <1>2, <1>4, <1>7, AnswerKeepsBudget
<1>10. CASE DeferSiblings(calls, names)
  <2>1. /\ Answer(opened) /\ tally' = tally /\ polling' = None
        /\ parked' = IF hasSession THEN budget ELSE None
        /\ ~ Spent
    BY <1>10 DEF DeferSiblings, Pause, TooLate, opened
  <2>2. deferred' = [calls |-> Siblings(calls, names), hosts |-> Hosts(names, calls)]
    BY <1>10 DEF DeferSiblings, Mixed
  <2>3. deferred' \in Deferred
    BY <2>2 DEF Deferred, Siblings, Hosts
  <2>4. deferred' # None
    BY <2>3, ConfigAssumption DEF ConfigAssumption
  <2>5. /\ \A h \in deferred'.hosts : opened[h] = "open"
        /\ Cardinality(deferred'.calls) <= MaxBatch
    <3>1. Siblings(calls, names) \subseteq calls
      BY DEF Siblings
    <3>2. /\ Cardinality(Siblings(calls, names)) <= Cardinality(calls)
          /\ Cardinality(calls) \in Nat /\ Cardinality(Siblings(calls, names)) \in Nat
      BY <3>1, SizesOfCalls
    <3>3. Cardinality(deferred'.calls) <= MaxBatch
      BY <2>2, <3>2, <1>1, Limits
    <3>4. \A h \in deferred'.hosts : opened[h] = "open"
      BY <2>2, <1>5 DEF opened, With
    <3>5. QED
      BY <3>3, <3>4
  <2>6. tally.executed < MaxFunctionCalls
    BY <2>1, <1>3, Limits DEF Spent, SpentOf
  <2>7. hasSession => /\ parked' # None /\ tally.executed <= parked'.executed
                      /\ tally.submitted <= parked'.iterations
    BY <2>1, <1>3
  <2>8. QED
    BY <2>1, <2>4, <2>5, <2>6, <2>7, <1>2, <1>7, AnswerKeepsBudget
<1>11. CASE RunBatch(calls, names)
  <2>1. /\ UNCHANGED <<transcript, deferred, budget, ran, tally>>
        /\ pc' = "batch" /\ todo' = calls \ Hosts(names, calls) /\ ~ Spent
    BY <1>11 DEF RunBatch, caller, session, ghosts, TooLate
  <2>2. WaitingInv' /\ PausedInv'
    BY <2>1, <1>4 DEF WaitingInv, PausedInv, Where
  <2>3. tally.executed < MaxFunctionCalls
    BY <2>1, <1>3, Limits DEF Spent, SpentOf
  <2>4. Cardinality(calls \ Hosts(names, calls)) <= MaxBatch
    <3>1. /\ Cardinality(calls \ Hosts(names, calls)) <= Cardinality(calls)
          /\ Cardinality(calls) \in Nat /\ Cardinality(calls \ Hosts(names, calls)) \in Nat
      BY SizesOfCalls
    <3>2. QED
      BY <3>1, <1>1, Limits
  <2>5. Within(Cardinality(calls \ Hosts(names, calls)))
    BY <2>3, <2>4, <1>3, BatchWithin DEF Within
  <2>6. Within(Cardinality(todo))'
    BY <2>1, <2>5 DEF Within
  <2>7. RunningInv'
    BY <2>1, <2>6, <1>2, <1>3 DEF RunningInv, Within, Tally
  <2>8. QED
    BY <2>2, <2>7
<1>12. CASE FailsafeReturnsCalls /\ Finish(late)
  <2>1. Answer(late) /\ tally' = None /\ UNCHANGED deferred
    BY <1>12 DEF FailsafeReturnsCalls, Finish
  <2>2. QED
    BY <2>1, <1>4, <1>7, AnswerKeepsBudget
<1>13. QED
  BY <1>1, <1>8, <1>9, <1>10, <1>11, <1>12 DEF late

LEMMA BudgetInvInit ==
    ASSUME Init
    PROVE  BudgetInv
<1>1. HoldInv
  BY HoldInvInit
<1>2. Where(transcript, "asked") = {}
  BY DEF Init, NoConversation, Where
<1>3. WaitingInv
  BY <1>2, Limits DEF Init, WaitingInv
<1>4. PausedInv /\ RunningInv
  BY DEF Init, PausedInv, RunningInv
<1>5. QED
  BY <1>1, <1>3, <1>4 DEF BudgetInv

LEMMA ReplyKeepsBudget ==
    ASSUME BudgetInv, HistoryInv, Reply
    PROVE  WaitingInv' /\ PausedInv' /\ RunningInv'
<1> DEFINE reply(yes) ==
        With(With(With(transcript, Hosts(tool, Where(transcript, "open")), "done"),
                  yes, "approved"),
             Where(transcript, "asked") \ yes, "rejected")
<1>1. PICK yes \in SUBSET Where(transcript, "asked") : Begin(reply(yes), None)
  BY ReplyBegins DEF BudgetInv, HoldInv, ApprovalInv
<1>2. pc = "idle" /\ polling = None /\ tally' = Carried(FALSE)
  BY <1>1 DEF Reply, Begin
<1>3. reply(yes) \in [Calls -> Status]
  BY ReplyType DEF BudgetInv, HoldInv, ApprovalInv
<1>4. \A c \in Calls :
         /\ transcript[c] = "asked" => reply(yes)[c] = IF c \in yes THEN "approved" ELSE "rejected"
         /\ transcript[c] = "open" /\ tool[c] = Host => reply(yes)[c] = "done"
         /\ transcript[c] = "open" /\ tool[c] # Host => reply(yes)[c] = "open"
         /\ transcript[c] \in Settled => reply(yes)[c] = transcript[c]
         /\ transcript[c] \in Settled \cup {"asked", "open"}
  BY ReplyStatus DEF BudgetInv, HoldInv, AskedInv
<1> HIDE DEF reply
<1>5. Where(reply(yes), "approved") = yes
  BY <1>4 DEF Where, Settled
<1>6. Cardinality(Where(reply(yes), "approved")) <= MaxBatch
  <2>1. Where(transcript, "asked") \in SUBSET Calls
    BY DEF Where
  <2>2. /\ Cardinality(yes) <= Cardinality(Where(transcript, "asked"))
        /\ Cardinality(Where(transcript, "asked")) \in Nat
    BY <2>1, SizesOfCalls
  <2>3. yes \in SUBSET Calls
    BY <2>1
  <2>4. Cardinality(yes) \in Nat
    BY <2>3, SizesOfCalls
  <2>5. Cardinality(Where(transcript, "asked")) <= MaxBatch
    BY DEF BudgetInv, WaitingInv
  <2>6. QED
    BY <1>5, <2>2, <2>4, <2>5, Limits
<1>7. \A h \in Calls : reply(yes)[h] = "done" => transcript[h] # "absent"
  BY <1>4 DEF Settled
<1>8. tally # None =>
         \/ Where(reply(yes), "approved") \cup Where(reply(yes), "rejected") # {}
         \/ deferred # None /\ \A h \in deferred.hosts : reply(yes)[h] = "done"
  <2>1. SUFFICES ASSUME tally # None
                 PROVE  \/ Where(reply(yes), "approved") \cup Where(reply(yes), "rejected") # {}
                        \/ deferred # None /\ \A h \in deferred.hosts : reply(yes)[h] = "done"
    OBVIOUS
  <2>2. CASE Where(transcript, "asked") # {}
    BY <2>2, <1>4 DEF Where
  <2>3. CASE deferred # None /\ \A h \in deferred.hosts : transcript[h] = "open"
    <3>1. \A h \in deferred.hosts : h \in Calls /\ tool[h] = Host
      BY <2>3 DEF BudgetInv, HoldInv, HeldInv, ApprovalInv, TypeInv
    <3>2. QED
      BY <2>3, <3>1, <1>4
  <2>4. QED
    BY <2>1, <2>2, <2>3, <1>2 DEF BudgetInv, PausedInv
<1>9. QED
  <2>1. tally' = Carried(None # None)
    BY <1>2
  <2>2. QED
    BY <1>1, <1>2, <1>3, <1>6, <1>7, <1>8, <2>1, CarriedIsBudgeted, BeginKeepsBudget

LEMMA BudgetInvStep ==
    ASSUME BudgetInv, HistoryInv, [Next]_vars
    PROVE  BudgetInv'
<1>1. HoldInv /\ HoldInv' /\ WaitingInv /\ PausedInv /\ RunningInv
  BY HoldInvStep DEF BudgetInv
<1>2. /\ conv \in [Calls -> Status] /\ transcript \in [Calls -> Status]
      /\ batch \in SUBSET Calls /\ todo \in SUBSET Calls
      /\ polling \in {"on", "off", None}
  BY <1>1 DEF HoldInv, ApprovalInv, TypeInv, StateOK
<1>3. SUFFICES WaitingInv' /\ PausedInv' /\ RunningInv'
  BY <1>1 DEF BudgetInv
<1>4. CASE Fresh \/ Turn
  <2>1. PICK f \in {NoConversation, transcript} :
           Begin(f, None) /\ tally' = [executed |-> 0, submitted |-> 0]
    BY <1>1, <1>4, FreshBegins, OthersBegin DEF Fresh, Turn, ZeroTally, HoldInv, ApprovalInv
  <2>2. budget'.executed \in Nat /\ budget'.iterations \in Nat
    <3>1. budget' \in Budget
      BY <2>1, <1>1, ResumeOrStartType DEF Begin, HoldInv, ApprovalInv
    <3>2. QED
      BY <3>1, Parameters DEF Budget
  <2>3. Where(f, "approved") = {} /\ f \in [Calls -> Status]
    BY <1>1, <1>2 DEF Where, NoConversation, Status, HoldInv, AskedInv, Settled
  <2>4. /\ tally' \in Tally /\ tally'.executed = 0 /\ tally'.submitted = 0
        /\ tally'.executed <= MaxFunctionCalls - 1 + MaxBatch
        /\ tally'.executed < MaxFunctionCalls
    BY <2>1, Limits DEF Tally
  <2>5. Cardinality(Where(f, "approved")) <= MaxBatch
    BY <2>3, Limits
  <2>6. tally'.executed <= budget'.executed /\ tally'.submitted <= budget'.iterations
    BY <2>2, <2>4
  <2>7. QED
    BY <2>1, <2>3, <2>4, <2>5, <2>6, BeginKeepsBudget
<1>5. CASE Reply
  BY <1>5, ReplyKeepsBudget
<1>6. CASE Poll
  <2>1. polling # None /\ Begin(transcript, polling) /\ tally' = Carried(polling # None)
    BY <1>1, <1>6, OthersBegin DEF Poll, HoldInv, ApprovalInv
  <2>2. Where(transcript, "approved") = {}
    BY <1>1 DEF HoldInv, AskedInv, Where, Settled
  <2>3. \A h \in Calls : transcript[h] = "done" => transcript[h] # "absent"
    OBVIOUS
  <2>4. /\ tally' \in Tally /\ tally'.executed <= MaxFunctionCalls - 1 + MaxBatch
        /\ tally'.executed <= budget'.executed /\ tally'.submitted <= budget'.iterations
        /\ (deferred # None /\ \A h \in deferred.hosts : transcript[h] = "done")
              => tally'.executed < MaxFunctionCalls
    BY <2>1, <2>3, <1>2, CarriedIsBudgeted
  <2>5. Cardinality(Where(transcript, "approved")) <= MaxBatch
    BY <2>2, Limits
  <2>6. QED
    BY <2>1, <2>4, <2>5, <1>2, BeginKeepsBudget
<1>7. CASE Drop \/ Err
  BY <1>7, ErrKeepsBudget DEF Drop, Err, session
<1>8. CASE Tick \/ UNCHANGED vars
  BY <1>1, <1>8 DEF Tick, vars, world, caller, session, local, ghosts, WaitingInv, PausedInv,
                    RunningInv, Within, Where
<1>9. ASSUME NEW c \in Calls, Execute(c)
      PROVE  WaitingInv' /\ PausedInv' /\ RunningInv'
  <2>1. /\ UNCHANGED <<transcript, deferred, pc, conv, batch, budget, token>>
        /\ c \in todo /\ pc \in {"siblings", "replay", "batch"}
        /\ todo' = todo \ {c} /\ ran' = ran + 1
        /\ tally' = [tally EXCEPT !.executed = @ + 1]
    BY <1>9 DEF Execute, Due, caller, session
  <2>2. WaitingInv' /\ PausedInv'
    BY <1>1, <2>1 DEF WaitingInv, PausedInv, Where
  <2>3. /\ Within(Cardinality(todo)) /\ ran \in Nat /\ budget.executed \in Nat
        /\ tally.submitted <= MaxIterations /\ tally.executed <= budget.executed + ran
    BY <2>1, RunOfRequest
  <2>4. /\ tally' \in Tally /\ tally'.executed = tally.executed + 1
        /\ tally'.submitted = tally.submitted
    BY <2>1, <2>3 DEF Within, Tally
  <2>5. Cardinality(todo') = Cardinality(todo) - 1 /\ Cardinality(todo) \in Nat
    BY <1>2, <2>1, SizesOfCalls
  <2>6. tally'.executed + Cardinality(todo') <= MaxFunctionCalls - 1 + MaxBatch
    BY <2>3, <2>4, <2>5, Limits DEF Within, Tally
  <2>7. tally'.executed <= budget'.executed + ran'
    BY <2>1, <2>3, <2>4 DEF Within, Tally
  <2>8. RunningInv'
    BY <1>1, <2>1, <2>3, <2>4, <2>6, <2>7 DEF RunningInv, Within
  <2>9. QED
    BY <2>2, <2>8
<1>10. ASSUME NEW c \in Calls, Refuse(c)
       PROVE  WaitingInv' /\ PausedInv' /\ RunningInv'
  <2>1. /\ UNCHANGED <<transcript, deferred, pc, conv, batch, budget, token, ran, tally>>
        /\ c \in todo /\ pc \in {"siblings", "replay", "batch"} /\ todo' = todo \ {c}
    BY <1>10 DEF Refuse, Due, caller, session, ghosts
  <2>2. WaitingInv' /\ PausedInv'
    BY <1>1, <2>1 DEF WaitingInv, PausedInv, Where
  <2>3. Within(Cardinality(todo))
    BY <2>1, RunOfRequest
  <2>4. Cardinality(todo') = Cardinality(todo) - 1 /\ Cardinality(todo) \in Nat
    BY <1>2, <2>1, SizesOfCalls
  <2>5. Within(Cardinality(todo))'
    BY <2>1, <2>3, <2>4, Limits DEF Within, Tally
  <2>6. RunningInv'
    BY <1>1, <2>1, <2>5 DEF RunningInv
  <2>7. QED
    BY <2>2, <2>6
<1>11. CASE SiblingsDone
  <2> DEFINE waiting == Gated(tool, batch, live)
             answered == With(conv, batch \ waiting, "done")
             asking == With(answered, waiting, "asked")
  <2>1. /\ pc = "siblings" /\ todo = {} /\ UNCHANGED <<hasSession, deferred>>
        /\ deferred = None /\ waiting \subseteq batch /\ waiting \in SUBSET Calls
    BY <1>1, <1>2, <1>11 DEF SiblingsDone, world, HoldInv, ApprovalInv, DeferredInv, Gated
  <2>2. \A c \in Calls : conv[c] \in Settled \cup {"open"}
    BY <1>1, <2>1 DEF HoldInv, AskedInv
  <2>3. Where(answered, "approved") = {} /\ Where(asking, "asked") = waiting
    BY <1>2, <2>1, <2>2 DEF With, Where, Settled
  <2>4. Cardinality(waiting) <= MaxBatch
    <3>1. /\ Cardinality(waiting) <= Cardinality(batch) /\ Cardinality(waiting) \in Nat
          /\ Cardinality(batch) \in Nat
      BY <1>2, <2>1, SizesOfCalls
    <3>2. QED
      BY <1>1, <2>1, <3>1, Limits DEF WaitingInv
  <2>5. /\ Charged \in Budget /\ Charged.executed = budget.executed + ran
        /\ Charged.iterations = budget.iterations
    BY <2>1, RunOfRequest, Limits DEF Charged, Budget
  <2>6. Charged # None
    BY <2>5, ConfigAssumption DEF ConfigAssumption
  <2>7. /\ tally.executed <= Charged.executed /\ tally.submitted <= Charged.iterations
        /\ Within(Cardinality(todo)) /\ tally.submitted <= MaxIterations
        /\ tally.executed \in Nat /\ tally.submitted \in Nat
        /\ Charged.executed \in Nat /\ Charged.iterations \in Nat
    BY <2>1, <2>5, RunOfRequest
  <2> HIDE DEF waiting, answered, asking
  <2>8. CASE waiting # {} /\ Pause(asking, Charged)
    <3>1. /\ Answer(asking) /\ tally' = tally
          /\ parked' = IF hasSession THEN Charged ELSE None
      BY <2>8 DEF Pause
    <3>2. QED
      BY <2>1, <2>3, <2>4, <2>6, <2>7, <2>8, <3>1, AnswerKeepsBudget
  <2>9. CASE /\ pc' = "top" /\ conv' = answered
             /\ budget' = Charged /\ ran' = 0
             /\ UNCHANGED <<caller, todo, ghosts>>
    <3>1. UNCHANGED <<transcript, todo, tally>>
      BY <2>9 DEF caller, ghosts
    <3>2. WaitingInv' /\ PausedInv'
      BY <1>1, <2>1, <2>3, <2>9, <3>1, Limits DEF WaitingInv, PausedInv, Where
    <3>3. Within(Cardinality(todo))'
      BY <2>7, <3>1 DEF Within
    <3>4. RunningInv'
      BY <2>7, <2>9, <3>1, <3>3 DEF RunningInv
    <3>5. QED
      BY <3>2, <3>4
  <2>10. QED
    BY <1>11, <2>8, <2>9 DEF SiblingsDone, waiting, answered, asking
<1>12. CASE IterationLimit
  <2>1. /\ UNCHANGED <<transcript, deferred, todo, ran, tally, budget>>
        /\ pc = "top" /\ pc' = "failsafe"
    BY <1>12 DEF IterationLimit, Failsafe, caller, ghosts
  <2>2. QED
    BY <1>1, <2>1 DEF WaitingInv, PausedInv, RunningInv, Within, Where
<1>13. CASE Top
  <2>1. /\ UNCHANGED <<transcript, deferred, conv, ran, tally, token>>
        /\ pc = "top" /\ pc' = "replay"
        /\ budget' = IF token # None THEN budget ELSE [budget EXCEPT !.iterations = @ + 1]
        /\ todo' = IF Spent THEN {} ELSE Where(conv, "approved")
    BY <1>13 DEF Top, caller, session, ghosts
  <2>2. /\ budget \in Budget /\ budget.executed \in Nat /\ budget.iterations \in Nat /\ ran = 0
        /\ Within(Cardinality(todo)) /\ tally.submitted <= MaxIterations
        /\ tally.executed \in Nat /\ tally.submitted \in Nat
        /\ tally.executed <= budget.executed /\ tally.submitted <= budget.iterations
    BY <1>1, <2>1, RunOfRequest DEF WaitingInv
  <2>3. /\ budget'.executed = budget.executed
        /\ budget'.iterations = IF token # None THEN budget.iterations ELSE budget.iterations + 1
    BY <2>1, <2>2 DEF Budget
  <2>4. Within(Cardinality(todo'))
    <3>1. CASE Spent
      BY <2>1, <2>2, <3>1, <1>2, SizesOfCalls, Limits DEF Within, Tally
    <3>2. CASE ~ Spent
      <4>1. todo' \in SUBSET Calls /\ Cardinality(todo') <= MaxBatch
        BY <1>1, <2>1, <3>2 DEF WaitingInv, Where
      <4>2. tally.executed < MaxFunctionCalls
        BY <2>2, <3>2, Limits DEF Spent, SpentOf
      <4>3. QED
        BY <2>2, <4>1, <4>2, BatchWithin DEF Within
    <3>3. QED
      BY <3>1, <3>2
  <2>5. WaitingInv' /\ PausedInv'
    BY <1>1, <2>1 DEF WaitingInv, PausedInv, Where
  <2>6. Within(Cardinality(todo))'
    BY <2>1, <2>4 DEF Within
  <2>7. RunningInv'
    BY <2>1, <2>2, <2>3, <2>6 DEF RunningInv
  <2>8. QED
    BY <2>5, <2>7
<1>14. CASE ReplayDone
  <2>1. /\ UNCHANGED <<transcript, deferred, todo, token>> /\ pc = "replay" /\ todo = {}
        /\ budget' = Charged /\ ran' = 0
        /\ \/ pc' = "failsafe" /\ tally' = tally
           \/ /\ pc' = "model"
              /\ tally' = IF token # None THEN tally ELSE [tally EXCEPT !.submitted = @ + 1]
    BY <1>14 DEF ReplayDone, Failsafe, caller, session
  <2>2. /\ budget \in Budget /\ ran \in Nat /\ budget.executed \in Nat /\ budget.iterations \in Nat
        /\ Within(Cardinality(todo)) /\ tally.executed \in Nat /\ tally.submitted \in Nat
        /\ tally.executed <= budget.executed + ran
        /\ tally.submitted + (IF token = None THEN 1 ELSE 0) <= budget.iterations
    BY <1>1, <2>1, RunOfRequest DEF RunningInv
  <2>3. /\ budget'.executed = budget.executed + ran /\ budget'.iterations = budget.iterations
        /\ budget.iterations <= MaxIterations
    BY <2>1, <2>2, Limits DEF Charged, Budget
  <2>4. /\ tally' \in Tally /\ tally'.executed = tally.executed
        /\ tally'.submitted <= tally.submitted + (IF token = None THEN 1 ELSE 0)
        /\ tally'.submitted \in Nat
    BY <2>1, <2>2 DEF Within, Tally
  <2>5. WaitingInv' /\ PausedInv'
    BY <1>1, <2>1 DEF WaitingInv, PausedInv, Where
  <2>6. Within(Cardinality(todo))'
    BY <2>1, <2>2, <2>4 DEF Within
  <2>7. RunningInv'
    BY <2>1, <2>2, <2>3, <2>4, <2>6, Limits DEF RunningInv
  <2>8. QED
    BY <2>5, <2>7
<1>15. CASE BatchDone
  <2> DEFINE answered == With(conv, batch \ Hosts(tool, batch), "done")
  <2>1. pc = "batch" /\ todo = {} /\ UNCHANGED deferred
    BY <1>15 DEF BatchDone
  <2>2. \A c \in Calls : conv[c] \in Settled \cup {"open"}
    BY <1>1, <2>1 DEF HoldInv, AskedInv
  <2>3. Where(answered, "approved") = {} /\ Where(answered, "asked") = {}
    BY <1>2, <2>2 DEF With, Where, Settled
  <2>4. /\ Charged \in Budget /\ Charged.executed = budget.executed + ran
        /\ Charged.iterations = budget.iterations
    BY <2>1, RunOfRequest, Limits DEF Charged, Budget
  <2>5. /\ tally.executed <= Charged.executed /\ tally.submitted <= Charged.iterations
        /\ Within(Cardinality(todo)) /\ tally.submitted <= MaxIterations
        /\ tally.executed \in Nat /\ tally.submitted \in Nat
        /\ Charged.executed \in Nat /\ Charged.iterations \in Nat
    BY <2>1, <2>4, RunOfRequest
  <2> HIDE DEF answered
  <2>6. CASE Finish(answered)
    <3>1. Answer(answered) /\ tally' = None
      BY <2>6 DEF Finish
    <3>2. QED
      BY <1>1, <2>1, <2>3, <3>1, Limits, AnswerKeepsBudget DEF WaitingInv
  <2>7. CASE /\ pc' = "top" /\ conv' = answered
             /\ budget' = Charged /\ ran' = 0
             /\ UNCHANGED <<caller, todo, ghosts>>
    <3>1. UNCHANGED <<transcript, todo, tally>>
      BY <2>7 DEF caller, ghosts
    <3>2. WaitingInv' /\ PausedInv'
      BY <1>1, <2>1, <2>3, <2>7, <3>1, Limits DEF WaitingInv, PausedInv, Where
    <3>3. Within(Cardinality(todo))'
      BY <2>5, <3>1 DEF Within
    <3>4. RunningInv'
      BY <2>5, <2>7, <3>1, <3>3 DEF RunningInv
    <3>5. QED
      BY <3>2, <3>4
  <2>8. QED
    BY <1>15, <2>6, <2>7 DEF BatchDone, answered
<1>16. CASE ModelPending
  <2>1. /\ pc \in {"model", "failsafe"} /\ Answer(conv)
        /\ UNCHANGED <<hasSession, deferred, tally>>
        /\ polling' = IF token # None THEN token ELSE IF pc = "model" THEN "on" ELSE "off"
        /\ parked' = IF hasSession THEN budget ELSE None
    BY <1>16 DEF ModelPending, Modelling, HandBack, world
  <2>2. polling' # None
    BY <2>1, ConfigAssumption DEF ConfigAssumption
  <2>3. Where(conv, "asked") = {}
    BY <1>1, <2>1 DEF HoldInv, AskedInv, Where, Settled
  <2>4. deferred # None => \A h \in deferred.hosts : conv[h] = "absent"
    BY <1>1 DEF HoldInv, HeldInv
  <2>5. /\ budget # None /\ ran = 0 /\ budget.executed \in Nat
        /\ tally.executed <= budget.executed /\ tally.submitted <= budget.iterations
    BY <1>1, <2>1, RunOfRequest DEF WaitingInv
  <2>6. QED
    BY <1>1, <2>1, <2>2, <2>3, <2>4, <2>5, Limits, AnswerKeepsBudget DEF WaitingInv
<1>17. CASE ModelAnswers
  <2>1. pc \in {"model", "failsafe"} /\ Answer(conv) /\ tally' = None /\ UNCHANGED deferred
    BY <1>17 DEF ModelAnswers, Modelling, Finish
  <2>2. Where(conv, "asked") = {}
    BY <1>1, <2>1 DEF HoldInv, AskedInv, Where, Settled
  <2>3. QED
    BY <1>1, <2>1, <2>2, Limits, AnswerKeepsBudget DEF WaitingInv
<1>18. CASE ModelCalls \/ FailsafeReturnsCalls
  BY <1>18, ResponseKeepsBudget
<1>19. QED
  BY <1>4, <1>5, <1>6, <1>7, <1>8, <1>9, <1>10, <1>11, <1>12, <1>13, <1>14, <1>15, <1>16,
     <1>17, <1>18
     DEF Next, ModelFails, Terminate

(* Whatever the tools, the policies and the caller: a run executes at most
   max_function_calls calls, but for the batch that reaches the limit, and asks
   the model at most max_iterations times, over all its pauses, approvals and
   continuations. *)
THEOREM BudgetsLimitRuns == Spec => []BudgetsHold
<1>1. BudgetInv => BudgetsHold
  <2>1. SUFFICES ASSUME BudgetInv, tally # None
                 PROVE  /\ tally.executed <= MaxFunctionCalls - 1 + MaxBatch
                        /\ tally.submitted <= MaxIterations
    BY DEF BudgetsHold, CallBudgetHolds, IterationsBounded
  <2>2. Within(Cardinality(todo)) /\ tally.submitted <= MaxIterations /\ todo \in SUBSET Calls
    BY <2>1 DEF BudgetInv, RunningInv, HoldInv, ApprovalInv, TypeInv, StateOK
  <2>3. Cardinality(todo) \in Nat
    BY <2>2, SizesOfCalls
  <2>4. QED
    BY <2>2, <2>3, Limits DEF Within, Tally
<1>2. QED
  BY Invariants, BudgetInvInit, BudgetInvStep, <1>1, PTL DEF Spec

(* Calls are begun where the budget is checked, or because they were deferred. *)
LEMMA CallsBegin ==
    ASSUME BudgetInv, [Next]_vars, pc' # pc, todo' # {}, pc' # "siblings"
    PROVE  ~ Spent'
<1>1. pc \notin {"siblings", "replay", "batch"} => todo = {}
  BY DEF BudgetInv, WaitingInv
<1>2. Top \/ ModelCalls
  <2>1. ASSUME Return
        PROVE  FALSE
    BY <2>1 DEF Return
  <2>2. /\ ~ Drop /\ ~ Err /\ ~ ModelPending /\ ~ ModelAnswers /\ ~ FailsafeReturnsCalls
        /\ ~ Tick /\ ~ UNCHANGED vars
    BY <2>1 DEF Drop, Err, ModelPending, ModelAnswers, FailsafeReturnsCalls, HandBack, Finish,
                Answer, Tick, vars
  <2>3. ~ \E c \in Calls : Execute(c) \/ Refuse(c)
    BY DEF Execute, Refuse
  <2>4. ~ SiblingsDone /\ ~ BatchDone /\ ~ IterationLimit /\ ~ ReplayDone
    BY <1>1, <2>1 DEF SiblingsDone, BatchDone, IterationLimit, ReplayDone, Failsafe, Pause, Finish,
                      Answer
  <2>5. ASSUME NEW f, NEW operation, Begin(f, operation)
        PROVE  FALSE
    BY <2>5 DEF Begin, Runnable
  <2>6. ~ Fresh /\ ~ Reply /\ ~ Turn /\ ~ Poll
    BY <2>5 DEF Fresh, Reply, Turn, Poll, Request
  <2>7. QED
    BY <2>2, <2>3, <2>4, <2>6 DEF Next, ModelFails, Terminate
<1>3. CASE Top
  <2>1. ~ Spent /\ UNCHANGED clock /\ budget \in Budget
        /\ budget' = IF token # None THEN budget ELSE [budget EXCEPT !.iterations = @ + 1]
    BY <1>3 DEF Top, world, BudgetInv, HoldInv, ApprovalInv, TypeInv
  <2>2. budget'.executed = budget.executed /\ budget'.started = budget.started
    BY <2>1 DEF Budget
  <2>3. QED
    BY <2>1, <2>2 DEF Spent, SpentOf
<1>4. CASE ModelCalls
  <2>1. PICK calls \in SUBSET Calls, names \in [Calls -> Requested \cup {None}] :
           \/ DropCalls(calls) \/ AskApproval(calls, names)
           \/ DeferSiblings(calls, names) \/ RunBatch(calls, names)
    BY <1>4, ResponseCalls DEF BudgetInv, HoldInv, ModelCalls, FailsafeReturnsCalls
  <2>2. pc = "model" /\ UNCHANGED clock
    BY <1>4 DEF ModelCalls, world
  <2>3. RunBatch(calls, names)
    BY <1>1, <2>1, <2>2 DEF DropCalls, AskApproval, DeferSiblings, Pause, Answer, Return
  <2>4. QED
    BY <2>2, <2>3 DEF RunBatch, TooLate, Spent, SpentOf
<1>5. QED
  BY <1>2, <1>3, <1>4

(* While the calls of a batch are executed, the run is not out of calls: the
   batch is charged when it ends. *)
WorthInv ==
    /\ pc # "siblings"
    /\ pc \in {"replay", "batch"} /\ todo # {} => budget.executed < MaxFunctionCalls

LEMMA NothingDeferred ==
    ASSUME BudgetInv, Host \notin Requested
    PROVE  deferred = None
<1>1. \A c \in Calls : tool[c] # Host
  BY ConfigAssumption DEF ConfigAssumption, BudgetInv, HoldInv, ApprovalInv, TypeInv
<1>2. QED
  BY <1>1 DEF BudgetInv, HoldInv, HeldInv, ApprovalInv, DeferredInv, TypeInv

(* Without deferred calls no request starts with calls to execute. *)
LEMMA NoSiblings ==
    ASSUME BudgetInv, Host \notin Requested, [Next]_vars, pc' # pc
    PROVE  pc' # "siblings"
<1>1. ASSUME NEW f, NEW operation, Begin(f, operation)
      PROVE  pc' # "siblings"
  BY <1>1, NothingDeferred DEF Begin
<1>2. QED
  BY <1>1
     DEF Next, Fresh, Reply, Turn, Poll, Request, Drop, Tick, Execute, Refuse, Terminate,
         SiblingsDone, IterationLimit, Top, ReplayDone, BatchDone, ModelFails, ModelPending,
         ModelAnswers, ModelCalls, FailsafeReturnsCalls, Err, Return, Failsafe, HandBack, Answer,
         Finish, Pause, DropCalls, AskApproval, DeferSiblings, RunBatch, vars

LEMMA WorthInvStep ==
    ASSUME BudgetInv, HistoryInv, WorthInv, Host \notin Requested, [Next]_vars
    PROVE  WorthInv'
<1>1. CASE pc' # pc
  <2>1. pc' # "siblings"
    BY <1>1, NoSiblings
  <2>2. ASSUME pc' \in {"replay", "batch"}, todo' # {}
        PROVE  budget'.executed < MaxFunctionCalls
    <3>1. ~ Spent'
      BY <1>1, <2>1, <2>2, CallsBegin
    <3>2. budget' \in Budget
      BY <2>2, BudgetInvStep DEF BudgetInv, HoldInv, ApprovalInv, TypeInv
    <3>3. budget'.executed \in Nat
      BY <3>2 DEF Budget
    <3>4. QED
      BY <3>1, <3>3, Limits DEF Spent, SpentOf
  <2>3. QED
    BY <2>1, <2>2 DEF WorthInv
<1>2. CASE pc' = pc
  <2>1. ASSUME pc \in {"replay", "batch"}
        PROVE  budget' = budget /\ todo' \subseteq todo
    <3>1. \/ Tick \/ UNCHANGED vars
          \/ \E c \in Calls : Execute(c) \/ Refuse(c)
      <4>1. ~ Fresh /\ ~ Reply /\ ~ Turn /\ ~ Poll
        <5>1. ASSUME NEW f, NEW operation, Begin(f, operation)
              PROVE  FALSE
          BY <2>1, <5>1 DEF Begin
        <5>2. QED
          BY <5>1 DEF Fresh, Reply, Turn, Poll, Request
      <4>2. ~ Drop /\ ~ Err /\ ~ BatchDone /\ ~ ReplayDone
        BY <1>2, <2>1
           DEF Drop, Err, Return, BatchDone, ReplayDone, Failsafe, Finish, Answer
      <4>3. QED
        BY <2>1, <4>1, <4>2
           DEF Next, Terminate, SiblingsDone, IterationLimit, Top, Modelling, ModelFails,
               ModelPending, ModelAnswers, ModelCalls, FailsafeReturnsCalls
    <3>2. QED
      BY <3>1 DEF Tick, vars, local, Execute, Refuse
  <2>2. QED
    BY <1>2, <2>1 DEF WorthInv
<1>3. QED
  BY <1>1, <1>2

(* For tools the client runs itself, whatever the policies and the caller: no
   batch of calls, approved or made by the model, is taken up by a run that is
   out of calls or out of time, however late its approvals come, and no call is
   executed by a run that is out of calls.  (With calls deferred behind the
   caller's own it may be: MCDeferredLate.) *)
THEOREM SpentRunsStop ==
    ASSUME Host \notin Requested
    PROVE  Spec => SpentStopsTools
<1>1. Init => WorthInv
  BY DEF Init, WorthInv
<1>2. Host \notin Requested /\ BudgetInv /\ HistoryInv /\ WorthInv /\ [Next]_vars => WorthInv'
  BY WorthInvStep
<1>3. BudgetInv /\ WorthInv /\ [Next]_vars
         => [/\ pc' # pc /\ todo' # {} => ~ Spent'
             /\ now' \ now # {} => budget.executed < MaxFunctionCalls]_vars
  <2>1. SUFFICES ASSUME BudgetInv, WorthInv, [Next]_vars
                 PROVE  /\ pc' # pc /\ todo' # {} => ~ Spent'
                        /\ now' \ now # {} => budget.executed < MaxFunctionCalls
    OBVIOUS
  <2>2. ASSUME pc' # pc, todo' # {}
        PROVE  ~ Spent'
    BY <2>1, <2>2, NoSiblings, CallsBegin
  <2>3. ASSUME now' \ now # {}
        PROVE  budget.executed < MaxFunctionCalls
    <3>1. PICK c \in Calls : Execute(c)
      BY <2>1, <2>3, ExecutesCalls
    <3>2. QED
      BY <2>1, <3>1 DEF Execute, Due, WorthInv
  <2>4. QED
    BY <2>2, <2>3
<1>4. QED
  BY Invariants, BudgetInvInit, BudgetInvStep, <1>1, <1>2, <1>3, PTL DEF Spec, SpentStopsTools
=============================================================================
