------------------------------ MODULE Magentic ------------------------------
(***************************************************************************)
(* The Magentic orchestrator (workflow/orchestration/magentic.rs): a       *)
(* manager plans, a human may review the plan, and rounds of coordination  *)
(* follow, in which the manager looks at the progress, replans when it     *)
(* stalls, and nominates who speaks next.  A human may be asked about a    *)
(* stall as well.                                                          *)
(*                                                                         *)
(* The orchestrator is one executor of a workflow, and keeps nothing       *)
(* itself: over a pause its state is in the shared state of the workflow,  *)
(* under one key for a review and another for a stall, and an answer is    *)
(* taken for the one or the other by which key is there.  One superstep    *)
(* runs from the start, or from an answer, to the next pause or the end;   *)
(* its writes are staged, and discarded when it fails (WorkflowRun and     *)
(* SharedState are the modules of that).  Plans are numbered as drafted.   *)
(***************************************************************************)
EXTENDS Naturals

CONSTANTS
    MaxRounds, MaxResets, MaxStalls,   \* the limits of the manager
    MaxReviews,                        \* max_plan_review_rounds
    PlanReview, StallIntervention,     \* what a human is asked about
    MaxFailures                        \* supersteps that fail

ASSUME ConfigAssumption ==
    /\ {MaxRounds, MaxResets, MaxStalls, MaxReviews, MaxFailures} \subseteq Nat
    /\ {PlanReview, StallIntervention} \subseteq BOOLEAN

VARIABLES
    phase,      \* of the workflow run
    mctx,       \* MagenticContext of the superstep that is running
    work,       \* the shared state as that superstep has written it
    answer,     \* the answer the superstep is about
    store,      \* the shared state as committed
    pending,    \* the request the caller has, and the plan it shows
    saved,      \* the latest checkpoint
    drafts,     \* plans drafted so far
    failures,
    reviews     \* history: review requests on the way to this state

vars == <<phase, mctx, work, answer, store, pending, saved, drafts, failures, reviews>>

\* ledger: the plan in the run's task_ledger; plan: the one in its chat history.  A
\* review keeps the plan as the manager returned it, or as it was rendered, and the
\* text of it that a human is shown.
NewContext == [rounds |-> 0, stalls |-> 0, resets |-> 0, ledger |-> 0, plan |-> 0]
NoReview == [mctx |-> NewContext, combined |-> 0, text |-> 0, round |-> 0]
NoStall == NewContext
NoState == [review |-> NoReview, stall |-> NoStall]
NoRequest == [kind |-> "none", plan |-> 0]
NoAnswer == [kind |-> "none", decision |-> "none", how |-> "none"]

Init ==
    /\ phase = "new" /\ mctx = NewContext /\ work = NoState /\ answer = NoAnswer
    /\ store = NoState /\ pending = NoRequest
    /\ saved = [store |-> NoState, pending |-> NoRequest, reviews |-> 0]
    /\ drafts = 0 /\ failures = 0 /\ reviews = 0

-----------------------------------------------------------------------------
(* Pauses and ends of a superstep.                                         *)

\* The superstep completes: its writes are committed, and a checkpoint made.
Complete(next, state, request, asked) ==
    /\ phase' = next /\ store' = state /\ pending' = request /\ reviews' = asked
    /\ saved' = [store |-> state, pending |-> request, reviews |-> asked]
    /\ mctx' = NewContext /\ work' = NoState /\ answer' = NoAnswer
    /\ UNCHANGED failures

Pause(state, request) ==
    Complete("paused", state, request, reviews + IF request.kind = "review" THEN 1 ELSE 0)
Finish(state) == Complete("done", state, NoRequest, reviews)

AskReview(review) ==
    Pause([work EXCEPT !.review = review], [kind |-> "review", plan |-> review.text])

\* A stall is saved, and the plan shown that the manager drafted last.
PauseForStall(m) ==
    Pause([work EXCEPT !.stall = m], [kind |-> "stall", plan |-> m.ledger])

\* The round loop goes on with m.
Loop(m, state) ==
    /\ phase' = "rounds" /\ mctx' = m /\ work' = state /\ answer' = NoAnswer
    /\ UNCHANGED <<store, pending, saved, failures, reviews>>

Draft == drafts' = drafts + 1
Replanned(m) == [m EXCEPT !.ledger = drafts + 1]

\* reset_and_replan: the history is cleared, the rounds and the ledger stay.
Reset(m) ==
    [m EXCEPT !.stalls = 0, !.resets = @ + 1, !.ledger = drafts + 1, !.plan = drafts + 1]

-----------------------------------------------------------------------------
(* The start, and answers to a review.                                     *)

\* What the manager returned, and the plan in the ledger it recorded (decompose_ledger).
Drafted(m, round) ==
    [mctx |-> m, combined |-> drafts + 1, text |-> m.ledger, round |-> round]

Start ==
    /\ phase = "new"
    /\ Draft
    /\ LET m == Replanned(NewContext)
       IN  IF PlanReview
           THEN AskReview(Drafted(m, 0))
           ELSE Loop([m EXCEPT !.plan = drafts + 1], work)

Decisions ==
    [kind : {"review"}, decision : {"approve", "revise"}, how : {"as is", "edit", "comment"}]
    \cup [kind : {"stall"}, decision : {"continue", "replan", "abort"}, how : {"none"}]

\* The caller answers what it was asked; its request is gone from then on.
Respond(d) ==
    /\ phase = "paused" /\ d.kind = pending.kind
    /\ phase' = "answering" /\ answer' = d
    /\ pending' = NoRequest /\ work' = store
    /\ UNCHANGED <<mctx, store, saved, drafts, failures, reviews>>

StallPending == work.stall # NoStall

\* An answer is a review's unless a stall is pending; one that does not parse as
\* what it is taken for fails.
Reviewing(decision) ==
    /\ phase = "answering" /\ ~ StallPending /\ work.review # NoReview
    /\ answer.kind = "review" /\ answer.decision = decision

\* The plan a human edited is rendered, but is not in the run's ledger; a comment
\* makes the manager plan again.
Rendered(review) == [review EXCEPT !.combined = review.text]
Edited(review) == Rendered([review EXCEPT !.text = drafts + 1])
Commented(review) == Drafted(Replanned(review.mctx), review.round)

Proceed(review) ==
    Loop([review.mctx EXCEPT !.plan = review.combined], [work EXCEPT !.review = NoReview])

Approve ==
    /\ Reviewing("approve")
    /\ CASE answer.how = "edit" -> Draft /\ Proceed(Edited(work.review))
         [] answer.how = "comment" -> Draft /\ Proceed(Commented(work.review))
         [] answer.how = "as is" -> UNCHANGED drafts /\ Proceed(work.review)

\* Beyond the limit the plan that stands is used.
Revise ==
    LET review == [work.review EXCEPT !.round = @ + 1]
    IN  /\ Reviewing("revise")
        /\ IF review.round > MaxReviews
           THEN UNCHANGED drafts /\ Proceed(review)
           ELSE /\ Draft
                /\ AskReview(IF answer.how = "edit" THEN Edited(review) ELSE Commented(review))

-----------------------------------------------------------------------------
(* Answers to a stall.                                                     *)

Intervening(decision) ==
    /\ phase = "answering" /\ StallPending
    /\ answer.kind = "stall" /\ answer.decision = decision

Resumed_Kept == work

Resumed == [work EXCEPT !.stall = NoStall]

Continue_FreshRounds ==
    /\ Intervening("continue")
    /\ Loop([work.stall EXCEPT !.stalls = 0, !.rounds = 0], Resumed) /\ UNCHANGED drafts

Continue ==
    /\ Intervening("continue")
    /\ Loop([work.stall EXCEPT !.stalls = 0], Resumed) /\ UNCHANGED drafts

Replan ==
    /\ Intervening("replan")
    /\ Loop(Reset(work.stall), Resumed) /\ Draft

Abort ==
    /\ Intervening("abort")
    /\ Finish(Resumed) /\ UNCHANGED drafts

-----------------------------------------------------------------------------
(* The round loop.                                                         *)

AtLimit_Late == mctx.rounds > MaxRounds \/ mctx.resets >= MaxResets

AtLimit == mctx.rounds >= MaxRounds \/ mctx.resets >= MaxResets

\* A limit is checked before the round is counted: the run ends with what it has.
LimitReached ==
    /\ phase = "rounds" /\ AtLimit
    /\ Finish(work) /\ UNCHANGED drafts

Round == [mctx EXCEPT !.rounds = @ + 1]
Counted(stalled) ==
    [Round EXCEPT !.stalls = IF stalled THEN @ + 1 ELSE IF @ = 0 THEN 0 ELSE @ - 1]

InRound == phase = "rounds" /\ ~ AtLimit

\* The request is satisfied, or nobody of the name nominated is there.
Answered ==
    /\ InRound
    /\ Finish(work) /\ UNCHANGED drafts

\* The manager has no usable progress ledger: it plans again.
NoLedger ==
    /\ InRound
    /\ Loop(Reset(Round), work) /\ Draft

Speak ==
    \E stalled \in BOOLEAN :
       /\ InRound /\ Counted(stalled).stalls <= MaxStalls
       /\ Loop(Counted(stalled), work) /\ UNCHANGED drafts

Stalled ==
    /\ InRound /\ Counted(TRUE).stalls > MaxStalls
    /\ IF StallIntervention
       THEN PauseForStall(Counted(TRUE)) /\ UNCHANGED drafts
       ELSE Loop(Reset(Counted(TRUE)), work) /\ Draft

-----------------------------------------------------------------------------
(* A superstep fails (the manager or an agent does, an answer does not     *)
(* parse, the caller drops it): what it wrote is discarded, and the answer *)
(* it was given is used up.  The caller restores the latest checkpoint, or *)
(* starts again if there is none.                                          *)

Fail ==
    /\ phase \in {"new", "answering", "rounds"} /\ failures < MaxFailures
    /\ phase' = "failed" /\ failures' = failures + 1
    /\ mctx' = NewContext /\ work' = NoState /\ answer' = NoAnswer
    /\ UNCHANGED <<store, pending, saved, drafts, reviews>>

Restore ==
    /\ phase = "failed"
    /\ phase' = IF saved.pending = NoRequest THEN "new" ELSE "paused"
    /\ store' = saved.store /\ pending' = saved.pending /\ reviews' = saved.reviews
    /\ UNCHANGED <<mctx, work, answer, saved, drafts, failures>>

Superstep ==
    \/ Start \/ Approve \/ Revise \/ Continue \/ Replan \/ Abort
    \/ LimitReached \/ Answered \/ NoLedger \/ Speak \/ Stalled

Next == Superstep \/ (\E d \in Decisions : Respond(d)) \/ Fail \/ Restore

Spec == Init /\ [][Next]_vars

\* The engine runs a superstep to its end, and the human answers.
FairSpec == /\ Spec
            /\ WF_vars(Superstep) /\ WF_vars(\E d \in Decisions : Respond(d))
            /\ WF_vars(Restore)

-----------------------------------------------------------------------------
Plans == 0..drafts
Context == [rounds : 0..MaxRounds, stalls : 0..(MaxStalls + 1), resets : 0..MaxResets,
            ledger : Plans, plan : Plans]
Review == [mctx : Context, combined : Plans, text : Plans, round : 0..(MaxReviews + 1)]
State == [review : Review, stall : Context]
Request == [kind : {"none", "review", "stall"}, plan : Plans]

\* Types; the limits hold over pauses, failures and restores: rounds, resets, and
\* the times a human is asked to review ("the review round count").
TypeOK ==
    /\ phase \in {"new", "paused", "answering", "rounds", "failed", "done"}
    /\ mctx \in Context /\ work \in State /\ store \in State
    /\ answer \in Decisions \cup {NoAnswer} /\ pending \in Request
    /\ saved \in [store : State, pending : Request, reviews : Nat]
    /\ drafts \in Nat /\ failures \in 0..MaxFailures
    /\ reviews \in 0..(MaxReviews + 1)

\* What a pause left in the shared state is what its request is about, and nothing
\* else ("The two never overlap: plan-review state is cleared before the round loop
\* starts, and stall pauses only happen inside the round loop"): so an answer is
\* taken for what it is, also when it is given again after a failure.
RequestMatchesState ==
    phase \in {"paused", "done"} =>
       /\ store.review # NoReview <=> pending.kind = "review"
       /\ store.stall # NoStall <=> pending.kind = "stall"

\* What a human approves as it is, or what stands when no more reviews are allowed
\* ("Proceeding with the current plan"), is the plan it was shown: a review keeps the
\* plan twice, and the text is shown while the rendered message is worked by.
ReviewedPlanStands ==
    [][phase = "answering" /\ answer.kind = "review" /\ phase' = "rounds" /\ drafts' = drafts
       => mctx'.plan = saved.pending.plan]_vars

\* A human that is asked about a stall sees "the current plan text": the plan that
\* the participants work by.
StallShowsCurrentPlan == pending.kind = "stall" => pending.plan = store.stall.plan

\* Coordination comes to an end, if a human answers what it is asked.
CoordinationEnds == <>(phase = "done")
=============================================================================
