--------------------------- MODULE MagenticProofs ---------------------------
(***************************************************************************)
(* What Magentic promises, proved for every limit and setting: the limits  *)
(* hold, and what a pause left behind is what its request is about.        *)
(*                                                                         *)
(* The invariant is by phase.  A superstep that runs the rounds has nothing *)
(* staged; one that is about an answer has what the pause saved; and what  *)
(* is committed is always what the latest checkpoint has.  A review and a  *)
(* stall that are kept are told from none by their ledger, as a manager    *)
(* has planned before either.                                              *)
(***************************************************************************)
EXTENDS Magentic, TLAPS

\* The sets of the model's types, by the number of plans drafted.
ContextsTo(d) ==
    [rounds : 0..MaxRounds, stalls : 0..(MaxStalls + 1), resets : 0..MaxResets,
     ledger : 0..d, plan : 0..d]
ReviewsTo(d) ==
    [mctx : ContextsTo(d), combined : 0..d, text : 0..d, round : 0..(MaxReviews + 1)]
StatesTo(d) == [review : ReviewsTo(d), stall : ContextsTo(d)]
RequestsTo(d) == [kind : {"none", "review", "stall"}, plan : 0..d]
CheckpointsTo(d) == [store : StatesTo(d), pending : RequestsTo(d), reviews : Nat]

\* A review under way, the times it was asked for, and a stall.  The text of a plan
\* that is under review is that of the message the run will go on with.
UnderReview(review, asked) ==
    /\ review.text = review.combined
    /\ review.mctx.ledger # 0 /\ review.mctx.stalls <= MaxStalls
    /\ review.round <= MaxReviews /\ asked = review.round + 1
AtStall(m, asked) ==
    m.ledger # 0 /\ m.resets < MaxResets /\ asked <= MaxReviews + 1

\* What a checkpoint has under the key of a request's kind, and no more.
Holds(state, kind, asked) ==
    \/ kind = "none" /\ state = NoState /\ asked = 0
    \/ kind = "review" /\ state.stall = NoStall /\ UnderReview(state.review, asked)
    \/ kind = "stall" /\ state.review = NoReview /\ AtStall(state.stall, asked)

-----------------------------------------------------------------------------
Typed ==
    /\ phase \in {"new", "paused", "answering", "rounds", "failed", "done"}
    /\ drafts \in Nat /\ failures \in 0..MaxFailures
    /\ mctx \in ContextsTo(drafts) /\ work \in StatesTo(drafts)
    /\ answer \in Decisions \cup {NoAnswer}
    /\ pending \in RequestsTo(drafts) /\ saved \in CheckpointsTo(drafts)

\* What is committed is in the checkpoint; a request is used up by its answer.
SavedInv ==
    /\ store = saved.store /\ reviews = saved.reviews
    /\ pending = IF phase \in {"paused", "done"} THEN saved.pending ELSE NoRequest
    /\ saved.pending.kind = "none" => saved.pending = NoRequest
    /\ saved.pending.kind = "review" => saved.pending.plan = saved.store.review.text
    /\ phase = "new" => saved.pending = NoRequest
    /\ phase = "paused" => saved.pending.kind # "none"

\* Before the end a checkpoint holds what its request is about; at the end, nothing.
HoldsInv ==
    /\ phase # "done" => Holds(saved.store, saved.pending.kind, saved.reviews)
    /\ phase = "done" => /\ saved.store = NoState /\ saved.pending = NoRequest
                         /\ saved.reviews <= MaxReviews + 1

\* What a superstep works on.
WorkInv ==
    /\ answer = NoAnswer \/ phase = "answering"
    /\ work = IF phase = "answering" THEN saved.store ELSE NoState
    /\ phase = "answering" => answer.kind = saved.pending.kind /\ answer \in Decisions
    /\ phase = "rounds" => mctx.ledger # 0 /\ mctx.stalls <= MaxStalls

Inv == Typed /\ SavedInv /\ HoldsInv /\ WorkInv

-----------------------------------------------------------------------------
(* What is nothing, and plans that become more.                            *)

LEMMA NothingTyped ==
    ASSUME NEW d \in Nat
    PROVE  /\ NewContext \in ContextsTo(d) /\ NoStall \in ContextsTo(d)
           /\ NoReview \in ReviewsTo(d) /\ NoState \in StatesTo(d)
           /\ NoRequest \in RequestsTo(d)
  <1>1. MaxRounds \in Nat /\ MaxResets \in Nat /\ MaxStalls \in Nat /\ MaxReviews \in Nat
    BY ConfigAssumption
  <1>2. NewContext \in ContextsTo(d)
    BY <1>1 DEF NewContext, ContextsTo
  <1>3. NoReview \in ReviewsTo(d)
    BY <1>1, <1>2 DEF NoReview, ReviewsTo
  <1> QED
    BY <1>2, <1>3 DEF NoStall, NoState, StatesTo, NoRequest, RequestsTo

LEMMA Growth ==
    ASSUME NEW d \in Nat, NEW e \in Nat, d <= e
    PROVE  /\ ContextsTo(d) \subseteq ContextsTo(e) /\ ReviewsTo(d) \subseteq ReviewsTo(e)
           /\ StatesTo(d) \subseteq StatesTo(e) /\ RequestsTo(d) \subseteq RequestsTo(e)
           /\ CheckpointsTo(d) \subseteq CheckpointsTo(e)
  <1>1. 0..d \subseteq 0..e
    OBVIOUS
  <1>2. ContextsTo(d) \subseteq ContextsTo(e)
    BY <1>1 DEF ContextsTo
  <1>3. ReviewsTo(d) \subseteq ReviewsTo(e)
    BY <1>1, <1>2 DEF ReviewsTo
  <1>4. StatesTo(d) \subseteq StatesTo(e)
    BY <1>2, <1>3 DEF StatesTo
  <1>5. RequestsTo(d) \subseteq RequestsTo(e)
    BY <1>1 DEF RequestsTo
  <1> QED
    BY <1>2, <1>3, <1>4, <1>5 DEF CheckpointsTo

\* A ledger tells a review or a stall that is kept from none.
LEMMA KeptIsNotNone ==
    /\ \A review : review.mctx.ledger # 0 => review # NoReview
    /\ \A m : m.ledger # 0 => m # NoStall
  BY DEF NoReview, NoStall, NewContext

\* The human was asked to review no more often than the limit allows, and once.
LEMMA ReviewsLimited ==
    ASSUME Inv
    PROVE  saved.reviews \in 0..(MaxReviews + 1)
  <1>1. MaxReviews \in Nat /\ saved.reviews \in Nat
    BY ConfigAssumption DEF Inv, Typed, CheckpointsTo
  <1>2. saved.store.review.round \in Nat
    BY <1>1 DEF Inv, Typed, CheckpointsTo, StatesTo, ReviewsTo
  <1> QED
    BY <1>1, <1>2 DEF Inv, HoldsInv, Holds, UnderReview, AtStall

-----------------------------------------------------------------------------
(* How a superstep pauses, ends, or goes on.                               *)

LEMMA PauseKeeps ==
    ASSUME Inv, drafts' \in Nat, drafts <= drafts',
           NEW state \in StatesTo(drafts'), NEW request \in RequestsTo(drafts'),
           NEW asked \in Nat,
           request.kind # "none", Holds(state, request.kind, asked),
           request.kind = "review" => request.plan = state.review.text,
           Complete("paused", state, request, asked)
    PROVE  Inv'
  <1>1. saved' = [store |-> state, pending |-> request, reviews |-> asked]
    BY DEF Complete
  <1>2. saved' \in CheckpointsTo(drafts')
    BY <1>1 DEF CheckpointsTo
  <1>3. Typed'
    BY <1>2, NothingTyped DEF Complete, Inv, Typed
  <1>4. SavedInv'
    BY <1>1 DEF Complete, SavedInv
  <1>5. HoldsInv'
    BY <1>1 DEF Complete, HoldsInv
  <1>6. WorkInv'
    BY DEF Complete, WorkInv
  <1> QED
    BY <1>3, <1>4, <1>5, <1>6 DEF Inv

LEMMA FinishKeeps ==
    ASSUME Inv, Finish(NoState), UNCHANGED drafts
    PROVE  Inv'
  <1>1. saved' = [store |-> NoState, pending |-> NoRequest, reviews |-> saved.reviews]
    BY DEF Finish, Complete, Inv, SavedInv
  <1>2. saved.reviews \in 0..(MaxReviews + 1) /\ saved.reviews \in Nat
    BY ReviewsLimited DEF Inv, Typed, CheckpointsTo
  <1>3. saved' \in CheckpointsTo(drafts')
    BY <1>1, <1>2, NothingTyped DEF Inv, Typed, CheckpointsTo
  <1>4. Typed'
    BY <1>3, NothingTyped DEF Finish, Complete, Inv, Typed
  <1>5. SavedInv'
    BY <1>1 DEF Finish, Complete, Inv, SavedInv, NoRequest
  <1>6. HoldsInv'
    BY <1>1, <1>2 DEF Finish, Complete, HoldsInv
  <1>7. WorkInv'
    BY DEF Finish, Complete, WorkInv
  <1> QED
    BY <1>4, <1>5, <1>6, <1>7 DEF Inv

LEMMA LoopKeeps ==
    ASSUME Inv, drafts' \in Nat, drafts <= drafts', phase \in {"new", "answering", "rounds"},
           NEW m \in ContextsTo(drafts'), m.ledger # 0, m.stalls <= MaxStalls,
           Loop(m, NoState)
    PROVE  Inv'
  <1>1. Typed'
    BY NothingTyped, Growth DEF Loop, Inv, Typed
  <1>2. SavedInv'
    BY DEF Loop, Inv, SavedInv
  <1>3. HoldsInv'
    BY DEF Loop, Inv, HoldsInv
  <1>4. WorkInv'
    BY DEF Loop, WorkInv
  <1> QED
    BY <1>1, <1>2, <1>3, <1>4 DEF Inv

\* The plans of a context that another was made from.
LEMMA ReplannedTyped ==
    ASSUME drafts \in Nat, NEW m \in ContextsTo(drafts)
    PROVE  /\ Replanned(m) \in ContextsTo(drafts + 1) /\ Replanned(m).ledger # 0
           /\ Replanned(m).stalls = m.stalls /\ Replanned(m).resets = m.resets
  BY DEF Replanned, ContextsTo

LEMMA ResetTyped ==
    ASSUME drafts \in Nat, NEW m \in ContextsTo(drafts), m.resets < MaxResets
    PROVE  /\ Reset(m) \in ContextsTo(drafts + 1) /\ Reset(m).ledger # 0
           /\ Reset(m).stalls <= MaxStalls
  <1>1. MaxResets \in Nat /\ MaxStalls \in Nat
    BY ConfigAssumption
  <1>2. m.resets + 1 \in 0..MaxResets /\ drafts + 1 \in 0..(drafts + 1)
    BY <1>1 DEF ContextsTo
  <1>3. 0 \in 0..(MaxStalls + 1) /\ 0 <= MaxStalls /\ drafts + 1 # 0 /\ m.rounds \in 0..MaxRounds
    BY <1>1 DEF ContextsTo
  <1>4. /\ DOMAIN Reset(m) = {"rounds", "stalls", "resets", "ledger", "plan"}
        /\ Reset(m) = [f \in DOMAIN Reset(m) |-> Reset(m)[f]]
    BY DEF Reset, ContextsTo
  <1>5. /\ Reset(m).rounds = m.rounds /\ Reset(m).stalls = 0 /\ Reset(m).resets = m.resets + 1
        /\ Reset(m).ledger = drafts + 1 /\ Reset(m).plan = drafts + 1
    BY DEF Reset, ContextsTo
  <1>6. Reset(m) \in ContextsTo(drafts + 1)
    BY <1>2, <1>3, <1>4, <1>5 DEF ContextsTo
  <1> QED
    BY <1>3, <1>6, <1>5

-----------------------------------------------------------------------------
(* The start, and reviews.                                                 *)

LEMMA InitInv == Init => Inv
  <1> SUFFICES ASSUME Init PROVE Inv
    OBVIOUS
  <1>1. drafts = 0 /\ 0 \in Nat /\ MaxFailures \in Nat
    BY ConfigAssumption DEF Init
  <1>2. Typed
    <2>1. saved \in CheckpointsTo(0)
      BY NothingTyped DEF Init, CheckpointsTo
    <2> QED
      BY <1>1, <2>1, NothingTyped DEF Init, Typed
  <1>3. SavedInv /\ HoldsInv /\ WorkInv
    BY DEF Init, SavedInv, NoRequest, HoldsInv, Holds, WorkInv
  <1> QED
    BY <1>2, <1>3 DEF Inv

\* The human is asked about a review.
LEMMA AskKeeps ==
    ASSUME Inv, drafts' \in Nat, drafts <= drafts', NEW review \in ReviewsTo(drafts'),
           work.stall = NoStall, UnderReview(review, reviews + 1), AskReview(review)
    PROVE  Inv'
  <1> DEFINE state == [work EXCEPT !.review = review]
             request == [kind |-> "review", plan |-> review.text]
  <1>1. work \in StatesTo(drafts') /\ reviews \in Nat
    BY Growth DEF Inv, Typed, SavedInv, CheckpointsTo
  <1>2. state \in StatesTo(drafts') /\ state.review = review /\ state.stall = NoStall
    BY <1>1 DEF StatesTo
  <1>3. request \in RequestsTo(drafts')
    BY DEF ReviewsTo, RequestsTo
  <1>4. Holds(state, request.kind, reviews + 1)
    BY <1>2 DEF Holds
  <1>5. Complete("paused", state, request, reviews + 1)
    BY DEF AskReview, Pause
  <1>6. request.kind # "none" /\ request.plan = state.review.text
    BY <1>2
  <1> HIDE DEF state, request
  <1> QED
    BY <1>1, <1>2, <1>3, <1>4, <1>5, <1>6, PauseKeeps

\* A plan the manager has just drafted, in a review of it.
LEMMA DraftedTyped ==
    ASSUME drafts \in Nat, NEW m \in ContextsTo(drafts + 1), m.ledger = drafts + 1,
           NEW round \in 0..(MaxReviews + 1)
    PROVE  /\ Drafted(m, round) \in ReviewsTo(drafts + 1) /\ Drafted(m, round).mctx = m
           /\ Drafted(m, round).text = Drafted(m, round).combined
           /\ Drafted(m, round).round = round
  BY DEF Drafted, ReviewsTo

LEMMA StartKeeps ==
    ASSUME Inv, Start
    PROVE  Inv'
  <1> DEFINE m == Replanned(NewContext)
  <1>1. drafts \in Nat /\ drafts' = drafts + 1 /\ phase = "new"
    BY DEF Inv, Typed, Start, Draft
  <1>2. m \in ContextsTo(drafts') /\ m.ledger # 0 /\ m.stalls = 0
    BY <1>1, NothingTyped, ReplannedTyped DEF NewContext
  <1>3. work = NoState /\ reviews = 0 /\ MaxStalls \in Nat /\ MaxReviews \in Nat
    <2>1. saved.reviews = 0
      BY <1>1 DEF Inv, HoldsInv, SavedInv, Holds, NoRequest
    <2> QED
      BY <1>1, <2>1, ConfigAssumption DEF Inv, WorkInv, SavedInv
  <1>4. CASE PlanReview
    <2> DEFINE review == Drafted(m, 0)
    <2>1. AskReview(review)
      BY <1>4 DEF Start
    <2>2. /\ review \in ReviewsTo(drafts') /\ review.mctx = m
          /\ review.text = review.combined /\ review.round = 0
      BY <1>1, <1>2, <1>3, DraftedTyped DEF Replanned, NewContext
    <2>3. UnderReview(review, reviews + 1)
      BY <1>2, <1>3, <2>2 DEF UnderReview
    <2> HIDE DEF review
    <2> QED
      BY <1>1, <1>3, <2>1, <2>2, <2>3, AskKeeps DEF NoState
  <1>5. CASE ~ PlanReview
    <2> DEFINE n == [m EXCEPT !.plan = drafts + 1]
    <2>1. n \in ContextsTo(drafts') /\ n.ledger # 0 /\ n.stalls <= MaxStalls
      BY <1>1, <1>2, <1>3 DEF ContextsTo
    <2>2. Loop(n, NoState)
      BY <1>3, <1>5 DEF Start
    <2> HIDE DEF n
    <2> QED
      BY <1>1, <2>1, <2>2, LoopKeeps
  <1> QED
    BY <1>4, <1>5

\* What a superstep about an answer has: the review or the stall the human was asked about.
LEMMA Reviewed ==
    ASSUME Inv, NEW decision, Reviewing(decision)
    PROVE  /\ phase = "answering" /\ work.stall = NoStall
           /\ work.review \in ReviewsTo(drafts) /\ UnderReview(work.review, reviews)
  <1>1. work = saved.store /\ answer.kind = "review" /\ saved.pending.kind = "review"
    BY DEF Inv, WorkInv, Reviewing
  <1>2. Holds(work, "review", reviews)
    BY <1>1 DEF Inv, HoldsInv, SavedInv, Reviewing
  <1>3. work \in StatesTo(drafts)
    BY DEF Inv, Typed
  <1> QED
    BY <1>2, <1>3 DEF Holds, StatesTo, Reviewing

LEMMA ProceedKeeps ==
    ASSUME Inv, drafts' \in Nat, drafts <= drafts', phase = "answering",
           work.stall = NoStall, NEW review \in ReviewsTo(drafts'),
           review.mctx.ledger # 0, review.mctx.stalls <= MaxStalls, Proceed(review)
    PROVE  Inv'
  <1> DEFINE m == [review.mctx EXCEPT !.plan = review.combined]
             state == [work EXCEPT !.review = NoReview]
  <1>1. state = NoState
    BY DEF Inv, Typed, StatesTo, NoState
  <1>2. m \in ContextsTo(drafts') /\ m.ledger # 0 /\ m.stalls <= MaxStalls
    BY DEF ReviewsTo, ContextsTo
  <1>3. Loop(m, state)
    BY DEF Proceed
  <1> HIDE DEF m, state
  <1> QED
    BY <1>1, <1>2, <1>3, LoopKeeps

\* A plan a human edited or commented on, in the review that goes on with it.
LEMMA RevisedTyped ==
    ASSUME drafts \in Nat, NEW review \in ReviewsTo(drafts), review.mctx.ledger # 0,
           NEW other \in {Edited(review), Commented(review)}
    PROVE  /\ other \in ReviewsTo(drafts + 1) /\ other.mctx.ledger # 0
           /\ other.mctx.stalls = review.mctx.stalls /\ other.round = review.round
           /\ other.text = other.combined
  <1>1. /\ review \in ReviewsTo(drafts + 1) /\ review.mctx \in ContextsTo(drafts)
        /\ review.round \in 0..(MaxReviews + 1) /\ drafts + 1 \in 0..(drafts + 1)
    BY Growth DEF ReviewsTo
  <1>2. CASE other = Edited(review)
    BY <1>1, <1>2 DEF Edited, Rendered, ReviewsTo
  <1>3. CASE other = Commented(review)
    <2>1. /\ Replanned(review.mctx) \in ContextsTo(drafts + 1)
          /\ Replanned(review.mctx).ledger = drafts + 1
          /\ Replanned(review.mctx).stalls = review.mctx.stalls
      BY <1>1, ReplannedTyped DEF Replanned, ContextsTo
    <2> QED
      BY <1>1, <1>3, <2>1, DraftedTyped DEF Commented
  <1> QED
    BY <1>2, <1>3

LEMMA ApproveKeeps ==
    ASSUME Inv, Approve
    PROVE  Inv'
  <1>1. /\ phase = "answering" /\ work.stall = NoStall /\ drafts \in Nat
        /\ work.review \in ReviewsTo(drafts) /\ UnderReview(work.review, reviews)
    BY Reviewed DEF Approve, Inv, Typed
  <1>2. work.review.mctx.ledger # 0 /\ work.review.mctx.stalls <= MaxStalls
    BY <1>1 DEF UnderReview
  <1>3. answer.how \in {"as is", "edit", "comment"}
    BY <1>1 DEF Inv, WorkInv, Approve, Reviewing, Decisions
  <1>4. CASE answer.how = "as is"
    <2>1. UNCHANGED drafts /\ Proceed(work.review)
      BY <1>4 DEF Approve
    <2> QED
      BY <1>1, <1>2, <2>1, ProceedKeeps
  <1>5. ASSUME NEW other \in {Edited(work.review), Commented(work.review)},
               Draft, Proceed(other)
        PROVE  Inv'
    <2>1. drafts' = drafts + 1 /\ drafts' \in Nat /\ drafts <= drafts'
      BY <1>1, <1>5 DEF Draft
    <2>2. other \in ReviewsTo(drafts') /\ other.mctx.ledger # 0
          /\ other.mctx.stalls <= MaxStalls
      BY <1>1, <1>2, <2>1, RevisedTyped
    <2> QED
      BY <1>1, <1>5, <2>1, <2>2, ProceedKeeps
  <1>6. CASE answer.how = "edit"
    BY <1>5, <1>6 DEF Approve
  <1>7. CASE answer.how = "comment"
    BY <1>5, <1>7 DEF Approve
  <1> QED
    BY <1>3, <1>4, <1>6, <1>7

LEMMA ReviseKeeps ==
    ASSUME Inv, Revise
    PROVE  Inv'
  <1> DEFINE review == [work.review EXCEPT !.round = @ + 1]
  <1>1. /\ phase = "answering" /\ work.stall = NoStall /\ drafts \in Nat
        /\ work.review \in ReviewsTo(drafts) /\ UnderReview(work.review, reviews)
    BY Reviewed DEF Revise, Inv, Typed
  <1>2. MaxReviews \in Nat /\ work.review.round \in Nat /\ reviews = work.review.round + 1
    BY <1>1, ConfigAssumption DEF UnderReview, ReviewsTo
  <1>3. /\ review \in ReviewsTo(drafts) /\ review.mctx.ledger # 0
        /\ review.mctx.stalls <= MaxStalls /\ review.round = reviews
    BY <1>1, <1>2 DEF ReviewsTo, UnderReview
  <1>4. IF review.round > MaxReviews
        THEN UNCHANGED drafts /\ Proceed(review)
        ELSE /\ Draft
             /\ AskReview(IF answer.how = "edit" THEN Edited(review) ELSE Commented(review))
    BY DEF Revise
  <1> HIDE DEF review
  <1>5. CASE review.round > MaxReviews
    BY <1>1, <1>3, <1>4, <1>5, ProceedKeeps
  <1>6. CASE ~ (review.round > MaxReviews)
    <2>1. PICK other \in {Edited(review), Commented(review)} : AskReview(other)
      BY <1>4, <1>6
    <2>2. drafts' = drafts + 1 /\ drafts' \in Nat /\ drafts <= drafts'
      BY <1>1, <1>4, <1>6 DEF Draft
    <2>3. /\ other \in ReviewsTo(drafts') /\ other.mctx.ledger # 0
          /\ other.mctx.stalls = review.mctx.stalls /\ other.round = review.round
          /\ other.text = other.combined
      BY <1>1, <1>3, <2>2, RevisedTyped
    <2>4. UnderReview(other, reviews + 1)
      BY <1>2, <1>3, <1>6, <2>3 DEF UnderReview
    <2> QED
      BY <1>1, <2>1, <2>2, <2>3, <2>4, AskKeeps
  <1> QED
    BY <1>5, <1>6

-----------------------------------------------------------------------------
(* A stall, and the rounds.                                                *)

LEMMA Intervened ==
    ASSUME Inv, NEW decision, Intervening(decision)
    PROVE  /\ phase = "answering" /\ Resumed = NoState
           /\ work.stall \in ContextsTo(drafts) /\ AtStall(work.stall, reviews)
  <1>1. work = saved.store /\ answer.kind = "stall" /\ saved.pending.kind = "stall"
    BY DEF Inv, WorkInv, Intervening
  <1>2. Holds(work, "stall", reviews)
    BY <1>1 DEF Inv, HoldsInv, SavedInv, Intervening
  <1>3. work \in StatesTo(drafts)
    BY DEF Inv, Typed
  <1>4. work.review = NoReview /\ AtStall(work.stall, reviews)
    BY <1>2 DEF Holds
  <1>5. Resumed = NoState
    BY <1>3, <1>4 DEF Resumed, NoState, StatesTo
  <1> QED
    BY <1>3, <1>4, <1>5 DEF StatesTo, Intervening

LEMMA ContinueKeeps ==
    ASSUME Inv, Continue
    PROVE  Inv'
  <1> DEFINE m == [work.stall EXCEPT !.stalls = 0]
  <1>1. /\ phase = "answering" /\ Resumed = NoState /\ drafts \in Nat
        /\ work.stall \in ContextsTo(drafts) /\ AtStall(work.stall, reviews)
    BY Intervened DEF Continue, Inv, Typed
  <1>2. MaxStalls \in Nat
    BY ConfigAssumption
  <1>3. m \in ContextsTo(drafts) /\ m.ledger # 0 /\ m.stalls <= MaxStalls
    BY <1>1, <1>2 DEF ContextsTo, AtStall
  <1>4. Loop(m, NoState) /\ drafts' = drafts
    BY <1>1 DEF Continue
  <1> HIDE DEF m
  <1> QED
    BY <1>1, <1>3, <1>4, LoopKeeps

\* The manager plans again, at a context whose resets are below the limit.
LEMMA ResetKeeps ==
    ASSUME Inv, phase \in {"answering", "rounds"}, NEW m \in ContextsTo(drafts),
           m.resets < MaxResets, Loop(Reset(m), NoState), Draft
    PROVE  Inv'
  <1>1. drafts \in Nat /\ drafts' = drafts + 1 /\ drafts' \in Nat /\ drafts <= drafts'
    BY DEF Inv, Typed, Draft
  <1>2. Reset(m) \in ContextsTo(drafts') /\ Reset(m).ledger # 0 /\ Reset(m).stalls <= MaxStalls
    BY <1>1, ResetTyped
  <1> QED
    BY <1>1, <1>2, LoopKeeps

LEMMA ReplanKeeps ==
    ASSUME Inv, Replan
    PROVE  Inv'
  <1>1. /\ phase = "answering" /\ Resumed = NoState
        /\ work.stall \in ContextsTo(drafts) /\ AtStall(work.stall, reviews)
    BY Intervened DEF Replan
  <1> QED
    BY <1>1, ResetKeeps DEF Replan, AtStall

LEMMA AbortKeeps ==
    ASSUME Inv, Abort
    PROVE  Inv'
  <1>1. Resumed = NoState
    BY Intervened DEF Abort
  <1> QED
    BY <1>1, FinishKeeps DEF Abort

\* The round that is begun: there is a ledger, and the limits leave room for it.
LEMMA RoundTyped ==
    ASSUME Inv, InRound
    PROVE  /\ phase = "rounds" /\ work = NoState
           /\ Round \in ContextsTo(drafts) /\ Round.ledger # 0 /\ Round.resets < MaxResets
           /\ \A stalled \in BOOLEAN :
                 /\ Counted(stalled) \in ContextsTo(drafts)
                 /\ Counted(stalled).ledger # 0 /\ Counted(stalled).resets < MaxResets
  <1>1. /\ MaxRounds \in Nat /\ MaxResets \in Nat /\ MaxStalls \in Nat
        /\ mctx \in ContextsTo(drafts) /\ phase = "rounds"
        /\ ~ (mctx.rounds >= MaxRounds) /\ ~ (mctx.resets >= MaxResets)
        /\ mctx.ledger # 0 /\ mctx.stalls <= MaxStalls /\ work = NoState
    BY ConfigAssumption DEF Inv, Typed, WorkInv, InRound, AtLimit
  <1>2. mctx.rounds + 1 \in 0..MaxRounds /\ mctx.resets < MaxResets /\ mctx.stalls \in Nat
    BY <1>1 DEF ContextsTo
  <1>3. /\ Round \in ContextsTo(drafts) /\ Round.ledger = mctx.ledger
        /\ Round.resets = mctx.resets /\ Round.stalls = mctx.stalls
    BY <1>1, <1>2 DEF Round, ContextsTo
  <1>4. ASSUME NEW stalled \in BOOLEAN
        PROVE  /\ Counted(stalled) \in ContextsTo(drafts)
               /\ Counted(stalled).ledger # 0 /\ Counted(stalled).resets < MaxResets
    <2> DEFINE stalls == IF stalled THEN mctx.stalls + 1
                         ELSE IF mctx.stalls = 0 THEN 0 ELSE mctx.stalls - 1
    <2>1. stalls \in 0..(MaxStalls + 1)
      BY <1>1, <1>2
    <2>2. Counted(stalled) = [Round EXCEPT !.stalls = stalls]
      BY <1>3 DEF Counted
    <2> HIDE DEF stalls
    <2> QED
      BY <1>1, <1>2, <1>3, <2>1, <2>2 DEF ContextsTo
  <1> QED
    BY <1>1, <1>2, <1>3, <1>4

LEMMA RoundsKeep ==
    ASSUME Inv, LimitReached \/ Answered \/ NoLedger \/ Speak
    PROVE  Inv'
  <1>1. CASE LimitReached
    <2>1. work = NoState
      BY <1>1 DEF LimitReached, Inv, WorkInv
    <2> QED
      BY <1>1, <2>1, FinishKeeps DEF LimitReached
  <1>2. CASE Answered
    <2>1. work = NoState
      BY <1>2, RoundTyped DEF Answered
    <2> QED
      BY <1>2, <2>1, FinishKeeps DEF Answered
  <1>3. CASE NoLedger
    BY <1>3, RoundTyped, ResetKeeps DEF NoLedger
  <1>4. CASE Speak
    <2>1. PICK stalled \in BOOLEAN :
             /\ InRound /\ Counted(stalled).stalls <= MaxStalls
             /\ Loop(Counted(stalled), work) /\ UNCHANGED drafts
      BY <1>4 DEF Speak
    <2>2. drafts \in Nat /\ drafts' = drafts
      BY <2>1 DEF Inv, Typed
    <2> QED
      BY <2>1, <2>2, RoundTyped, LoopKeeps
  <1> QED
    BY <1>1, <1>2, <1>3, <1>4

\* A stall is kept for the human to see, or planned again.
LEMMA StalledKeeps ==
    ASSUME Inv, Stalled
    PROVE  Inv'
  <1> DEFINE m == Counted(TRUE)
             state == [work EXCEPT !.stall = m]
             request == [kind |-> "stall", plan |-> m.ledger]
  <1>1. /\ phase = "rounds" /\ work = NoState /\ drafts \in Nat
        /\ m \in ContextsTo(drafts) /\ m.ledger # 0 /\ m.resets < MaxResets
    BY RoundTyped DEF Stalled, Inv, Typed
  <1>2. reviews \in Nat /\ reviews <= MaxReviews + 1
    BY ReviewsLimited, ConfigAssumption DEF Inv, SavedInv
  <1>3. CASE StallIntervention
    <2>1. PauseForStall(m) /\ drafts' = drafts
      BY <1>3 DEF Stalled
    <2> HIDE DEF m
    <2>2. work \in StatesTo(drafts) /\ work.review = NoReview
      BY <1>1, NothingTyped DEF NoState
    <2>3. state \in StatesTo(drafts) /\ state.review = NoReview /\ state.stall = m
      BY <1>1, <2>2 DEF StatesTo
    <2>4. request \in RequestsTo(drafts) /\ request.kind = "stall"
      BY <1>1 DEF ContextsTo, RequestsTo
    <2>5. Holds(state, request.kind, reviews)
      BY <1>1, <1>2, <2>3 DEF Holds, AtStall
    <2>6. Complete("paused", state, request, reviews)
      <3>1. Complete("paused", state, request, reviews + 0)
        BY <2>1 DEF PauseForStall, Pause
      <3> QED
        BY <1>2, <3>1
    <2> HIDE DEF state, request
    <2> QED
      BY <1>1, <1>2, <2>1, <2>3, <2>4, <2>5, <2>6, PauseKeeps
  <1>4. CASE ~ StallIntervention
    BY <1>1, <1>4, ResetKeeps DEF Stalled
  <1> QED
    BY <1>3, <1>4

-----------------------------------------------------------------------------
(* The caller: answers, and restores what failed.                          *)

LEMMA RespondKeeps ==
    ASSUME Inv, NEW d \in Decisions, Respond(d)
    PROVE  Inv'
  <1>1. phase = "paused" /\ pending = saved.pending /\ store = saved.store
    BY DEF Inv, SavedInv, Respond
  <1>2. saved.store \in StatesTo(drafts)
    BY DEF Inv, Typed, CheckpointsTo
  <1>3. Typed'
    BY <1>1, <1>2, NothingTyped DEF Inv, Typed, Respond
  <1>4. SavedInv' /\ HoldsInv'
    BY <1>1 DEF Inv, SavedInv, HoldsInv, Respond
  <1>5. WorkInv'
    BY <1>1 DEF Respond, WorkInv
  <1> QED
    BY <1>3, <1>4, <1>5 DEF Inv

LEMMA FailKeeps ==
    ASSUME Inv, Fail
    PROVE  Inv'
  <1>1. failures + 1 \in 0..MaxFailures /\ drafts \in Nat
    BY ConfigAssumption DEF Inv, Typed, Fail
  <1>2. Typed'
    BY <1>1, NothingTyped DEF Inv, Typed, Fail
  <1>3. SavedInv' /\ HoldsInv' /\ WorkInv'
    BY DEF Inv, SavedInv, HoldsInv, WorkInv, Fail
  <1> QED
    BY <1>2, <1>3 DEF Inv

LEMMA RestoreKeeps ==
    ASSUME Inv, Restore
    PROVE  Inv'
  <1>1. saved.pending \in RequestsTo(drafts)
    BY DEF Inv, Typed, CheckpointsTo
  <1>2. Typed'
    BY <1>1 DEF Inv, Typed, Restore
  <1>3. SavedInv' /\ HoldsInv' /\ WorkInv'
    BY DEF Inv, SavedInv, HoldsInv, WorkInv, Restore
  <1> QED
    BY <1>2, <1>3 DEF Inv

LEMMA StepInv == Inv /\ [Next]_vars => Inv'
  <1> SUFFICES ASSUME Inv, [Next]_vars PROVE Inv'
    OBVIOUS
  <1>1. CASE Superstep
    BY <1>1, StartKeeps, ApproveKeeps, ReviseKeeps, ContinueKeeps, ReplanKeeps, AbortKeeps,
       RoundsKeep, StalledKeeps DEF Superstep
  <1>2. CASE \E d \in Decisions : Respond(d)
    BY <1>2, RespondKeeps
  <1>3. CASE Fail
    BY <1>3, FailKeeps
  <1>4. CASE Restore
    BY <1>4, RestoreKeeps
  <1>5. CASE UNCHANGED vars
    BY <1>5 DEF vars, Inv, Typed, SavedInv, HoldsInv, WorkInv
  <1> QED
    BY <1>1, <1>2, <1>3, <1>4, <1>5 DEF Next

\* Through every round, pause, failure and restore, what is kept, what is asked and what
\* the running superstep works on stay in step (run_inner_loop, handle_response).
THEOREM Invariance == Spec => []Inv
  BY InitInv, StepInv, PTL DEF Spec

-----------------------------------------------------------------------------
(* The limits hold on every path through pauses, failures and restores:    *)
(* the rounds, resets and stalls of every context, kept or running, and    *)
(* how often a human is asked to review (run_inner_loop and                *)
(* handle_plan_review).                                                    *)
THEOREM TypeCorrect == Spec => []TypeOK
  <1>1. Inv => TypeOK
    <2> SUFFICES ASSUME Inv PROVE TypeOK
      OBVIOUS
    <2>1. saved \in CheckpointsTo(drafts) /\ store = saved.store /\ reviews = saved.reviews
      BY DEF Inv, Typed, SavedInv
    <2>2. /\ Context = ContextsTo(drafts) /\ Review = ReviewsTo(drafts)
          /\ State = StatesTo(drafts) /\ Request = RequestsTo(drafts)
      BY DEF Plans, Context, ContextsTo, Review, ReviewsTo, State, StatesTo, Request, RequestsTo
    <2>3. store \in State /\ saved \in [store : State, pending : Request, reviews : Nat]
      BY <2>1, <2>2 DEF CheckpointsTo
    <2>4. reviews \in 0..(MaxReviews + 1)
      BY <2>1, ReviewsLimited
    <2> QED
      BY <2>2, <2>3, <2>4 DEF Inv, Typed, TypeOK
  <1> QED
    BY <1>1, Invariance, PTL

(* What is in the shared state under the key of a review or of a stall is  *)
(* what the caller was asked about, whatever failed and was restored on    *)
(* the way: its answer is taken for what it is (handle_response looks for  *)
(* the stall's key first).                                                 *)
THEOREM AnswersAreForTheState == Spec => []RequestMatchesState
  <1>1. Inv => RequestMatchesState
    <2> SUFFICES ASSUME Inv, phase \in {"paused", "done"}
                 PROVE  /\ store.review # NoReview <=> pending.kind = "review"
                        /\ store.stall # NoStall <=> pending.kind = "stall"
      BY DEF RequestMatchesState
    <2>1. store = saved.store /\ pending = saved.pending
      BY DEF Inv, SavedInv
    <2>2. CASE phase = "done"
      BY <2>1, <2>2 DEF Inv, HoldsInv, NoState, NoRequest
    <2>3. CASE phase = "paused"
      <3>1. Holds(store, pending.kind, reviews) /\ pending.kind # "none"
        BY <2>1, <2>3 DEF Inv, HoldsInv, SavedInv
      <3> QED
        BY <3>1, KeptIsNotNone DEF Holds, UnderReview, AtStall
    <2> QED
      BY <2>2, <2>3
  <1> QED
    BY <1>1, Invariance, PTL

\* The plan that a review goes on with as it is: the one shown in the request, which
\* the checkpoint has.
LEMMA ReviewedPlan ==
    ASSUME Inv, NEW decision, Reviewing(decision)
    PROVE  work.review.combined = saved.pending.plan
  <1>1. work = saved.store /\ saved.pending.kind = "review"
    BY DEF Inv, WorkInv, Reviewing
  <1>2. saved.pending.plan = work.review.text
    BY <1>1 DEF Inv, SavedInv
  <1> QED
    BY <1>2, Reviewed DEF UnderReview

\* A plan approved as it was shown, or left standing when no more reviews are allowed,
\* is the plan the rounds begin with, though the text and the message of it are kept
\* apart, and edits, comments, failures and restores change them on the way
\* (handle_plan_review_response).
THEOREM ReviewsShowThePlan == Spec => ReviewedPlanStands
  <1> DEFINE Stands == /\ phase = "answering" /\ answer.kind = "review"
                       /\ phase' = "rounds" /\ drafts' = drafts
                       => mctx'.plan = saved.pending.plan
  <1>1. Inv /\ [Next]_vars => [Stands]_vars
    <2> SUFFICES ASSUME Inv, Next, phase = "answering", answer.kind = "review",
                        phase' = "rounds", drafts' = drafts
                 PROVE  mctx'.plan = saved.pending.plan
      OBVIOUS
    <2>1. drafts \in Nat /\ drafts' # drafts + 1
      BY DEF Inv, Typed
    <2>2. Approve \/ Revise
      BY DEF Next, Superstep, Start, Continue, Replan, Abort, Intervening, LimitReached,
             Answered, NoLedger, Speak, Stalled, InRound, Respond, Fail, Restore
    <2>3. PICK decision, review :
             /\ Reviewing(decision) /\ Proceed(review)
             /\ review.combined = work.review.combined /\ review.mctx = work.review.mctx
      <3>1. CASE Approve
        <4>1. answer.how \in {"as is", "edit", "comment"}
          BY <3>1 DEF Inv, WorkInv, Approve, Reviewing, Decisions
        <4>2. Reviewing("approve") /\ Proceed(work.review)
          BY <2>1, <3>1, <4>1 DEF Approve, Draft
        <4> QED
          BY <4>2
      <3>2. CASE Revise
        <4> DEFINE review == [work.review EXCEPT !.round = @ + 1]
        <4>1. Reviewing("revise") /\ Proceed(review)
          BY <2>1, <3>2 DEF Revise, Draft
        <4>2. review.combined = work.review.combined /\ review.mctx = work.review.mctx
          BY <4>1, Reviewed DEF ReviewsTo
        <4> QED
          BY <4>1, <4>2
      <3> QED
        BY <2>2, <3>1, <3>2
    <2>4. work.review.mctx \in ContextsTo(drafts)
      BY <2>3, Reviewed DEF ReviewsTo
    <2>5. mctx' = [work.review.mctx EXCEPT !.plan = work.review.combined]
      BY <2>3 DEF Proceed, Loop
    <2>6. mctx'.plan = work.review.combined
      BY <2>4, <2>5 DEF ContextsTo
    <2> QED
      BY <2>3, <2>6, ReviewedPlan
  <1> QED
    BY <1>1, Invariance, PTL DEF Spec, ReviewedPlanStands

=============================================================================
