------------------------- MODULE SubWorkflowProofs -------------------------
(***************************************************************************)
(* What SubWorkflow promises, proved for any number of child runs,         *)
(* requests and inputs, with children that fail and processes that die.    *)
(*                                                                         *)
(* What the parent has been given and what the superstep holds back for it *)
(* are in order together, and of a parked run no further than the run says *)
(* it has forwarded (OutputsInv).  Until something fails, a request that a *)
(* parked run waits for is in one place: asked of the caller, answered and *)
(* in the mail, or raised in this superstep (MatchInv).  The four lemmas   *)
(* on a run that goes on serve a run that starts and one that is resumed.  *)
(***************************************************************************)
EXTENDS SubWorkflow, SequenceTheorems, TLAPS

Pairs == Runs \X Nat
Deliveries == Seq(Pairs)
Mail == Seq(Requests \cup {None})
Results == [ok : BOOLEAN, asks : SUBSET Requests, sends : Deliveries]
Checkpoints == [pending : SUBSET Requests, received : Deliveries]

Typed ==
    /\ runs \in [Runs -> Children \cup {None}]
    /\ requestMap \in [Requests -> Runs \cup {None}]
    /\ owner \in Runs \cup {None}
    /\ inbox \in Mail /\ stepping \in BOOLEAN /\ results \in Results
    /\ pending \subseteq Requests /\ received \in Deliveries
    /\ saved \in Checkpoints \cup {None}
    /\ drawn \in [runs : 0..MaxRuns, requests : 0..MaxRequests, inputs : 0..MaxInputs]
    /\ intact \in BOOLEAN

\* Only ids that were drawn are in use.
DrawnInv ==
    /\ \A r \in Runs : runs[r] # None =>
          /\ r <= drawn.runs
          /\ \A q \in runs[r].open : requestMap[q] = r
    /\ \A q \in Requests : requestMap[q] # None => q <= drawn.requests

-----------------------------------------------------------------------------
\* A sequence of outputs that is in order, of runs up to last.
InOrder(s, last) ==
    /\ \A i, j \in DOMAIN s : i < j /\ s[i][1] = s[j][1] => s[i][2] < s[j][2]
    /\ \A i \in DOMAIN s : s[i][1] <= last

\* The outputs of run r in s are among its first n.
UpTo(s, r, n) == \A i \in DOMAIN s : s[i][1] = r => s[i][2] <= n

OutputsInv ==
    /\ InOrder(received \o results.sends, drawn.runs)
    /\ saved # None => InOrder(saved.received, drawn.runs)
    /\ \A r \in Runs : runs[r] # None =>
          UpTo(received \o results.sends, r, runs[r].forwarded)
             /\ runs[r].forwarded <= runs[r].produced

-----------------------------------------------------------------------------
Mailed(q) == \E i \in DOMAIN inbox : inbox[i] = q
Waiting(q) == \E r \in Runs : runs[r] # None /\ q \in runs[r].open

\* While nothing has failed: each request that a parked child waits for is in one place.
MatchInv ==
    /\ ~ stepping => results = NoResults
    /\ intact =>
         /\ results.ok
         /\ \A q \in Requests :
              Waiting(q) <=> q \in pending \/ Mailed(q) \/ q \in results.asks
         /\ \A q \in Requests : Mailed(q) => q \notin pending /\ q \notin results.asks
         /\ \A i, j \in DOMAIN inbox : i # j /\ inbox[i] # None => inbox[i] # inbox[j]

\* A response that is not for a parked run is one after a failure.
RoutedInv == intact => routed \notin {"fresh run", "dropped"}

Inv == Typed /\ DrawnInv /\ OutputsInv /\ MatchInv /\ RoutedInv

-----------------------------------------------------------------------------
(* Outputs in order.                                                       *)

LEMMA Bounds ==
    /\ MaxRuns \in Nat /\ MaxRequests \in Nat /\ MaxInputs \in Nat
    /\ None \notin Nat /\ None \notin Children
  BY BoundsAssumption

Executions == [open : SUBSET Requests, produced : Nat, forwarded : Nat]

LEMMA OutputsTyped ==
    ASSUME NEW r \in Runs, NEW child \in Executions, child.forwarded <= child.produced
    PROVE  /\ Outputs(r, child) \in Deliveries
           /\ Len(Outputs(r, child)) = child.produced - child.forwarded
           /\ \A i \in 1..(child.produced - child.forwarded) :
                 /\ Outputs(r, child)[i] = <<r, child.forwarded + i>>
                 /\ Outputs(r, child)[i][1] = r
                 /\ Outputs(r, child)[i][2] = child.forwarded + i
  <1> DEFINE n == child.produced - child.forwarded
  <1>1. n \in Nat /\ child.forwarded \in Nat
    BY DEF Executions
  <1>2. Outputs(r, child) = [i \in 1..n |-> <<r, child.forwarded + i>>]
    BY DEF Outputs
  <1> HIDE DEF n
  <1>3. \A i \in 1..n : <<r, child.forwarded + i>> \in Pairs
    BY <1>1 DEF Pairs
  <1>4. Outputs(r, child) \in [1..n -> Pairs]
    BY <1>2, <1>3
  <1>5. Outputs(r, child) \in Deliveries /\ Len(Outputs(r, child)) = n
    BY <1>1, <1>4 DEF Deliveries
  <1>6. \A i \in 1..n : /\ Outputs(r, child)[i] = <<r, child.forwarded + i>>
                         /\ Outputs(r, child)[i][1] = r
                         /\ Outputs(r, child)[i][2] = child.forwarded + i
    BY <1>2
  <1> QED
    BY <1>5, <1>6 DEF n

\* The outputs that a run has not forwarded yet come after those it has.
LEMMA OrderKept ==
    ASSUME NEW s \in Deliveries, NEW r \in Runs, NEW child \in Executions,
           child.forwarded <= child.produced, NEW last \in Nat, NEW next \in Nat,
           last <= next, r <= next,
           InOrder(s, last), UpTo(s, r, child.forwarded)
    PROVE  /\ s \o Outputs(r, child) \in Deliveries
           /\ InOrder(s \o Outputs(r, child), next)
           /\ UpTo(s \o Outputs(r, child), r, child.produced)
           /\ \A p \in Runs, n \in Nat :
                 p # r /\ UpTo(s, p, n) => UpTo(s \o Outputs(r, child), p, n)
  <1> DEFINE t == Outputs(r, child)
             m == child.produced - child.forwarded
             u == s \o t
  <1>1. /\ t \in Deliveries /\ Len(t) = m /\ m \in Nat
        /\ \A i \in 1..m : t[i][1] = r /\ t[i][2] = child.forwarded + i
    BY OutputsTyped DEF Executions
  <1>2. Len(s) \in Nat /\ DOMAIN s = 1..Len(s) /\ child.forwarded \in Nat /\ child.produced \in Nat
    BY DEF Deliveries, Executions
  <1> HIDE DEF t, m
  <1>3. /\ u \in Deliveries /\ DOMAIN u = 1..(Len(s) + m)
        /\ \A i \in 1..(Len(s) + m) : u[i] = IF i <= Len(s) THEN s[i] ELSE t[i - Len(s)]
    BY <1>1, <1>2 DEF Deliveries
  <1> HIDE DEF u
  <1>4. \A i \in DOMAIN s : s[i][1] \in Nat /\ s[i][2] \in Nat
    BY DEF Deliveries, Pairs, Runs
  <1>5. \A i \in DOMAIN u :
           \/ i \in DOMAIN s /\ u[i] = s[i]
           \/ i > Len(s) /\ u[i][1] = r /\ u[i][2] = child.forwarded + (i - Len(s))
    BY <1>1, <1>2, <1>3
  <1>6. \A i \in DOMAIN u : u[i][1] <= next
    BY <1>4, <1>5 DEF InOrder, Runs
  <1>7. \A i, j \in DOMAIN u : i < j /\ u[i][1] = u[j][1] => u[i][2] < u[j][2]
    <2> SUFFICES ASSUME NEW i \in DOMAIN u, NEW j \in DOMAIN u, i < j, u[i][1] = u[j][1]
                 PROVE  u[i][2] < u[j][2]
      OBVIOUS
    <2>1. CASE j \in DOMAIN s /\ u[j] = s[j]
      <3>1. i \in DOMAIN s /\ u[i] = s[i]
        BY <1>2, <1>3, <2>1
      <3> QED
        BY <2>1, <3>1 DEF InOrder
    <2>2. CASE j > Len(s) /\ u[j][1] = r /\ u[j][2] = child.forwarded + (j - Len(s))
      <3>1. CASE i \in DOMAIN s /\ u[i] = s[i]
        <4>1. s[i][2] <= child.forwarded
          BY <2>2, <3>1 DEF UpTo
        <4> QED
          BY <1>2, <1>3, <1>4, <2>2, <3>1, <4>1
      <3>2. CASE i > Len(s) /\ u[i][1] = r /\ u[i][2] = child.forwarded + (i - Len(s))
        BY <1>2, <1>3, <2>2, <3>2
      <3> QED
        BY <1>5, <3>1, <3>2
    <2> QED
      BY <1>5, <2>1, <2>2
  <1>8. UpTo(u, r, child.produced)
    <2>1. \A i \in DOMAIN u : i > Len(s) => child.forwarded + (i - Len(s)) <= child.produced
      BY <1>1, <1>2, <1>3 DEF m
    <2>2. \A i \in DOMAIN s : s[i][1] = r => s[i][2] <= child.produced
      BY <1>2, <1>4 DEF UpTo
    <2> QED
      BY <1>5, <2>1, <2>2 DEF UpTo
  <1>9. \A p \in Runs, n \in Nat : p # r /\ UpTo(s, p, n) => UpTo(u, p, n)
    BY <1>5 DEF UpTo
  <1> QED
    BY <1>3, <1>6, <1>7, <1>8, <1>9 DEF InOrder, u, t

\* What was applied before is in order as well.
LEMMA OrderOfPrefix ==
    ASSUME NEW s \in Deliveries, NEW t \in Deliveries, NEW last \in Nat,
           InOrder(s \o t, last)
    PROVE  /\ InOrder(s, last)
           /\ \A r \in Runs, n \in Nat : UpTo(s \o t, r, n) => UpTo(s, r, n)
  <1>1. /\ Len(s) \in Nat /\ DOMAIN s = 1..Len(s) /\ DOMAIN s \subseteq DOMAIN (s \o t)
        /\ \A i \in DOMAIN s : (s \o t)[i] = s[i]
    BY DEF Deliveries
  <1> QED
    BY <1>1 DEF InOrder, UpTo

LEMMA Entries ==
    ASSUME NEW s \in Deliveries, NEW i \in DOMAIN s
    PROVE  s[i][1] \in Nat /\ s[i][2] \in Nat
  BY DEF Deliveries, Pairs, Runs

\* More runs may have been drawn since.
LEMMA OrdersRelax ==
    ASSUME NEW s \in Deliveries, NEW last \in Nat, NEW next \in Nat, last <= next,
           InOrder(s, last)
    PROVE  InOrder(s, next)
  <1>1. \A i \in DOMAIN s : s[i][1] \in Nat
    BY DEF Deliveries, Pairs, Runs
  <1> QED
    BY <1>1 DEF InOrder

LEMMA NothingDelivered ==
    /\ <<>> \in Deliveries
    /\ \A s \in Deliveries : s \o <<>> = s
    /\ \A s, t, u \in Deliveries : (s \o t) \o u = s \o (t \o u)
  BY EmptySeq, ConcatEmptySeq, ConcatAssociative DEF Deliveries

-----------------------------------------------------------------------------
(* What process() does, to a child that is at `child`, with `map`.         *)

LEMMA ReturnEffect ==
    ASSUME results \in Results, NEW asks \in SUBSET Requests, NEW sends \in Deliveries,
           Return(asks, sends)
    PROVE  /\ results' \in Results /\ results'.ok = results.ok
           /\ results.ok => results'.asks = results.asks \cup asks
           /\ \/ results'.sends = results.sends
              \/ results'.sends = results.sends \o sends
  <1>1. results.sends \o sends \in Deliveries
    BY DEF Results, Deliveries
  <1> QED
    BY <1>1 DEF Results, Return

LEMMA ProcessEffect ==
    ASSUME Typed, NEW r \in Runs, NEW child \in Executions,
           child.forwarded <= child.produced,
           NEW map \in [Requests -> Runs \cup {None}], Process(r, child, map)
    PROVE  /\ runs' \in [Runs -> Children \cup {None}]
           /\ \A p \in Runs : p # r => runs'[p] = runs[p]
           /\ runs'[r] # None <=> child.open # {}
           /\ runs'[r] # None => /\ runs'[r].open = child.open
                                 /\ runs'[r].produced = child.produced
                                 /\ runs'[r].forwarded = child.produced
           /\ requestMap' \in [Requests -> Runs \cup {None}]
           /\ \A q \in Requests :
                 requestMap'[q] = IF q \in child.open /\ map[q] = None THEN r ELSE map[q]
           /\ results' \in Results /\ results'.ok = results.ok
           /\ results.ok => results'.asks = results.asks
                                 \cup {q \in child.open : map[q] = None}
           /\ \/ results'.sends = results.sends
              \/ results'.sends = results.sends \o Outputs(r, child)
  <1> DEFINE fresh == {q \in child.open : map[q] = None}
  <1>1. fresh \in SUBSET Requests /\ child.produced \in Nat
    BY DEF Executions
  <1>2. child.open # {} => Processed(child) \in Children
    <2>1. Processed(child) \in Executions /\ Processed(child).open = child.open
      BY DEF Processed, Executions
    <2>2. child.open \subseteq Requests
      BY DEF Executions
    <2>3. \A o : o \subseteq Requests /\ o # {} => o \in (SUBSET Requests) \ {{}}
      OBVIOUS
    <2>4. child.open # {} => Processed(child).open \in (SUBSET Requests) \ {{}}
      BY <2>1, <2>2, <2>3
    <2> QED
      BY <2>1, <2>4 DEF Executions, Children
  <1>3. child.open # {} => Processed(child) # None
    BY <1>2, Bounds
  <1>4. /\ Processed(child).open = child.open /\ Processed(child).produced = child.produced
        /\ Processed(child).forwarded = child.produced
    BY DEF Processed, Executions
  <1>5. runs' = [runs EXCEPT ![r] = IF child.open = {} THEN None ELSE Processed(child)]
    BY DEF Process
  <1>6. runs \in [Runs -> Children \cup {None}] /\ results \in Results
    BY DEF Typed
  <1>7. requestMap' = [q \in Requests |-> IF q \in fresh THEN r ELSE map[q]]
    BY DEF Process
  <1>8. Return(fresh, Outputs(r, child))
    BY DEF Process
  <1>9. Outputs(r, child) \in Deliveries
    BY OutputsTyped
  <1>10. /\ results' \in Results /\ results'.ok = results.ok
         /\ results.ok => results'.asks = results.asks \cup fresh
         /\ \/ results'.sends = results.sends
            \/ results'.sends = results.sends \o Outputs(r, child)
    <2> HIDE DEF fresh
    <2> QED
      BY <1>1, <1>6, <1>8, <1>9, ReturnEffect
  <1>11. /\ runs' \in [Runs -> Children \cup {None}]
         /\ \A p \in Runs : p # r => runs'[p] = runs[p]
         /\ runs'[r] = IF child.open = {} THEN None ELSE Processed(child)
    BY <1>2, <1>5, <1>6
  <1>12. /\ requestMap' \in [Requests -> Runs \cup {None}]
         /\ \A q \in Requests :
               requestMap'[q] = IF q \in child.open /\ map[q] = None THEN r ELSE map[q]
    BY <1>7
  <1> QED
    BY <1>3, <1>4, <1>10, <1>11, <1>12

\* Run r goes on from `base` with k new requests and perhaps an output; the answer to
\* `gone`, if any, has been taken.
GoesOn(r, base, gone, k, more) ==
    /\ drawn.requests + k <= MaxRequests
    /\ drawn' \in [runs : 0..MaxRuns, requests : 0..MaxRequests, inputs : 0..MaxInputs]
    /\ drawn'.requests = drawn.requests + k
    /\ drawn.runs <= drawn'.runs /\ r <= drawn'.runs
    /\ Process(r, Ran(base, k, more),
               [q \in Requests |-> IF q \in gone THEN None ELSE requestMap[q]])

LEMMA RanTyped ==
    ASSUME Typed, NEW base \in Executions, NEW k \in 0..2, NEW more \in 0..1,
           base.forwarded <= base.produced, drawn.requests + k <= MaxRequests
    PROVE  LET child == Ran(base, k, more)
           IN  /\ child \in Executions /\ child.forwarded <= child.produced
               /\ child.open = base.open \cup NewRequests(k)
               /\ child.forwarded = base.forwarded
               /\ NewRequests(k) \subseteq Requests
               /\ \A q \in NewRequests(k) :
                     q > drawn.requests /\ q <= drawn.requests + k
  <1>1. drawn.requests \in Nat /\ MaxRequests \in Nat
    BY Bounds DEF Typed
  <1>2. /\ NewRequests(k) \subseteq Requests
        /\ \A q \in NewRequests(k) : q > drawn.requests /\ q <= drawn.requests + k
    BY <1>1 DEF NewRequests, Requests
  <1>3. base.produced + more \in Nat /\ base.forwarded <= base.produced + more
    BY DEF Executions
  <1> QED
    BY <1>2, <1>3 DEF Ran, Executions

\* The run that goes on keeps the requests of the wrapper and of its own apart.
LEMMA DrawnKept ==
    ASSUME Typed, DrawnInv, NEW r \in Runs, NEW base \in Executions,
           NEW gone \in SUBSET Requests, NEW k \in 0..2, NEW more \in 0..1,
           base.forwarded <= base.produced, GoesOn(r, base, gone, k, more),
           \A q \in base.open : q \notin gone /\ requestMap[q] = r,
           \A q \in gone : requestMap[q] \in {None, r}
    PROVE  DrawnInv'
  <1> DEFINE child == Ran(base, k, more)
             map == [q \in Requests |-> IF q \in gone THEN None ELSE requestMap[q]]
  <1>1. /\ map \in [Requests -> Runs \cup {None}]
        /\ \A q \in Requests : map[q] = IF q \in gone THEN None ELSE requestMap[q]
    BY DEF Typed
  <1>2. Process(r, child, map) /\ drawn.requests + k <= MaxRequests
    BY DEF GoesOn
  <1>3. /\ child \in Executions /\ child.forwarded <= child.produced
        /\ child.open = base.open \cup NewRequests(k) /\ NewRequests(k) \subseteq Requests
        /\ \A q \in NewRequests(k) : q > drawn.requests /\ q <= drawn.requests + k
    BY <1>2, RanTyped
  <1> HIDE DEF child, map
  <1>4. /\ \A p \in Runs : p # r => runs'[p] = runs[p]
        /\ runs'[r] # None => runs'[r].open = child.open
        /\ \A q \in Requests :
              requestMap'[q] = IF q \in child.open /\ map[q] = None THEN r ELSE map[q]
    BY <1>1, <1>2, <1>3, ProcessEffect
  <1>5. drawn.requests \in Nat /\ drawn'.requests = drawn.requests + k /\ r <= drawn'.runs
        /\ drawn.runs \in Nat /\ drawn'.runs \in Nat /\ drawn.runs <= drawn'.runs
    BY DEF GoesOn, Typed
  <1>6. \A q \in NewRequests(k) : requestMap[q] = None
    BY <1>3, <1>5 DEF DrawnInv, Requests
  <1>7. \A q \in child.open : map[q] \in {None, r}
    <2> SUFFICES ASSUME NEW q \in child.open PROVE map[q] \in {None, r}
      OBVIOUS
    <2>1. q \in Requests
      BY <1>3 DEF Executions
    <2>2. requestMap[q] \in {None, r}
      BY <1>3, <1>6
    <2> QED
      BY <1>1, <2>1, <2>2
  <1>8. \A q \in Requests : requestMap'[q] # None => q <= drawn'.requests
    <2> SUFFICES ASSUME NEW q \in Requests, requestMap'[q] # None PROVE q <= drawn'.requests
      OBVIOUS
    <2>1. CASE q \in NewRequests(k)
      BY <1>3, <1>5, <2>1
    <2>2. CASE q \notin NewRequests(k)
      <3>1. requestMap[q] # None
        BY <1>1, <1>3, <1>4, <2>2, Bounds DEF Runs
      <3> QED
        BY <1>5, <3>1 DEF DrawnInv, Requests
    <2> QED
      BY <2>1, <2>2
  <1>9. ASSUME NEW p \in Runs, runs'[p] # None, p # r
        PROVE  p <= drawn'.runs /\ \A q \in runs'[p].open : requestMap'[q] = p
    <2>1. runs'[p] = runs[p] /\ runs[p] \in Children
      BY <1>4, <1>9 DEF Typed
    <2>2. p <= drawn'.runs
      BY <1>5, <1>9, <2>1 DEF DrawnInv, Runs
    <2> SUFFICES ASSUME NEW q \in runs[p].open PROVE requestMap'[q] = p
      BY <2>1, <2>2
    <2>3. q \in Requests /\ requestMap[q] = p
      BY <1>9, <2>1 DEF DrawnInv, Children
    <2>4. map[q] = p /\ p # None
      BY <1>1, <1>9, <2>3, Bounds DEF Runs
    <2> QED
      BY <1>4, <2>3, <2>4
  <1>10. ASSUME runs'[r] # None
         PROVE  r <= drawn'.runs /\ \A q \in runs'[r].open : requestMap'[q] = r
    <2> SUFFICES ASSUME NEW q \in child.open PROVE requestMap'[q] = r
      BY <1>4, <1>5, <1>10
    <2>1. q \in Requests
      BY <1>3 DEF Executions
    <2> QED
      BY <1>4, <1>7, <2>1
  <1> QED
    BY <1>8, <1>9, <1>10 DEF DrawnInv

LEMMA OutputsKept ==
    ASSUME Typed, OutputsInv, NEW r \in Runs, NEW base \in Executions,
           NEW gone \in SUBSET Requests, NEW k \in 0..2, NEW more \in 0..1,
           base.forwarded <= base.produced, GoesOn(r, base, gone, k, more),
           UpTo(received \o results.sends, r, base.forwarded),
           UNCHANGED <<received, saved>>
    PROVE  OutputsInv'
  <1> DEFINE child == Ran(base, k, more)
             map == [q \in Requests |-> IF q \in gone THEN None ELSE requestMap[q]]
             all == received \o results.sends
             next == received \o results'.sends
  <1>1. map \in [Requests -> Runs \cup {None}]
    BY DEF Typed
  <1>2. Process(r, child, map) /\ drawn.requests + k <= MaxRequests
    BY DEF GoesOn
  <1>3. /\ child \in Executions /\ child.forwarded <= child.produced
        /\ child.forwarded = base.forwarded
    BY <1>2, RanTyped
  <1> HIDE DEF child, map
  <1>4. /\ \A p \in Runs : p # r => runs'[p] = runs[p]
        /\ runs'[r] # None => /\ runs'[r].produced = child.produced
                              /\ runs'[r].forwarded = child.produced
        /\ \/ results'.sends = results.sends
           \/ results'.sends = results.sends \o Outputs(r, child)
    BY <1>1, <1>2, <1>3, ProcessEffect
  <1>5. /\ drawn.runs \in Nat /\ drawn'.runs \in Nat /\ drawn.runs <= drawn'.runs
        /\ r <= drawn'.runs
    BY DEF GoesOn, Typed
  <1>6. received \in Deliveries /\ results.sends \in Deliveries /\ all \in Deliveries
    BY DEF Typed, Results, Deliveries
  <1>7. InOrder(all, drawn.runs) /\ UpTo(all, r, child.forwarded)
    BY <1>3 DEF OutputsInv
  <1>8. next = all \/ next = all \o Outputs(r, child)
    <2>1. Outputs(r, child) \in Deliveries
      BY <1>3, OutputsTyped
    <2>2. received \o (results.sends \o Outputs(r, child)) = all \o Outputs(r, child)
      BY <1>6, <2>1, NothingDelivered
    <2> QED
      BY <1>4, <2>2
  <1> HIDE DEF all, next
  <1>9. /\ InOrder(next, drawn'.runs) /\ UpTo(next, r, child.produced)
        /\ \A p \in Runs, n \in Nat : p # r /\ UpTo(all, p, n) => UpTo(next, p, n)
    <2>1. CASE next = all \o Outputs(r, child)
      BY <1>3, <1>5, <1>6, <1>7, <2>1, OrderKept
    <2>2. CASE next = all
      <3>1. \A i \in DOMAIN all : all[i][1] \in Nat /\ all[i][2] \in Nat
        BY <1>6 DEF Deliveries, Pairs, Runs
      <3>2. child.produced \in Nat /\ child.forwarded \in Nat
        BY <1>3 DEF Executions
      <3>3. InOrder(all, drawn'.runs)
        BY <1>5, <1>7, <3>1 DEF InOrder
      <3>4. UpTo(all, r, child.produced)
        BY <1>3, <1>7, <3>1, <3>2 DEF UpTo
      <3> QED
        BY <2>2, <3>3, <3>4
    <2> QED
      BY <1>8, <2>1, <2>2
  <1>10. received' \o results'.sends = next
    BY DEF next
  <1>11. saved' # None => InOrder(saved'.received, drawn'.runs)
    <2> SUFFICES ASSUME saved # None PROVE InOrder(saved.received, drawn'.runs)
      OBVIOUS
    <2>1. saved.received \in Deliveries /\ InOrder(saved.received, drawn.runs)
      BY DEF Typed, Checkpoints, OutputsInv
    <2>2. \A i \in DOMAIN saved.received : saved.received[i][1] \in Nat
      BY <2>1 DEF Deliveries, Pairs, Runs
    <2> QED
      BY <1>5, <2>1, <2>2 DEF InOrder
  <1>12. ASSUME NEW p \in Runs, runs'[p] # None
         PROVE  UpTo(next, p, runs'[p].forwarded) /\ runs'[p].forwarded <= runs'[p].produced
    <2>1. CASE p = r
      BY <1>3, <1>4, <1>9, <1>12, <2>1 DEF Executions
    <2>2. CASE p # r
      <3>1. runs'[p] = runs[p] /\ runs[p] \in Children
        BY <1>4, <1>12, <2>2 DEF Typed
      <3>2. UpTo(all, p, runs[p].forwarded) /\ runs[p].forwarded <= runs[p].produced
        BY <1>12, <3>1 DEF OutputsInv, all
      <3> QED
        BY <1>9, <2>2, <3>1, <3>2 DEF Children
    <2> QED
      BY <2>1, <2>2
  <1> QED
    BY <1>9, <1>10, <1>11, <1>12 DEF OutputsInv

-----------------------------------------------------------------------------
(* The mail of a superstep.                                                *)

\* The message that is executed is the head of the mail; no other is the same request.
LEMMA Delivered ==
    ASSUME inbox \in Mail, inbox # <<>>, inbox' = Tail(inbox)
    PROVE  /\ inbox' \in Mail /\ Head(inbox) \in Requests \cup {None}
           /\ \A q \in Requests : Mailed(q)' => Mailed(q)
           /\ \A q \in Requests : Mailed(q) => Mailed(q)' \/ q = Head(inbox)
           /\ Head(inbox) # None => Mailed(Head(inbox))
           /\ (\A i, j \in DOMAIN inbox : i # j /\ inbox[i] # None => inbox[i] # inbox[j])
                 => /\ \A q \in Requests : q = Head(inbox) => ~ Mailed(q)'
                    /\ \A i, j \in DOMAIN inbox' :
                          i # j /\ inbox'[i] # None => inbox'[i] # inbox'[j]
  <1>1. /\ Len(inbox) \in Nat /\ DOMAIN inbox = 1..Len(inbox) /\ Len(inbox) >= 1
        /\ Head(inbox) = inbox[1]
    BY DEF Mail
  <1>2. /\ inbox' \in Mail /\ DOMAIN inbox' = 1..(Len(inbox) - 1)
        /\ \A i \in 1..(Len(inbox) - 1) : inbox'[i] = inbox[i + 1]
    BY DEF Mail
  <1>3. \A i \in DOMAIN inbox' : i + 1 \in DOMAIN inbox /\ inbox'[i] = inbox[i + 1]
    BY <1>1, <1>2
  <1>4. \A i \in DOMAIN inbox : i = 1 \/ (i - 1 \in DOMAIN inbox' /\ inbox[i] = inbox'[i - 1])
    BY <1>1, <1>2
  <1>5. \A q \in Requests : Mailed(q)' => Mailed(q)
    BY <1>3 DEF Mailed
  <1>6. \A q \in Requests : Mailed(q) => Mailed(q)' \/ q = Head(inbox)
    BY <1>1, <1>4 DEF Mailed
  <1>7. 1 \in DOMAIN inbox /\ Mailed(Head(inbox)) /\ Head(inbox) \in Requests \cup {None}
    BY <1>1 DEF Mailed, Mail
  <1>8. ASSUME \A i, j \in DOMAIN inbox : i # j /\ inbox[i] # None => inbox[i] # inbox[j]
        PROVE  /\ \A q \in Requests : q = Head(inbox) => ~ Mailed(q)'
               /\ \A i, j \in DOMAIN inbox' :
                     i # j /\ inbox'[i] # None => inbox'[i] # inbox'[j]
    <2>1. \A i \in DOMAIN inbox' : i + 1 # 1 /\ i \in Nat
      BY <1>2
    <2>2. ASSUME NEW q \in Requests, q = Head(inbox) PROVE ~ Mailed(q)'
      <3>1. q # None
        BY Bounds DEF Requests
      <3> QED
        BY <1>1, <1>3, <1>7, <1>8, <2>1, <2>2, <3>1 DEF Mailed
    <2>3. ASSUME NEW i \in DOMAIN inbox', NEW j \in DOMAIN inbox', i # j, inbox'[i] # None
          PROVE  inbox'[i] # inbox'[j]
      BY <1>3, <1>8, <2>1, <2>3
    <2> QED
      BY <2>2, <2>3
  <1> QED
    BY <1>2, <1>5, <1>6, <1>7, <1>8

LEMMA MatchKept ==
    ASSUME Typed, DrawnInv, MatchInv, NEW r \in Runs, NEW base \in Executions,
           NEW gone \in SUBSET Requests, NEW k \in 0..2, NEW more \in 0..1,
           base.forwarded <= base.produced, GoesOn(r, base, gone, k, more),
           \A q \in base.open : q \notin gone /\ requestMap[q] = r,
           intact => /\ \A q \in Requests : q \in gone <=> q = Head(inbox)
                     /\ \A q \in Requests : runs[r] # None /\ q \in runs[r].open
                                               <=> q \in base.open \/ q \in gone,
           stepping, inbox # <<>>, inbox' = Tail(inbox),
           UNCHANGED <<stepping, pending, intact>>
    PROVE  MatchInv'
  <1> DEFINE child == Ran(base, k, more)
             map == [q \in Requests |-> IF q \in gone THEN None ELSE requestMap[q]]
             new == NewRequests(k)
  <1> SUFFICES ASSUME intact
               PROVE  /\ results'.ok
                      /\ \A q \in Requests :
                           Waiting(q)' <=> q \in pending \/ Mailed(q)' \/ q \in results'.asks
                      /\ \A q \in Requests :
                           Mailed(q)' => q \notin pending /\ q \notin results'.asks
                      /\ \A i, j \in DOMAIN inbox' :
                           i # j /\ inbox'[i] # None => inbox'[i] # inbox'[j]
    BY DEF MatchInv
  <1>1. /\ map \in [Requests -> Runs \cup {None}]
        /\ \A q \in Requests : map[q] = IF q \in gone THEN None ELSE requestMap[q]
    BY DEF Typed
  <1>2. Process(r, child, map) /\ drawn.requests + k <= MaxRequests
    BY DEF GoesOn
  <1>3. /\ child \in Executions /\ child.forwarded <= child.produced
        /\ child.open = base.open \cup new /\ new \subseteq Requests
        /\ \A q \in new : q > drawn.requests
    BY <1>2, RanTyped
  <1> HIDE DEF child, map, new
  <1>4. /\ \A p \in Runs : p # r => runs'[p] = runs[p]
        /\ runs'[r] # None <=> child.open # {}
        /\ runs'[r] # None => runs'[r].open = child.open
        /\ results'.ok = results.ok
        /\ results.ok => results'.asks = results.asks \cup {q \in child.open : map[q] = None}
    BY <1>1, <1>2, <1>3, ProcessEffect
  <1>5. \A q \in new : requestMap[q] = None
    BY <1>3 DEF DrawnInv, Requests, Typed
  <1>6. {q \in child.open : map[q] = None} = new
    <2>1. \A q \in base.open : q \in Requests /\ map[q] = r /\ r # None
      BY <1>1, Bounds DEF Executions, Runs
    <2>2. \A q \in new : map[q] = None
      BY <1>1, <1>3, <1>5
    <2> QED
      BY <1>3, <2>1, <2>2
  <1>7. results.ok /\ results'.ok /\ results'.asks = results.asks \cup new
    BY <1>4, <1>6 DEF MatchInv
  <1>8. \A q \in Requests, p \in Runs : runs[p] # None /\ q \in runs[p].open => requestMap[q] = p
    BY DEF DrawnInv
  <1>9. \A q \in new : ~ Waiting(q) /\ q \notin gone
    <2>1. \A q \in new : ~ Waiting(q)
      BY <1>3, <1>5, <1>8, Bounds DEF Waiting, Runs
    <2> QED
      BY <1>3, <2>1 DEF Waiting
  <1>10. \A q \in Requests : Waiting(q)' <=> (Waiting(q) /\ q \notin gone) \/ q \in new
    <2> TAKE q \in Requests
    <2>1. Waiting(q)' <=> \E p \in Runs : runs'[p] # None /\ q \in runs'[p].open
      BY DEF Waiting
    <2>2. Waiting(q) <=> \E p \in Runs : runs[p] # None /\ q \in runs[p].open
      BY DEF Waiting
    <2>3. runs'[r] # None /\ q \in runs'[r].open <=> q \in base.open \/ q \in new
      BY <1>3, <1>4
    <2>4. runs[r] # None /\ q \in runs[r].open <=> q \in base.open \/ q \in gone
      OBVIOUS
    <2>5. \A p \in Runs : p # r =>
             ((runs'[p] # None /\ q \in runs'[p].open)
                 <=> (runs[p] # None /\ q \in runs[p].open))
      BY <1>4
    <2>6. q \in gone => \A p \in Runs : runs[p] # None /\ q \in runs[p].open => p = r
      BY <1>8, <2>4
    <2>7. q \in base.open => q \notin gone
      OBVIOUS
    <2> QED
      BY <2>1, <2>2, <2>3, <2>4, <2>5, <2>6, <2>7
  <1>11. \A q \in Requests : Waiting(q) <=> q \in pending \/ Mailed(q) \/ q \in results.asks
    BY DEF MatchInv
  <1>12. \A q \in Requests : Mailed(q) => q \notin pending /\ q \notin results.asks
    BY DEF MatchInv
  <1>13. \A i, j \in DOMAIN inbox : i # j /\ inbox[i] # None => inbox[i] # inbox[j]
    BY DEF MatchInv
  <1>14. /\ \A q \in Requests : Mailed(q)' <=> Mailed(q) /\ q \notin gone
         /\ \A q \in gone : Mailed(q)
         /\ \A i, j \in DOMAIN inbox' : i # j /\ inbox'[i] # None => inbox'[i] # inbox'[j]
    <2>1. inbox \in Mail
      BY DEF Typed
    <2>2. Head(inbox) # None => Mailed(Head(inbox))
      BY <2>1, Delivered
    <2>3. \A q \in gone : Mailed(q)
      BY <2>2, Bounds DEF Requests
    <2>4. \A q \in Requests : q = Head(inbox) => ~ Mailed(q)'
      BY <1>13, <2>1, Delivered
    <2>5. \A q \in Requests : Mailed(q)' => Mailed(q)
      BY <2>1, Delivered
    <2>6. \A q \in Requests : Mailed(q) => Mailed(q)' \/ q = Head(inbox)
      BY <2>1, Delivered
    <2>7. \A i, j \in DOMAIN inbox' : i # j /\ inbox'[i] # None => inbox'[i] # inbox'[j]
      BY <1>13, <2>1, Delivered
    <2> QED
      BY <2>3, <2>4, <2>5, <2>6, <2>7
  <1>15. \A q \in Requests :
            Waiting(q)' <=> q \in pending \/ Mailed(q)' \/ q \in results'.asks
    BY <1>3, <1>7, <1>9, <1>10, <1>11, <1>12, <1>14
  <1>16. \A q \in Requests : Mailed(q)' => q \notin pending /\ q \notin results'.asks
    BY <1>3, <1>7, <1>9, <1>11, <1>12, <1>14
  <1> QED
    BY <1>7, <1>14, <1>15, <1>16

\* The types, when a run goes on.
LEMMA TypesKept ==
    ASSUME Typed, NEW r \in Runs, NEW base \in Executions,
           NEW gone \in SUBSET Requests, NEW k \in 0..2, NEW more \in 0..1,
           base.forwarded <= base.produced, GoesOn(r, base, gone, k, more),
           owner' \in Runs \cup {None}, intact' \in BOOLEAN,
           inbox # <<>>, inbox' = Tail(inbox),
           UNCHANGED <<stepping, pending, received, saved>>
    PROVE  Typed'
  <1> DEFINE child == Ran(base, k, more)
             map == [q \in Requests |-> IF q \in gone THEN None ELSE requestMap[q]]
  <1>1. map \in [Requests -> Runs \cup {None}]
    BY DEF Typed
  <1>2. Process(r, child, map) /\ drawn.requests + k <= MaxRequests
    BY DEF GoesOn
  <1>3. child \in Executions /\ child.forwarded <= child.produced
    BY <1>2, RanTyped
  <1> HIDE DEF child, map
  <1>4. /\ runs' \in [Runs -> Children \cup {None}]
        /\ requestMap' \in [Requests -> Runs \cup {None}] /\ results' \in Results
    BY <1>1, <1>2, <1>3, ProcessEffect
  <1>5. inbox' \in Mail
    BY Delivered DEF Typed
  <1> QED
    BY <1>4, <1>5 DEF Typed, GoesOn

-----------------------------------------------------------------------------
(* A child run is started, or given a response.                            *)

Core == Typed /\ DrawnInv /\ OutputsInv /\ MatchInv

LEMMA MapOfNone ==
    ASSUME Typed
    PROVE  [q \in Requests |-> IF q \in {} THEN None ELSE requestMap[q]] = requestMap
  BY DEF Typed

LEMMA ErrorReturned ==
    ASSUME results \in Results, ReturnError
    PROVE  results' \in Results /\ results'.sends = results.sends
  BY DEF Results, ReturnError

\* Nothing was delivered yet of a run that is started.
LEMMA StartedFresh ==
    ASSUME Core, drawn.runs < MaxRuns
    PROVE  /\ drawn.runs + 1 \in Runs /\ runs[drawn.runs + 1] = None
           /\ UpTo(received \o results.sends, drawn.runs + 1, 0)
  <1>1. drawn.runs \in Nat /\ MaxRuns \in Nat
    BY Bounds DEF Core, Typed
  <1>2. drawn.runs + 1 \in Runs
    BY <1>1 DEF Runs
  <1>3. received \o results.sends \in Deliveries
    BY DEF Core, Typed, Results, Deliveries
  <1>4. \A i \in DOMAIN (received \o results.sends) : (received \o results.sends)[i][1] \in Nat
    BY <1>3, Entries
  <1>5. UpTo(received \o results.sends, drawn.runs + 1, 0)
    BY <1>1, <1>4 DEF Core, OutputsInv, InOrder, UpTo
  <1> QED
    BY <1>1, <1>2, <1>5 DEF Core, DrawnInv

LEMMA RunChildKeeps ==
    ASSUME Core, RunChild, stepping, inbox # <<>>, inbox' = Tail(inbox),
           intact => Head(inbox) = None,
           UNCHANGED <<stepping, pending, received, saved>>
    PROVE  Core' /\ (intact' => intact)
  <1> DEFINE r == drawn.runs + 1
             base == [open |-> {}, produced |-> 0, forwarded |-> 0]
  <1>1. r \in Runs /\ runs[r] = None /\ UpTo(received \o results.sends, r, 0)
    BY StartedFresh DEF RunChild
  <1>2. base \in Executions /\ base.forwarded <= base.produced
    BY DEF Executions
  <1>3. drawn.runs \in Nat /\ r <= MaxRuns /\ owner' \in Runs
        /\ drawn \in [runs : 0..MaxRuns, requests : 0..MaxRequests, inputs : 0..MaxInputs]
    BY <1>1 DEF Core, Typed, RunChild, Runs
  <1>4. CASE \E k \in 0..2, more \in 0..1 :
               /\ drawn.requests + k <= MaxRequests
               /\ drawn' = [drawn EXCEPT !.runs = r, !.requests = @ + k]
               /\ Process(r, Ran(base, k, more), requestMap)
               /\ UNCHANGED intact
    <2>1. PICK k \in 0..2, more \in 0..1 :
               /\ drawn.requests + k <= MaxRequests
               /\ drawn' = [drawn EXCEPT !.runs = r, !.requests = @ + k]
               /\ Process(r, Ran(base, k, more), requestMap)
               /\ UNCHANGED intact
      BY <1>4
    <2>2. /\ drawn' \in [runs : 0..MaxRuns, requests : 0..MaxRequests, inputs : 0..MaxInputs]
          /\ drawn'.requests = drawn.requests + k /\ drawn.runs <= drawn'.runs
          /\ r <= drawn'.runs
      <3>1. drawn.requests + k \in 0..MaxRequests /\ r \in 0..MaxRuns
        BY <1>3, <2>1, Bounds
      <3>2. drawn' = [drawn EXCEPT !.runs = r, !.requests = drawn.requests + k]
        BY <2>1
      <3> HIDE DEF r
      <3>3. /\ drawn' \in [runs : 0..MaxRuns, requests : 0..MaxRequests, inputs : 0..MaxInputs]
            /\ drawn'.requests = drawn.requests + k /\ drawn'.runs = r
        BY <1>3, <3>1, <3>2
      <3> QED
        BY <1>3, <3>3 DEF r
    <2>3. GoesOn(r, base, {}, k, more)
      BY <2>1, <2>2, MapOfNone DEF GoesOn, Core
    <2>4. intact' \in BOOLEAN
      BY <2>1 DEF Core, Typed
    <2>5. /\ \A q \in base.open : q \notin {} /\ requestMap[q] = r
          /\ \A q \in {} : requestMap[q] \in {None, r}
          /\ base.forwarded = 0
      OBVIOUS
    <2>6. intact => /\ \A q \in Requests : q \in {} <=> q = Head(inbox)
                    /\ \A q \in Requests : runs[r] # None /\ q \in runs[r].open
                                               <=> q \in base.open \/ q \in {}
      BY <1>1, Bounds DEF Requests
    <2>7. UNCHANGED intact
      BY <2>1
    <2> HIDE DEF r, base
    <2>8. Typed'
      BY <1>2, <1>1, <1>3, <2>3, <2>4, TypesKept DEF Core
    <2>9. DrawnInv'
      BY <1>1, <1>2, <2>3, <2>5, DrawnKept DEF Core
    <2>10. OutputsInv'
      BY <1>1, <1>2, <2>3, <2>5, OutputsKept DEF Core
    <2>11. MatchInv'
      BY <1>1, <1>2, <2>3, <2>5, <2>6, <2>7, MatchKept DEF Core
    <2> QED
      BY <2>7, <2>8, <2>9, <2>10, <2>11 DEF Core
  <1>5. CASE /\ ChildMayFail /\ intact' = FALSE /\ drawn' = [drawn EXCEPT !.runs = r]
             /\ ReturnError /\ UNCHANGED wrapper
    <2>1. results' \in Results /\ results'.sends = results.sends
      BY <1>5, ErrorReturned DEF Core, Typed
    <2>2. inbox' \in Mail
      BY Delivered DEF Core, Typed
    <2>3. /\ drawn' \in [runs : 0..MaxRuns, requests : 0..MaxRequests, inputs : 0..MaxInputs]
          /\ drawn'.requests = drawn.requests /\ drawn'.runs = drawn.runs + 1
      BY <1>3, <1>5
    <2>4. Typed'
      BY <1>3, <1>5, <2>1, <2>2, <2>3 DEF Core, Typed, wrapper
    <2>5. DrawnInv'
      BY <1>3, <1>5, <2>3 DEF Core, DrawnInv, wrapper, Runs
    <2>6. OutputsInv'
      <3>1. received' \o results'.sends = received \o results.sends /\ runs' = runs
        BY <1>5, <2>1 DEF wrapper
      <3>2. received \o results.sends \in Deliveries
        BY DEF Core, Typed, Results, Deliveries
      <3>3. InOrder(received \o results.sends, drawn'.runs)
        BY <1>3, <2>3, <3>2, OrdersRelax DEF Core, OutputsInv
      <3>4. saved # None => InOrder(saved.received, drawn'.runs)
        BY <1>3, <2>3, OrdersRelax DEF Core, OutputsInv, Typed, Checkpoints
      <3> QED
        BY <3>1, <3>3, <3>4 DEF Core, OutputsInv
    <2>7. MatchInv'
      BY <1>5 DEF MatchInv
    <2> QED
      BY <1>5, <2>4, <2>5, <2>6, <2>7 DEF Core
  <1> QED
    BY <1>4, <1>5 DEF RunChild

\* A request in the mail while nothing failed is one that a parked run waits for.
LEMMA MailedIsWaitedFor ==
    ASSUME Core, intact, NEW q \in Requests, Mailed(q)
    PROVE  /\ requestMap[q] \in Runs /\ runs[requestMap[q]] # None
           /\ q \in runs[requestMap[q]].open
  <1>1. PICK p \in Runs : runs[p] # None /\ q \in runs[p].open
    BY DEF Core, MatchInv, Waiting
  <1>2. requestMap[q] = p
    BY <1>1 DEF Core, DrawnInv
  <1> QED
    BY <1>1, <1>2

LEMMA HeadMailed ==
    ASSUME Core, inbox # <<>>, Head(inbox) # None
    PROVE  Head(inbox) \in Requests /\ Mailed(Head(inbox))
  <1>1. inbox \in Mail
    BY DEF Core, Typed
  <1>2. Head(inbox) = inbox[1] /\ 1 \in DOMAIN inbox /\ inbox[1] \in Requests \cup {None}
    BY <1>1 DEF Mail
  <1> QED
    BY <1>2 DEF Mailed

LEMMA InputKeeps ==
    ASSUME Inv, ExecuteInput \/ ExecuteUnknownResponse
    PROVE  Inv'
  <1>1. Core /\ inbox # <<>> /\ inbox' = Tail(inbox) /\ stepping /\ RunChild
        /\ UNCHANGED <<stepping, pending, received, saved>>
    BY DEF Inv, Core, ExecuteInput, ExecuteUnknownResponse
  <1>2. CASE ExecuteInput
    <2>1. Head(inbox) = None /\ routed' = routed
      BY <1>2 DEF ExecuteInput
    <2>2. Core' /\ (intact' => intact)
      BY <1>1, <2>1, RunChildKeeps
    <2> QED
      BY <2>1, <2>2 DEF Inv, Core, RoutedInv
  <1>3. CASE ExecuteUnknownResponse
    <2>1. Head(inbox) # None /\ requestMap[Head(inbox)] = None
      BY <1>3 DEF ExecuteUnknownResponse
    <2>2. ~ intact
      BY <1>1, <2>1, HeadMailed, MailedIsWaitedFor, Bounds DEF Runs
    <2>3. Core' /\ (intact' => intact)
      BY <1>1, <2>2, RunChildKeeps
    <2> QED
      BY <2>2, <2>3 DEF Inv, Core, RoutedInv
  <1> QED
    BY <1>2, <1>3

LEMMA LateResponseKeeps ==
    ASSUME Inv, ExecuteLateResponse
    PROVE  Inv'
  <1> DEFINE q == Head(inbox)
  <1>1. /\ Core /\ inbox # <<>> /\ inbox' = Tail(inbox) /\ q # None
        /\ requestMap[q] # None /\ runs[requestMap[q]] = None
        /\ requestMap' = [requestMap EXCEPT ![q] = None]
        /\ Return({}, <<>>) /\ routed' = "dropped" /\ stepping
        /\ UNCHANGED <<runs, owner, stepping, pending, received, saved, drawn, intact>>
    BY DEF Inv, Core, ExecuteLateResponse
  <1>2. q \in Requests /\ Mailed(q)
    BY <1>1, HeadMailed
  <1>3. ~ intact
    BY <1>1, <1>2, MailedIsWaitedFor
  <1>4. results' \in Results /\ results'.sends = results.sends
    <2>1. results \in Results /\ results.sends \in Deliveries /\ {} \in SUBSET Requests
      BY <1>1 DEF Core, Typed, Results
    <2>2. results.sends \o <<>> = results.sends /\ <<>> \in Deliveries
      BY <2>1, NothingDelivered
    <2> QED
      BY <1>1, <2>1, <2>2, ReturnEffect
  <1>5. inbox' \in Mail
    BY <1>1, Delivered DEF Core, Typed
  <1> HIDE DEF q
  <1>6. Typed'
    BY <1>1, <1>2, <1>4, <1>5 DEF Core, Typed
  <1>7. DrawnInv'
    <2>1. requestMap \in [Requests -> Runs \cup {None}] /\ runs \in [Runs -> Children \cup {None}]
      BY <1>1 DEF Core, Typed
    <2>2. \A p \in Requests : requestMap'[p] = IF p = q THEN None ELSE requestMap[p]
      BY <1>1, <2>1
    <2>3. \A r \in Runs : runs[r] # None => \A p \in runs[r].open : p \in Requests /\ p # q
      BY <1>1, <2>1 DEF Core, DrawnInv, Children
    <2> QED
      BY <1>1, <2>2, <2>3 DEF Core, DrawnInv
  <1>8. OutputsInv'
    BY <1>1, <1>4 DEF Core, OutputsInv
  <1>9. MatchInv' /\ RoutedInv'
    BY <1>1, <1>3 DEF Core, MatchInv, RoutedInv
  <1> QED
    BY <1>6, <1>7, <1>8, <1>9 DEF Inv

LEMMA ResponseKeeps ==
    ASSUME Inv, ExecuteResponse
    PROVE  Inv'
  <1> DEFINE q == Head(inbox)
             r == requestMap[q]
             map == [requestMap EXCEPT ![q] = None]
             base == [runs[r] EXCEPT !.open = @ \ {q}]
  <1>1. /\ Core /\ stepping /\ inbox # <<>> /\ inbox' = Tail(inbox) /\ q # None
        /\ r # None /\ runs[r] # None
        /\ routed' = IF r = owner THEN "its run" ELSE "its run, other state"
        /\ UNCHANGED <<owner, stepping, pending, received, saved>>
    BY DEF Inv, Core, ExecuteResponse
  <1>2. q \in Requests /\ Mailed(q)
    BY <1>1, HeadMailed
  <1>3. r \in Runs /\ runs[r] \in Children
    BY <1>1, <1>2 DEF Core, Typed
  <1>4. map = [p \in Requests |-> IF p \in {q} THEN None ELSE requestMap[p]]
    BY <1>1, <1>2 DEF Core, Typed
  <1>5. RoutedInv'
    BY <1>1 DEF RoutedInv
  <1>6. CASE \E k \in 0..1, more \in 0..1 :
               /\ drawn.requests + k <= MaxRequests
               /\ drawn' = [drawn EXCEPT !.requests = @ + k]
               /\ Process(r, Ran(base, k, more), map)
               /\ UNCHANGED intact
    <2>1. PICK k \in 0..1, more \in 0..1 :
               /\ drawn.requests + k <= MaxRequests
               /\ drawn' = [drawn EXCEPT !.requests = @ + k]
               /\ Process(r, Ran(base, k, more), map)
               /\ UNCHANGED intact
      BY <1>6
    <2>2. /\ base \in Executions /\ base.open = runs[r].open \ {q}
          /\ base.forwarded = runs[r].forwarded /\ base.produced = runs[r].produced
      BY <1>3 DEF Children, Executions
    <2>3. /\ base.forwarded <= base.produced
          /\ UpTo(received \o results.sends, r, base.forwarded)
      BY <1>1, <1>3, <2>2 DEF Core, OutputsInv
    <2>4. /\ drawn' \in [runs : 0..MaxRuns, requests : 0..MaxRequests, inputs : 0..MaxInputs]
          /\ drawn'.requests = drawn.requests + k /\ drawn'.runs = drawn.runs
          /\ drawn.runs \in Nat
      <3>1. drawn \in [runs : 0..MaxRuns, requests : 0..MaxRequests, inputs : 0..MaxInputs]
        BY <1>1 DEF Core, Typed
      <3>2. drawn.requests + k \in 0..MaxRequests
        BY <2>1, <3>1, Bounds
      <3> QED
        BY <2>1, <3>1, <3>2
    <2>5. r <= drawn.runs
      BY <1>1, <1>3 DEF Core, DrawnInv
    <2>6. k \in 0..2
      OBVIOUS
    <2>7. GoesOn(r, base, {q}, k, more)
      BY <1>4, <2>1, <2>4, <2>5 DEF GoesOn
    <2>8. \A p \in base.open : p \notin {q} /\ requestMap[p] = r
      BY <1>1, <1>3, <2>2 DEF Core, DrawnInv
    <2>9. \A p \in {q} : requestMap[p] \in {None, r}
      OBVIOUS
    <2>10. intact => q \in runs[r].open
      BY <1>1, <1>2, MailedIsWaitedFor
    <2>11. intact => /\ \A p \in Requests : p \in {q} <=> p = Head(inbox)
                     /\ \A p \in Requests : runs[r] # None /\ p \in runs[r].open
                                               <=> p \in base.open \/ p \in {q}
      BY <1>1, <2>2, <2>10
    <2>12. owner' \in Runs \cup {None} /\ intact' \in BOOLEAN /\ intact' = intact
      BY <1>1, <2>1 DEF Core, Typed
    <2>13. {q} \in SUBSET Requests
      BY <1>2
    <2> HIDE DEF q, r, base, map
    <2>14. Typed'
      BY <1>1, <1>3, <2>2, <2>3, <2>6, <2>7, <2>12, <2>13, TypesKept DEF Core
    <2>15. DrawnInv'
      BY <1>1, <1>3, <2>2, <2>3, <2>6, <2>7, <2>8, <2>9, <2>13, DrawnKept DEF Core
    <2>16. OutputsInv'
      BY <1>1, <1>3, <2>2, <2>3, <2>6, <2>7, <2>13, OutputsKept DEF Core
    <2>17. MatchInv'
      BY <1>1, <1>3, <2>2, <2>3, <2>6, <2>7, <2>8, <2>11, <2>12, <2>13, MatchKept DEF Core
    <2> QED
      BY <1>5, <2>14, <2>15, <2>16, <2>17 DEF Inv
  <1>7. CASE /\ ChildMayFail /\ intact' = FALSE /\ runs' = [runs EXCEPT ![r] = None]
             /\ requestMap' = map /\ ReturnError /\ UNCHANGED drawn
    <2>1. results' \in Results /\ results'.sends = results.sends
      BY <1>1, <1>7, ErrorReturned DEF Core, Typed
    <2>2. inbox' \in Mail
      BY <1>1, Delivered DEF Core, Typed
    <2>3. /\ requestMap \in [Requests -> Runs \cup {None}]
          /\ runs \in [Runs -> Children \cup {None}]
      BY <1>1 DEF Core, Typed
    <2>4. /\ \A p \in Requests : requestMap'[p] = IF p = q THEN None ELSE requestMap[p]
          /\ \A p \in Runs : runs'[p] = IF p = r THEN None ELSE runs[p]
          /\ requestMap' \in [Requests -> Runs \cup {None}]
          /\ runs' \in [Runs -> Children \cup {None}]
      BY <1>7, <2>3
    <2>5. \A p \in Runs : runs[p] # None =>
             /\ \A x \in runs[p].open : x \in Requests /\ requestMap[x] = p
             /\ p <= drawn.runs
      BY <1>1, <2>3 DEF Core, DrawnInv, Children
    <2>6. r = requestMap[q]
      OBVIOUS
    <2> HIDE DEF q, r, map
    <2>7. Typed'
      BY <1>1, <1>7, <2>1, <2>2, <2>4 DEF Core, Typed
    <2>8. DrawnInv'
      <3>1. \A p \in Requests : requestMap'[p] # None => p <= drawn'.requests
        BY <1>1, <1>7, <2>4 DEF Core, DrawnInv
      <3>2. \A p \in Runs : runs'[p] # None =>
               p <= drawn'.runs /\ \A x \in runs'[p].open : requestMap'[x] = p
        BY <1>7, <2>4, <2>5, <2>6
      <3> QED
        BY <3>1, <3>2 DEF DrawnInv
    <2>9. OutputsInv'
      <3>1. received' \o results'.sends = received \o results.sends
        BY <1>1, <2>1
      <3>2. \A p \in Runs : runs'[p] # None => runs'[p] = runs[p] /\ runs[p] # None
        BY <2>4
      <3> QED
        BY <1>1, <1>7, <3>1, <3>2 DEF Core, OutputsInv
    <2>10. MatchInv'
      BY <1>1, <1>7 DEF MatchInv
    <2> QED
      BY <1>5, <2>7, <2>8, <2>9, <2>10 DEF Inv
  <1> QED
    BY <1>6, <1>7 DEF ExecuteResponse

-----------------------------------------------------------------------------
(* The parent run.                                                         *)

\* A message is added to the mail.
LEMMA Sent ==
    ASSUME inbox \in Mail, NEW m \in Requests \cup {None}, inbox' = Append(inbox, m)
    PROVE  /\ inbox' \in Mail
           /\ \A q \in Requests : Mailed(q)' <=> Mailed(q) \/ q = m
           /\ (\A i, j \in DOMAIN inbox : i # j /\ inbox[i] # None => inbox[i] # inbox[j])
                 /\ (m \in Requests => ~ Mailed(m))
                 => \A i, j \in DOMAIN inbox' :
                       i # j /\ inbox'[i] # None => inbox'[i] # inbox'[j]
  <1> DEFINE n == Len(inbox) + 1
  <1>1. Len(inbox) \in Nat /\ DOMAIN inbox = 1..Len(inbox)
    BY DEF Mail
  <1>2. /\ inbox' \in Mail /\ DOMAIN inbox' = 1..n /\ inbox'[n] = m
        /\ \A i \in DOMAIN inbox : inbox'[i] = inbox[i]
    BY <1>1 DEF Mail
  <1>3. \A i \in DOMAIN inbox' : i = n \/ i \in DOMAIN inbox
    BY <1>1, <1>2
  <1>4. n \notin DOMAIN inbox /\ n \in DOMAIN inbox' /\ DOMAIN inbox \subseteq DOMAIN inbox'
    BY <1>1, <1>2
  <1> HIDE DEF n
  <1>5. \A q \in Requests : Mailed(q)' <=> Mailed(q) \/ q = m
    BY <1>2, <1>3, <1>4 DEF Mailed
  <1>6. ASSUME \A i, j \in DOMAIN inbox : i # j /\ inbox[i] # None => inbox[i] # inbox[j],
               m \in Requests => ~ Mailed(m),
               NEW i \in DOMAIN inbox', NEW j \in DOMAIN inbox', i # j, inbox'[i] # None
        PROVE  inbox'[i] # inbox'[j]
    BY <1>2, <1>3, <1>6, Bounds DEF Mailed, Requests
  <1> QED
    BY <1>2, <1>5, <1>6

LEMMA SendKeeps ==
    ASSUME Inv, Input \/ \E q \in Requests : Respond(q)
    PROVE  Inv'
  <1>1. inbox \in Mail /\ results = NoResults /\ ~ stepping
    BY DEF Inv, Typed, MatchInv, Input, Respond
  <1>2. \/ DrawnInv' /\ OutputsInv' /\ RoutedInv'
        \/ ~ (drawn'.requests = drawn.requests /\ drawn'.runs = drawn.runs)
    BY DEF Inv, DrawnInv, OutputsInv, RoutedInv, Input, Respond, wrapper, history
  <1>3. CASE Input
    <2>1. None \in Requests \cup {None} /\ None \notin Requests
      BY Bounds DEF Requests
    <2>2. /\ inbox' \in Mail /\ \A q \in Requests : Mailed(q)' <=> Mailed(q)
          /\ intact => \A i, j \in DOMAIN inbox' :
                          i # j /\ inbox'[i] # None => inbox'[i] # inbox'[j]
      BY <1>1, <1>3, <2>1, Sent DEF Inv, MatchInv, Input
    <2>3. /\ drawn' \in [runs : 0..MaxRuns, requests : 0..MaxRequests, inputs : 0..MaxInputs]
          /\ drawn'.requests = drawn.requests /\ drawn'.runs = drawn.runs
      <3>1. drawn.inputs + 1 \in 0..MaxInputs
        BY <1>3, Bounds DEF Inv, Typed, Input
      <3> QED
        BY <1>3, <3>1 DEF Inv, Typed, Input
    <2>4. Typed'
      BY <1>3, <2>2, <2>3 DEF Inv, Typed, Input, wrapper, history
    <2>5. MatchInv'
      <3>1. \A q \in Requests : Waiting(q)' <=> Waiting(q)
        BY <1>3 DEF Input, wrapper, Waiting
      <3> QED
        BY <1>1, <1>3, <2>2, <3>1 DEF Inv, MatchInv, Input, history
    <2> QED
      BY <1>2, <2>3, <2>4, <2>5 DEF Inv
  <1>4. ASSUME NEW m \in Requests, Respond(m)
        PROVE  Inv'
    <2>1. /\ inbox' \in Mail /\ \A q \in Requests : Mailed(q)' <=> Mailed(q) \/ q = m
      BY <1>1, <1>4, Sent DEF Respond
    <2>2. intact => \A i, j \in DOMAIN inbox' :
                       i # j /\ inbox'[i] # None => inbox'[i] # inbox'[j]
      BY <1>1, <1>4, Sent DEF Respond, Inv, MatchInv
    <2>3. Typed'
      BY <1>4, <2>1 DEF Inv, Typed, Respond, wrapper, history
    <2>4. MatchInv'
      <3>1. \A q \in Requests : Waiting(q)' <=> Waiting(q)
        BY <1>4 DEF Respond, wrapper, Waiting
      <3>2. pending' = pending \ {m} /\ m \in pending /\ results.asks = {}
            /\ results' = results /\ intact' = intact /\ stepping' = stepping
        BY <1>1, <1>4 DEF Respond, history, NoResults
      <3>3. results.ok
        BY <1>1 DEF NoResults
      <3>4. intact => \A q \in Requests :
               Waiting(q)' <=> q \in pending' \/ Mailed(q)' \/ q \in results'.asks
        BY <2>1, <3>1, <3>2 DEF Inv, MatchInv
      <3>5. intact => \A q \in Requests :
               Mailed(q)' => q \notin pending' /\ q \notin results'.asks
        BY <2>1, <3>2 DEF Inv, MatchInv
      <3> QED
        BY <1>1, <2>2, <3>2, <3>3, <3>4, <3>5 DEF MatchInv
    <2> QED
      BY <1>2, <1>4, <2>3, <2>4 DEF Inv, Respond
  <1> QED
    BY <1>3, <1>4

LEMMA BeginKeeps ==
    ASSUME Inv, BeginSuperstep
    PROVE  Inv'
  <1>1. results = NoResults
    BY DEF Inv, MatchInv, BeginSuperstep
  <1>2. Typed' /\ DrawnInv' /\ OutputsInv' /\ RoutedInv'
    BY DEF Inv, Typed, DrawnInv, OutputsInv, RoutedInv, BeginSuperstep, wrapper, history
  <1>3. \A q \in Requests : (Waiting(q)' <=> Waiting(q)) /\ (Mailed(q)' <=> Mailed(q))
    BY DEF BeginSuperstep, Waiting, Mailed, wrapper
  <1>4. MatchInv'
    BY <1>1, <1>3 DEF Inv, MatchInv, BeginSuperstep, wrapper, history
  <1> QED
    BY <1>2, <1>4 DEF Inv

LEMMA EndKeeps ==
    ASSUME Inv, EndSuperstep
    PROVE  Inv'
  <1>1. results \in Results /\ received \in Deliveries /\ drawn.runs \in Nat
        /\ results.sends \in Deliveries /\ received \o results.sends \in Deliveries
    BY DEF Inv, Typed, Results, Deliveries
  <1>2. NoResults \in Results /\ results'.ok /\ results'.asks = {} /\ results'.sends = <<>>
    BY NothingDelivered DEF NoResults, Results, EndSuperstep
  <1>3. received' \in Deliveries /\ received' \in {received \o results.sends, received}
    BY <1>1 DEF EndSuperstep
  <1>4. received' \o results'.sends = received'
    BY <1>2, <1>3, NothingDelivered
  <1>5. InOrder(received \o results.sends, drawn.runs)
    BY DEF Inv, OutputsInv
  <1>6. InOrder(received', drawn.runs)
    BY <1>1, <1>3, <1>5, OrderOfPrefix
  <1>7. pending' \in SUBSET Requests
    BY <1>1 DEF EndSuperstep, Inv, Typed, Results
  <1>8. saved' = saved \/ saved' = [pending |-> pending', received |-> received']
    BY DEF EndSuperstep
  <1>9. saved' \in Checkpoints \cup {None}
        /\ (saved' # None => InOrder(saved'.received, drawn.runs))
    <2>1. CASE saved' = saved
      BY <2>1 DEF Inv, Typed, OutputsInv
    <2>2. CASE saved' = [pending |-> pending', received |-> received']
      BY <1>3, <1>6, <1>7, <2>2 DEF Checkpoints
    <2> QED
      BY <1>8, <2>1, <2>2
  <1>10. Typed'
    BY <1>2, <1>3, <1>7, <1>9 DEF Inv, Typed, EndSuperstep, wrapper, history
  <1>11. DrawnInv' /\ RoutedInv'
    BY DEF Inv, DrawnInv, RoutedInv, EndSuperstep, wrapper, history
  <1>12. OutputsInv'
    <2>1. ASSUME NEW r \in Runs, runs'[r] # None
          PROVE  UpTo(received', r, runs'[r].forwarded) /\ runs'[r].forwarded <= runs'[r].produced
      <3>1. runs' = runs /\ runs[r] \in Children
        BY <2>1 DEF EndSuperstep, wrapper, Inv, Typed
      <3>2. /\ UpTo(received \o results.sends, r, runs[r].forwarded)
            /\ runs[r].forwarded <= runs[r].produced /\ runs[r].forwarded \in Nat
        BY <2>1, <3>1 DEF Inv, OutputsInv, Children
      <3>3. UpTo(received', r, runs[r].forwarded)
        BY <1>1, <1>3, <1>5, <3>2, OrderOfPrefix
      <3> QED
        BY <3>1, <3>2, <3>3
    <2>2. drawn' = drawn
      BY DEF EndSuperstep
    <2> QED
      BY <1>4, <1>6, <1>9, <2>1, <2>2 DEF OutputsInv
  <1>13. MatchInv'
    <2>1. \A q \in Requests : (Waiting(q)' <=> Waiting(q)) /\ ~ Mailed(q) /\ ~ Mailed(q)'
      BY DEF EndSuperstep, Waiting, Mailed, wrapper
    <2>2. results' = NoResults /\ pending' = pending \cup results.asks
          /\ inbox' = inbox /\ intact' = intact
      BY DEF EndSuperstep, history
    <2> QED
      BY <1>2, <2>1, <2>2 DEF Inv, MatchInv
  <1> QED
    BY <1>10, <1>11, <1>12, <1>13 DEF Inv

LEMMA CrashKeeps ==
    ASSUME Inv, CrashAndRestore
    PROVE  Inv'
  <1>1. saved \in Checkpoints
    BY DEF Inv, Typed, CrashAndRestore
  <1>2. NoResults \in Results /\ NoResults.sends = <<>> /\ <<>> \in Mail
    BY NothingDelivered, EmptySeq DEF NoResults, Results, Mail
  <1>3. received' \in Deliveries /\ received' \o results'.sends = saved.received
    BY <1>1, <1>2, NothingDelivered DEF CrashAndRestore, Checkpoints
  <1>4. Typed'
    BY <1>1, <1>2, <1>3 DEF Inv, Typed, CrashAndRestore, Checkpoints
  <1>5. \A r \in Runs : runs'[r] = None
    BY DEF CrashAndRestore
  <1>6. DrawnInv'
    BY <1>5 DEF DrawnInv, CrashAndRestore
  <1>7. OutputsInv'
    BY <1>3, <1>5 DEF Inv, OutputsInv, CrashAndRestore
  <1>8. MatchInv' /\ RoutedInv'
    BY DEF MatchInv, RoutedInv, CrashAndRestore
  <1> QED
    BY <1>4, <1>6, <1>7, <1>8 DEF Inv

-----------------------------------------------------------------------------
(* The invariant.                                                          *)

LEMMA InitInv == Init => Inv
  <1> SUFFICES ASSUME Init PROVE Inv
    OBVIOUS
  <1>1. NoResults \in Results /\ NoResults.sends = <<>> /\ <<>> \in Mail /\ <<>> \in Deliveries
    BY NothingDelivered, EmptySeq DEF NoResults, Results, Mail
  <1>2. Typed
    <2>1. drawn \in [runs : 0..MaxRuns, requests : 0..MaxRequests, inputs : 0..MaxInputs]
      BY Bounds DEF Init
    <2> QED
      BY <1>1, <2>1 DEF Init, Typed
  <1>3. DrawnInv
    BY DEF Init, DrawnInv
  <1>4. OutputsInv
    <2>1. received \o results.sends = <<>>
      BY <1>1, NothingDelivered DEF Init
    <2> QED
      BY <2>1 DEF Init, OutputsInv, InOrder
  <1>5. MatchInv /\ RoutedInv
    BY DEF Init, MatchInv, RoutedInv, Waiting, Mailed, NoResults
  <1> QED
    BY <1>2, <1>3, <1>4, <1>5 DEF Inv

LEMMA StepInv == Inv /\ [Next]_vars => Inv'
  <1> SUFFICES ASSUME Inv, [Next]_vars PROVE Inv'
    OBVIOUS
  <1>1. CASE ExecuteInput \/ ExecuteUnknownResponse
    BY <1>1, InputKeeps
  <1>2. CASE ExecuteLateResponse
    BY <1>2, LateResponseKeeps
  <1>3. CASE ExecuteResponse
    BY <1>3, ResponseKeeps
  <1>4. CASE Input \/ \E q \in Requests : Respond(q)
    BY <1>4, SendKeeps
  <1>5. CASE BeginSuperstep
    BY <1>5, BeginKeeps
  <1>6. CASE EndSuperstep
    BY <1>6, EndKeeps
  <1>7. CASE CrashAndRestore
    BY <1>7, CrashKeeps
  <1>8. CASE UNCHANGED vars
    <2>1. \A q \in Requests : (Waiting(q)' <=> Waiting(q)) /\ (Mailed(q)' <=> Mailed(q))
      BY <1>8 DEF vars, wrapper, parent, Waiting, Mailed
    <2>2. Typed' /\ DrawnInv' /\ OutputsInv' /\ RoutedInv'
      BY <1>8 DEF vars, wrapper, parent, history, Inv, Typed, DrawnInv, OutputsInv, RoutedInv
    <2>3. MatchInv'
      BY <1>8, <2>1 DEF vars, wrapper, parent, history, Inv, MatchInv
    <2> QED
      BY <2>2, <2>3 DEF Inv
  <1> QED
    BY <1>1, <1>2, <1>3, <1>4, <1>5, <1>6, <1>7, <1>8 DEF Next

\* Through every superstep, failure and restore, the wrapper's maps, the outputs that were
\* forwarded and what the parent has pending stay in step (WorkflowExecutor).
THEOREM Invariance == Spec => []Inv
  BY InitInv, StepInv, PTL DEF Spec

-----------------------------------------------------------------------------
(* The maps of WrapperState hold what they are for, and no id is used      *)
(* beyond those drawn.                                                     *)
THEOREM TypeCorrect == Spec => []TypeOK
  <1>1. Inv => TypeOK
    BY DEF Inv, Typed, TypeOK
  <1> QED
    BY <1>1, Invariance, PTL

(* Whatever fails, and however often the children pause, the parent is     *)
(* given each output once and in order (forwarded_outputs of process()).   *)
THEOREM OutputsOnceInOrder == Spec => []OutputsForwardedOnce
  <1>1. Inv => OutputsForwardedOnce
    <2> SUFFICES ASSUME Inv PROVE OutputsForwardedOnce
      OBVIOUS
    <2>1. received \in Deliveries /\ results.sends \in Deliveries /\ drawn.runs \in Nat
      BY DEF Inv, Typed, Results
    <2>2. InOrder(received, drawn.runs)
      BY <2>1, OrderOfPrefix DEF Inv, OutputsInv
    <2> QED
      BY <2>2 DEF InOrder, OutputsForwardedOnce
  <1> QED
    BY <1>1, Invariance, PTL

(* Between supersteps the caller of the parent is asked what the parked    *)
(* children wait for, and request_map leads its answers to them.           *)
THEOREM AnswersReach == Spec => []AnswersReachChildren
  <1>1. Inv => AnswersReachChildren
    <2> SUFFICES ASSUME Inv PROVE AnswersReachChildren
      OBVIOUS
    <2>1. ParkedRunsReachable
      BY DEF Inv, DrawnInv, ParkedRunsReachable
    <2>2. ASSUME intact, ~ stepping
          PROVE  pending \cup {q \in ToSet(inbox) : q # None}
                   = UNION {runs[r].open : r \in {s \in Runs : runs[s] # None}}
      <3> DEFINE asked == pending \cup {q \in ToSet(inbox) : q # None}
                 waiting == UNION {runs[r].open : r \in {s \in Runs : runs[s] # None}}
      <3>1. inbox \in Mail /\ pending \subseteq Requests /\ results.asks = {}
        BY <2>2 DEF Inv, Typed, MatchInv, NoResults
      <3>2. \A q : q \in ToSet(inbox) <=> \E i \in DOMAIN inbox : inbox[i] = q
        BY DEF ToSet
      <3>3. \A i \in DOMAIN inbox : inbox[i] \in Requests \cup {None}
        BY <3>1 DEF Mail
      <3>4. asked \subseteq Requests /\ \A q \in Requests : q \in asked <=> q \in pending \/ Mailed(q)
        <4>1. \A q : q \in asked <=> q \in pending \/ (q \in ToSet(inbox) /\ q # None)
          OBVIOUS
        <4> HIDE DEF asked
        <4>2. asked \subseteq Requests
          BY <3>1, <3>2, <3>3, <4>1
        <4>3. ASSUME NEW q \in Requests
              PROVE  q \in asked <=> q \in pending \/ Mailed(q)
          <5>1. q # None
            BY Bounds DEF Requests
          <5> QED
            BY <3>2, <4>1, <5>1 DEF Mailed
        <4> QED
          BY <4>2, <4>3
      <3>5. \A r \in Runs : runs[r] # None => runs[r].open \subseteq Requests
        BY DEF Inv, Typed, Children
      <3>6. waiting \subseteq Requests /\ \A q \in Requests : q \in waiting <=> Waiting(q)
        BY <3>5 DEF Waiting
      <3>7. \A q \in Requests : Waiting(q) <=> q \in pending \/ Mailed(q)
        BY <2>2, <3>1 DEF Inv, MatchInv
      <3> HIDE DEF asked, waiting
      <3>8. asked = waiting
        BY <3>4, <3>6, <3>7
      <3> QED
        BY <3>8 DEF asked, waiting
    <2> QED
      BY <2>1, <2>2 DEF AnswersReachChildren, RequestsMatch
  <1> QED
    BY <1>1, Invariance, PTL

\* As long as no child failed and no process died, a response returns to the run that
\* asked: it is neither dropped nor taken for fresh input (execute, handle_response).
ResponsesReturnWhileIntact == intact => routed \notin {"fresh run", "dropped"}

\* An answer finds the child run that asked, while the wrapper's maps are intact (execute).
THEOREM ResponsesReturnIntact == Spec => []ResponsesReturnWhileIntact
  <1>1. Inv => ResponsesReturnWhileIntact
    BY DEF Inv, RoutedInv, ResponsesReturnWhileIntact
  <1> QED
    BY <1>1, Invariance, PTL

=============================================================================
