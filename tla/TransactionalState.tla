------------------------- MODULE TransactionalState -------------------------
(***************************************************************************)
(* What a workflow run's shared state promises: a key-value map with a     *)
(* working copy, `view`, that every executor of the run reads and writes,  *)
(* and a durable copy, `durable`, that checkpoints read.  The working copy *)
(* reaches the durable one only as a whole (Commit) and can be thrown away *)
(* as a whole (Rollback).                                                  *)
(***************************************************************************)
CONSTANTS
    Keys,       \* state keys
    Values,     \* JSON values
    NoEntry     \* "the map has no entry for this key"

VARIABLES
    view,       \* what a read returns, per key
    durable,    \* what an export returns, per key
    answer      \* what the latest operation returned

vars == <<view, durable, answer>>

Init ==
    /\ view = [k \in Keys |-> NoEntry]
    /\ durable = [k \in Keys |-> NoEntry]
    /\ answer = <<>>

Read(k) ==
    /\ answer' = <<"get", view[k]>>
    /\ UNCHANGED <<view, durable>>

Exists(k) ==
    /\ answer' = <<"has", view[k] # NoEntry>>
    /\ UNCHANGED <<view, durable>>

Write(k, v) ==
    /\ view' = [view EXCEPT ![k] = v]
    /\ UNCHANGED <<durable, answer>>

\* Erasing answers whether there was something to erase.
Erase(k) ==
    /\ answer' = <<"delete", view[k] # NoEntry>>
    /\ view' = [view EXCEPT ![k] = NoEntry]
    /\ UNCHANGED durable

Commit ==
    /\ durable' = view
    /\ UNCHANGED <<view, answer>>

Rollback ==
    /\ view' = durable
    /\ UNCHANGED <<durable, answer>>

Export ==
    /\ answer' = <<"export", durable>>
    /\ UNCHANGED <<view, durable>>

\* Loading `m` replaces the durable entries m has; a key that the working copy
\* changed since the last commit may go on hiding its loaded entry.
Load(m) ==
    /\ durable' = [k \in Keys |-> IF m[k] # NoEntry THEN m[k] ELSE durable[k]]
    /\ view' \in [Keys -> Values \cup {NoEntry}]
    /\ \A k \in Keys :
          view'[k] \in IF m[k] # NoEntry THEN {m[k], view[k]} ELSE {view[k]}
    /\ UNCHANGED answer

Reset ==
    /\ view' = [k \in Keys |-> NoEntry]
    /\ durable' = [k \in Keys |-> NoEntry]
    /\ UNCHANGED answer

Next ==
    \/ \E k \in Keys : Read(k) \/ Exists(k) \/ Erase(k)
    \/ \E k \in Keys, v \in Values : Write(k, v)
    \/ Commit
    \/ Rollback
    \/ Export
    \/ \E m \in [Keys -> Values \cup {NoEntry}] : Load(m)
    \/ Reset

Spec == Init /\ [][Next]_vars

=============================================================================
