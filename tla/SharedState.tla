---------------------------- MODULE SharedState ----------------------------
(***************************************************************************)
(* workflow/shared_state.rs: the run-scoped key -> JSON store.  Writes are *)
(* staged in `pending` and folded into `committed` at a superstep          *)
(* boundary; reads look at `pending` first; a staged deletion of a         *)
(* committed key is a tombstone.  Every operation takes the RwLock once,   *)
(* so each is one atomic action; the executors of a superstep interleave   *)
(* them freely.                                                            *)
(***************************************************************************)
CONSTANTS
    Keys,       \* state keys
    Values,     \* JSON values
    NoEntry,    \* a map's "no entry for this key"
    Tombstone   \* Pending::Delete

ASSUME StoreAssumption ==
    /\ NoEntry \notin Values
    /\ Tombstone \notin Values
    /\ Tombstone # NoEntry

VARIABLES
    committed,  \* Inner::committed
    pending,    \* Inner::pending
    result      \* the value the latest operation returned to its caller

vars == <<committed, pending, result>>

Maybe == Values \cup {NoEntry}
Empty == [k \in Keys |-> NoEntry]

\* The closures handed to `update`: from the current value to the new one.
Updates == [Maybe -> Values]

TypeOK ==
    /\ committed \in [Keys -> Maybe]
    /\ pending \in [Keys -> Maybe \cup {Tombstone}]

Init ==
    /\ committed = Empty
    /\ pending = Empty
    /\ result = <<>>

-----------------------------------------------------------------------------
\* The value a reader observes for k: pending first, then committed.
Lookup(k) ==
    IF pending[k] = Tombstone THEN NoEntry
    ELSE IF pending[k] = NoEntry THEN committed[k] ELSE pending[k]

Get(k) ==
    /\ result' = <<"get", Lookup(k)>>
    /\ UNCHANGED <<committed, pending>>

Has(k) ==
    /\ result' = <<"has", Lookup(k) # NoEntry>>
    /\ UNCHANGED <<committed, pending>>

Set(k, v) ==
    /\ pending' = [pending EXCEPT ![k] = v]
    /\ UNCHANGED <<committed, result>>

\* Fault: a staged write is always simply dropped, also over a committed key.
Delete_NoTombstone(k) ==
    /\ pending' = [pending EXCEPT ![k] =
                     IF @ \in Values THEN NoEntry
                     ELSE IF committed[k] # NoEntry THEN Tombstone ELSE NoEntry]
    /\ result' = <<"delete", Lookup(k) # NoEntry>>
    /\ UNCHANGED committed

\* A staged write that hides nothing committed is simply dropped; otherwise
\* the committed entry needs a tombstone.
Delete(k) ==
    LET staged == IF committed[k] # NoEntry THEN Tombstone ELSE NoEntry
    IN  /\ pending' = [pending EXCEPT ![k] =
                         IF @ = Tombstone THEN Tombstone ELSE staged]
        /\ result' = <<"delete", IF pending[k] = NoEntry THEN committed[k] # NoEntry
                                 ELSE pending[k] # Tombstone>>
        /\ UNCHANGED committed

\* Read-modify-write under one write lock.
Update(k, f) ==
    /\ pending' = [pending EXCEPT ![k] = f[Lookup(k)]]
    /\ UNCHANGED <<committed, result>>

\* Every staged entry replaces (or, for a tombstone, removes) the committed one.
Commit ==
    /\ committed' = [k \in Keys |->
          IF pending[k] = NoEntry THEN committed[k]
          ELSE IF pending[k] = Tombstone THEN NoEntry ELSE pending[k]]
    /\ pending' = Empty
    /\ UNCHANGED result

Discard ==
    /\ pending' = Empty
    /\ UNCHANGED <<committed, result>>

Export ==
    /\ result' = <<"export", committed>>
    /\ UNCHANGED <<committed, pending>>

Import(m) ==
    /\ committed' = [k \in Keys |-> IF m[k] # NoEntry THEN m[k] ELSE committed[k]]
    /\ UNCHANGED <<pending, result>>

Clear ==
    /\ committed' = Empty
    /\ pending' = Empty
    /\ UNCHANGED result

Next ==
    \/ \E k \in Keys : Get(k) \/ Has(k) \/ Delete(k)
    \/ \E k \in Keys, v \in Values : Set(k, v)
    \/ \E k \in Keys, f \in Updates : Update(k, f)
    \/ Commit
    \/ Discard
    \/ Export
    \/ \E m \in [Keys -> Maybe] : Import(m)
    \/ Clear

Spec == Init /\ [][Next]_vars

-----------------------------------------------------------------------------
\* The abstract store this one implements: a read returns the pending-first
\* value, an export the committed one.
Abstract == INSTANCE TransactionalState
              WITH view <- [k \in Keys |-> Lookup(k)],
                   durable <- committed,
                   answer <- result

\* The staged store with tombstones behaves as a map with one working and one
\* durable copy: every returned value (get, has, delete's "did it exist",
\* export) is the one that map would return, whatever sequence of staged
\* writes, deletes, commits, discards and imports preceded it.
ImplementsTransactionalState == Abstract!Spec

=============================================================================
