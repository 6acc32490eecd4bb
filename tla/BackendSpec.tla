----------------------------- MODULE BackendSpec -----------------------------
(***************************************************************************)
(* What the key-value backend promises its callers, with no database in    *)
(* sight: a map from keys to items in which an item vanishes the instant   *)
(* its expiry is reached, and in which every call takes effect at one      *)
(* instant between its invocation and its answer.  This is the contract    *)
(* PgbkStore is shown to implement; nothing here is translated from SQL.   *)
(*                                                                         *)
(* A call that ends in "Error" (the retry layer gave up) may or may not    *)
(* have taken effect: that is all a caller can know after a lost           *)
(* connection.  Every other answer tells the caller exactly what happened. *)
(***************************************************************************)
EXTENDS BackendTypes, FiniteSets, SequencesExt

CONSTANTS
    Clients,            \* the concurrent callers
    Inputs,             \* the requests callers make, a subset of Request
    DefaultRangeLimit,  \* backend.DefaultRangeLimit
    MaxTime             \* the clock stops here (bound of the model)

VARIABLES
    store,      \* store[k]: the item at key k, or None
    clock,      \* the time that decides what has expired
    pending,    \* pending[c]: the request client c is waiting on, or None
    resp        \* resp[c]: the answer to c's last call, None while it waits

vars == <<store, clock, pending, resp>>

Stored == [value : Values, expires : Nat]

TypeOK ==
    /\ store \in [Keys -> Stored \cup {None}]
    /\ clock \in 1..MaxTime
    /\ pending \in [Clients -> Inputs \cup {None}]
    /\ resp \in [Clients -> Response \cup {None}]

-----------------------------------------------------------------------------
Present(k) == store[k] # None

\* An expiry that has not been reached at time t.
Ahead(expires, t) == expires = 0 \/ expires > t

\* The store after writing value and expiry at k: an item whose expiry is
\* already reached is never there.
Written(k, value, expires) ==
    [store EXCEPT ![k] = IF Ahead(expires, clock)
                         THEN [value |-> value, expires |-> expires]
                         ELSE None]

Removed(ks) == [k \in Keys |-> IF k \in ks THEN None ELSE store[k]]

AsFound(k) == [key |-> k, value |-> store[k].value, expires |-> store[k].expires]

\* The items of a range read: the present keys of the range that have fewer
\* than `limit' present keys of the range below them, in ascending order.
RangeItems(startKey, endKey, limit) ==
    LET n     == IF limit <= 0 THEN DefaultRangeLimit ELSE limit
        here  == {k \in Between(startKey, endKey) : Present(k)}
        taken == {k \in here : Cardinality({j \in here : j < k}) < n}
        keys  == SetToSortSeq(taken, <)
    IN  [i \in DOMAIN keys |-> AsFound(keys[i])]

-----------------------------------------------------------------------------
Init ==
    /\ store = [k \in Keys |-> None]
    /\ clock = 1
    /\ pending = [c \in Clients |-> None]
    /\ resp = [c \in Clients |-> None]

Invoke(c, r) ==
    /\ pending[c] = None
    /\ pending' = [pending EXCEPT ![c] = r]
    /\ resp' = [resp EXCEPT ![c] = None]
    /\ UNCHANGED <<store, clock>>

Waiting(c, op) == pending[c] # None /\ pending[c].op = op

\* The instant at which a call takes effect.  The caller learns the answer,
\* or only that something went wrong.
Perform(c, newStore, answer) ==
    /\ store' = newStore
    /\ pending' = [pending EXCEPT ![c] = None]
    /\ \E a \in {answer, Failed("Error")} : resp' = [resp EXCEPT ![c] = a]
    /\ UNCHANGED clock

Create(c) ==
    /\ Waiting(c, "Create")
    /\ LET i == pending[c].item IN
       \/ ~Present(i.key) /\ Perform(c, Written(i.key, i.value, i.expires), Granted(i))
       \/ Present(i.key) /\ Perform(c, store, Failed("AlreadyExists"))

Put(c) ==
    /\ Waiting(c, "Put")
    /\ LET i == pending[c].item IN
       Perform(c, Written(i.key, i.value, i.expires), Granted(i))

Update(c) ==
    /\ Waiting(c, "Update")
    /\ LET i == pending[c].item IN
       \/ Present(i.key) /\ Perform(c, Written(i.key, i.value, i.expires), Granted(i))
       \/ ~Present(i.key) /\ Perform(c, store, Failed("NotFound"))

CompareAndSwap(c) ==
    /\ Waiting(c, "CompareAndSwap")
    /\ LET e == pending[c].expected
           i == pending[c].replaceWith
           matches == Present(i.key) /\ store[i.key].value = e.value
       IN  \/ matches /\ Perform(c, Written(i.key, i.value, i.expires), Granted(i))
           \/ ~matches /\ Perform(c, store, Failed("CompareFailed"))

KeepAlive(c) ==
    /\ Waiting(c, "KeepAlive")
    /\ LET k == pending[c].lease.key IN
       \/ Present(k) /\ Perform(c, Written(k, store[k].value, pending[c].expires), Ok)
       \/ ~Present(k) /\ Perform(c, store, Failed("NotFound"))

Delete(c) ==
    /\ Waiting(c, "Delete")
    /\ LET k == pending[c].key IN
       \/ Present(k) /\ Perform(c, Removed({k}), Ok)
       \/ ~Present(k) /\ Perform(c, store, Failed("NotFound"))

DeleteRange(c) ==
    /\ Waiting(c, "DeleteRange")
    /\ Perform(c, Removed(Between(pending[c].startKey, pending[c].endKey)), Ok)

Get(c) ==
    /\ Waiting(c, "Get")
    /\ LET k == pending[c].key IN
       \/ Present(k) /\ Perform(c, store, [kind |-> "Item", item |-> AsFound(k)])
       \/ ~Present(k) /\ Perform(c, store, Failed("NotFound"))

GetRange(c) ==
    /\ Waiting(c, "GetRange")
    /\ LET r == pending[c] IN
       Perform(c, store,
               [kind |-> "Items", items |-> RangeItems(r.startKey, r.endKey, r.limit)])

\* A CompareAndSwap whose two keys differ is refused on the spot.
Reject(c) ==
    /\ pending[c] = None
    /\ resp' = [resp EXCEPT ![c] = Failed("BadParameter")]
    /\ UNCHANGED <<store, clock, pending>>

\* A call that fails without having done anything.
GiveUp(c) ==
    /\ pending[c] # None
    /\ pending' = [pending EXCEPT ![c] = None]
    /\ resp' = [resp EXCEPT ![c] = Failed("Error")]
    /\ UNCHANGED <<store, clock>>

\* Time passes, and what expires is gone at once.
Tick ==
    /\ clock < MaxTime
    /\ clock' = clock + 1
    /\ store' = [k \in Keys |->
                    IF Present(k) /\ ~Ahead(store[k].expires, clock + 1)
                    THEN None ELSE store[k]]
    /\ UNCHANGED <<pending, resp>>

Next ==
    \/ \E c \in Clients :
          \/ \E r \in Inputs : Invoke(c, r)
          \/ Create(c) \/ Put(c) \/ Update(c) \/ CompareAndSwap(c) \/ KeepAlive(c)
          \/ Delete(c) \/ DeleteRange(c) \/ Get(c) \/ GetRange(c)
          \/ Reject(c) \/ GiveUp(c)
    \/ Tick

Spec == Init /\ [][Next]_vars
=============================================================================
