---------------------------- MODULE BackendTypes ----------------------------
(***************************************************************************)
(* The values that cross the backend.Backend interface implemented by      *)
(* lib/backend/pgbk: items, leases, the requests a caller can make and the *)
(* answers it can get.  Keys are natural numbers: the only thing the code  *)
(* does with a key besides comparing it for equality is to order it        *)
(* (BETWEEN, ORDER BY), and the order of the naturals stands for the       *)
(* bytewise order of bytea.  Values are uninterpreted.  A time is a        *)
(* natural number; 0 is Go's zero time.Time, which means "never expires".  *)
(***************************************************************************)
EXTENDS Integers, Sequences

CONSTANTS
    Keys,       \* the keys callers use, a finite set of naturals
    Values,     \* the values callers store
    Expiries,   \* the expiry times callers pass; 0 is the zero time
    Limits,     \* the limits callers pass to GetRange
    None        \* "no request" / "no answer yet"

ASSUME TypesAssumption ==
    /\ Keys \subseteq Nat
    /\ Expiries \subseteq Nat
    /\ Limits \subseteq Int

\* backend.Item: Key, Value, Expires.
Item == [key : Keys, value : Values, expires : Expiries]

\* What CompareAndSwap reads of its `expected' argument: Key and Value.
Expected == [key : Keys, value : Values]

\* backend.Lease as the spec describes it: the key and the expiry written.
Lease == [key : Keys, expires : Expiries]

LeaseOf(i) == [key |-> i.key, expires |-> i.expires]

\* The calls of the interface that reach the database, with their arguments.
\* A CompareAndSwap request always has matching keys: one with mismatched
\* keys is rejected before anything is sent.
Request ==
         [op : {"Create", "Put", "Update"}, item : Item]
    \cup {r \in [op : {"CompareAndSwap"}, expected : Expected, replaceWith : Item] :
             r.expected.key = r.replaceWith.key}
    \cup [op : {"KeepAlive"}, lease : Lease, expires : Expiries]
    \cup [op : {"Get", "Delete"}, key : Keys]
    \cup [op : {"DeleteRange"}, startKey : Keys, endKey : Keys]
    \cup [op : {"GetRange"}, startKey : Keys, endKey : Keys, limit : Limits]

\* Get and GetRange run under RetryIdempotent, the others under Retry.
ReadOps == {"Get", "GetRange"}

\* The key a single-key request is about.
KeyOf(r) ==
    CASE r.op \in {"Create", "Put", "Update"} -> r.item.key
      [] r.op = "CompareAndSwap"              -> r.replaceWith.key
      [] r.op = "KeepAlive"                   -> r.lease.key
      [] r.op \in {"Get", "Delete"}           -> r.key

\* An item as Get and GetRange return it.
Found == [key : Keys, value : Values, expires : Nat]

\* The answers: a lease, nil (Ok), an item, a list of items, or an error.
\* Error is a failure of the database or of the connection that the retry
\* layer gave up on.
ErrorKinds == {"AlreadyExists", "NotFound", "CompareFailed", "BadParameter", "Error"}

Response ==
         [kind : {"Lease"}, lease : Lease]
    \cup [kind : {"Item"}, item : Found]
    \cup [kind : {"Items"}, items : Seq(Found)]
    \cup [kind : {"Ok"} \cup ErrorKinds]

Granted(i)   == [kind |-> "Lease", lease |-> LeaseOf(i)]
Ok           == [kind |-> "Ok"]
Failed(kind) == [kind |-> kind]

\* The keys of a range request: kv.key BETWEEN startKey AND endKey.
Between(startKey, endKey) == {k \in Keys : startKey <= k /\ k <= endKey}
=============================================================================
