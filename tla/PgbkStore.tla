------------------------------ MODULE PgbkStore ------------------------------
(***************************************************************************)
(* The key-value engine of lib/backend/pgbk/pgbk.go: the kv table and the  *)
(* one SQL statement each Backend method runs against it.                  *)
(*                                                                         *)
(* The table keeps rows past their expiry until something deletes or       *)
(* overwrites them; what a row means is decided by every statement's WHERE *)
(* clause against the database's own now().  A method is a call (its       *)
(* arguments and its revision are fixed), then attempts of its statement   *)
(* under pgcommon.Retry / RetryIdempotent, each an atomic transaction at   *)
(* the serializable level, then the answer.  Other callers, the clock and  *)
(* the expiry statement run between any two of those steps.                *)
(***************************************************************************)
EXTENDS BackendTypes, FiniteSets, SequencesExt

CONSTANTS
    Clients,            \* the goroutines calling the backend
    Inputs,             \* the requests they make, a subset of Request
    DefaultRangeLimit,  \* backend.DefaultRangeLimit
    ExpiryBatchSize,    \* Config.ExpiryBatchSize, rows deleted per statement
    NULL,               \* SQL NULL
    MaxTime,            \* bound: now() stops here
    MaxRevision,        \* bound: number of revisions newRevision() hands out
    MaxAttempts         \* bound of the retry layer: attempts per call

ASSUME StoreAssumption ==
    /\ Inputs \subseteq Request
    /\ DefaultRangeLimit \in Nat \ {0}
    /\ ExpiryBatchSize \in Nat \ {0}
    /\ MaxTime \in Nat \ {0} /\ MaxRevision \in Nat /\ MaxAttempts \in Nat \ {0}
    /\ NULL \notin Nat /\ NULL # None

VARIABLES
    kv,         \* kv[k]: the row with primary key k, or None
    now,        \* the database's now()
    call,       \* call[c]: the call c is in (request, revision, attempts)
    resp,       \* resp[c]: what c's last call returned, None during a call
    nextRev     \* the next revision newRevision() returns

vars == <<kv, now, call, resp, nextRev>>

Revisions == 1..MaxRevision

Row == [value : Values, expires : (1..MaxTime) \cup {NULL}, revision : Revisions]

Call == [req : Inputs, revision : Revisions \cup {None}, attempts : 0..(MaxAttempts - 1)]

-----------------------------------------------------------------------------
(* Conversions between Go times and the nullable timestamptz column.       *)

\* Mutant of ZeroNull: the Go time is passed to the statement as it is.
ZeroNullAsIs(t) == t

\* zeronull.Timestamptz(t): the zero time is stored as NULL.
ZeroNull(t) == IF t = 0 THEN NULL ELSE t

\* time.Time(expires) of a scanned zeronull.Timestamptz: NULL is the zero time.
NullZero(e) == IF e = NULL THEN 0 ELSE e

(* The two WHERE conditions on expiry.                                     *)

\* kv.expires IS NULL OR kv.expires > now()
Live(row) == row # None /\ (row.expires = NULL \/ row.expires > now)

\* Mutant of Expired: "<" for "<=", a row expiring now is not yet expired.
ExpiredBeforeNow(row) == row # None /\ row.expires # NULL /\ row.expires < now

\* kv.expires IS NOT NULL AND kv.expires <= now()
Expired(row) == row # None /\ row.expires # NULL /\ row.expires <= now

\* The row (value, expires, revision) as the statements write it.
NewRow(value, expires, revision) ==
    [value |-> value, expires |-> ZeroNull(expires), revision |-> revision]

-----------------------------------------------------------------------------
(* The retry layer: how an attempt ends.                                   *)

\* The ops whose method starts with revision := newRevision().
Stamped == {"Create", "Put", "CompareAndSwap", "Update", "KeepAlive"}

Attempting(c, op) == call[c] # None /\ call[c].req.op = op

Return(c, answer) ==
    /\ call' = [call EXCEPT ![c] = None]
    /\ resp' = [resp EXCEPT ![c] = answer]

CanRetry(c) == call[c].attempts + 1 < MaxAttempts

\* One more attempt if the policy allows it, the error to the caller if not.
Again(c) ==
    IF CanRetry(c)
    THEN call' = [call EXCEPT ![c].attempts = @ + 1] /\ UNCHANGED resp
    ELSE Return(c, Failed("Error"))

\* Mutant of AckLost: writes are run again like reads.
AckLostRetriesAll(c) == Again(c)

\* The statement ran but its result never arrived.  Only a read is run
\* again: a write may have been committed, and is reported as an error.
AckLost(c) ==
    IF call[c].req.op \in ReadOps THEN Again(c) ELSE Return(c, Failed("Error"))

\* How an attempt whose statement ran ends.
Conclude(c, answer) == Return(c, answer) \/ AckLost(c)

\* An attempt that did nothing: the transaction was rolled back (a
\* serialization failure) or nothing was sent (no connection).
TxAbort(c) ==
    /\ call[c] # None
    /\ Again(c)
    /\ UNCHANGED <<kv, now, nextRev>>

-----------------------------------------------------------------------------
Init ==
    /\ kv = [k \in Keys |-> None]
    /\ now = 1
    /\ call = [c \in Clients |-> None]
    /\ resp = [c \in Clients |-> None]
    /\ nextRev = 1

\* A method is entered: the arguments are fixed and, in the writing methods,
\* the revision is drawn, before the first attempt.
Invoke(c, r) ==
    /\ call[c] = None
    /\ IF r.op \in Stamped
       THEN /\ nextRev <= MaxRevision
            /\ call' = [call EXCEPT ![c] = [req |-> r, revision |-> nextRev, attempts |-> 0]]
            /\ nextRev' = nextRev + 1
       ELSE /\ call' = [call EXCEPT ![c] = [req |-> r, revision |-> None, attempts |-> 0]]
            /\ UNCHANGED nextRev
    /\ resp' = [resp EXCEPT ![c] = None]
    /\ UNCHANGED <<kv, now>>

\* INSERT ... ON CONFLICT (key) DO UPDATE ... WHERE the row there is expired.
Create(c) ==
    /\ Attempting(c, "Create")
    /\ LET i == call[c].req.item
           created == kv[i.key] = None \/ Expired(kv[i.key])
       IN  /\ kv' = IF created
                    THEN [kv EXCEPT ![i.key] = NewRow(i.value, i.expires, call[c].revision)]
                    ELSE kv
           /\ Conclude(c, IF created THEN Granted(i) ELSE Failed("AlreadyExists"))
    /\ UNCHANGED <<now, nextRev>>

\* INSERT ... ON CONFLICT (key) DO UPDATE, unconditionally.
Put(c) ==
    /\ Attempting(c, "Put")
    /\ LET i == call[c].req.item IN
       /\ kv' = [kv EXCEPT ![i.key] = NewRow(i.value, i.expires, call[c].revision)]
       /\ Conclude(c, Granted(i))
    /\ UNCHANGED <<now, nextRev>>

\* UPDATE ... WHERE key = $4 AND value = $5 AND the row is live.
CompareAndSwap(c) ==
    /\ Attempting(c, "CompareAndSwap")
    /\ LET i == call[c].req.replaceWith
           swapped == Live(kv[i.key]) /\ kv[i.key].value = call[c].req.expected.value
       IN  /\ kv' = IF swapped
                    THEN [kv EXCEPT ![i.key] = NewRow(i.value, i.expires, call[c].revision)]
                    ELSE kv
           /\ Conclude(c, IF swapped THEN Granted(i) ELSE Failed("CompareFailed"))
    /\ UNCHANGED <<now, nextRev>>

\* The check before the statement: the two keys must match.
CompareAndSwapMismatch(c) ==
    /\ call[c] = None
    /\ \E expected \in Expected, replaceWith \in Item :
          /\ expected.key # replaceWith.key
          /\ resp' = [resp EXCEPT ![c] = Failed("BadParameter")]
    /\ UNCHANGED <<kv, now, call, nextRev>>

\* UPDATE ... WHERE key = $4 AND the row is live.
Update(c) ==
    /\ Attempting(c, "Update")
    /\ LET i == call[c].req.item
           updated == Live(kv[i.key])
       IN  /\ kv' = IF updated
                    THEN [kv EXCEPT ![i.key] = NewRow(i.value, i.expires, call[c].revision)]
                    ELSE kv
           /\ Conclude(c, IF updated THEN Granted(i) ELSE Failed("NotFound"))
    /\ UNCHANGED <<now, nextRev>>

\* SELECT value, expires, revision WHERE key = $1 AND the row is live.
Get(c) ==
    /\ Attempting(c, "Get")
    /\ LET k == call[c].req.key
           item == [key |-> k, value |-> kv[k].value, expires |-> NullZero(kv[k].expires)]
       IN  Conclude(c, IF Live(kv[k]) THEN [kind |-> "Item", item |-> item]
                                     ELSE Failed("NotFound"))
    /\ UNCHANGED <<kv, now, nextRev>>

\* Mutant of RangeLimit: the limit goes to the statement as it was given.
RangeLimitAsGiven(limit) == limit

\* if limit <= 0 { limit = backend.DefaultRangeLimit }
RangeLimit(limit) == IF limit <= 0 THEN DefaultRangeLimit ELSE limit

\* SELECT ... WHERE key BETWEEN $1 AND $2 AND live ORDER BY key LIMIT $3.
GetRange(c) ==
    /\ Attempting(c, "GetRange")
    /\ LET r      == call[c].req
           limit  == RangeLimit(r.limit)
           sorted == SetToSortSeq({k \in Between(r.startKey, r.endKey) : Live(kv[k])}, <)
           keys   == SubSeq(sorted, 1, Min({limit, Len(sorted)}))
           items  == [n \in DOMAIN keys |->
                        [key |-> keys[n], value |-> kv[keys[n]].value,
                         expires |-> NullZero(kv[keys[n]].expires)]]
       IN  Conclude(c, [kind |-> "Items", items |-> items])
    /\ UNCHANGED <<kv, now, nextRev>>

\* DELETE WHERE key = $1 AND the row is live.
Delete(c) ==
    /\ Attempting(c, "Delete")
    /\ LET k == call[c].req.key
           deleted == Live(kv[k])
       IN  /\ kv' = IF deleted THEN [kv EXCEPT ![k] = None] ELSE kv
           /\ Conclude(c, IF deleted THEN Ok ELSE Failed("NotFound"))
    /\ UNCHANGED <<now, nextRev>>

\* DELETE WHERE key BETWEEN $1 AND $2: every row, expired or not.
DeleteRange(c) ==
    /\ Attempting(c, "DeleteRange")
    /\ LET gone == Between(call[c].req.startKey, call[c].req.endKey) IN
       /\ kv' = [k \in Keys |-> IF k \in gone THEN None ELSE kv[k]]
       /\ Conclude(c, Ok)
    /\ UNCHANGED <<now, nextRev>>

\* Mutant of KeepAlive: the statement sets expires and leaves revision alone.
KeepAliveKeepsRevision(c) ==
    /\ Attempting(c, "KeepAlive")
    /\ LET k == call[c].req.lease.key
           updated == Live(kv[k])
       IN  /\ kv' = IF updated
                    THEN [kv EXCEPT ![k].expires = ZeroNull(call[c].req.expires)]
                    ELSE kv
           /\ Conclude(c, IF updated THEN Ok ELSE Failed("NotFound"))
    /\ UNCHANGED <<now, nextRev>>

\* UPDATE SET expires = $1, revision = $2 WHERE key = $3 AND the row is live.
KeepAlive(c) ==
    /\ Attempting(c, "KeepAlive")
    /\ LET k == call[c].req.lease.key
           updated == Live(kv[k])
       IN  /\ kv' = IF updated
                    THEN [kv EXCEPT ![k] = NewRow(@.value, call[c].req.expires, call[c].revision)]
                    ELSE kv
           /\ Conclude(c, IF updated THEN Ok ELSE Failed("NotFound"))
    /\ UNCHANGED <<now, nextRev>>

-----------------------------------------------------------------------------
(* What happens to the table without any caller.                           *)

\* The statement of the expiry loop: delete expired rows, at most
\* ExpiryBatchSize of them, whichever the database picks.
DeleteExpired ==
    \E gone \in SUBSET {k \in Keys : Expired(kv[k])} :
       /\ gone # {}
       /\ Cardinality(gone) <= ExpiryBatchSize
       /\ kv' = [k \in Keys |-> IF k \in gone THEN None ELSE kv[k]]
       /\ UNCHANGED <<now, call, resp, nextRev>>

\* The database's clock advances.
Tick ==
    /\ now < MaxTime
    /\ now' = now + 1
    /\ UNCHANGED <<kv, call, resp, nextRev>>

Statement(c) ==
    \/ Create(c) \/ Put(c) \/ CompareAndSwap(c) \/ Update(c) \/ KeepAlive(c)
    \/ Get(c) \/ GetRange(c) \/ Delete(c) \/ DeleteRange(c)

Next ==
    \/ \E c \in Clients :
          \/ \E r \in Inputs : Invoke(c, r)
          \/ Statement(c)
          \/ CompareAndSwapMismatch(c)
          \/ TxAbort(c)
    \/ DeleteExpired
    \/ Tick

Spec == Init /\ [][Next]_vars

-----------------------------------------------------------------------------
TypeOK ==
    /\ kv \in [Keys -> Row \cup {None}]
    /\ now \in 1..MaxTime
    /\ call \in [Clients -> Call \cup {None}]
    /\ resp \in [Clients -> Response \cup {None}]
    /\ nextRev \in 1..(MaxRevision + 1)

(***************************************************************************)
(* What callers can see of the table: the rows that are live, as items.    *)
(* Under this view the store implements BackendSpec.                       *)
(***************************************************************************)
Visible ==
    [k \in Keys |-> IF Live(kv[k])
                    THEN [value |-> kv[k].value, expires |-> NullZero(kv[k].expires)]
                    ELSE None]

Requested == [c \in Clients |-> IF call[c] = None THEN None ELSE call[c].req]

Contract == INSTANCE BackendSpec
                WITH store <- Visible, clock <- now, pending <- Requested

\* The backend keeps the contract of BackendSpec: every method of pgbk.go
\* answers and acts as if it ran at one instant on a map in which expired
\* items do not exist.  Rows that outlive their expiry never show: not to a
\* read, not in the outcome of Create, Update, CompareAndSwap, KeepAlive or
\* Delete, and deleting them (DeleteRange, the expiry loop) changes nothing
\* a caller can see.  A write whose answer was lost is not carried out twice.
ImplementsBackend == Contract!Spec

\* Every statement that changes a row gives it the revision drawn by the
\* call (revision := newRevision() and revision = $n in each UPDATE and
\* INSERT), which no row of the table has: a row never changes while
\* keeping its revision, and no two rows share one.  The change feed
\* depends on this to tell a rewritten row from an untouched one.
RevisionStampsEveryWrite ==
    [][\A k \in Keys :
          kv'[k] \notin {kv[k], None}
             => \A j \in Keys : kv[j] # None => kv'[k].revision # kv[j].revision]_kv

=============================================================================
