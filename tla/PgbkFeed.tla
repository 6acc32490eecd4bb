------------------------------ MODULE PgbkFeed ------------------------------
(***************************************************************************)
(* The change feed of lib/backend/pgbk.  pgbk.go makes the watch buffer    *)
(* (backend.NewCircularBuffer), starts the reader (backgroundChangeFeed)   *)
(* and hands NewWatcher and CloseWatchers to the buffer; the reader and    *)
(* the buffer themselves are written elsewhere, and are modelled here from *)
(* what the specification says of them: the reader takes the committed     *)
(* changes in batches, in commit order, and publishes each as one event;   *)
(* the buffer keeps the last Capacity events; every watcher reads with a   *)
(* cursor of its own, sees the keys of its prefix, starts at the events    *)
(* published after it subscribed, and is disconnected when the buffer      *)
(* overwrites an event it has not read.                                    *)
(*                                                                         *)
(* A change is known by its number in commit order; of its contents only   *)
(* the key is kept, which is what a watcher's prefix selects on.           *)
(***************************************************************************)
EXTENDS Integers, Sequences, FiniteSets, SequencesExt

CONSTANTS
    Keys,                   \* the keys of the changes
    Watchers,               \* the watchers callers make
    Capacity,               \* the events the circular buffer holds
    ChangeFeedBatchSize,    \* Config.ChangeFeedBatchSize
    MaxChanges,             \* bound: the changes committed in a behaviour
    None

ASSUME FeedAssumption ==
    /\ Capacity \in Nat \ {0} /\ ChangeFeedBatchSize \in Nat \ {0}
    /\ MaxChanges \in Nat

VARIABLES
    feed,       \* feed[n]: the key of the n-th change committed to kv
    fetched,    \* the changes the reader has taken from the feed
    emitted,    \* the changes the reader has published: change n is event n
    ring,       \* ring[n % Capacity]: event n, until event n + Capacity
    watch,      \* watch[w]: the watcher w holds, None if it holds none
    seen        \* seen[w]: the events w's watcher has handed to it

vars == <<feed, fetched, emitted, ring, watch, seen>>

\* An open watcher: its prefix as the keys it selects, the last event
\* published before it subscribed, and the last event it has read.
Open == [status : {"Open"}, keys : SUBSET Keys \ {{}},
         start : 0..MaxChanges, cursor : 0..MaxChanges]

\* A watcher that was closed by CloseWatchers, or by the reader.
Stopped == [status : {"Closed", "Overrun"}]

IsOpen(w) == watch[w] # None /\ watch[w].status = "Open"

Slot(n) == n % Capacity

\* The events w's watcher has not read.
Backlog(w) == emitted - watch[w].cursor

-----------------------------------------------------------------------------
\* NewWithConfig: an empty buffer, and a reader that has read nothing.
Init ==
    /\ feed = <<>>
    /\ fetched = 0 /\ emitted = 0
    /\ ring = [s \in 0..(Capacity - 1) |-> None]
    /\ watch = [w \in Watchers |-> None]
    /\ seen = [w \in Watchers |-> <<>>]

\* A transaction that changes the row of k commits, here or on another
\* auth server: the reader holds no writer up.
Commit(k) ==
    /\ Len(feed) < MaxChanges
    /\ feed' = Append(feed, k)
    /\ UNCHANGED <<fetched, emitted, ring, watch, seen>>

\* The reader polls: the next changes of the feed, at most a batch.
Fetch ==
    /\ fetched = emitted /\ fetched < Len(feed)
    /\ fetched' = Min({Len(feed), fetched + ChangeFeedBatchSize})
    /\ UNCHANGED <<feed, emitted, ring, watch, seen>>

\* The reader fails with part of a batch unpublished and connects again:
\* it resumes after the last change it has published.
ReaderError ==
    /\ emitted < fetched
    /\ fetched' = emitted
    /\ UNCHANGED <<feed, emitted, ring, watch, seen>>

\* The watchers that event n, overwriting event n - Capacity, overruns:
\* those that have not read the event it overwrites.
Overrun(n) == {w \in Watchers : IsOpen(w) /\ watch[w].cursor < n - Capacity}

\* The reader publishes the next change of its batch: the event takes the
\* slot of the oldest, and the watchers it overruns are disconnected.
Emit ==
    /\ emitted < fetched
    /\ emitted' = emitted + 1
    /\ ring' = [ring EXCEPT ![Slot(emitted')] = emitted']
    /\ watch' = [w \in Watchers |->
                    IF w \in Overrun(emitted') THEN [status |-> "Overrun"]
                                             ELSE watch[w]]
    /\ seen' = [w \in Watchers |->
                    IF w \in Overrun(emitted') THEN <<>> ELSE seen[w]]
    /\ UNCHANGED <<feed, fetched>>

\* Mutant of NewWatcher: the watcher starts one event past the newest.
NewWatcherPastTheEnd(w, keys) ==
    /\ ~IsOpen(w)
    /\ watch' = [watch EXCEPT ![w] = [status |-> "Open", keys |-> keys,
                                      start |-> emitted + 1, cursor |-> emitted + 1]]
    /\ seen' = [seen EXCEPT ![w] = <<>>]
    /\ UNCHANGED <<feed, fetched, emitted, ring>>

\* Mutant of NewWatcher: the watcher starts at the oldest slot of the buffer.
NewWatcherFromTheStart(w, keys) ==
    /\ ~IsOpen(w)
    /\ watch' = [watch EXCEPT ![w] = [status |-> "Open", keys |-> keys,
                                      start |-> 0, cursor |-> 0]]
    /\ seen' = [seen EXCEPT ![w] = <<>>]
    /\ UNCHANGED <<feed, fetched, emitted, ring>>

\* NewWatcher: b.buf.NewWatcher, a watcher that starts at the events
\* published from now on.
NewWatcher(w, keys) ==
    /\ ~IsOpen(w)
    /\ watch' = [watch EXCEPT ![w] = [status |-> "Open", keys |-> keys,
                                      start |-> emitted, cursor |-> emitted]]
    /\ seen' = [seen EXCEPT ![w] = <<>>]
    /\ UNCHANGED <<feed, fetched, emitted, ring>>

\* A watcher reads the next event; it hands it on if its prefix has the
\* key.
Receive(w) ==
    /\ IsOpen(w) /\ Backlog(w) > 0
    /\ LET event == ring[Slot(watch[w].cursor + 1)] IN
       /\ watch' = [watch EXCEPT ![w].cursor = @ + 1]
       /\ seen' = [seen EXCEPT ![w] =
                      IF feed[event] \in watch[w].keys THEN Append(@, event) ELSE @]
    /\ UNCHANGED <<feed, fetched, emitted, ring>>

\* CloseWatchers: b.buf.Clear() closes every watcher.
CloseWatchers ==
    /\ \E w \in Watchers : IsOpen(w)
    /\ watch' = [w \in Watchers |-> IF IsOpen(w) THEN [status |-> "Closed"]
                                                 ELSE watch[w]]
    /\ seen' = [w \in Watchers |-> <<>>]
    /\ UNCHANGED <<feed, fetched, emitted, ring>>

Next ==
    \/ \E k \in Keys : Commit(k)
    \/ Fetch
    \/ ReaderError
    \/ Emit
    \/ \E w \in Watchers :
          \/ \E keys \in SUBSET Keys \ {{}} : NewWatcher(w, keys)
          \/ Receive(w)
    \/ CloseWatchers

Spec == Init /\ [][Next]_vars

-----------------------------------------------------------------------------
TypeOK ==
    /\ feed \in Seq(Keys) /\ Len(feed) <= MaxChanges
    /\ emitted \in 0..Len(feed) /\ fetched \in emitted..Len(feed)
    /\ ring \in [0..(Capacity - 1) -> (1..MaxChanges) \cup {None}]
    /\ watch \in [Watchers -> Open \cup Stopped \cup {None}]
    /\ seen \in [Watchers -> Seq(1..MaxChanges)]

\* What w's watcher owes it: the changes to the keys of its prefix among
\* those published after it subscribed and read by now, in commit order.
Owed(w) ==
    SetToSortSeq({n \in (watch[w].start + 1)..watch[w].cursor :
                     feed[n] \in watch[w].keys}, <)

\* "Every committed Put/Delete produces exactly one corresponding event
\* observable by a watcher subscribed before the mutation, in commit
\* order": what a watcher that is still connected has handed on is every
\* change to its keys up to its cursor, once, in commit order, and none
\* from before its subscription.  The reader resuming after an error, the
\* buffer wrapping around and a slow watcher beside a fast one do not
\* lose, repeat or reorder an event.
DeliveredInCommitOrder ==
    \A w \in Watchers : IsOpen(w) => seen[w] = Owed(w)
=============================================================================
