---------------------------- MODULE PgbkLifecycle ----------------------------
(***************************************************************************)
(* The life of one Backend of lib/backend/pgbk/pgbk.go: the validation of  *)
(* its Config, NewWithConfig with each way it can fail, the two background *)
(* goroutines it starts, and Close.                                        *)
(*                                                                         *)
(* NewWithConfig runs before anybody else holds the Backend, so it is one  *)
(* step with several outcomes.  Close is four calls in a fixed order       *)
(* (cancel, wg.Wait, buf.Close, pool.Close), and between any two of them   *)
(* the background loops, the callers of the backend and a second Close     *)
(* take their own steps.                                                   *)
(***************************************************************************)
EXTENDS Integers, FiniteSets

CONSTANTS
    Callers,                    \* goroutines using the backend
    Closers,                    \* goroutines calling Close
    AuthModes,                  \* the auth_mode strings a configuration may hold
    Settings,                   \* the numbers a configuration may hold
    DefaultChangeFeedInterval,  \* defaultChangeFeedInterval
    DefaultChangeFeedBatchSize, \* defaultChangeFeedBatchSize
    DefaultExpiryInterval,      \* defaultExpiryInterval
    DefaultExpiryBatchSize,     \* defaultExpiryBatchSize
    None

ASSUME LifecycleAssumption ==
    /\ Settings \subseteq Int
    /\ \A d \in {DefaultChangeFeedInterval, DefaultChangeFeedBatchSize,
                 DefaultExpiryInterval, DefaultExpiryBatchSize} : d \in Nat \ {0}

VARIABLES
    result,     \* what the last NewWithConfig returned, None before the first
    cfg,        \* b.cfg, None until NewWithConfig has returned a Backend
    pool,       \* the pgxpool.Pool: "none", "open" or "closed"
    conns,      \* who holds a connection of the pool
    cancelled,  \* whether the context of the background loops is cancelled
    wg,         \* the counter of b.wg
    loops,      \* loops[l]: "absent", "idle", "busy" or "done"
    buf,        \* the CircularBuffer: "none", "open" or "closed"
    watchers,   \* the callers with a watcher on the buffer
    closer      \* closer[p]: how far p is in Close

vars == <<result, cfg, pool, conns, cancelled, wg, loops, buf, watchers, closer>>

Loops == {"expiry", "feed"}

\* StaticAuth and AzureADAuth.
StaticAuth  == ""
AzureADAuth == "azure"

\* The fields of Config that NewWithConfig reads, ConnString aside.
Config == [authMode : AuthModes,
           changeFeedPollInterval : Settings, changeFeedBatchSize : Settings,
           disableExpiry : BOOLEAN,
           expiryInterval : Settings, expiryBatchSize : Settings]

-----------------------------------------------------------------------------
\* AuthMode.Check: whether the mode is one of the two known ones.
AuthModeValid(a) == a \in {StaticAuth, AzureADAuth}

\* Mutant of Rejected: the expiry interval is not checked.
RejectedIgnoringExpiryInterval(c) ==
    \/ ~AuthModeValid(c.authMode)
    \/ c.changeFeedPollInterval < 0 \/ c.changeFeedBatchSize < 0
    \/ c.expiryBatchSize < 0

\* CheckAndSetDefaults returns an error.
Rejected(c) ==
    \/ ~AuthModeValid(c.authMode)
    \/ c.changeFeedPollInterval < 0 \/ c.changeFeedBatchSize < 0
    \/ c.expiryInterval < 0 \/ c.expiryBatchSize < 0

OrDefault(n, default) == IF n = 0 THEN default ELSE n

\* Mutant of WithDefaults: the expiry fields get the defaults of the change
\* feed, and the change feed those of the expiry.
WithDefaultsCrossed(c) ==
    [c EXCEPT !.changeFeedPollInterval = OrDefault(@, DefaultExpiryInterval),
              !.changeFeedBatchSize    = OrDefault(@, DefaultExpiryBatchSize),
              !.expiryInterval         = OrDefault(@, DefaultChangeFeedInterval),
              !.expiryBatchSize        = OrDefault(@, DefaultChangeFeedBatchSize)]

\* The Config as CheckAndSetDefaults leaves it when it returns nil.
WithDefaults(c) ==
    [c EXCEPT !.changeFeedPollInterval = OrDefault(@, DefaultChangeFeedInterval),
              !.changeFeedBatchSize    = OrDefault(@, DefaultChangeFeedBatchSize),
              !.expiryInterval         = OrDefault(@, DefaultExpiryInterval),
              !.expiryBatchSize        = OrDefault(@, DefaultExpiryBatchSize)]

-----------------------------------------------------------------------------
Init ==
    /\ result = None
    /\ cfg = None
    /\ pool = "none"
    /\ conns = {}
    /\ cancelled = FALSE
    /\ wg = 0
    /\ loops = [l \in Loops |-> "absent"]
    /\ buf = "none"
    /\ watchers = {}
    /\ closer = [p \in Closers |-> "idle"]

\* NewWithConfig returns the error of CheckAndSetDefaults.
NewWithConfigRejected(c) ==
    /\ cfg = None
    /\ Rejected(c)
    /\ result' = "BadParameter"
    /\ UNCHANGED <<cfg, pool, conns, cancelled, wg, loops, buf, watchers, closer>>

\* NewFromParams cannot decode the params: there is no Config to check.
NewFromParamsFailed ==
    /\ cfg = None
    /\ result' = "Error"
    /\ UNCHANGED <<cfg, pool, conns, cancelled, wg, loops, buf, watchers, closer>>

\* The calls of NewWithConfig that can fail before there is a pool:
\* pgxpool.ParseConfig, AzureBeforeConnect for the Azure mode only, and
\* pgxpool.NewWithConfig.  (TryEnsureDatabase, between them, returns
\* nothing: it tries, and logs.)
FailurePoints(c) ==
    {"ParseConfig", "NewPool"}
        \cup (IF c.authMode = AzureADAuth THEN {"AzureBeforeConnect"} ELSE {})

\* NewWithConfig returns the error of one of them, and leaves nothing behind.
NewWithConfigFailed(c) ==
    /\ cfg = None
    /\ ~Rejected(c)
    /\ \E call \in FailurePoints(c) : result' = "Error"
    /\ UNCHANGED <<cfg, pool, conns, cancelled, wg, loops, buf, watchers, closer>>

\* Mutant of NewWithConfigMigrateFailed: the pool is not closed on the way out.
MigrateFailedPoolLeftOpen(c) ==
    /\ cfg = None
    /\ ~Rejected(c)
    /\ pool' = "open"
    /\ result' = "Error"
    /\ UNCHANGED <<cfg, conns, cancelled, wg, loops, buf, watchers, closer>>

\* NewWithConfig has a pool and SetupAndMigrate fails: the pool is closed
\* and the error returned.
NewWithConfigMigrateFailed(c) ==
    /\ cfg = None
    /\ ~Rejected(c)
    /\ pool' = "closed"
    /\ result' = "Error"
    /\ UNCHANGED <<cfg, conns, cancelled, wg, loops, buf, watchers, closer>>

\* Mutant of NewWithConfig: wg.Add(1) for the expiry loop is outside the if.
NewWithConfigCountsExpiryAlways(c) ==
    /\ cfg = None
    /\ ~Rejected(c)
    /\ result' = "Backend"
    /\ cfg' = WithDefaults(c)
    /\ pool' = "open"
    /\ buf' = "open"
    /\ wg' = 2
    /\ loops' = [l \in Loops |->
                    IF l = "expiry" /\ c.disableExpiry THEN "absent" ELSE "idle"]
    /\ UNCHANGED <<conns, cancelled, watchers, closer>>

\* NewWithConfig returns a Backend: the Config with its defaults, the pool,
\* the buffer, and a goroutine for the change feed and, unless it is
\* disabled, one for the expiry, each counted in wg.
NewWithConfig(c) ==
    /\ cfg = None
    /\ ~Rejected(c)
    /\ result' = "Backend"
    /\ cfg' = WithDefaults(c)
    /\ pool' = "open"
    /\ buf' = "open"
    /\ wg' = IF c.disableExpiry THEN 1 ELSE 2
    /\ loops' = [l \in Loops |->
                    IF l = "expiry" /\ c.disableExpiry THEN "absent" ELSE "idle"]
    /\ UNCHANGED <<conns, cancelled, watchers, closer>>

-----------------------------------------------------------------------------
(* The background goroutines: backgroundExpiry and backgroundChangeFeed.   *)

\* A loop wakes up and takes a connection for its statement.
LoopWork(l) ==
    /\ loops[l] = "idle" /\ ~cancelled
    /\ pool = "open"
    /\ loops' = [loops EXCEPT ![l] = "busy"]
    /\ conns' = conns \cup {l}
    /\ UNCHANGED <<result, cfg, pool, cancelled, wg, buf, watchers, closer>>

\* The statement is over (or cut short by the cancellation); the feed has
\* handed what it read to the buffer.
LoopWorkDone(l) ==
    /\ loops[l] = "busy"
    /\ loops' = [loops EXCEPT ![l] = "idle"]
    /\ conns' = conns \ {l}
    /\ UNCHANGED <<result, cfg, pool, cancelled, wg, buf, watchers, closer>>

\* The loop sees its context cancelled and returns: defer b.wg.Done().
LoopExit(l) ==
    /\ loops[l] = "idle" /\ cancelled
    /\ loops' = [loops EXCEPT ![l] = "done"]
    /\ wg' = wg - 1
    /\ UNCHANGED <<result, cfg, pool, conns, cancelled, buf, watchers, closer>>

-----------------------------------------------------------------------------
(* The callers: a method that runs a statement, and the watchers.          *)

\* b.pool.Exec / SendBatch of a method: a connection is taken.  On a closed
\* pool the method returns an error and nothing changes.
Exec(c) ==
    /\ cfg # None /\ pool = "open"
    /\ c \notin conns
    /\ conns' = conns \cup {c}
    /\ UNCHANGED <<result, cfg, pool, cancelled, wg, loops, buf, watchers, closer>>

\* ... and given back when the statement is over.
ExecDone(c) ==
    /\ c \in conns
    /\ conns' = conns \ {c}
    /\ UNCHANGED <<result, cfg, pool, cancelled, wg, loops, buf, watchers, closer>>

\* NewWatcher: b.buf.NewWatcher.  A closed buffer gives an error.
NewWatcher(c) ==
    /\ cfg # None /\ buf = "open"
    /\ c \notin watchers
    /\ watchers' = watchers \cup {c}
    /\ UNCHANGED <<result, cfg, pool, conns, cancelled, wg, loops, buf, closer>>

\* CloseWatchers: b.buf.Clear() closes every watcher, the buffer stays.
CloseWatchers ==
    /\ cfg # None /\ watchers # {}
    /\ watchers' = {}
    /\ UNCHANGED <<result, cfg, pool, conns, cancelled, wg, loops, buf, closer>>

-----------------------------------------------------------------------------
(* Close, call by call.                                                    *)

At(p, where) == cfg # None /\ closer[p] = where

Reach(p, where) == closer' = [closer EXCEPT ![p] = where]

\* b.cancel()
CloseCancel(p) ==
    /\ At(p, "idle")
    /\ cancelled' = TRUE
    /\ Reach(p, "cancelled")
    /\ UNCHANGED <<result, cfg, pool, conns, wg, loops, buf, watchers>>

\* Mutant of CloseWait: Close goes on without waiting for the loops.
CloseWithoutWait(p) ==
    /\ At(p, "cancelled")
    /\ Reach(p, "waited")
    /\ UNCHANGED <<result, cfg, pool, conns, cancelled, wg, loops, buf, watchers>>

\* b.wg.Wait() returns once the counter is zero.
CloseWait(p) ==
    /\ At(p, "cancelled")
    /\ wg = 0
    /\ Reach(p, "waited")
    /\ UNCHANGED <<result, cfg, pool, conns, cancelled, wg, loops, buf, watchers>>

\* b.buf.Close(): the watchers are closed with the buffer.
CloseBuf(p) ==
    /\ At(p, "waited")
    /\ buf' = "closed"
    /\ watchers' = {}
    /\ Reach(p, "bufclosed")
    /\ UNCHANGED <<result, cfg, pool, conns, cancelled, wg, loops>>

\* b.pool.Close() begins: the pool takes no new work.
ClosePool(p) ==
    /\ At(p, "bufclosed")
    /\ pool' = "closed"
    /\ Reach(p, "draining")
    /\ UNCHANGED <<result, cfg, conns, cancelled, wg, loops, buf, watchers>>

\* b.pool.Close() returns when every connection has come back, and so does
\* Close.
CloseReturn(p) ==
    /\ At(p, "draining")
    /\ conns = {}
    /\ Reach(p, "done")
    /\ UNCHANGED <<result, cfg, pool, conns, cancelled, wg, loops, buf, watchers>>

Close(p) ==
    \/ CloseCancel(p) \/ CloseWait(p) \/ CloseBuf(p) \/ ClosePool(p) \/ CloseReturn(p)

-----------------------------------------------------------------------------
Next ==
    \/ NewFromParamsFailed
    \/ \E c \in Config :
          \/ NewWithConfigRejected(c) \/ NewWithConfigFailed(c)
          \/ NewWithConfigMigrateFailed(c) \/ NewWithConfig(c)
    \/ \E l \in Loops : LoopWork(l) \/ LoopWorkDone(l) \/ LoopExit(l)
    \/ \E c \in Callers : Exec(c) \/ ExecDone(c) \/ NewWatcher(c)
    \/ CloseWatchers
    \/ \E p \in Closers : Close(p)

\* Goroutines that can run do run, and a statement comes to an end (it has
\* the context of its caller, and the loops' one is cancelled by Close).
\* Nothing obliges a loop to wake up, a caller to call or anyone to close.
Fairness ==
    /\ \A l \in Loops : WF_vars(LoopWorkDone(l)) /\ WF_vars(LoopExit(l))
    /\ \A c \in Callers : WF_vars(ExecDone(c))
    /\ \A p \in Closers :
          WF_vars(CloseWait(p) \/ CloseBuf(p) \/ ClosePool(p) \/ CloseReturn(p))

Spec == Init /\ [][Next]_vars /\ Fairness

-----------------------------------------------------------------------------
Progress == {"idle", "cancelled", "waited", "bufclosed", "draining", "done"}

TypeOK ==
    /\ result \in {None, "BadParameter", "Error", "Backend"}
    /\ cfg \in [authMode : AuthModes,
                changeFeedPollInterval : Settings \cup {DefaultChangeFeedInterval},
                changeFeedBatchSize : Settings \cup {DefaultChangeFeedBatchSize},
                disableExpiry : BOOLEAN,
                expiryInterval : Settings \cup {DefaultExpiryInterval},
                expiryBatchSize : Settings \cup {DefaultExpiryBatchSize}] \cup {None}
    /\ pool \in {"none", "open", "closed"}
    /\ conns \subseteq Callers \cup Loops
    /\ cancelled \in BOOLEAN
    /\ wg \in 0..2
    /\ loops \in [Loops -> {"absent", "idle", "busy", "done"}]
    /\ buf \in {"none", "open", "closed"}
    /\ watchers \subseteq Callers
    /\ closer \in [Closers -> Progress]

\* A Backend that NewWithConfig returned runs with intervals and batch
\* sizes that are positive and with a known auth mode: the tickers of the
\* loops are made from the intervals and the LIMIT of their statements from
\* the batch sizes.  CheckAndSetDefaults has to refuse or replace every
\* other value before the loops start.
RunsWithUsableConfig ==
    cfg # None =>
        /\ AuthModeValid(cfg.authMode)
        /\ \A n \in {cfg.changeFeedPollInterval, cfg.changeFeedBatchSize,
                     cfg.expiryInterval, cfg.expiryBatchSize} : n > 0

\* A NewWithConfig that returns an error leaves no pool open: the failure
\* of SetupAndMigrate comes after the pool was made and must close it.
FailedStartLeavesNoPool == cfg = None => pool # "open"

\* The teardown is ordered: while a background loop is in a statement the
\* pool is open and the buffer it feeds is open.  Close must have seen both
\* loops return (cancel, then wg.Wait) before it closes either, whatever a
\* second Close does in the meantime.
LoopsStopBeforeTeardown ==
    \A l \in Loops : loops[l] = "busy" => pool = "open" /\ buf = "open"

\* Close returns: the loops see the cancellation and leave, wg.Wait sees
\* the counter reach zero, and the pool gets its connections back.  It is
\* the count in wg against the goroutines really started that decides it.
CloseReturns ==
    \A p \in Closers : closer[p] = "cancelled" ~> closer[p] = "done"
=============================================================================
