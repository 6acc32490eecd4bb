# TLA+ models of the PostgreSQL backend and the Connect daemon

This directory holds TLA+ specifications of the stateful, concurrent parts of
the repository (the PostgreSQL backend and the Connect daemon) and of the
command execution tool's input validation, the TLC configurations that check
them, and `PROJECT.json`,
which ties every definition to the lines of source it models.

Run a configuration with

    tlc -workers 2 -config <file>.cfg <module>

for instance `tlc -workers 2 -config PgbkStorePoint.cfg MCPgbkStore`; the
module of each configuration is in the table of section 4.

## 1. The system's parts

| Part | Source | State | Operations |
|---|---|---|---|
| Key-value methods of the PostgreSQL backend | `lib/backend/pgbk/pgbk.go` 231-502 | the `kv` table (key, value, expires nullable, revision); the database clock | `Create`, `Put`, `CompareAndSwap`, `Update`, `Get`, `GetRange`, `Delete`, `DeleteRange`, `KeepAlive` |
| Retry layer | `pgcommon.Retry`, `pgcommon.RetryIdempotent` (called from `pgbk.go`, defined elsewhere) | attempts of a call | run the statement again after an abort; after a lost answer only for reads |
| Expiry sweeper | `backgroundExpiry` (started at `pgbk.go` 195-201, defined elsewhere) | the `kv` table | delete a batch of expired rows every interval |
| Change feed and watch buffer | `backgroundChangeFeed` (started at 203-207), `backend.CircularBuffer` | replication slot, buffer, watchers | poll changes, emit events, `NewWatcher`, `CloseWatchers` |
| Configuration and lifecycle | `pgbk.go` 56-229 | `Config`, the pool, the cancel function, `b.wg`, the buffer | `CheckAndSetDefaults`, `NewFromParams`, `NewWithConfig`, `Close` |
| Gateways of the Connect daemon | `lib/teleterm/daemon/daemon.go` 250-300, 355-495, 648-656, 811-827 | `s.gateways` under `s.mu`; each gateway's listener | `CreateGateway`, `RemoveGateway`, `ListGateways`, `SetGatewayTargetSubresourceName`, `SetGatewayLocalPort`, `Stop` |
| Certificate renewal, relogin, modal semaphore | `daemon.go` 81-135, 303-352, 679-713, 871-898 | `reloginMu`, `importantModalSemaphore` (`semC`, `lastRelease`), `tshdEventsClient` | `reissueGatewayCerts`, `retryWithRelogin`, `relogin`, `notifyApp`, `Acquire`, `Release`, `UpdateAndDialTshdEventsServerAddress` |
| Clusters of the daemon | `daemon.go` 138-247 | profiles in `clusters.Storage` (elsewhere) | `AddCluster`, `RemoveCluster`, `ClusterLogout`, `ResolveCluster`, list calls |
| Pass-through RPCs of the daemon | `daemon.go` 498-645, 715-809 | none in the daemon | resolve the cluster, call it |
| Command execution tool | `lib/ai/model/tools/commandexec.go` | none | `ParseInput` |
| Connect My Computer service | `unnamed/part_001` (TypeScript) | agent process, config file | `createAgentConfigFile`, `runAgent`, ... |
| Documentation, Terraform, Makefiles, workflow, tests, UI story | the other files | none | none |

### How the parts interact

* Every backend method draws a revision, then hands one SQL statement to the
  retry layer, which runs it as a serializable transaction on a connection of
  the pool. Callers, the sweeper and the database clock interleave between any
  two attempts. What a row means is decided inside each statement, by its
  `WHERE` clause against the database's `now()`: the table keeps rows past their
  expiry until the sweeper, a `Create` or a `DeleteRange` removes them.
* `NewWithConfig` validates the configuration, makes the pool, migrates the
  schema, and starts the feed goroutine and, unless `DisableExpiry`, the
  sweeper, counting them in `b.wg`. `Close` cancels their context, waits for
  `b.wg`, closes the buffer, closes the pool, in that order.
* In the daemon every gateway call holds `s.mu`. A gateway's own goroutine
  calls back into `reissueGatewayCerts` when its certificate has expired; that
  path holds no `s.mu` and meets the other gateways at `reloginMu` and the
  headless logins at the modal semaphore.

### What is hard here

* A statement committed whose answer is lost; a write retried after another
  client's write; the revision drawn before the retry loop.
* The row whose `expires` equals `now()`, sitting between the `<=` of
  `Create`'s `ON CONFLICT` and the `>` of every other `WHERE`.
* Expiries computed on the caller's clock and judged by the database's.
* `Close` racing the background loops, the callers and a second `Close`.
* A port change that fails half way; gateways closed by `Stop` that are still
  in the map.
* Two gateways and a headless login contending for one modal; `lastRelease`
  written and read without a lock; locks held across a sleep and a user's
  minute of thought.

`PROJECT.json` lists these as hazards, each at its line, with the properties
that cover it.

## 2. The plan

Modules are built in the order of what matters most to a user of the code.

| Order | Module | Models | State |
|---|---|---|---|
| 1 | `BackendTypes`, `BackendSpec` | what the backend promises: a map with instant expiry and atomic calls | done |
| 2 | `PgbkStore` | the `kv` table and the nine methods, retry layer, sweeper statement | done |
| 3 | `PgbkLifecycle` | configuration, start-up, background goroutines, `Close` | done |
| 4 | `DaemonGateways` | the gateway map and the gateway calls | done |
| 5 | `DaemonRelogin` | certificate renewal, relogin, the modal semaphore | done |
| 6 | `PgbkFeed` | the change feed and the circular buffer, from the specification: one event per change, in commit order, overrun watchers closed | done |
| 7 | `Daemon` | `DaemonGateways` and `DaemonRelogin` over the same gateway objects: a certificate reissued for a gateway that was replaced or removed meanwhile | not modelled, see section 8 |
| 8 | `DaemonClusters` | the cluster calls and the pass-through RPCs over a storage modelled from the specification, served by concurrent goroutines | done |
| 9 | `CommandExec` | `ParseInput` as operators against a reference definition | done |
| 10 | `MCPgbkCas` | `PgbkStore` with a history of concurrent swaps, for the specification's claim about concurrent `CompareAndSwap` | done |

Composition: `PgbkStore` instantiates `BackendSpec` under a refinement mapping
and checks its specification as a property. `PgbkLifecycle` stands beside
`PgbkStore`: it abstracts every method to "holds a connection", which is all
`Close` can tell apart. `PgbkFeed` stands beside both: it takes the committed
changes as a sequence, whatever call made them, and `CloseWatchers` as
`PgbkLifecycle` has it. The three daemon modules share no variable: gateways
are guarded by `s.mu`, the relogin machinery by `reloginMu` and the semaphore,
and the cluster calls by nothing.

## 3. The modules and the code

### BackendTypes and BackendSpec

`BackendTypes` has the data of the interface: items, leases, the nine requests,
the answers. `BackendSpec` is the contract: `store` maps a key to an item or
`None`; an item is gone at the tick its expiry is reached; a call is invoked,
takes effect in one step, and is answered. A call answered with `Error` may or
may not have taken effect. Nothing in it comes from SQL.

### PgbkStore

| Code | Model |
|---|---|
| the `kv` table | `kv[k]`: a `Row` (value, expires or `NULL`, revision) or `None` |
| `now()` of the database | `now`, advanced by `Tick` up to `MaxTime` |
| `newRevision()` | `nextRev`, a counter; `MaxRevision` bounds the calls that write |
| a method in flight | `call[c]`: request, revision, attempts |
| `zeronull.Timestamptz(t)` / `time.Time(expires)` | `ZeroNull` / `NullZero`: zero time to `NULL` and back |
| `expires IS NULL OR expires > now()` | `Live` |
| `expires IS NOT NULL AND expires <= now()` | `Expired` |
| each method's statement with its result handling | `Create`, `Put`, `CompareAndSwap`, `CompareAndSwapMismatch` (the key check before any statement), `Update`, `Get`, `GetRange`, `Delete`, `DeleteRange`, `KeepAlive` |
| `pgcommon.Retry` / `RetryIdempotent` | `TxAbort` (nothing happened, try again), `AckLost` (it happened, the answer did not arrive: reads run again, writes return an error), `Again` (the attempt bound) |
| the sweeper's statement | `DeleteExpired`, at most `ExpiryBatchSize` rows |

An action is one attempt: the statement and what the method does with its
result are one step, because the statement is one serializable transaction and
the rest is local to the goroutine.

The refinement mapping shows callers the live rows only:
`store <- Visible`, `clock <- now`, `pending <- Requested`.

### PgbkLifecycle

| Code | Model |
|---|---|
| `Config` fields read by `NewWithConfig` | the record `Config` over `AuthModes` and `Settings` |
| `AuthMode.Check`, `CheckAndSetDefaults` | `AuthModeValid`, `Rejected`, `WithDefaults` |
| `NewFromParams`, `NewWithConfig` | one action per way out: `NewFromParamsFailed` (the params do not decode), `NewWithConfigRejected` (bad configuration), `NewWithConfigFailed` (one of `FailurePoints`: connection string, Azure hook in the Azure mode, pool), `NewWithConfigMigrateFailed` (pool made, migration fails, pool closed), `NewWithConfig` |
| the two goroutines | `loops[l]` with `LoopWork`, `LoopWorkDone`, `LoopExit` |
| `b.wg` | `wg` |
| a method's `b.pool.Exec` or `SendBatch` | `Exec`, `ExecDone`: a connection taken and given back, as the pool (outside the source tree) does for every method alike |
| `NewWatcher`, `CloseWatchers` | the set `watchers` |
| `Close`, four calls | `CloseCancel`, `CloseWait`, `CloseBuf`, `ClosePool`, `CloseReturn`, per closing goroutine |

`NewWithConfig` is one step because nobody else holds the backend before it
returns. `Close` is a step per call because everything else can run between
two of them. `ClosePool` and `CloseReturn` are the two halves of `pool.Close()`,
which blocks until every connection is given back.

### DaemonGateways

| Code | Model |
|---|---|
| `s.gateways` | `gateways[u]`: the object under URI `u`, or `None` |
| a `gateway.Gateway` | `gw[o]`: URI, target, port, subresource name, listener open, `Serve` running |
| `CreateGateway`, `createGateway`, `shouldReuseGateway`, `findGatewayByTargetURI` | `CreateGateway(t, port)` with its four ways out |
| `RemoveGateway`, `removeGateway`, `findGateway` | `RemoveGateway(u)` |
| `SetGatewayLocalPort` | `PortChangeRefused` (new gateway cannot be made), `PortChangeAbandoned` (old gateway cannot be closed, new one closed again), `PortChanged` |
| `Stop` | closes every gateway of the map, cancels, leaves the map |

Each call is one step: the public methods hold `s.mu` from start to end.
`gateway.NewWithLocalPort`, `Close` and the port a listener gets are in the
gateway package, outside the source tree, and are modelled by what the daemon
relies on: a port can be bound if no open gateway has it, and `Close` fails on
a gateway that is closed.

### DaemonRelogin

| Code | Model |
|---|---|
| a gateway goroutine in `reissueGatewayCerts` | `pc[g]`, `try[g]`, `err[g]`, `result[g]` |
| `reissueDBCerts` | `Reissued` (needs a valid user certificate), `ReissueFailed` |
| `retryWithRelogin` | `ReissueFailed` (which errors lead to a relogin), `Unlock` (second call of `fn` or the error) |
| `relogin` | `TryLock`, `Acquire` / `AcquireCancelled`, `Wake`, `ReloginAnswered`, `Release`, `Unlock` in the order of the deferred calls |
| `waitSemaphore` | `semC[n]` (the tokens in the channel of the `n`-th semaphore), `sinceRelease[n]` (age of its `lastRelease`), `sleep[a]` |
| `s.importantModalSemaphore`, read at `Acquire` and again at the deferred `Release` | `sem` (how many semaphores were made; the field holds the last), `using[a]` set by `Bind(a)` when a goroutine reaches the statement |
| `Release`, two lines | `Stamp` then `Receive`, two steps |
| `notifyApp` | `NotifyApp` |
| `UpdateAndDialTshdEventsServerAddress` | fails and leaves the field alone, or makes a new semaphore; at most `MaxDials` of them |
| a headless login | `HeadlessPending`, `Acquire`, `Wake`, `HeadlessAnswered`, `Release` |

Time is kept as ages capped at `WaitDuration`: the code only asks whether
`waitDuration - time.Since(lastRelease)` is positive and how long it is, so an
age beyond the wait duration is the same as any other. A zero `lastRelease` is
an age at the cap. `sinceModal` is a history variable, the age of the last
answer to a modal; only `ModalsAreSpacedApart` reads it.

`relogin` reads the field `importantModalSemaphore` without holding `s.mu`,
once for `Acquire` and once more when the `defer` statement is executed,
after `Acquire` has returned. `Bind` is therefore part of the step that
reaches `Acquire` and of `Wake`, the step that leaves it: `using[a]` is the
semaphore the goroutine waits on, and from `Wake` on the one its `Release`
will be called on.

### DaemonClusters

| Code | Model |
|---|---|
| the profiles of `clusters.Storage`, the session in a profile's keys | `profiles`, `session[c]` (a generation number, 0 for none), `logins` |
| `headlessWatcherClosers` | `watchers` |
| a goroutine serving a call of the app | `rpc[r]`: the operation, the cluster as `ResolveCluster` returned it, the place in the method |
| `ResolveCluster`, `resolveCluster` | `ResolveCluster(path)`, `resolveCluster(c)`: the profile as the disk holds it now; `ResolveError` |
| `RemoveCluster` | `RemoveCluster` (resolve), `RemoveClusterLogout` (`cluster.Logout` if connected, with its error), `RemoveClusterProfile` (`Storage.Remove`) |
| `ClusterLogout` | `ClusterLogout`, `ClusterLogoutLogout`, `ClusterLogoutStopWatcher` (the watcher stopped, or, with `StopWatcherFails`, an error of `StopHeadlessWatcher` other than `NotFound` returned) |
| `AddCluster`, `ListRootClusters`, `ListLeafClusters` | one action each |
| the RPCs that resolve the cluster and call it | `Forward`, `ForwardWithId` (the early return on a missing id), under the names of the methods |
| `GetGatewayCLICommand`, `ReportUsageEvent` | one action each |
| the three Connect My Computer calls | the call, then `ConnectToProxy`, `ConnectToCluster`, `RunWithClients`, with `clients[r]` the clients connected and not yet closed |
| `UpdateAndDialTshdEventsServerAddress`, `Stop` | start and stop of the headless watchers |
| `Login`, served by a handler outside `daemon.go` | `Login(c)`, a step of the environment |

None of these methods takes `s.mu`, so a method is cut wherever it calls the
disk or the cluster: the cluster a call holds is the one it resolved, however
the disk has changed since. `resp` holds what the last call returned.

### PgbkFeed

`pgbk.go` makes the buffer (`backend.NewCircularBuffer`, line 191), starts the
reader (203-207) and hands `NewWatcher` and `CloseWatchers` to the buffer. The
reader's loop and the buffer are written in other files and are modelled from
the specification; `PROJECT.json` marks those definitions.

| Specification | Model |
|---|---|
| the changes committed to `kv`, in commit order | `feed`, a sequence of keys; `Commit(k)` |
| the reader polls `ChangeFeedBatchSize` changes at a time | `Fetch`, `fetched` |
| each change becomes one event | `Emit`, `emitted`; change n is event n |
| a fixed-capacity circular buffer | `ring`, a function on `0..Capacity-1`; `Slot(n)` |
| a watcher with a prefix and a cursor of its own | `watch[w]`: `keys`, `start`, `cursor`; `Receive(w)` hands on to `seen[w]` |
| a watcher that falls behind is disconnected | `Overrun(n)`, applied by `Emit` |
| the reader retries after an error, dropping nothing | `ReaderError`: back to the last published change |

The ring holds event numbers, so that a watcher reading a slot that has been
written over reads a number that is not the one it is owed.

### CommandExec and MCPgbkCas

`CommandExec` has `ParseInput` as an operator: `ParseJSONFromModel` decodes an
object whose fields may be missing, null or empty into the zero values Go
gives them, then the two checks follow in the order of the code. `Plan` and
`Parse` are the agent planning the tool and leaving its loop with the result.

`MCPgbkCas` extends `MCPgbkStore` with one history variable, `rivals[c]`: the
other clients whose `CompareAndSwap` with the same expected value succeeded
while `c`'s call was in flight. It changes nothing of `PgbkStore`.

## 4. The runs

| Run | Configuration | Result | States |
|---|---|---|---|
| `store_point` | `PgbkStorePoint.cfg` | holds | 71,756 |
| `store_range` | `PgbkStoreRange.cfg` | holds | 24,304 |
| `lifecycle` | `PgbkLifecycle.cfg` | holds | 31,429 |
| `gateways` | `DaemonGateways.cfg` | holds | 103,984 |
| `gateways_stop` | `DaemonGatewaysStop.cfg` | violated, as expected | |
| `relogin` | `DaemonRelogin.cfg` | holds | 27,393 |
| `relogin_redial` | `DaemonReloginRedial.cfg` | violated, as expected | |
| `clusters` | `DaemonClusters.cfg` (module `MCDaemonClusters`) | holds | 414,653 |
| `clusters_watchers` | `DaemonClustersWatchers.cfg` | violated, as expected | |
| `store_cas` | `PgbkStoreCas.cfg` (module `MCPgbkCas`) | violated, as expected | |
| `feed` | `PgbkFeed.cfg` (module `PgbkFeed`) | holds | 99,683 |
| `commandexec` | `CommandExec.cfg` (module `CommandExec`) | holds | 1,078 |

### store_point and store_range

* `ImplementsBackend`: every behaviour of the table, seen through `Visible`,
  is a behaviour of `BackendSpec`. This covers the boundary `expires = now()`,
  writes whose answer is lost, statements retried after other clients' writes,
  `Create` over an expired row, and the sweeper and `DeleteRange` removing rows
  that no caller could see.
* `RevisionStampsEveryWrite`: a row never changes without getting a revision
  that no row of the table has.

`store_point` runs every single-key method on one key: all the races of the
contract are races on one row. Two values tell a `CompareAndSwap` that matches
from one that does not; expiries 0 (never) and 2 lie on both sides of a clock
that runs from 1 to 3, so rows are written live, expire, and are written
already expired. Two attempts are enough for a retry after another client's
write. `store_range` adds a second key and the range methods, with limits 0
(replaced by the default, 1) and 2, so a read is cut short by the default, by
its own limit, and not at all. It checks `ImplementsBackend` alone: the type
invariant and the revisions are checked once, in `store_point`.

Items that are expired when they are written are part of both runs: the
backend stores whatever expiry it is given and returns a lease, and the row is
invisible from the start. `BackendSpec` says the same of such an item, so the
refinement shows that the row behaves as no item at all in every later call.

### lifecycle

* `RunsWithUsableConfig`: a backend that runs has positive intervals and batch
  sizes and a known auth mode.
* `FailedStartLeavesNoPool`: a `NewWithConfig` that returned an error left no
  open pool.
* `LoopsStopBeforeTeardown`: a background loop in its statement has an open
  pool and an open buffer.
* `CloseReturns`: a `Close` that has cancelled the context returns.

Settings -1, 0 and 5 give a rejected, a defaulted and a kept value for each of
the four numbers; auth modes `""`, `"azure"` and `"ldap"` the two valid and an
invalid one. Two callers and two closers give a second `Close` and a caller
between any two calls of `Close`.

### gateways

* `ListedGatewaysAreOpen`: until `Stop`, every entry of the map is an open
  gateway under its own URI.
* `OpenGatewaysAreListed`: no listener is open outside the map.
* `OneGatewayPerKubeTarget`: the map never has two gateways for one kube
  cluster.
* `FailedPortChangeKeepsGateway`: a `SetGatewayLocalPort` that returns an error
  has changed neither the map nor an open gateway.

Three gateway objects allow two gateways and a port change, or one gateway and
two port changes; two ports make a port taken or free; one database target and
one kube target separate the targets that are shared from those that are not.

### gateways_stop

`RemoveGatewayNeverFailsToClose` states the comments of `removeGateway` and
`SetGatewayLocalPort`: closing a gateway of the map does not fail short of a
race. It fails without one: `Stop` closes the gateways and keeps their
entries, and a `RemoveGateway` served afterwards returns the error and cannot
remove the entry.

### relogin

* `OneImportantModalAtATime`: never more than `maxConcurrentImportantModals`
  unanswered modals, relogins and headless logins together.
* `ModalsAreSpacedApart`: a modal is requested no sooner than the wait duration
  after the last one was answered.
* `ReloginsDoNotQueue`: while one gateway is anywhere in `relogin`, no other
  is.
* `ReissueReturns`: every `reissueGatewayCerts` returns.

Two gateways give the goroutine that is turned away by `TryLock`; the headless
login gives the semaphore a second kind of user, so that a relogin waits for
the slot and sleeps for part of the wait duration. A wait duration of two
ticks gives sleeps of zero, one and two ticks. `MaxDials` is 1: the app
dials once, at start-up, as the comment of the method describes.

### relogin_redial

The comment of `importantModalSemaphore` says that one important modal is
shown at a time. With `MaxDials` 2 TLC finds `OneImportantModalAtATime`
violated: a gateway acquires the first semaphore, the address is updated
again, a headless login acquires the second, and both modals are up. The
daemon itself never refuses a second call; the property holds because the
app makes none.

### clusters

* `RemovedClusterWasLoggedOut`: a `RemoveCluster` that deletes a profile has
  logged out the session it found when it resolved the cluster, even when
  another call logs the cluster out, removes it or the user logs in again in
  between.
* `ClientsClosedOnReturn`: a Connect My Computer call that has returned has
  closed the proxy client and the auth client, on every way out.

Two goroutines and two clusters give a call overtaken by another on the same
cluster and on a different one; `MaxLogins` 2 gives a session that is replaced
while a call holds the old one.

### clusters_watchers

`WatchersFollowSessions` says what the comment of
`UpdateAndDialTshdEventsServerAddress` and `ClusterLogout` together imply: a
headless watcher runs only for a cluster with a session. TLC finds
`RemoveCluster`, which logs out and never stops the watcher. The run has
`StopWatcherFails` FALSE: a `ClusterLogout` whose `StopHeadlessWatcher` fails
leaves a watcher too, which is no news.

### store_cas

`OneSwapPerExpected` is the specification's "concurrent CAS from two callers
with the same expected results in exactly one success". TLC finds two calls
that both swap: the statement compares the stored value with the expected one
and nothing else, and the first swap wrote the expected value again.

### feed

* `DeliveredInCommitOrder`: what a connected watcher has handed on is every
  change to its keys between its subscription and its cursor, once, in commit
  order.

The run checks the ring and the cursors of the specification's design, not
code of `pgbk.go`. That a watcher is overrun exactly at a full buffer, and
that the reader publishes every change, are not checked: in a model written
from the specification the first is the guard of `Overrun` said again, and
the second follows from the fairness one would assume of the reader.

Four changes through a buffer of two wrap the ring twice; batches of two give
a reader that fails between the two events of a batch; two watchers give a
slow one beside a fast one; two keys give a prefix that leaves events out.

### commandexec

`SuggestsWhatCanRun`: `ParseInput` returns a command exactly for the inputs
that name a command and at least one node or label, with the fields as the
model wrote them, over all spellings of each of the three fields (missing,
null, empty, given).

### Mutants

Every property of a passing run has a mutant in `PROJECT.json`: a definition of
the model changed the way a bug in the code would change it (the `<=` of
`Expired` turned into `<`, `wg.Wait` left out of `Close`, `Release` freeing the
slot before it writes `lastRelease`, ...). Each mutant is defined next to the
definition it replaces, and each makes TLC report its property violated under
the run's own configuration. In `PgbkFeed` three of the four mutants change the
reader or the buffer, which are modelled from the specification.

## 5. Bounds

| Bound | Where | Why it is enough |
|---|---|---|
| `MaxTime` 3 / 2 | store runs | with the clock from 1 to 3 an expiry of 2 is ahead, reached and past; the range run stops at 2, ahead and reached |
| `MaxRevision` 3 / 2 | store runs | caps the writing calls of a behaviour; three writes give write, overwrite and a racing write |
| `MaxAttempts` 2 | store runs | one retry is where a statement meets a table changed since its first attempt |
| `ExpiryBatchSize` 1 | store runs | with two keys the sweeper leaves an expired row behind |
| `Settings` {-1, 0, 5} | lifecycle | one value per branch of `CheckAndSetDefaults` |
| `MaxGateways` 3 | gateways | counts gateway objects ever made; see above |
| `WaitDuration` 2 | relogin | the smallest with a partial sleep |
| `MaxDials` 1 / 2 | relogin / relogin_redial | one semaphore, as the app's start-up makes it; two, the smallest number with a semaphore replaced while in use |
| `Clusters` 2, `Requests` 2 | clusters | two calls on one cluster, and on two |
| `MaxLogins` 2 | clusters | a session, and the one that replaces it |
| `MaxEvents` 1 | clusters | the usage reporter's queue empty and not; the code has no limit, the bound only keeps the counter finite |
| `StopWatcherFails` TRUE / FALSE | clusters / clusters_watchers | the error path of `ClusterLogout` is taken in the passing run; the violation is shown with a `StopHeadlessWatcher` that never fails, so that it is `RemoveCluster`'s alone |
| `Capacity` 2, `ChangeFeedBatchSize` 2 | feed | the smallest ring that wraps with an event still unread, the smallest batch that can be cut in two |
| `MaxChanges` 4 | feed | two turns of the ring |
| `Commands` 1, `Nodes` 2, `Labels` 1 | commandexec | the checks ask only whether a field is empty |

Deadlock checking is on for every run but `lifecycle`: a backend that is
closed, or never started, has nothing left to do.

## 6. Fairness

`PgbkLifecycle` and `DaemonRelogin` have liveness properties, and only they
assume fairness.

* `PgbkLifecycle`: weak fairness of `LoopWorkDone` and `ExecDone` (a statement
  ends: the cancelled context cuts it short), of `LoopExit` (a loop selects on
  its context), and of the steps of `Close` after the cancellation. Nothing
  obliges anyone to call `Close`, a method or `NewWatcher`.
* `DaemonRelogin`: weak fairness of each step of a goroutine, of the answer to
  a call to the app (`relogin` gives it `reloginUserTimeout`, `notifyApp`
  `tshdEventsTimeout`), and of the clock. Strong fairness of `Acquire`: the Go
  runtime serves the senders blocked on a channel in the order they came, so a
  goroutine is not passed over for ever by later arrivals. Nothing obliges a
  certificate to expire, a headless login to come or a context to be
  cancelled.

The runs with a liveness property use no symmetry set.

## 7. Findings

1. `daemon.go:655`: `Stop` leaves closed gateways in `s.gateways`; the error
   that `removeGateway`'s comment attributes to a race is returned by any
   `RemoveGateway` or `SetGatewayLocalPort` served after `Stop`
   (run `gateways_stop`).
2. `daemon.go:190`: `RemoveCluster` logs a cluster out and removes its
   profile without stopping the cluster's headless watcher, which
   `ClusterLogout` does; the watcher runs on until `Stop`
   (run `clusters_watchers`).
3. `pgbk.go:303`: two concurrent `CompareAndSwap` calls with the same expected
   value both succeed when the first leaves the expected value in place; the
   specification says exactly one does (run `store_cas`).
4. `daemon.go:696`: every `UpdateAndDialTshdEventsServerAddress` makes a new
   semaphore. That one important modal is shown at a time depends on the app
   calling it once; after a second call two modals can be up, and a
   goroutine that acquired the old semaphore releases the new one
   (run `relogin_redial`).

## 8. What is not modelled

* The reader of the change feed and `backend.CircularBuffer` as code: they are
  outside the source tree. `PgbkFeed` models them from the specification; the
  decoding of replication messages, the poll interval and the replication
  slot's creation and cleanup are left out.
* The bodies of `pgcommon.Retry`, `SetupAndMigrate`, the gateway package and
  the cluster storage: outside the source tree; modelled by the outcomes the
  code here handles, and marked as such in `PROJECT.json`.
* Backoff durations, log lines, error wording, the Azure token hook, the
  contents of certificates, kubeconfigs and notifications.
* What a pass-through RPC changes inside the cluster (roles, tokens, access
  requests): the cluster answers or fails.
* `Daemon`, the composition of `DaemonGateways` and `DaemonRelogin`: what a
  reissue does to a gateway that was replaced or removed meanwhile is decided
  by `gateway.ReloadCert` and the certificate files, which are outside the
  source tree; a composition would check the model's guess, not the code.
* Liveness of `PgbkFeed` (every change is eventually published): the reader
  is outside the source tree, and its progress would be the fairness assumed
  of it.
* `New` of the daemon failing (`daemon.go` 56-58, 63-66): no `Service` comes
  to be. The three daemon modules start from the `Service` that `New`
  returns (70-77).
* Liveness of `PgbkStore` (an expired row is eventually deleted, a retried
  call eventually returns): the expiry loop and the retry policy are outside
  the source tree, so their progress would follow from the model's own
  assumptions about them, not from `pgbk.go`. The sweeper's statement and the
  retries are in the model for what they do to the table under
  `ImplementsBackend`.
* The client that `UpdateAndDialTshdEventsServerAddress` dials and the
  watchers it starts, in `DaemonRelogin`: the module keeps the semaphore;
  `DaemonClusters` has the watchers.
* `Login` racing `ClusterLogout` beyond the step `DaemonClusters.Login` takes:
  the handler is outside `daemon.go`.
* `CommandExecutionTool.Run`: a stub that returns an error and changes
  nothing. Lines 82-182 of `commandexec.go` are a test of another package.
* `ConnectMyComputerService` of the Electron main process: every method is
  one or two awaited calls handed on to the daemon or to the main process,
  and the class keeps no state. The one hazard it has, a node token created
  and the agent's configuration file then failing to be written, is about a
  token in the cluster and a file on disk, both outside the source tree; the
  code makes no claim about it that a property could state.
* Documentation, Terraform, Makefiles, the workflow, tests and the UI story:
  they hold no behaviour of the program.
