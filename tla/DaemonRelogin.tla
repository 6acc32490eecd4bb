---------------------------- MODULE DaemonRelogin ----------------------------
(***************************************************************************)
(* The renewal of gateway certificates in lib/teleterm/daemon/daemon.go:   *)
(* reissueGatewayCerts, retryWithRelogin, relogin and the waitSemaphore    *)
(* that keeps the important modals of the Electron app apart.              *)
(*                                                                         *)
(* Every gateway has a goroutine of its own that calls reissueGatewayCerts *)
(* when its certificate has expired.  None of this code holds s.mu: the    *)
(* goroutines meet at reloginMu (TryLock: whoever comes second is turned   *)
(* away), at the semaphore (shared with the headless logins, which show    *)
(* the other important modal), and in the user certificate that a relogin  *)
(* renews for all of them.  Each line at which a goroutine can be          *)
(* overtaken is a step of its own.                                         *)
(*                                                                         *)
(* Time is kept as ages: how long ago the semaphore was released, how long *)
(* a sleeper has left.  Ages stop growing at WaitDuration, where the code  *)
(* stops telling them apart.                                               *)
(***************************************************************************)
EXTENDS Integers, FiniteSets

CONSTANTS
    Gateways,               \* the gateway goroutines
    Headless,               \* the goroutines of headless logins
    MaxConcurrentModals,    \* maxConcurrentImportantModals
    WaitDuration,           \* imporantModalWaitDuraiton, in ticks
    MaxDials,               \* bound: the calls that set a semaphore
    NoOne                   \* the holder of a mutex that is free

ASSUME ReloginAssumption ==
    /\ Gateways \cap Headless = {}
    /\ NoOne \notin Gateways \cup Headless
    /\ MaxConcurrentModals \in Nat \ {0}
    /\ WaitDuration \in Nat \ {0}
    /\ MaxDials \in Nat \ {0}

VARIABLES
    sem,            \* importantModalSemaphore: the semaphores made so far,
                    \* of which it is the last; 0 before the first
    using,          \* using[a]: the semaphore a's Acquire or Release is on
    pc,             \* pc[a]: where goroutine a is
    try,            \* try[g]: which call of fn retryWithRelogin is at, 1 or 2
    err,            \* err[g]: whether relogin is returning an error
    result,         \* result[g]: what reissueGatewayCerts returned last
    userCert,       \* whether the user certificate is valid
    gatewayCert,    \* gatewayCert[g]: whether the gateway's certificate is valid
    reloginMu,      \* the goroutine that holds reloginMu, or NoOne
    semC,           \* semC[n]: the tokens in the channel of semaphore n
    sinceRelease,   \* sinceRelease[n]: the age of lastRelease of semaphore n
    sleep,          \* sleep[a]: what is left of a's time.Sleep
    sinceModal      \* history: the age of the end of the last modal

vars == <<sem, using, pc, try, err, result, userCert, gatewayCert, reloginMu, semC,
          sinceRelease, sleep, sinceModal>>

\* The semaphores with the sleeps of their Acquires, and the state of the
\* calls of reissueGatewayCerts.
semaphore == <<sem, semC, sinceRelease, sleep>>
reissue   == <<try, err, result, gatewayCert>>

Actors == Gateways \cup Headless

Ages == 0..WaitDuration

Semaphores == 1..MaxDials

\* tshdEventsClient and importantModalSemaphore are set.
dialed == sem > 0

Places == {"idle", "fn", "relogin", "acquire", "sleeping", "modal",
           "release", "release2", "unlock", "notify"}

Goto(a, place) == pc' = [pc EXCEPT ![a] = place]

\* s.importantModalSemaphore.Acquire and defer
\* s.importantModalSemaphore.Release(): the call is made on the semaphore
\* the field holds when the statement is reached.
Bind(a) == using' = [using EXCEPT ![a] = sem]

-----------------------------------------------------------------------------
\* daemon.New: no client for the app yet, every mutex free.
Init ==
    /\ sem = 0
    /\ using = [a \in Actors |-> 0]
    /\ pc = [a \in Actors |-> "idle"]
    /\ try = [g \in Gateways |-> 1]
    /\ err = [g \in Gateways |-> FALSE]
    /\ result = [g \in Gateways |-> "none"]
    /\ userCert = TRUE
    /\ gatewayCert = [g \in Gateways |-> TRUE]
    /\ reloginMu = NoOne
    /\ semC = [n \in Semaphores |-> 0]
    /\ sinceRelease = [n \in Semaphores |-> WaitDuration]
    /\ sleep = [a \in Actors |-> 0]
    /\ sinceModal = WaitDuration

\* UpdateAndDialTshdEventsServerAddress, which the app is to call once
\* before anything else.  It returns an error if the credentials or the
\* connection cannot be made, and has changed nothing; otherwise it sets
\* the client and a new semaphore (empty channel, zero lastRelease), and
\* may still return the error of StartHeadlessWatchers.  The goroutines in
\* relogin read importantModalSemaphore without s.mu.
UpdateAndDialTshdEventsServerAddress ==
    /\ sem < MaxDials
    /\ sem' \in {sem, sem + 1}
    /\ UNCHANGED <<using, pc, reissue, userCert, reloginMu, semC,
                   sinceRelease, sleep, sinceModal>>

-----------------------------------------------------------------------------
(* The semaphore.                                                          *)

\* newWaitSemaphore: the channel has room for maxConcurrency tokens.
HasRoom(a) == pc[a] = "acquire" /\ semC[using[a]] < MaxConcurrentModals

\* The token goes into the channel and the goroutine sleeps for d.
Sent(a, d) ==
    /\ pc[a] = "acquire"
    /\ semC' = [semC EXCEPT ![using[a]] = @ + 1]
    /\ sleep' = [sleep EXCEPT ![a] = d]
    /\ Goto(a, "sleeping")
    /\ UNCHANGED <<sem, using, reissue, userCert,
                   reloginMu, sinceRelease, sinceModal>>

\* Mutant of Acquire: the operands of the sleep's subtraction are swapped.
AcquireSleepSwapped(a) ==
    HasRoom(a) /\ Sent(a, sinceRelease[using[a]] - WaitDuration)

\* Mutant of Acquire: the token is sent without regard to the room.
AcquireWithoutRoom(a) == Sent(a, WaitDuration - sinceRelease[using[a]])

\* Acquire, the first case of its select: a token goes into the channel and
\* the goroutine sleeps for waitDuration - time.Since(lastRelease).
Acquire(a) == HasRoom(a) /\ Sent(a, WaitDuration - sinceRelease[using[a]])

\* time.Sleep is over and Acquire returns nil.  The deferred call of
\* s.importantModalSemaphore.Release() is bound to the semaphore the field
\* holds now, and the modal is requested.
Wake(a) ==
    /\ pc[a] = "sleeping"
    /\ sleep[a] = 0
    /\ Bind(a)
    /\ Goto(a, "modal")
    /\ UNCHANGED <<semaphore, reissue, userCert, reloginMu, sinceModal>>

\* Where a goroutine goes when it has released the semaphore.
AfterRelease(a) == IF a \in Gateways THEN "unlock" ELSE "idle"

\* s.lastRelease = time.Now()
Stamp(a, from, to) ==
    /\ pc[a] = from
    /\ sinceRelease' = [sinceRelease EXCEPT ![using[a]] = 0]
    /\ Goto(a, to)
    /\ UNCHANGED semC

\* <-s.semC, which waits for a token when the channel is empty.
Receive(a, from, to) ==
    /\ pc[a] = from
    /\ semC[using[a]] > 0
    /\ semC' = [semC EXCEPT ![using[a]] = @ - 1]
    /\ Goto(a, to)
    /\ UNCHANGED sinceRelease

\* Mutant of Release: the token is taken out first, lastRelease set after.
ReleaseReceivesFirst(a) ==
    /\ Receive(a, "release", "release2") \/ Stamp(a, "release2", AfterRelease(a))
    /\ UNCHANGED <<sem, using, reissue, userCert, reloginMu, sleep, sinceModal>>

\* Release, its two lines in their order.
Release(a) ==
    /\ Stamp(a, "release", "release2") \/ Receive(a, "release2", AfterRelease(a))
    /\ UNCHANGED <<sem, using, reissue, userCert, reloginMu, sleep, sinceModal>>

-----------------------------------------------------------------------------
(* A gateway goroutine in reissueGatewayCerts.                             *)

\* The gateway finds its certificate expired and calls OnExpiredCert, which
\* is reissueGatewayCerts; retryWithRelogin is about to call fn.
OnExpiredCert(g) ==
    /\ dialed /\ pc[g] = "idle"
    /\ gatewayCert' = [gatewayCert EXCEPT ![g] = FALSE]
    /\ try' = [try EXCEPT ![g] = 1]
    /\ err' = [err EXCEPT ![g] = FALSE]
    /\ result' = [result EXCEPT ![g] = "none"]
    /\ Goto(g, "fn")
    /\ UNCHANGED <<semaphore, using, userCert, reloginMu, sinceModal>>

\* fn, that is reissueDBCerts, returns nil: the cluster was resolved, the
\* certificate reissued with the user's valid one and reloaded.
\* reissueGatewayCerts returns nil.
Reissued(g) ==
    /\ pc[g] = "fn"
    /\ userCert
    /\ gatewayCert' = [gatewayCert EXCEPT ![g] = TRUE]
    /\ result' = [result EXCEPT ![g] = "ok"]
    /\ Goto(g, "idle")
    /\ UNCHANGED <<semaphore, using, try, err, userCert, reloginMu, sinceModal>>

\* fn returns an error.  With an expired user certificate it is one that a
\* relogin resolves, and the first call of fn goes on to relogin; every
\* other error, and every error of the second call, is returned.
ReissueFailed(g) ==
    /\ pc[g] = "fn"
    /\ \/ ~userCert /\ try[g] = 1 /\ Goto(g, "relogin")
       \/ Goto(g, "notify")
    /\ UNCHANGED <<semaphore, using, reissue, userCert, reloginMu, sinceModal>>

\* Mutant of TryLock: every goroutine gets to ask for a relogin.
TryLockAlwaysLocks(g) ==
    /\ pc[g] = "relogin"
    /\ reloginMu' = g
    /\ Bind(g)
    /\ Goto(g, "acquire")
    /\ UNCHANGED <<semaphore, reissue, userCert, sinceModal>>

\* relogin begins: reloginMu.TryLock(), and AlreadyExists when another
\* goroutine has the mutex.  Whoever locks it calls Acquire on the
\* semaphore the field holds now.
TryLock(g) ==
    /\ pc[g] = "relogin"
    /\ IF reloginMu = NoOne
       THEN /\ reloginMu' = g
            /\ Bind(g)
            /\ Goto(g, "acquire")
       ELSE Goto(g, "notify") /\ UNCHANGED <<reloginMu, using>>
    /\ UNCHANGED <<semaphore, reissue, userCert, sinceModal>>

\* Acquire, the second case of its select: the context is done and relogin
\* returns its error, with no token to give back.
AcquireCancelled(g) ==
    /\ pc[g] = "acquire"
    /\ err' = [err EXCEPT ![g] = TRUE]
    /\ Goto(g, "unlock")
    /\ UNCHANGED <<semaphore, using, try, result, userCert,
                   gatewayCert, reloginMu, sinceModal>>

\* Mutant of ReloginAnswered: Release is called after a relogin that
\* succeeded, and not on the way out with an error.
ReloginAnsweredReleaseOnSuccess(g) ==
    /\ pc[g] = "modal"
    /\ \/ userCert' = TRUE /\ Goto(g, "release") /\ UNCHANGED err
       \/ err' = [err EXCEPT ![g] = TRUE] /\ Goto(g, "unlock") /\ UNCHANGED userCert
    /\ sinceModal' = 0
    /\ UNCHANGED <<semaphore, using, try, result, gatewayCert, reloginMu>>

\* tshdEventsClient.Relogin returns: the user has logged in, or has not
\* within reloginUserTimeout, or the call failed.  The modal is gone; the
\* deferred Release and Unlock follow on either way out.
ReloginAnswered(g) ==
    /\ pc[g] = "modal"
    /\ \/ userCert' = TRUE /\ UNCHANGED err
       \/ err' = [err EXCEPT ![g] = TRUE] /\ UNCHANGED userCert
    /\ sinceModal' = 0
    /\ Goto(g, "release")
    /\ UNCHANGED <<semaphore, using, try, result, gatewayCert, reloginMu>>

\* The deferred reloginMu.Unlock(); relogin returns, and retryWithRelogin
\* returns its error or calls fn a second time.
Unlock(g) ==
    /\ pc[g] = "unlock"
    /\ reloginMu' = NoOne
    /\ IF err[g]
       THEN Goto(g, "notify") /\ UNCHANGED try
       ELSE Goto(g, "fn") /\ try' = [try EXCEPT ![g] = 2]
    /\ UNCHANGED <<semaphore, using, err, result,
                   userCert, gatewayCert, sinceModal>>

\* notifyApp, whose own failure is only logged, and reissueGatewayCerts
\* returns the error to the gateway.
NotifyApp(g) ==
    /\ pc[g] = "notify"
    /\ result' = [result EXCEPT ![g] = "error"]
    /\ Goto(g, "idle")
    /\ UNCHANGED <<semaphore, using, try, err, userCert,
                   gatewayCert, reloginMu, sinceModal>>

-----------------------------------------------------------------------------
(* The world around them.                                                  *)

\* A headless login is to be approved: its goroutine asks for the semaphore.
HeadlessPending(h) ==
    /\ dialed /\ pc[h] = "idle"
    /\ Bind(h)
    /\ Goto(h, "acquire")
    /\ UNCHANGED <<semaphore, reissue, userCert, reloginMu, sinceModal>>

\* The modal of a headless login is answered.
HeadlessAnswered(h) ==
    /\ pc[h] = "modal"
    /\ sinceModal' = 0
    /\ Goto(h, "release")
    /\ UNCHANGED <<semaphore, using, reissue, userCert, reloginMu>>

\* The user certificate expires.
UserCertExpires ==
    /\ userCert
    /\ userCert' = FALSE
    /\ UNCHANGED <<semaphore, using, pc, reissue, reloginMu, sinceModal>>

Older(age) == IF age < WaitDuration THEN age + 1 ELSE age

\* Time passes.
Tick ==
    /\ sinceRelease' = [n \in Semaphores |-> Older(sinceRelease[n])]
    /\ sinceModal' = Older(sinceModal)
    /\ sleep' = [a \in Actors |-> IF sleep[a] > 0 THEN sleep[a] - 1 ELSE 0]
    /\ UNCHANGED <<sem, using, pc, reissue, userCert, reloginMu, semC>>

-----------------------------------------------------------------------------
GatewayStep(g) ==
    \/ Reissued(g) \/ ReissueFailed(g) \/ TryLock(g)
    \/ ReloginAnswered(g) \/ Unlock(g) \/ NotifyApp(g)

Next ==
    \/ UpdateAndDialTshdEventsServerAddress
    \/ \E g \in Gateways : OnExpiredCert(g) \/ GatewayStep(g) \/ AcquireCancelled(g)
    \/ \E h \in Headless : HeadlessPending(h) \/ HeadlessAnswered(h)
    \/ \E a \in Actors : Acquire(a) \/ Wake(a) \/ Release(a)
    \/ UserCertExpires
    \/ Tick

\* A goroutine that can take its next step takes it, a call to the app
\* returns (relogin gives it reloginUserTimeout, notifyApp
\* tshdEventsTimeout), and time passes.  A goroutine blocked in its send on
\* semC is not passed over for ever: the Go runtime serves the senders that
\* wait on a channel in the order they came, which strong fairness of
\* Acquire stands for.  Nothing obliges a certificate to expire, a headless
\* login to come or a context to be cancelled.
Fairness ==
    /\ \A g \in Gateways : WF_vars(GatewayStep(g))
    /\ \A h \in Headless : WF_vars(HeadlessAnswered(h))
    /\ \A a \in Actors : SF_vars(Acquire(a)) /\ WF_vars(Wake(a)) /\ WF_vars(Release(a))
    /\ WF_vars(Tick)

Spec == Init /\ [][Next]_vars /\ Fairness

-----------------------------------------------------------------------------
TypeOK ==
    /\ sem \in 0..MaxDials
    /\ using \in [Actors -> 0..MaxDials]
    /\ pc \in [Actors -> Places]
    /\ try \in [Gateways -> {1, 2}]
    /\ err \in [Gateways -> BOOLEAN]
    /\ result \in [Gateways -> {"none", "ok", "error"}]
    /\ userCert \in BOOLEAN
    /\ gatewayCert \in [Gateways -> BOOLEAN]
    /\ reloginMu \in Gateways \cup {NoOne}
    /\ semC \in [Semaphores -> 0..Cardinality(Actors)]
    /\ sinceRelease \in [Semaphores -> Ages]
    /\ sleep \in [Actors -> Ages]
    /\ sinceModal \in Ages

\* "The Electron App can only display one important modal at a time": never
\* more goroutines than maxConcurrentImportantModals have asked the app for
\* a modal that is not yet answered, relogins and headless logins together.
OneImportantModalAtATime ==
    Cardinality({a \in Actors : pc[a] = "modal"}) <= MaxConcurrentModals

\* "a clear transition between modals": a modal is requested no sooner than
\* waitDuration after the last one was answered.  The sleeper measures from
\* lastRelease, so Release has to have written it before the next Acquire
\* can read it.
ModalsAreSpacedApart ==
    [][\A a \in Actors :
          pc[a] # "modal" /\ pc'[a] = "modal" => sinceModal = WaitDuration]_vars

\* "To prevent redundant relogin requests, cut short additional relogin
\* requests": while one gateway is asking for a relogin, waiting for the
\* semaphore or for the user, no other is queued behind it.
ReloginsDoNotQueue ==
    Cardinality({g \in Gateways :
                    pc[g] \in {"acquire", "sleeping", "modal", "release", "release2",
                               "unlock"}}) <= 1

\* reissueGatewayCerts returns to the gateway that called it, with nil or
\* with an error: whoever holds the semaphore or reloginMu gives it back on
\* every way out, a sleep ends and a call to the app is answered or times
\* out.
ReissueReturns ==
    \A g \in Gateways : pc[g] # "idle" ~> pc[g] = "idle"
=============================================================================
