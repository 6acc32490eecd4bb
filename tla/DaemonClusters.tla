--------------------------- MODULE DaemonClusters ---------------------------
(***************************************************************************)
(* The calls of the Connect daemon, lib/teleterm/daemon/daemon.go, that    *)
(* work on clusters: the profiles in Storage, the login session a profile  *)
(* holds, the headless watchers, and the calls that resolve a cluster and  *)
(* hand the request to it.                                                 *)
(*                                                                         *)
(* None of these methods takes s.mu.  Each call of the app is served by a  *)
(* goroutine of its own, and a method that reads the disk, talks to the    *)
(* cluster and writes the disk can be overtaken between any two of these:  *)
(* what ResolveCluster returned is what the disk held then.  A method is   *)
(* one step where it makes one such call, and one step per call where it   *)
(* changes the daemon's state in between.                                  *)
(*                                                                         *)
(* What a call changes in the cluster itself (roles, tokens, access        *)
(* requests) is not kept: the cluster answers, or fails.                   *)
(***************************************************************************)
EXTENDS Integers, FiniteSets

CONSTANTS
    Clusters,       \* the root clusters
    Invalid,        \* a path that uri.Parse rejects
    Requests,       \* the goroutines that serve the calls of the app
    MaxLogins,      \* bound: the login sessions of a behaviour
    MaxEvents,      \* bound: the usage events in the reporter's queue
    StopWatcherFails, \* whether StopHeadlessWatcher has errors but NotFound
    None

ASSUME ClustersAssumption ==
    /\ Invalid \notin Clusters /\ None \notin Clusters \cup {Invalid}
    /\ MaxLogins \in Nat \ {0} /\ MaxEvents \in Nat
    /\ StopWatcherFails \in BOOLEAN

VARIABLES
    profiles,   \* Storage: the clusters with a profile on disk
    session,    \* session[c]: the login session in c's keys, 0 for none
    logins,     \* the sessions made so far
    watchers,   \* the keys of headlessWatcherClosers
    events,     \* the events in the usage reporter's queue
    dialed,     \* UpdateAndDialTshdEventsServerAddress has set the client
    rpc,        \* rpc[r]: the call r is serving, None when it has returned
    clients,    \* clients[r]: the clients r has connected and not closed
    resp        \* what the call that returned last returned

store == <<profiles, session, logins, watchers, events, dialed>>
vars  == <<store, rpc, clients, resp>>

Paths == Clusters \cup {Invalid}

\* A cluster as ResolveCluster returns it: the profile as read from disk.
Cluster == [root : Clusters, session : 0..MaxLogins]

Ops == {"RemoveCluster", "ClusterLogout", "CreateConnectMyComputerRole",
        "CreateConnectMyComputerNodeToken", "DeleteConnectMyComputerToken"}

Call == [op : Ops, cluster : Cluster,
         pc : {"resolved", "loggedOut", "proxy", "auth"}]

Results == {"OK", "NotFound", "BadParameter", "NotImplemented", "Error"}

-----------------------------------------------------------------------------
\* cluster.Connected(): the profile held a session when it was read.
Connected(cluster) == cluster.session # 0

\* resolveCluster: Storage.GetByResourceURI reads the profile of the URI's
\* cluster from disk, None if there is none.
resolveCluster(c) ==
    IF c \in profiles THEN [root |-> c, session |-> session[c]] ELSE None

\* ResolveCluster: the path is parsed and resolved.
ResolveCluster(path) == IF path = Invalid THEN None ELSE resolveCluster(path)

\* The error of a ResolveCluster that returns no cluster.
ResolveError(path) == IF path = Invalid THEN "BadParameter" ELSE "NotFound"

At(r, op, place) == rpc[r] # None /\ rpc[r].op = op /\ rpc[r].pc = place

Goto(r, place) == rpc' = [rpc EXCEPT ![r].pc = place] /\ UNCHANGED resp

Return(r, result) ==
    /\ rpc' = [rpc EXCEPT ![r] = None]
    /\ resp' = result

\* The first lines of a method of several steps: the error of
\* ResolveCluster is returned, and else the call goes on with the cluster.
Resolve(r, op, path) ==
    /\ dialed /\ rpc[r] = None
    /\ IF ResolveCluster(path) = None
       THEN Return(r, ResolveError(path))
       ELSE /\ rpc' = [rpc EXCEPT ![r] = [op |-> op, pc |-> "resolved",
                                          cluster |-> ResolveCluster(path)]]
            /\ UNCHANGED resp
    /\ UNCHANGED <<store, clients>>

\* A method that resolves the cluster and returns what the cluster answers.
Forward(r, path) ==
    /\ dialed /\ rpc[r] = None
    /\ \E result \in IF ResolveCluster(path) = None
                     THEN {ResolveError(path)} ELSE {"OK", "Error"} :
          resp' = result
    /\ UNCHANGED <<store, rpc, clients>>

\* The same for a request that must name an access request: without an id
\* it is refused before the cluster is resolved.
ForwardWithId(r, path, hasId) ==
    IF hasId THEN Forward(r, path)
    ELSE /\ dialed /\ rpc[r] = None
         /\ resp' = "BadParameter"
         /\ UNCHANGED <<store, rpc, clients>>

-----------------------------------------------------------------------------
\* The daemon starts on whatever profiles and sessions the disk holds.
Init ==
    /\ profiles \in SUBSET Clusters
    /\ session \in [Clusters -> {0, 1}]
    /\ \A c \in Clusters : session[c] # 0 => c \in profiles
    /\ logins = 1
    /\ watchers = {}
    /\ events = 0
    /\ dialed = FALSE
    /\ rpc = [r \in Requests |-> None]
    /\ clients = [r \in Requests |-> {}]
    /\ resp = None

\* StartHeadlessWatchers: a watcher for every profile with a session; when
\* one does not start, those started before it stay.
StartHeadlessWatchers == SUBSET {c \in profiles : session[c] # 0}

\* UpdateAndDialTshdEventsServerAddress, the first call of the app: without
\* credentials or a connection nothing changes; with them the client is
\* set and the headless watchers are resumed.
UpdateAndDialTshdEventsServerAddress ==
    /\ ~dialed
    /\ \/ UNCHANGED <<dialed, watchers>>
       \/ dialed' = TRUE /\ watchers' \in StartHeadlessWatchers
    /\ UNCHANGED <<profiles, session, logins, events, rpc, clients, resp>>

\* The Login call of the app, which is served outside daemon.go:
\* cluster.Login writes a new session into the keys of the profile and
\* StartHeadlessWatcher starts the watcher of the cluster.
Login(c) ==
    /\ dialed /\ c \in profiles /\ logins < MaxLogins
    /\ logins' = logins + 1
    /\ session' = [session EXCEPT ![c] = logins']
    /\ watchers' = watchers \cup {c}
    /\ UNCHANGED <<profiles, events, dialed, rpc, clients, resp>>

\* ListRootClusters: Storage.ReadAll.
ListRootClusters(r) ==
    /\ dialed /\ rpc[r] = None
    /\ \E result \in {"OK", "Error"} : resp' = result
    /\ UNCHANGED <<store, rpc, clients>>

\* ListLeafClusters: a leaf has no leaves, a root cluster is asked.
ListLeafClusters(r, path, leaf) ==
    IF leaf /\ ResolveCluster(path) # None
    THEN /\ dialed /\ rpc[r] = None
         /\ resp' = "OK"
         /\ UNCHANGED <<store, rpc, clients>>
    ELSE Forward(r, path)

\* AddCluster: Storage.Add writes the profile, or fails.
AddCluster(r, c) ==
    /\ dialed /\ rpc[r] = None
    /\ \/ profiles' = profiles \cup {c} /\ resp' = "OK"
       \/ UNCHANGED profiles /\ resp' = "Error"
    /\ UNCHANGED <<session, logins, watchers, events, dialed, rpc, clients>>

\* cluster.Logout: the keys of the profile are deleted.
Logout(c) == session' = [session EXCEPT ![c] = 0]

\* Mutant of RemoveCluster: the error of ResolveCluster is not looked at.
RemoveClusterUnresolved(r, path) ==
    /\ dialed /\ rpc[r] = None
    /\ rpc' = [rpc EXCEPT ![r] = [op |-> "RemoveCluster", pc |-> "resolved",
                                  cluster |-> ResolveCluster(path)]]
    /\ UNCHANGED <<store, clients, resp>>

\* RemoveCluster, up to the cluster it resolves.
RemoveCluster(r, path) == Resolve(r, "RemoveCluster", path)

\* Mutant of RemoveClusterLogout: the error of Logout is not returned.
RemoveClusterLogoutErrorDropped(r) ==
    /\ At(r, "RemoveCluster", "resolved") /\ Connected(rpc[r].cluster)
    /\ \/ Logout(rpc[r].cluster.root)
       \/ UNCHANGED session
    /\ Goto(r, "loggedOut")
    /\ UNCHANGED <<profiles, logins, watchers, events, dialed, clients>>

\* RemoveCluster, if the cluster it resolved was connected: it is logged
\* out, and the error of Logout ends the call.
RemoveClusterLogout(r) ==
    /\ At(r, "RemoveCluster", "resolved") /\ Connected(rpc[r].cluster)
    /\ \/ Logout(rpc[r].cluster.root) /\ Goto(r, "loggedOut")
       \/ UNCHANGED session /\ Return(r, "Error")
    /\ UNCHANGED <<profiles, logins, watchers, events, dialed, clients>>

\* RemoveCluster, at its end: Storage.Remove deletes the profile, or fails.
\* The watcher of the cluster is not touched.
RemoveClusterProfile(r) ==
    /\ \/ At(r, "RemoveCluster", "loggedOut")
       \/ At(r, "RemoveCluster", "resolved") /\ ~Connected(rpc[r].cluster)
    /\ \/ profiles' = profiles \ {rpc[r].cluster.root} /\ Return(r, "OK")
       \/ UNCHANGED profiles /\ Return(r, "Error")
    /\ UNCHANGED <<session, logins, watchers, events, dialed, clients>>

\* ClusterLogout, up to the cluster it resolves.
ClusterLogout(r, path) == Resolve(r, "ClusterLogout", path)

\* ClusterLogout: the cluster is logged out, connected or not, and the
\* error of Logout ends the call.
ClusterLogoutLogout(r) ==
    /\ At(r, "ClusterLogout", "resolved")
    /\ \/ Logout(rpc[r].cluster.root) /\ Goto(r, "loggedOut")
       \/ UNCHANGED session /\ Return(r, "Error")
    /\ UNCHANGED <<profiles, logins, watchers, events, dialed, clients>>

\* ClusterLogout, at its end: StopHeadlessWatcher stops the watcher of the
\* cluster; that there is none is not an error, and any other error of it
\* is the error of the call.
ClusterLogoutStopWatcher(r) ==
    /\ At(r, "ClusterLogout", "loggedOut")
    /\ \/ watchers' = watchers \ {rpc[r].cluster.root} /\ Return(r, "OK")
       \/ StopWatcherFails /\ UNCHANGED watchers /\ Return(r, "Error")
    /\ UNCHANGED <<profiles, session, logins, events, dialed, clients>>

-----------------------------------------------------------------------------
\* The calls that resolve the cluster and hand the request to it.
ResolveClusterWithDetails(r, path) == Forward(r, path)
GetServers(r, path)                == Forward(r, path)
GetRequestableRoles(r, path)       == Forward(r, path)
GetAccessRequests(r, path)         == Forward(r, path)
GetAccessRequest(r, path, hasId)   == ForwardWithId(r, path, hasId)
CreateAccessRequest(r, path)       == Forward(r, path)
ReviewAccessRequest(r, path)       == Forward(r, path)
DeleteAccessRequest(r, path, hasId) == ForwardWithId(r, path, hasId)
AssumeRole(r, path)                == Forward(r, path)
GetKubes(r, path)                  == Forward(r, path)
TransferFile(r, path)              == Forward(r, path)

\* GetGatewayCLICommand: the command of a database gateway needs the
\* cluster of its target, that of a kube gateway does not, and there is no
\* command for any other gateway.
GetGatewayCLICommand(r, kind, c) ==
    /\ dialed /\ rpc[r] = None
    /\ \E result \in CASE kind = "db" /\ resolveCluster(c) = None -> {"NotFound"}
                       [] kind \in {"db", "kube"} -> {"OK", "Error"}
                       [] OTHER -> {"NotImplemented"} :
          resp' = result
    /\ UNCHANGED <<store, rpc, clients>>

\* ReportUsageEvent: an event that can be converted is queued.
ReportUsageEvent(r) ==
    /\ dialed /\ rpc[r] = None
    /\ \/ /\ events < MaxEvents
          /\ events' = events + 1 /\ resp' = "OK"
       \/ UNCHANGED events /\ resp' = "Error"
    /\ UNCHANGED <<profiles, session, logins, watchers, dialed, rpc, clients>>

\* Stop, as far as it is about watchers and events: StopHeadlessWatchers
\* stops every watcher and GracefulStop empties the queue.  Calls that are
\* being served go on.
Stop ==
    /\ dialed
    /\ watchers' = {} /\ events' = 0
    /\ UNCHANGED <<profiles, session, logins, dialed, rpc, clients, resp>>

-----------------------------------------------------------------------------
\* The three calls of Connect My Computer connect to the proxy and through
\* it to the auth server, do their work there, and close both clients when
\* the function that opened them returns, however it returns.
CMCOps == {"CreateConnectMyComputerRole", "CreateConnectMyComputerNodeToken",
           "DeleteConnectMyComputerToken"}

CreateConnectMyComputerRole(r, path) ==
    Resolve(r, "CreateConnectMyComputerRole", path)

CreateConnectMyComputerNodeToken(r, path) ==
    Resolve(r, "CreateConnectMyComputerNodeToken", path)

DeleteConnectMyComputerToken(r, path) ==
    Resolve(r, "DeleteConnectMyComputerToken", path)

\* The deferred Close of every client the function has connected.
CloseClients(r) == clients' = [clients EXCEPT ![r] = {}]

\* clusterClient.ConnectToProxy.
ConnectToProxy(r) ==
    /\ \E op \in CMCOps : At(r, op, "resolved")
    /\ \/ clients' = [clients EXCEPT ![r] = {"proxy"}] /\ Goto(r, "proxy")
       \/ UNCHANGED clients /\ Return(r, "Error")
    /\ UNCHANGED store

\* Mutant of ConnectToCluster: the proxy client is closed only where the
\* auth client is.
ConnectToClusterProxyLeftOpen(r) ==
    /\ \E op \in CMCOps : At(r, op, "proxy")
    /\ \/ clients' = [clients EXCEPT ![r] = @ \cup {"auth"}] /\ Goto(r, "auth")
       \/ UNCHANGED clients /\ Return(r, "Error")
    /\ UNCHANGED store

\* proxyClient.ConnectToCluster.
ConnectToCluster(r) ==
    /\ \E op \in CMCOps : At(r, op, "proxy")
    /\ \/ clients' = [clients EXCEPT ![r] = @ \cup {"auth"}] /\ Goto(r, "auth")
       \/ CloseClients(r) /\ Return(r, "Error")
    /\ UNCHANGED store

\* ConnectMyComputerRoleSetup.Run, CreateNodeToken or DeleteToken, with
\* both clients.
RunWithClients(r) ==
    /\ \E op \in CMCOps : At(r, op, "auth")
    /\ CloseClients(r)
    /\ \E result \in {"OK", "Error"} : Return(r, result)
    /\ UNCHANGED store

-----------------------------------------------------------------------------
Next ==
    \/ UpdateAndDialTshdEventsServerAddress
    \/ Stop
    \/ \E c \in Clusters : Login(c)
    \/ \E r \in Requests :
          \/ ListRootClusters(r)
          \/ ReportUsageEvent(r)
          \/ \E c \in Clusters :
                \/ AddCluster(r, c)
                \/ \E kind \in {"db", "kube", "app"} : GetGatewayCLICommand(r, kind, c)
          \/ \E path \in Paths :
                \/ RemoveCluster(r, path)
                \/ ClusterLogout(r, path)
                \/ \E leaf \in BOOLEAN : ListLeafClusters(r, path, leaf)
                \/ ResolveClusterWithDetails(r, path)
                \/ GetServers(r, path)
                \/ GetRequestableRoles(r, path)
                \/ GetAccessRequests(r, path)
                \/ \E hasId \in BOOLEAN : GetAccessRequest(r, path, hasId)
                \/ CreateAccessRequest(r, path)
                \/ ReviewAccessRequest(r, path)
                \/ \E hasId \in BOOLEAN : DeleteAccessRequest(r, path, hasId)
                \/ AssumeRole(r, path)
                \/ GetKubes(r, path)
                \/ TransferFile(r, path)
                \/ CreateConnectMyComputerRole(r, path)
                \/ CreateConnectMyComputerNodeToken(r, path)
                \/ DeleteConnectMyComputerToken(r, path)
          \/ RemoveClusterLogout(r)
          \/ RemoveClusterProfile(r)
          \/ ClusterLogoutLogout(r)
          \/ ClusterLogoutStopWatcher(r)
          \/ ConnectToProxy(r)
          \/ ConnectToCluster(r)
          \/ RunWithClients(r)

Spec == Init /\ [][Next]_vars

-----------------------------------------------------------------------------
TypeOK ==
    /\ profiles \in SUBSET Clusters
    /\ session \in [Clusters -> 0..MaxLogins]
    /\ logins \in 1..MaxLogins
    /\ watchers \in SUBSET Clusters
    /\ events \in 0..MaxEvents
    /\ dialed \in BOOLEAN
    /\ rpc \in [Requests -> Call \cup {None}]
    /\ clients \in [Requests -> SUBSET {"proxy", "auth"}]
    /\ resp \in Results \cup {None}

\* The calls that are logging c out or removing it.
BusyWith(c) ==
    {r \in Requests : /\ rpc[r] # None /\ rpc[r].cluster.root = c
                      /\ rpc[r].op \in {"RemoveCluster", "ClusterLogout"}}

\* RemoveCluster logs a connected cluster out before it removes the
\* profile, so that no session stays in the keys of a profile that is
\* gone: whenever a RemoveCluster deletes a profile, the session it found
\* when it resolved the cluster is no longer there.  (A session that a
\* Login wrote after that is not its business, and stays.)
RemovedClusterWasLoggedOut ==
    [][\A r \in Requests :
          (rpc[r] # None /\ rpc[r].cluster.root \in profiles \ profiles'
              /\ rpc'[r] = None /\ Connected(rpc[r].cluster))
          => session[rpc[r].cluster.root] # rpc[r].cluster.session]_vars

\* The closure of each Connect My Computer call defers the Close of the
\* proxy client and of the auth client: whichever of ConnectToProxy,
\* ConnectToCluster and the work itself fails, a call that has returned
\* has left no client open.
ClientsClosedOnReturn ==
    \A r \in Requests : rpc[r] = None => clients[r] = {}

\* "Resume headless watchers for any active login sessions": the headless
\* watchers are those of the sessions.  ClusterLogout stops the watcher of
\* the cluster it logs out; a cluster without a session that no call is
\* busy with has no watcher.
WatchersFollowSessions ==
    \A c \in watchers : session[c] # 0 \/ BusyWith(c) # {}
=============================================================================
