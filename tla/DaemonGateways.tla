--------------------------- MODULE DaemonGateways ---------------------------
(***************************************************************************)
(* The gateways of the Connect daemon, lib/teleterm/daemon/daemon.go: the  *)
(* map s.gateways and the methods of Service that read and change it.      *)
(*                                                                         *)
(* Every one of these methods holds s.mu from its first line to its last,  *)
(* so each is one step; what is hard is what a sequence of them leaves in  *)
(* the map.  A gateway is an object with a listener: it is made by the     *)
(* GatewayCreator or by gateway.NewWithLocalPort, served by a goroutine,   *)
(* and closed once; closing it again is an error.  The map holds one       *)
(* gateway per gateway URI, and changing the port of a gateway replaces    *)
(* the object under the URI it keeps.                                      *)
(***************************************************************************)
EXTENDS Integers, FiniteSets

CONSTANTS
    Targets,        \* the resources gateways lead to (valid target URIs)
    KubeTargets,    \* those of them that are kube clusters
    Invalid,        \* a target URI that does not parse
    Ports,          \* the local ports
    AnyPort,        \* LocalPort "": the listener takes a free port
    Names,          \* target subresource names
    MaxGateways,    \* bound: gateway objects made in a behaviour
    None

ASSUME GatewaysAssumption ==
    /\ KubeTargets \subseteq Targets
    /\ Invalid \notin Targets /\ AnyPort \notin Ports
    /\ MaxGateways \in Nat \ {0}

VARIABLES
    gateways,   \* s.gateways: gateway URI -> the gateway under it, or None
    gw,         \* gw[o]: the gateway object o, or None if it was never made
    stopped,    \* whether Stop has cancelled closeContext
    resp        \* what the last call returned

vars == <<gateways, gw, stopped, resp>>

\* Gateway objects and gateway URIs: there are never more URIs than objects.
Objects == 1..MaxGateways
URIs    == 1..MaxGateways

Gateway == [uri : URIs, target : Targets, port : Ports, subresource : Names \cup {None},
            open : BOOLEAN, serving : BOOLEAN]

Errors == {"NotFound", "BadParameter", "Error"}

Response == [op : STRING, err : Errors \cup {None}, gateway : Objects \cup {None}]
            \cup [op : {"ListGateways"}, listed : SUBSET Objects]

Returned(op, o)   == [op |-> op, err |-> None, gateway |-> o]
Failed(op, error) == [op |-> op, err |-> error, gateway |-> None]

-----------------------------------------------------------------------------
Made     == {o \in Objects : gw[o] # None}
Listed   == {gateways[u] : u \in {v \in URIs : gateways[v] # None}}
Open     == {o \in Made : gw[o].open}

\* The next object and the URI of a gateway made from nothing.
NewObject == Cardinality(Made) + 1
NewURI    == Cardinality({gw[o].uri : o \in Made}) + 1

\* A listener can be bound to a port no open gateway listens on.
Free(p) == \A o \in Open : gw[o].port # p

\* Mutant of Listens: the gateway has the LocalPort of the params as given.
ListensAsAsked(port) == {port}

\* GatewayCreator.CreateGateway with LocalPort: the ports the new gateway
\* may come to listen on, the one asked for or for AnyPort any, if free.
Listens(port) == {p \in Ports : Free(p) /\ port \in {p, AnyPort}}

\* gateway.Close(): the listener is closed and Serve returns.
Closed(o) == [gw EXCEPT ![o].open = FALSE, ![o].serving = FALSE]

\* findGatewayByTargetURI: some gateway of the map with this target.
findGatewayByTargetURI(t) == {o \in Listed : gw[o].target = t}

\* Mutant of shouldReuseGateway: no gateway is ever shared.
shouldReuseNone(t) == {}

\* shouldReuseGateway: the gateways that a new terminal of t may share.
shouldReuseGateway(t) == IF t \in KubeTargets THEN findGatewayByTargetURI(t) ELSE {}

-----------------------------------------------------------------------------
\* daemon.New: no gateways.
Init ==
    /\ gateways = [u \in URIs |-> None]
    /\ gw = [o \in Objects |-> None]
    /\ stopped = FALSE
    /\ resp = None

\* CreateGateway and createGateway: the target is parsed; a kube target that
\* has a gateway gets that one; otherwise the creator makes a gateway, or
\* fails, and the gateway is served and stored under its URI.
CreateGateway(t, port) ==
    /\ \/ /\ t = Invalid
          /\ resp' = Failed("CreateGateway", "BadParameter")
          /\ UNCHANGED <<gateways, gw>>
       \/ /\ t # Invalid
          /\ \E o \in shouldReuseGateway(t) : resp' = Returned("CreateGateway", o)
          /\ UNCHANGED <<gateways, gw>>
       \/ /\ t # Invalid /\ shouldReuseGateway(t) = {}
          /\ resp' = Failed("CreateGateway", "Error")
          /\ UNCHANGED <<gateways, gw>>
       \/ /\ t # Invalid /\ shouldReuseGateway(t) = {}
          /\ NewObject \in Objects
          /\ \E p \in Listens(port) :
                gw' = [gw EXCEPT ![NewObject] =
                          [uri |-> NewURI, target |-> t, port |-> p,
                           subresource |-> None, open |-> TRUE, serving |-> TRUE]]
          /\ gateways' = [gateways EXCEPT ![NewURI] = NewObject]
          /\ resp' = Returned("CreateGateway", NewObject)
    /\ UNCHANGED stopped

\* findGateway: the gateway under the URI, None for "not found".
findGateway(u) == gateways[u]

\* Mutant of removeGateway: the gateway is closed and its entry kept.
removeGatewayKeepsEntry(u) ==
    /\ gw[gateways[u]].open
    /\ gw' = Closed(gateways[u])
    /\ UNCHANGED gateways

\* removeGateway, when Close succeeds: the gateway is closed and its entry
\* deleted.  Close fails on a gateway that is closed.
removeGateway(u) ==
    /\ gw[gateways[u]].open
    /\ gw' = Closed(gateways[u])
    /\ gateways' = [gateways EXCEPT ![u] = None]

\* RemoveGateway: the gateway under the URI is removed; if there is none,
\* or if closing it fails, the error is returned and the map stays.
RemoveGateway(u) ==
    /\ \/ /\ findGateway(u) = None
          /\ resp' = Failed("RemoveGateway", "NotFound")
          /\ UNCHANGED <<gateways, gw>>
       \/ /\ findGateway(u) # None /\ ~gw[findGateway(u)].open
          /\ resp' = Failed("RemoveGateway", "Error")
          /\ UNCHANGED <<gateways, gw>>
       \/ /\ findGateway(u) # None
          /\ removeGateway(u)
          /\ resp' = Returned("RemoveGateway", None)
    /\ UNCHANGED stopped

\* ListGateways: the values of the map.
ListGateways ==
    /\ resp' = [op |-> "ListGateways", listed |-> Listed]
    /\ UNCHANGED <<gateways, gw, stopped>>

\* SetGatewayTargetSubresourceName: the field of the gateway under the URI.
SetGatewayTargetSubresourceName(u, name) ==
    /\ IF findGateway(u) = None
       THEN /\ resp' = Failed("SetGatewayTargetSubresourceName", "NotFound")
            /\ UNCHANGED gw
       ELSE /\ gw' = [gw EXCEPT ![findGateway(u)].subresource = name]
            /\ resp' = Returned("SetGatewayTargetSubresourceName", findGateway(u))
    /\ UNCHANGED <<gateways, stopped>>

\* gateway.NewWithLocalPort: the old gateway with another port and a
\* listener of its own, not yet served.
NewWithLocalPort(old, p) == [gw[old] EXCEPT !.port = p, !.open = TRUE, !.serving = FALSE]

\* Mutant of PortChangeRefused: the old gateway is removed before the new
\* one is made, and is gone when that fails.
PortChangeRefusedOldRemoved(u, p) ==
    /\ gw[findGateway(u)].open
    /\ gw' = Closed(findGateway(u))
    /\ gateways' = [gateways EXCEPT ![u] = None]
    /\ resp' = Failed("SetGatewayLocalPort", "Error")

\* NewWithLocalPort fails (the port cannot be had): the error is returned
\* and nothing has changed.
PortChangeRefused(u, p) ==
    /\ resp' = Failed("SetGatewayLocalPort", "Error")
    /\ UNCHANGED <<gateways, gw>>

\* Mutant of PortChangeAbandoned: the new gateway is not closed.
PortChangeAbandonedNewLeftOpen(u, p) ==
    /\ ~gw[findGateway(u)].open
    /\ NewObject \in Objects /\ Free(p)
    /\ gw' = [gw EXCEPT ![NewObject] = NewWithLocalPort(findGateway(u), p)]
    /\ resp' = Failed("SetGatewayLocalPort", "Error")
    /\ UNCHANGED gateways

\* The new gateway is made and removeGateway fails on the old one: the new
\* one is closed, the error returned, the map as it was.
PortChangeAbandoned(u, p) ==
    /\ ~gw[findGateway(u)].open
    /\ NewObject \in Objects /\ Free(p)
    /\ gw' = [gw EXCEPT ![NewObject] =
                  [NewWithLocalPort(findGateway(u), p) EXCEPT !.open = FALSE]]
    /\ resp' = Failed("SetGatewayLocalPort", "Error")
    /\ UNCHANGED gateways

\* The new gateway is made, the old one removed, the new one stored under
\* the same URI and served.
PortChanged(u, p) ==
    /\ gw[findGateway(u)].open
    /\ NewObject \in Objects /\ Free(p)
    /\ gw' = [Closed(findGateway(u)) EXCEPT ![NewObject] =
                  [NewWithLocalPort(findGateway(u), p) EXCEPT !.serving = TRUE]]
    /\ gateways' = [gateways EXCEPT ![u] = NewObject]
    /\ resp' = Returned("SetGatewayLocalPort", NewObject)

\* SetGatewayLocalPort: an error without a gateway under the URI, nothing
\* to do for the port the gateway has, and else the change of port with
\* its three ways out.
SetGatewayLocalPort(u, p) ==
    /\ \/ /\ findGateway(u) = None
          /\ resp' = Failed("SetGatewayLocalPort", "NotFound")
          /\ UNCHANGED <<gateways, gw>>
       \/ /\ findGateway(u) # None /\ gw[findGateway(u)].port = p
          /\ resp' = Returned("SetGatewayLocalPort", findGateway(u))
          /\ UNCHANGED <<gateways, gw>>
       \/ /\ findGateway(u) # None /\ gw[findGateway(u)].port # p
          /\ \/ PortChangeRefused(u, p)
             \/ PortChangeAbandoned(u, p)
             \/ PortChanged(u, p)
    /\ UNCHANGED stopped

\* Stop: every gateway of the map is closed, whatever Close returns, and
\* closeContext is cancelled.  The map is left as it is.
Stop ==
    /\ gw' = [o \in Objects |-> IF o \in Listed THEN Closed(o)[o] ELSE gw[o]]
    /\ stopped' = TRUE
    /\ resp' = Returned("Stop", None)
    /\ UNCHANGED gateways

Next ==
    \/ \E t \in Targets \cup {Invalid}, p \in Ports \cup {AnyPort} : CreateGateway(t, p)
    \/ \E u \in URIs : RemoveGateway(u)
    \/ ListGateways
    \/ \E u \in URIs, name \in Names : SetGatewayTargetSubresourceName(u, name)
    \/ \E u \in URIs, p \in Ports : SetGatewayLocalPort(u, p)
    \/ Stop

Spec == Init /\ [][Next]_vars

-----------------------------------------------------------------------------
TypeOK ==
    /\ gateways \in [URIs -> Objects \cup {None}]
    /\ gw \in [Objects -> Gateway \cup {None}]
    /\ stopped \in BOOLEAN
    /\ resp \in Response \cup {None}

\* Until Stop the map holds open gateways only, each under its own URI:
\* whatever CreateGateway, RemoveGateway and SetGatewayLocalPort did before,
\* whether they succeeded or failed, findGateway never hands out a gateway
\* that is closed or that belongs to another URI.
ListedGatewaysAreOpen ==
    ~stopped => \A u \in URIs :
                   gateways[u] # None => gw[gateways[u]].open /\ gw[gateways[u]].uri = u

\* No listener is left behind: a gateway that is open is in the map, where
\* RemoveGateway and Stop find it.  SetGatewayLocalPort makes a second
\* gateway before it lets go of the first, and on each of its ways out
\* exactly one of the two may stay open.
OpenGatewaysAreListed == Open \subseteq Listed

\* All terminals of one kube cluster share one gateway: the map never holds
\* two gateways with the same kube target (createGateway asks
\* shouldReuseGateway before it makes one, and a port change keeps the URI).
OneGatewayPerKubeTarget ==
    \A t \in KubeTargets : Cardinality(findGatewayByTargetURI(t)) <= 1

\* "If gateway.NewWithLocalPort fails it's imperative that the current
\* gateway is kept intact": a SetGatewayLocalPort that returns an error has
\* changed neither the map nor any gateway that was open.
FailedPortChangeKeepsGateway ==
    [][(resp' \in Response /\ resp'.op = "SetGatewayLocalPort" /\ resp'.err # None)
          => /\ gateways' = gateways
             /\ \A o \in Open : gw'[o] = gw[o]]_vars

\* "s.removeGateway() fails only if it was called on a gateway that was
\* already close.  This shouldn't happen": RemoveGateway finds every gateway
\* of the map open and never returns the error of Close.  Stop closes the
\* gateways and leaves them in the map, and a RemoveGateway that comes
\* after it finds them there.
RemoveGatewayNeverFailsToClose ==
    [][~(resp' \in Response /\ resp'.op = "RemoveGateway" /\ resp'.err = "Error")]_vars
=============================================================================
