------------------------------- MODULE Proxy -------------------------------
(***************************************************************************)
(* The master's reverse proxy (internal/master/proxy): a route per port, a *)
(* listener per port, and the sockets the operating system holds open.     *)
(*                                                                         *)
(* BindPort is not atomic: it tests the listener table under Server.mu,    *)
(* lets go of the lock to call net.Listen, and takes it again to record    *)
(* the listener.  Routes and listeners can change in both gaps.  A request *)
(* is a goroutine that uses the proxy: an HTTP handler of the API.         *)
(***************************************************************************)
EXTENDS Domain

VARIABLES
    routes,       \* Server.routes: port -> container
    listeners,    \* Server.listeners: the ports with a recorded listener
    sockets,      \* ports with an open listening socket (operating system)
    binding       \* caller -> where it stands inside BindPort

proxyVars == <<routes, listeners, sockets, binding>>

NotBinding == [step |-> "none", port |-> NoPort]

Binding == {NotBinding} \cup [step : {"listen", "record"}, port : Ports]

ProxyTypeOK ==
    /\ routes \in [Ports -> Containers \cup {NoContainer}]
    /\ listeners \subseteq Ports
    /\ sockets \subseteq Ports
    /\ binding \in [Requests -> Binding]

ProxyInit ==
    /\ routes = [p \in Ports |-> NoContainer]
    /\ listeners = {}
    /\ sockets = {}
    /\ binding = [k \in Requests |-> NotBinding]

(***************************************************************************)
(* Routes.  UnregisterRoute forgets the route and closes the recorded      *)
(* listener, in one critical section.                                      *)
(***************************************************************************)
\* Mutant of RegisterRoute: a route that is there already is kept.
Mutant_RegisterRoute(p, c) ==
    /\ routes' = [routes EXCEPT ![p] = IF @ = NoContainer THEN c ELSE @]
    /\ UNCHANGED <<listeners, sockets, binding>>

RegisterRoute(p, c) ==
    /\ routes' = [routes EXCEPT ![p] = c]
    /\ UNCHANGED <<listeners, sockets, binding>>

\* Mutants of UnregisterRoute: the listener is left; it is forgotten unclosed.
Mutant_LeavesListener(p) ==
    /\ routes' = [routes EXCEPT ![p] = NoContainer]
    /\ UNCHANGED <<listeners, sockets, binding>>

Mutant_ForgetsListener(p) ==
    /\ routes' = [routes EXCEPT ![p] = NoContainer]
    /\ listeners' = listeners \ {p}
    /\ UNCHANGED <<sockets, binding>>

UnregisterRoute(p) ==
    /\ routes' = [routes EXCEPT ![p] = NoContainer]
    /\ listeners' = listeners \ {p}
    /\ sockets' = IF p \in listeners THEN sockets \ {p} ELSE sockets
    /\ UNCHANGED binding

(***************************************************************************)
(* BindPort, in three steps: the test under the lock, net.Listen without   *)
(* it, the recording under the lock.  net.Listen fails when the port is    *)
(* open (EADDRINUSE) and may fail at any time for reasons outside the      *)
(* master; a failure returns to the caller, which only logs it.            *)
(***************************************************************************)
BindCheck(k, p) ==
    /\ binding[k] = NotBinding
    /\ binding' = IF p \in listeners THEN binding
                  ELSE [binding EXCEPT ![k] = [step |-> "listen", port |-> p]]
    /\ UNCHANGED <<routes, listeners, sockets>>

BindListen(k) ==
    /\ binding[k].step = "listen"
    /\ binding[k].port \notin sockets
    /\ sockets' = sockets \cup {binding[k].port}
    /\ binding' = [binding EXCEPT ![k].step = "record"]
    /\ UNCHANGED <<routes, listeners>>

BindListenFails(k) ==
    /\ binding[k].step = "listen"
    /\ binding' = [binding EXCEPT ![k] = NotBinding]
    /\ UNCHANGED <<routes, listeners, sockets>>

BindRecord(k) ==
    /\ binding[k].step = "record"
    /\ listeners' = listeners \cup {binding[k].port}
    /\ binding' = [binding EXCEPT ![k] = NotBinding]
    /\ UNCHANGED <<routes, sockets>>

(***************************************************************************)
(* Master restart: the process's sockets are closed and its tables are     *)
(* rebuilt from the persisted containers before the API serves.  Wanted is *)
(* the route of every published port, Bound the ports net.Listen granted.  *)
(***************************************************************************)
Published(Wanted) == {p \in Ports : Wanted[p] # NoContainer}

Rebind(Wanted, Bound) ==
    /\ routes' = Wanted
    /\ listeners' = Bound
    /\ sockets' = Bound
    /\ binding' = [k \in Requests |-> NotBinding]

ProxyNext ==
    \/ \E p \in Ports, c \in Containers : RegisterRoute(p, c)
    \/ \E p \in Ports : UnregisterRoute(p)
    \/ \E k \in Requests, p \in Ports : BindCheck(k, p)
    \/ \E k \in Requests : BindListen(k) \/ BindListenFails(k) \/ BindRecord(k)
    \/ \E W \in [Ports -> Containers \cup {NoContainer}] :
            \E B \in SUBSET Published(W) : Rebind(W, B)

ProxySpec == ProxyInit /\ [][ProxyNext]_proxyVars

-----------------------------------------------------------------------------
\* The callers whose net.Listen on p has succeeded and is not recorded yet.
Recording(p) == {k \in Requests : binding[k] = [step |-> "record", port |-> p]}

(***************************************************************************)
(* "Each container gets one dedicated listener" (proxy.go:43): a port is   *)
(* open exactly when its listener is recorded, so that UnregisterRoute can *)
(* close it, or one caller is about to record it.  A socket outside both   *)
(* would stay open until the master exits.                                 *)
(***************************************************************************)
SocketsAccounted ==
    \A p \in Ports :
        /\ p \in sockets <=> (p \in listeners \/ Recording(p) # {})
        /\ p \in listeners => Recording(p) = {}
        /\ \A k, l \in Recording(p) : k = l
=============================================================================
