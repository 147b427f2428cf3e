---------------------------- MODULE ProxyProofs ----------------------------
(***************************************************************************)
(* The proxy accounts for every socket it opens, for any number of callers *)
(* of RegisterRoute, UnregisterRoute and BindPort, in any interleaving.    *)
(***************************************************************************)
EXTENDS Proxy, TLAPS

(***************************************************************************)
(* Inside BindPort, a caller knows its port.                               *)
(***************************************************************************)
LEMMA InsideBindPort ==
    ASSUME ProxyTypeOK, NEW k \in Requests, binding[k].step # "none"
    PROVE  /\ binding[k].port \in Ports
           /\ binding[k] = [step |-> binding[k].step, port |-> binding[k].port]
           /\ [binding[k] EXCEPT !.step = "record"]
                = [step |-> "record", port |-> binding[k].port]
BY DEF ProxyTypeOK, Binding, NotBinding

\* Every step of the proxy keeps its state well typed.
LEMMA ProxyTypes == ProxyTypeOK /\ [ProxyNext]_proxyVars => ProxyTypeOK'
<1> SUFFICES ASSUME ProxyTypeOK, [ProxyNext]_proxyVars PROVE ProxyTypeOK'
  OBVIOUS
<1>1. CASE UNCHANGED proxyVars
  BY <1>1 DEF ProxyTypeOK, proxyVars
<1>2. ASSUME NEW p \in Ports, NEW c \in Containers, RegisterRoute(p, c)
      PROVE  ProxyTypeOK'
  BY <1>2 DEF ProxyTypeOK, RegisterRoute
<1>3. ASSUME NEW p \in Ports, UnregisterRoute(p)
      PROVE  ProxyTypeOK'
  BY <1>3 DEF ProxyTypeOK, UnregisterRoute
<1>4. ASSUME NEW k \in Requests, NEW p \in Ports, BindCheck(k, p)
      PROVE  ProxyTypeOK'
  <2>1. [step |-> "listen", port |-> p] \in Binding
    BY DEF Binding
  <2> QED
    BY <1>4, <2>1 DEF ProxyTypeOK, BindCheck
<1>5. ASSUME NEW k \in Requests, BindListen(k) \/ BindListenFails(k) \/ BindRecord(k)
      PROVE  ProxyTypeOK'
  <2>1. binding[k].port \in Ports
    BY <1>5, InsideBindPort DEF BindListen, BindListenFails, BindRecord
  <2>2. [binding[k] EXCEPT !.step = "record"] \in Binding
    BY <1>5, <2>1, InsideBindPort DEF BindListen, BindListenFails, BindRecord, Binding
  <2>3. NotBinding \in Binding
    BY DEF Binding
  <2> QED
    BY <1>5, <2>1, <2>2, <2>3 DEF ProxyTypeOK, BindListen, BindListenFails, BindRecord
<1>6. ASSUME NEW W \in [Ports -> Containers \cup {NoContainer}],
             NEW B \in SUBSET Published(W), Rebind(W, B)
      PROVE  ProxyTypeOK'
  BY <1>6 DEF ProxyTypeOK, Rebind, Published, Binding
<1> QED
  BY <1>1, <1>2, <1>3, <1>4, <1>5, <1>6 DEF ProxyNext

(***************************************************************************)
(* SocketsAccounted is inductive: a caller enters "record" only with a     *)
(* socket nobody had open, and a listener is only recorded for a socket    *)
(* its own caller has opened.                                              *)
(***************************************************************************)
LEMMA SocketSteps ==
    ProxyTypeOK /\ SocketsAccounted /\ [ProxyNext]_proxyVars => SocketsAccounted'
<1> SUFFICES ASSUME ProxyTypeOK, SocketsAccounted, [ProxyNext]_proxyVars
             PROVE  SocketsAccounted'
  OBVIOUS
<1>1. CASE UNCHANGED proxyVars
  BY <1>1 DEF SocketsAccounted, Recording, proxyVars
<1>2. ASSUME NEW p \in Ports, NEW c \in Containers, RegisterRoute(p, c)
      PROVE  SocketsAccounted'
  BY <1>2 DEF SocketsAccounted, Recording, RegisterRoute
<1>3. ASSUME NEW p \in Ports, UnregisterRoute(p)
      PROVE  SocketsAccounted'
  BY <1>3 DEF SocketsAccounted, Recording, UnregisterRoute
<1>4. ASSUME NEW k \in Requests, NEW p \in Ports, BindCheck(k, p)
      PROVE  SocketsAccounted'
  <2>1. \A q \in Ports : Recording(q)' = Recording(q)
    BY <1>4 DEF ProxyTypeOK, Recording, BindCheck, NotBinding
  <2> QED
    BY <1>4, <2>1 DEF SocketsAccounted, BindCheck
<1>5. ASSUME NEW k \in Requests, BindListen(k)
      PROVE  SocketsAccounted'
  <2>1. PICK p \in Ports \ sockets : binding[k] = [step |-> "listen", port |-> p]
    BY <1>5, InsideBindPort DEF BindListen
  <2>2. Recording(p) = {} /\ p \notin listeners
    BY <2>1 DEF SocketsAccounted
  <2>3. binding' = [binding EXCEPT ![k] = [step |-> "record", port |-> p]]
    <3>1. [binding[k] EXCEPT !.step = "record"] = [step |-> "record", port |-> p]
      BY <2>1
    <3>2. binding' = [binding EXCEPT ![k] = [binding[k] EXCEPT !.step = "record"]]
      BY <1>5 DEF BindListen
    <3> QED
      BY <3>1, <3>2
  <2>4. Recording(p)' = {k}
    BY <2>2, <2>3 DEF ProxyTypeOK, Recording
  <2>5. \A q \in Ports \ {p} : Recording(q)' = Recording(q)
    BY <1>5, <2>1, <2>3 DEF ProxyTypeOK, Recording, BindListen
  <2> QED
    BY <1>5, <2>1, <2>2, <2>4, <2>5 DEF SocketsAccounted, BindListen
<1>6. ASSUME NEW k \in Requests, BindListenFails(k)
      PROVE  SocketsAccounted'
  <2>1. \A q \in Ports : Recording(q)' = Recording(q)
    BY <1>6 DEF ProxyTypeOK, Recording, BindListenFails, NotBinding
  <2> QED
    BY <1>6, <2>1 DEF SocketsAccounted, BindListenFails
<1>7. ASSUME NEW k \in Requests, BindRecord(k)
      PROVE  SocketsAccounted'
  <2>1. PICK p \in Ports : binding[k] = [step |-> "record", port |-> p]
    BY <1>7, InsideBindPort DEF BindRecord
  <2>2. Recording(p) = {k} /\ p \in sockets
    BY <2>1 DEF SocketsAccounted, Recording
  <2>3. Recording(p)' = {}
    BY <1>7, <2>1, <2>2 DEF ProxyTypeOK, Recording, BindRecord, NotBinding
  <2>4. \A q \in Ports \ {p} : Recording(q)' = Recording(q)
    BY <1>7, <2>1 DEF ProxyTypeOK, Recording, BindRecord, NotBinding
  <2> QED
    BY <1>7, <2>1, <2>2, <2>3, <2>4 DEF SocketsAccounted, BindRecord
<1>8. ASSUME NEW W \in [Ports -> Containers \cup {NoContainer}],
             NEW B \in SUBSET Published(W), Rebind(W, B)
      PROVE  SocketsAccounted'
  BY <1>8 DEF SocketsAccounted, Recording, Rebind, NotBinding
<1> QED
  BY <1>1, <1>2, <1>3, <1>4, <1>5, <1>6, <1>7, <1>8 DEF ProxyNext

\* A proxy that has just started accounts for its sockets: it has none.
LEMMA ProxyStart == ProxyInit => ProxyTypeOK /\ SocketsAccounted
BY DEF ProxyInit, ProxyTypeOK, SocketsAccounted, Recording, Binding, NotBinding

(***************************************************************************)
(* The proxy on its own: however its callers interleave, every open socket *)
(* has exactly one owner, its recorded listener or the caller about to     *)
(* record it. (proxy.go:84-111, 207-217)                                   *)
(***************************************************************************)
THEOREM ProxyAccounts == ProxySpec => []SocketsAccounted
<1>1. ProxyInit => ProxyTypeOK /\ SocketsAccounted
  BY ProxyStart
<1>2. ProxyTypeOK /\ SocketsAccounted /\ [ProxyNext]_proxyVars
        => (ProxyTypeOK /\ SocketsAccounted)'
  BY ProxyTypes, SocketSteps
<1> QED
  BY <1>1, <1>2, PTL DEF ProxySpec
=============================================================================
