------------------------------ MODULE RdvServer ------------------------------
(***************************************************************************)
(* The rendezvous server (rdvserver/server.c, peer.c, session.c).          *)
(*                                                                         *)
(* One thread runs select() with a SELECT_DELAY timeout, handles at most   *)
(* one datagram per turn and removes dead clients.  A client is a malloc'd *)
(* object that is a member of a list and is indexed by two binary trees,   *)
(* one keyed by its public endpoint and one keyed by its VPN address.  A   *)
(* session is an ordered pair of client pointers.  The tables are kept in  *)
(* one record, srv, because a handler changes them several times before it *)
(* returns; each C function on the tables is an operator from srv to srv.  *)
(*                                                                         *)
(* Time is counted in whole seconds, as time(NULL) does: a client's        *)
(* timestamp is kept as its age, the seconds since its last PING or HELLO. *)
(***************************************************************************)
EXTENDS Naturals, FiniteSets, Functions

CONSTANTS
  Obj,           \* the addresses malloc may return for a struct client
  NULL,
  Addr,          \* public endpoints, records [ip, port]
  VpnIP,         \* addresses inside the VPN
  MaxClients,    \* config.max_clients, 0 for no limit
  PeerTimeout,   \* PEER_TIMEOUT: an older client may be replaced
  CleanPeriod,   \* seconds between two cleanings under traffic
  SelectDelay    \* SELECT_DELAY_SEC

ASSUME RdvAssumption ==
  /\ NULL \notin Obj
  /\ MaxClients \in Nat
  /\ PeerTimeout \in Nat
  /\ CleanPeriod \in Nat
  /\ SelectDelay \in Nat

VARIABLES
  srv,         \* the client and session tables
  waited,      \* seconds since select() was called
  sinceClean,  \* seconds since last_cleaning
  end_server,  \* set by the signal handler
  pc,          \* "loop", "exit" (past the loop), "stopped"
  sent         \* the datagrams sent by the last turn of the loop

vars == <<srv, waited, sinceClean, end_server, pc, sent>>

(***************************************************************************)
(* The tables.  tsearch keeps the node that is already there when the key  *)
(* is present, and tdelete removes by key whichever object the node holds. *)
(***************************************************************************)
Put(f, k, v) == [x \in DOMAIN f \cup {k} |-> IF x = k THEN v ELSE f[x]]

tsearch(root, key, p) == IF key \in DOMAIN root THEN root ELSE Put(root, key, p)

tdelete(root, keys) == Restrict(root, DOMAIN root \ keys)

tfind(root, key) == IF key \in DOMAIN root THEN root[key] ELSE NULL

client_is_timeout(s, p) == s.clients[p].age > PeerTimeout

client_is_dead(s, p) == s.clients[p].age > 2 * PeerTimeout

get_client_VPN(s, v) == tfind(s.vpn_root, v)

get_client_real(s, a) == tfind(s.addr_root, a)

\* MUTANT of add_client: n_clients is not incremented.
add_client_uncounted(s, p, a, v, local) ==
  [clients   |-> Put(s.clients, p, [addr |-> a, vpnIP |-> v,
                                    local |-> local, age |-> 0]),
   addr_root |-> tsearch(s.addr_root, a, p),
   vpn_root  |-> tsearch(s.vpn_root, v, p),
   sessions  |-> s.sessions,
   n_clients |-> s.n_clients]

\* localaddr is abstracted to whether its port is non-zero.
add_client(s, p, a, v, local) ==
  [clients   |-> Put(s.clients, p, [addr |-> a, vpnIP |-> v,
                                    local |-> local, age |-> 0]),
   addr_root |-> tsearch(s.addr_root, a, p),
   vpn_root  |-> tsearch(s.vpn_root, v, p),
   sessions  |-> s.sessions,
   n_clients |-> s.n_clients + 1]

Endpoints(cl, D) == {cl[p].addr : p \in D}

VpnIPs(cl, D) == {cl[p].vpnIP : p \in D}

\* MUTANTS of remove_client: the tdelete on one of the trees is missing.
remove_client_keeps_addr(s, D) ==
  [clients   |-> Restrict(s.clients, DOMAIN s.clients \ D),
   addr_root |-> s.addr_root,
   vpn_root  |-> tdelete(s.vpn_root, VpnIPs(s.clients, D)),
   sessions  |-> s.sessions,
   n_clients |-> s.n_clients - Cardinality(D)]

remove_client_keeps_vpn(s, D) ==
  [clients   |-> Restrict(s.clients, DOMAIN s.clients \ D),
   addr_root |-> tdelete(s.addr_root, Endpoints(s.clients, D)),
   vpn_root  |-> s.vpn_root,
   sessions  |-> s.sessions,
   n_clients |-> s.n_clients - Cardinality(D)]

\* Unlinks the clients of the set D, one after the other; the order does not
\* matter because each tdelete only looks at the key.
remove_client(s, D) ==
  [clients   |-> Restrict(s.clients, DOMAIN s.clients \ D),
   addr_root |-> tdelete(s.addr_root, Endpoints(s.clients, D)),
   vpn_root  |-> tdelete(s.vpn_root, VpnIPs(s.clients, D)),
   sessions  |-> s.sessions,
   n_clients |-> s.n_clients - Cardinality(D)]

remove_sessions_with_client(s, D) ==
  [s EXCEPT !.sessions = {x \in s.sessions : x[1] \notin D /\ x[2] \notin D}]

\* MUTANT of drop: remove_sessions_with_client is forgotten.
drop_keeps_sessions(s, D) == remove_client(s, D)

\* Every call of remove_client follows remove_sessions_with_client.
drop(s, D) == remove_client(remove_sessions_with_client(s, D), D)

clean_dead_clients(s) == drop(s, {p \in DOMAIN s.clients : client_is_dead(s, p)})

client_update_time(s, p) ==
  [s EXCEPT !.clients = [s.clients EXCEPT ![p].age = 0]]

add_session(s, p1, p2) == [s EXCEPT !.sessions = s.sessions \cup {<<p1, p2>>}]

remove_session(s, p1, p2) == [s EXCEPT !.sessions = s.sessions \ {<<p1, p2>>}]

\* The limit as add_client tests it, and as the HELLO handler does.
full(s) == MaxClients # 0 /\ s.n_clients >= MaxClients

at_limit(s) == MaxClients # 0 /\ s.n_clients = MaxClients

(***************************************************************************)
(* The datagrams the server sends.  ANS and FWD describe another client by *)
(* its VPN address and by its local or its public endpoint.                *)
(***************************************************************************)
Reply(type, to) == [type |-> type, to |-> to]

send_REJECT(to, v) == [type |-> "REJ_CONNECTION", to |-> to, vpnIP |-> v]

Introduce(s, type, p, q, local) ==
  [type |-> type, to |-> s.clients[p].addr, vpnIP |-> s.clients[q].vpnIP,
   addr |-> s.clients[q].addr, local |-> local]

send_ANS(s, p, q, local) == Introduce(s, "ANS_CONNECTION", p, q, local)

send_FWD(s, p, q, local) == Introduce(s, "FWD_CONNECTION", p, q, local)

send_local_ip(s, p, q) ==
  /\ s.clients[p].local
  /\ s.clients[q].local
  /\ s.clients[p].addr.ip = s.clients[q].addr.ip

-----------------------------------------------------------------------------
EmptyTables ==
  [clients |-> [p \in {} |-> NULL], addr_root |-> [a \in {} |-> NULL],
   vpn_root |-> [v \in {} |-> NULL], sessions |-> {}, n_clients |-> 0]

\* last_cleaning is 0, so the first datagram already triggers a cleaning.
Init ==
  /\ srv = EmptyTables
  /\ waited = 0
  /\ sinceClean = CleanPeriod + 1
  /\ end_server = FALSE
  /\ pc = "loop"
  /\ sent = {}

NextTurn == pc' = IF end_server THEN "exit" ELSE "loop"

\* MUTANT of EndTurn: dead clients are only removed when select() times out.
EndTurn_no_cleaning(s, out) ==
  /\ pc = "loop"
  /\ srv' = s
  /\ waited' = 0
  /\ sent' = out
  /\ NextTurn
  /\ UNCHANGED <<sinceClean, end_server>>

\* The end of a turn in which a datagram was received: the handler left the
\* tables in state s and sent the datagrams out; then the periodic cleaning.
EndTurn(s, out) ==
  /\ pc = "loop"
  /\ srv' = IF sinceClean > CleanPeriod THEN clean_dead_clients(s) ELSE s
  /\ sinceClean' = IF sinceClean > CleanPeriod THEN 0 ELSE sinceClean
  /\ waited' = 0
  /\ sent' = out
  /\ NextTurn
  /\ UNCHANGED end_server

\* add_client followed by the answer; malloc or tsearch may fail, and then
\* there is no answer.
Register(s, a, v, local) ==
  \/ ~full(s) /\ \E p \in Obj \ DOMAIN s.clients :
       EndTurn(add_client(s, p, a, v, local), {Reply("OK", a)})
  \/ EndTurn(s, {})

HelloUnknown(a, v, local) ==
  LET q  == get_client_VPN(srv, v)
      s1 == IF q = NULL THEN srv ELSE drop(srv, {q})
      s2 == IF at_limit(s1) THEN clean_dead_clients(s1) ELSE s1
  IN  /\ get_client_real(srv, a) = NULL
      /\ \/ /\ q # NULL /\ ~client_is_timeout(srv, q)
            /\ EndTurn(srv, {Reply("NOK", a)})
         \/ /\ q # NULL => client_is_timeout(srv, q)
            /\ IF at_limit(s2) THEN EndTurn(s2, {Reply("NOK", a)})
                               ELSE Register(s2, a, v, local)

\* MUTANT of HelloKnown: the timeout of the registered client is not tested.
HelloKnown_no_timeout(a, v, local) ==
  LET p == get_client_real(srv, a)
  IN  /\ p # NULL
      /\ IF srv.clients[p].vpnIP = v
         THEN EndTurn(client_update_time(srv, p), {Reply("OK", a)})
         ELSE Register(drop(srv, {p}), a, v, local)

HelloKnown(a, v, local) ==
  LET p == get_client_real(srv, a)
  IN  /\ p # NULL
      /\ \/ /\ client_is_timeout(srv, p)
            /\ srv.clients[p].vpnIP = v
            /\ EndTurn(client_update_time(srv, p), {Reply("OK", a)})
         \/ /\ client_is_timeout(srv, p)
            /\ srv.clients[p].vpnIP # v
            /\ Register(drop(srv, {p}), a, v, local)
         \/ /\ ~client_is_timeout(srv, p)
            /\ EndTurn(srv, {Reply("NOK", a)})

\* Any message but HELLO from an endpoint that is not registered.
Unregistered(a) ==
  /\ get_client_real(srv, a) = NULL
  /\ EndTurn(srv, {Reply("RECONNECT", a)})

Bye(a) ==
  LET p == get_client_real(srv, a)
  IN  /\ p # NULL
      /\ EndTurn(drop(srv, {p}), {})

Ping(a) ==
  LET p == get_client_real(srv, a)
  IN  /\ p # NULL
      /\ EndTurn(client_update_time(srv, p), {Reply("PONG", a)})

\* The tables after ASK_CONNECTION from p for q: a session q -> p is replaced
\* by p -> q, an existing p -> q is only refreshed.
Connect(s, p, q) ==
  IF <<p, q>> \in s.sessions THEN s
  ELSE add_session(remove_session(s, q, p), p, q)

AskConnection(a, v) ==
  LET p   == get_client_real(srv, a)
      q   == get_client_VPN(srv, v)
      loc == send_local_ip(srv, p, q)
  IN  /\ p # NULL
      /\ \/ /\ q = NULL
            /\ EndTurn(srv, {send_REJECT(a, v)})
         \/ /\ q # NULL /\ client_is_timeout(srv, q)
            /\ EndTurn(drop(srv, {q}), {send_REJECT(a, v)})
         \/ /\ q # NULL /\ ~client_is_timeout(srv, q)
            /\ EndTurn(Connect(srv, p, q),
                       {send_ANS(srv, p, q, loc), send_FWD(srv, q, p, loc)})
         \/ \* add_session failed, after the reverse session was removed
            /\ q # NULL /\ ~client_is_timeout(srv, q)
            /\ <<p, q>> \notin srv.sessions
            /\ EndTurn(remove_session(srv, q, p), {send_REJECT(a, v)})

CloseConnection(a, v) ==
  LET p == get_client_real(srv, a)
      q == get_client_VPN(srv, v)
  IN  /\ p # NULL
      /\ EndTurn(IF q = NULL THEN srv
                 ELSE remove_session(remove_session(srv, p, q), q, p), {})

\* A datagram of another type from a registered client, or of a wrong size.
Ignored == EndTurn(srv, {})

\* select() times out.
SelectTimeout ==
  /\ pc = "loop"
  /\ waited = SelectDelay
  /\ srv' = clean_dead_clients(srv)
  /\ sinceClean' = 0
  /\ waited' = 0
  /\ sent' = {}
  /\ NextTurn
  /\ UNCHANGED end_server

\* One second passes while the server waits in select().
Tick ==
  /\ pc = "loop"
  /\ waited < SelectDelay
  /\ waited' = waited + 1
  /\ sinceClean' = sinceClean + 1
  /\ srv' = [srv EXCEPT !.clients =
               [p \in DOMAIN srv.clients |->
                  [srv.clients[p] EXCEPT !.age = srv.clients[p].age + 1]]]
  /\ sent' = {}
  /\ UNCHANGED <<end_server, pc>>

Signal ==
  /\ pc = "loop"
  /\ end_server = FALSE
  /\ end_server' = TRUE
  /\ UNCHANGED <<srv, waited, sinceClean, pc, sent>>

\* select() returns EINTR: no cleaning, and the loop condition fails.
Interrupted ==
  /\ pc = "loop"
  /\ end_server
  /\ pc' = "exit"
  /\ sent' = {}
  /\ UNCHANGED <<srv, waited, sinceClean, end_server>>

Teardown ==
  /\ pc = "exit"
  /\ srv' = drop(srv, DOMAIN srv.clients)
  /\ pc' = "stopped"
  /\ sent' = {}
  /\ UNCHANGED <<waited, sinceClean, end_server>>

Stopped == pc = "stopped" /\ UNCHANGED vars

Receive ==
  \/ \E a \in Addr, v \in VpnIP, local \in BOOLEAN :
       HelloUnknown(a, v, local) \/ HelloKnown(a, v, local)
  \/ \E a \in Addr : Unregistered(a) \/ Bye(a) \/ Ping(a)
  \/ \E a \in Addr, v \in VpnIP : AskConnection(a, v) \/ CloseConnection(a, v)
  \/ Ignored

Next ==
  \/ Receive \/ SelectTimeout \/ Tick
  \/ Signal \/ Interrupted \/ Teardown \/ Stopped

Spec == Init /\ [][Next]_vars
-----------------------------------------------------------------------------
(***************************************************************************)
(* Properties                                                              *)
(***************************************************************************)
ClientRec == [addr : Addr, vpnIP : VpnIP, local : BOOLEAN, age : Nat]

Tables(s) ==
  /\ s = [clients |-> s.clients, addr_root |-> s.addr_root,
          vpn_root |-> s.vpn_root, sessions |-> s.sessions,
          n_clients |-> s.n_clients]
  /\ DOMAIN s.clients \subseteq Obj
  /\ s.clients \in [DOMAIN s.clients -> ClientRec]
  /\ DOMAIN s.addr_root \subseteq Addr
  /\ s.addr_root \in [DOMAIN s.addr_root -> Obj]
  /\ DOMAIN s.vpn_root \subseteq VpnIP
  /\ s.vpn_root \in [DOMAIN s.vpn_root -> Obj]
  /\ s.sessions \subseteq Obj \X Obj
  /\ s.n_clients \in Nat

Datagram ==
       [type : {"OK", "NOK", "PONG", "RECONNECT"}, to : Addr]
  \cup [type : {"REJ_CONNECTION"}, to : Addr, vpnIP : VpnIP]
  \cup [type : {"ANS_CONNECTION", "FWD_CONNECTION"}, to : Addr,
        vpnIP : VpnIP, addr : Addr, local : BOOLEAN]

\* Type invariant: the tables of peer.c and session.c hold objects of the right
\* kinds, the counters stay natural numbers and every datagram is well formed.
TypeOK ==
  /\ Tables(srv)
  /\ waited \in 0 .. SelectDelay
  /\ sinceClean \in Nat
  /\ end_server \in BOOLEAN
  /\ pc \in {"loop", "exit", "stopped"}
  /\ sent \subseteq Datagram

AddressIndex(s) ==
  /\ \A a \in DOMAIN s.addr_root : /\ s.addr_root[a] \in DOMAIN s.clients
                                  /\ s.clients[s.addr_root[a]].addr = a
  /\ \A p \in DOMAIN s.clients : /\ s.clients[p].addr \in DOMAIN s.addr_root
                                /\ s.addr_root[s.clients[p].addr] = p

VpnIndex(s) ==
  \A v \in DOMAIN s.vpn_root : /\ s.vpn_root[v] \in DOMAIN s.clients
                              /\ s.clients[s.vpn_root[v]].vpnIP = v

LiveSessions(s) ==
  \A x \in s.sessions : x[1] \in DOMAIN s.clients /\ x[2] \in DOMAIN s.clients

OneWay(s) ==
  \A x \in s.sessions : x[1] # x[2] => <<x[2], x[1]>> \notin s.sessions

Counted(s) ==
  /\ IsFiniteSet(DOMAIN s.clients)
  /\ s.n_clients = Cardinality(DOMAIN s.clients)
  /\ MaxClients # 0 => s.n_clients <= MaxClients

\* The address tree of rdvserver/peer.c holds exactly the clients of the list:
\* no node points to a freed client, no client is missing from the tree, and so
\* no two clients share a public endpoint, whatever the order of HELLO, BYE and
\* of the removals of timed-out clients.
AddressTreeExact == AddressIndex(srv)

\* A node of the VPN tree of rdvserver/peer.c never points to a freed client,
\* although tdelete removes by key the node that another client may own.
VpnTreeNotDangling == VpnIndex(srv)

\* A session of session.c only refers to registered clients: every path that
\* frees a client removes its sessions first.
SessionsNotDangling == LiveSessions(srv)

\* The server never keeps a connection in both directions (server.c:302-306).
SessionsOneWay == OneWay(srv)

\* n_clients counts the list, and the configured maximum is never exceeded.
ClientLimit == Counted(srv)

\* A client that sends neither PING nor HELLO is forgotten after at most two
\* PEER_TIMEOUTs, one cleaning period and one select delay, however busy the
\* other clients keep the server (server.c:363-380).
ForgottenInTime ==
  \A p \in DOMAIN srv.clients :
    srv.clients[p].age <= 2 * PeerTimeout + CleanPeriod + SelectDelay

\* p was registered and has not timed out, and the step unregisters it.
Evicted(p) ==
  /\ p \in DOMAIN srv.clients
  /\ ~client_is_timeout(srv, p)
  /\ p \in DOMAIN srv'.clients =>
       \/ srv'.clients[p].addr # srv.clients[p].addr
       \/ srv'.clients[p].vpnIP # srv.clients[p].vpnIP

\* A client that has not timed out is only unregistered by its own BYE or when
\* the server stops: no message of another endpoint takes its place.
NoEviction ==
  [][\A p \in Obj : Evicted(p) => Bye(srv.clients[p].addr) \/ Teardown]_vars
=============================================================================
