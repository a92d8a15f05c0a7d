--------------------------- MODULE RdvServerProofs ---------------------------
(***************************************************************************)
(* Proofs about the rendezvous server, for any sets of client objects,     *)
(* endpoints and VPN addresses and any limit and delays.                   *)
(*                                                                         *)
(* Good is what every table operation keeps, Young bounds the ages, and    *)
(* Keeps says that a change of the tables loses no client that has not     *)
(* timed out.  Each C function has lemmas about the tables it returns; the *)
(* handlers compose them.                                                  *)
(***************************************************************************)
EXTENDS RdvServer, FiniteSetTheorems, TLAPS

\* The tables are consistent.
Good(s) ==
  /\ Tables(s)
  /\ AddressIndex(s)
  /\ VpnIndex(s)
  /\ LiveSessions(s)
  /\ OneWay(s)
  /\ Counted(s)

\* The fields of the tables after remove_sessions_with_client and remove_client.
LEMMA DropFields ==
  ASSUME NEW s, Tables(s), NEW D
  PROVE  LET t == drop(s, D) IN
         /\ t = [clients |-> t.clients, addr_root |-> t.addr_root,
                 vpn_root |-> t.vpn_root, sessions |-> t.sessions,
                 n_clients |-> t.n_clients]
         /\ t.clients = Restrict(s.clients, DOMAIN s.clients \ D)
         /\ t.addr_root = tdelete(s.addr_root, Endpoints(s.clients, D))
         /\ t.vpn_root = tdelete(s.vpn_root, VpnIPs(s.clients, D))
         /\ t.sessions = {x \in s.sessions : x[1] \notin D /\ x[2] \notin D}
         /\ t.n_clients = s.n_clients - Cardinality(D)
  <1> DEFINE u == remove_sessions_with_client(s, D)
  <1>1. /\ u.clients = s.clients
        /\ u.addr_root = s.addr_root
        /\ u.vpn_root = s.vpn_root
        /\ u.n_clients = s.n_clients
        /\ u.sessions = {x \in s.sessions : x[1] \notin D /\ x[2] \notin D}
    BY DEF Tables, remove_sessions_with_client
  <1>2. drop(s, D) = remove_client(u, D)
    BY DEF drop
  <1> HIDE DEF u
  <1> QED BY <1>1, <1>2 DEF remove_client

\* Removing clients keeps the tables consistent: the two tdelete calls take out
\* exactly the nodes that would dangle.
LEMMA DropGood ==
  ASSUME NEW s, Good(s), NEW D, D \subseteq DOMAIN s.clients
  PROVE  Good(drop(s, D))
  <1> DEFINE t == drop(s, D)
  <1>0. Tables(s)
    BY DEF Good
  <1> HIDE DEF t
  <1>1. /\ t.clients = Restrict(s.clients, DOMAIN s.clients \ D)
        /\ t.addr_root = tdelete(s.addr_root, Endpoints(s.clients, D))
        /\ t.vpn_root = tdelete(s.vpn_root, VpnIPs(s.clients, D))
        /\ t.sessions = {x \in s.sessions : x[1] \notin D /\ x[2] \notin D}
        /\ t.n_clients = s.n_clients - Cardinality(D)
        /\ t = [clients |-> t.clients, addr_root |-> t.addr_root,
                vpn_root |-> t.vpn_root, sessions |-> t.sessions,
                n_clients |-> t.n_clients]
    BY <1>0, DropFields, ZenonT(30) DEF t
  <1>2. Counted(t) /\ t.n_clients \in Nat
    <2>1. IsFiniteSet(D) /\ IsFiniteSet(DOMAIN s.clients \ D)
      BY FS_Subset DEF Good, Counted
    <2>2. Cardinality(DOMAIN s.clients \ D) = s.n_clients - Cardinality(D)
      <3>1. (DOMAIN s.clients) \cap D = D
        OBVIOUS
      <3>2. Cardinality(DOMAIN s.clients \ D)
              = Cardinality(DOMAIN s.clients) - Cardinality((DOMAIN s.clients) \cap D)
        BY FS_Difference, Zenon DEF Good, Counted
      <3> QED BY <3>1, <3>2 DEF Good, Counted
    <2>3. Cardinality(DOMAIN s.clients \ D) \in Nat /\ Cardinality(D) \in Nat
      BY FS_CardinalityType, <2>1
    <2>4. DOMAIN t.clients = DOMAIN s.clients \ D
      BY <1>1 DEF Restrict
    <2> QED BY <1>1, <2>1, <2>2, <2>3, <2>4, RdvAssumption DEF Good, Counted, Tables
  <1>3. Tables(t)
    BY <1>1, <1>2 DEF Good, Tables, Restrict, tdelete
  <1>4. AddressIndex(t)
    <2>1. ASSUME NEW a \in DOMAIN t.addr_root
          PROVE  /\ t.addr_root[a] \in DOMAIN t.clients
                 /\ t.clients[t.addr_root[a]].addr = a
      <3>1. a \in DOMAIN s.addr_root /\ a \notin Endpoints(s.clients, D) /\ t.addr_root[a] = s.addr_root[a]
        BY <1>1, <2>1, SMT, SMTT(30) DEF Restrict, tdelete
      <3>2. s.addr_root[a] \in DOMAIN s.clients /\ s.clients[s.addr_root[a]].addr = a
        BY <3>1, Zenon DEF Good, AddressIndex
      <3> DEFINE q == s.addr_root[a]
      <3>3. q \notin D
        BY <3>1, <3>2, Zenon DEF Endpoints
      <3> HIDE DEF q
      <3>4. q \in DOMAIN s.clients \ D
        BY <3>2, <3>3, Zenon DEF q
      <3>5. q \in DOMAIN t.clients /\ t.clients[q] = s.clients[q]
        BY <1>1, <3>4 DEF Restrict
      <3> QED BY <3>1, <3>2, <3>5, Zenon DEF q
    <2>2. ASSUME NEW p \in DOMAIN t.clients
          PROVE  /\ t.clients[p].addr \in DOMAIN t.addr_root
                 /\ t.addr_root[t.clients[p].addr] = p
      <3>1. p \in DOMAIN s.clients /\ p \notin D /\ t.clients[p] = s.clients[p]
        BY <1>1 DEF Restrict
      <3>2. s.clients[p].addr \notin Endpoints(s.clients, D)
        BY <3>1, Zenon DEF Good, AddressIndex, Endpoints
      <3> QED BY <1>1, <3>1, <3>2, SMT, SMTT(30) DEF Good, AddressIndex, Restrict, tdelete
    <2> QED BY <2>1, <2>2 DEF AddressIndex
  <1>5. VpnIndex(t)
    BY <1>1, SMT, SMTT(30) DEF Good, VpnIndex, Restrict, tdelete, VpnIPs
  <1>6. LiveSessions(t) /\ OneWay(t)
    BY <1>1 DEF Good, LiveSessions, OneWay, Restrict
  <1> QED BY <1>2, <1>3, <1>4, <1>5, <1>6 DEF Good, t

\* add_client below the limit, for an endpoint that is not in the address tree,
\* keeps the tables consistent even when the VPN address is already in its tree.
LEMMA AddGood ==
  ASSUME NEW s, Good(s), ~full(s), NEW p \in Obj \ DOMAIN s.clients,
         NEW a \in Addr, a \notin DOMAIN s.addr_root,
         NEW v \in VpnIP, NEW local \in BOOLEAN
  PROVE  Good(add_client(s, p, a, v, local))
  <1> DEFINE t == add_client(s, p, a, v, local)
             c == [addr |-> a, vpnIP |-> v, local |-> local, age |-> 0]
  <1>1. /\ t.clients = Put(s.clients, p, c)
        /\ t.addr_root = Put(s.addr_root, a, p)
        /\ t.vpn_root = tsearch(s.vpn_root, v, p)
        /\ t.sessions = s.sessions
        /\ t.n_clients = s.n_clients + 1
        /\ t = [clients |-> t.clients, addr_root |-> t.addr_root,
                vpn_root |-> t.vpn_root, sessions |-> t.sessions,
                n_clients |-> t.n_clients]
    BY DEF add_client, tsearch
  <1>2. c \in ClientRec /\ c.addr = a /\ c.vpnIP = v
    BY DEF ClientRec
  <1> HIDE DEF t, c
  <1>3. /\ DOMAIN t.clients = DOMAIN s.clients \cup {p}
        /\ t.clients[p] = c
        /\ \A q \in DOMAIN s.clients : t.clients[q] = s.clients[q]
    BY <1>1 DEF Put
  <1>4. Counted(t) /\ t.n_clients \in Nat
    <2>1. /\ IsFiniteSet(DOMAIN t.clients)
          /\ Cardinality(DOMAIN t.clients) = Cardinality(DOMAIN s.clients) + 1
      BY <1>3, FS_AddElement, ZenonT(30) DEF Good, Counted
    <2> QED BY <1>1, <2>1, RdvAssumption DEF Good, Counted, Tables, full
  <1>5. Tables(t)
    <2>1. t.clients \in [DOMAIN t.clients -> ClientRec]
      BY <1>1, <1>2, <1>3 DEF Good, Tables, Put
    <2>2. /\ DOMAIN t.addr_root \subseteq Addr
          /\ t.addr_root \in [DOMAIN t.addr_root -> Obj]
      BY <1>1 DEF Good, Tables, Put
    <2>3. /\ DOMAIN t.vpn_root \subseteq VpnIP
          /\ t.vpn_root \in [DOMAIN t.vpn_root -> Obj]
      BY <1>1 DEF Good, Tables, Put, tsearch
    <2> QED BY <1>1, <1>3, <1>4, <2>1, <2>2, <2>3 DEF Good, Tables
  <1>6. AddressIndex(t)
    <2>1. /\ DOMAIN t.addr_root = DOMAIN s.addr_root \cup {a} /\ t.addr_root[a] = p
          /\ \A x \in DOMAIN s.addr_root : t.addr_root[x] = s.addr_root[x]
      BY <1>1 DEF Put
    <2>2. AddressIndex(s)
      BY Zenon DEF Good
    <2>3. ASSUME NEW x \in DOMAIN t.addr_root
          PROVE  t.addr_root[x] \in DOMAIN t.clients /\ t.clients[t.addr_root[x]].addr = x
      <3>1. CASE x = a
        <4>1. p \in DOMAIN t.clients /\ t.clients[p].addr = a
          BY <1>2, <1>3, Zenon
        <4>2. t.addr_root[x] = p
          BY <2>1, <3>1, Zenon
        <4> QED BY <3>1, <4>1, <4>2, Zenon
      <3>2. CASE x \in DOMAIN s.addr_root
        <4> DEFINE q == s.addr_root[x]
        <4>1. q \in DOMAIN s.clients /\ s.clients[q].addr = x
          BY <2>2, <3>2, Zenon DEF AddressIndex
        <4>2. t.addr_root[x] = q
          BY <2>1, <3>2, Zenon
        <4> HIDE DEF q
        <4>3. q \in DOMAIN t.clients /\ t.clients[q].addr = x
          BY <1>3, <4>1, Zenon
        <4> QED BY <4>2, <4>3, Zenon
      <3> QED BY <2>1, <3>1, <3>2, Zenon
    <2>4. ASSUME NEW q \in DOMAIN t.clients
          PROVE  t.clients[q].addr \in DOMAIN t.addr_root /\ t.addr_root[t.clients[q].addr] = q
      <3>1. CASE q = p
        BY <1>2, <1>3, <2>1, <3>1, Zenon
      <3>2. CASE q \in DOMAIN s.clients
        <4>1. s.clients[q].addr \in DOMAIN s.addr_root /\ s.addr_root[s.clients[q].addr] = q
          BY <2>2, <3>2, Zenon DEF AddressIndex
        <4>2. t.clients[q] = s.clients[q]
          BY <1>3, <3>2, Zenon
        <4> QED BY <2>1, <4>1, <4>2, Zenon
      <3> QED BY <1>3, <3>1, <3>2, Zenon
    <2> QED BY <2>3, <2>4, Zenon DEF AddressIndex
  <1>7. VpnIndex(t)
    <2>1. VpnIndex(s)
      BY Zenon DEF Good
    <2>2. ASSUME NEW x \in DOMAIN t.vpn_root
          PROVE  \/ x \in DOMAIN s.vpn_root /\ t.vpn_root[x] = s.vpn_root[x]
                 \/ t.vpn_root[x] = p /\ t.clients[p].vpnIP = x
      BY <1>1, <1>2, <2>2, SMT, SMTT(30) DEF Put, tsearch
    <2>3. ASSUME NEW x \in DOMAIN t.vpn_root
          PROVE  t.vpn_root[x] \in DOMAIN t.clients /\ t.clients[t.vpn_root[x]].vpnIP = x
      <3>1. CASE x \in DOMAIN s.vpn_root /\ t.vpn_root[x] = s.vpn_root[x]
        <4>1. s.vpn_root[x] \in DOMAIN s.clients /\ s.clients[s.vpn_root[x]].vpnIP = x
          BY <2>1, <3>1, Zenon DEF VpnIndex
        <4> QED BY <1>3, <3>1, <4>1, Zenon
      <3>2. CASE t.vpn_root[x] = p /\ t.clients[p].vpnIP = x
        BY <1>3, <3>2, Zenon
      <3> QED BY <2>2, <2>3, <3>1, <3>2, Zenon
    <2> QED BY <2>3, Zenon DEF VpnIndex
  <1>8. LiveSessions(t) /\ OneWay(t)
    BY <1>1, <1>3 DEF Good, LiveSessions, OneWay
  <1> QED BY <1>4, <1>5, <1>6, <1>7, <1>8, Zenon DEF Good, t

\* client_update_time only touches the age of a registered client.
LEMMA UpdateTimeGood ==
  ASSUME NEW s, Good(s), NEW p \in DOMAIN s.clients
  PROVE  Good(client_update_time(s, p))
  <1> DEFINE t == client_update_time(s, p)
  <1>1. /\ t.clients = [s.clients EXCEPT ![p].age = 0]
        /\ t.addr_root = s.addr_root
        /\ t.vpn_root = s.vpn_root
        /\ t.sessions = s.sessions
        /\ t.n_clients = s.n_clients
        /\ t = [clients |-> t.clients, addr_root |-> t.addr_root,
                vpn_root |-> t.vpn_root, sessions |-> t.sessions,
                n_clients |-> t.n_clients]
    BY DEF Good, Tables, client_update_time
  <1> HIDE DEF t
  <1>2. /\ DOMAIN t.clients = DOMAIN s.clients
        /\ \A q \in DOMAIN s.clients :
             /\ t.clients[q] \in ClientRec
             /\ t.clients[q].addr = s.clients[q].addr
             /\ t.clients[q].vpnIP = s.clients[q].vpnIP
    BY <1>1 DEF Good, Tables, ClientRec
  <1>3. t.clients \in [DOMAIN t.clients -> ClientRec]
    BY <1>1, <1>2, Zenon
  <1>4. Tables(t)
    BY <1>1, <1>2, <1>3, Zenon DEF Good, Tables
  <1>5. AddressIndex(t) /\ VpnIndex(t)
    BY <1>1, <1>2, SMT, SMTT(30) DEF Good, AddressIndex, VpnIndex
  <1>6. LiveSessions(t) /\ OneWay(t) /\ Counted(t)
    BY <1>1, <1>2 DEF Good, LiveSessions, OneWay, Counted
  <1> QED BY <1>4, <1>5, <1>6 DEF Good, t

\* Any one-way set of sessions between registered clients is consistent.
LEMMA SessionsGood ==
  ASSUME NEW s, Good(s), NEW S, S \subseteq Obj \X Obj,
         \A x \in S : x[1] \in DOMAIN s.clients /\ x[2] \in DOMAIN s.clients,
         \A x \in S : x[1] # x[2] => <<x[2], x[1]>> \notin S
  PROVE  Good([s EXCEPT !.sessions = S])
  <1> DEFINE t == [s EXCEPT !.sessions = S]
  <1>1. /\ t.clients = s.clients
        /\ t.addr_root = s.addr_root
        /\ t.vpn_root = s.vpn_root
        /\ t.sessions = S
        /\ t.n_clients = s.n_clients
        /\ t = [clients |-> t.clients, addr_root |-> t.addr_root,
                vpn_root |-> t.vpn_root, sessions |-> t.sessions,
                n_clients |-> t.n_clients]
    BY DEF Good, Tables
  <1> HIDE DEF t
  <1>2. Tables(t)
    BY <1>1, Zenon DEF Good, Tables
  <1>3. AddressIndex(t) /\ VpnIndex(t) /\ Counted(t)
    BY <1>1 DEF Good, AddressIndex, VpnIndex, Counted
  <1>4. LiveSessions(t) /\ OneWay(t)
    BY <1>1 DEF LiveSessions, OneWay
  <1> QED BY <1>2, <1>3, <1>4 DEF Good, t

\* The session update of ASK_CONNECTION keeps the tables consistent.
LEMMA ConnectGood ==
  ASSUME NEW s, Good(s), NEW p \in DOMAIN s.clients, NEW q \in DOMAIN s.clients
  PROVE  /\ Good(remove_session(s, p, q))
         /\ Good(remove_session(remove_session(s, p, q), q, p))
         /\ Good(Connect(s, p, q))
  <1>1. ASSUME NEW u, Good(u), NEW p1 \in DOMAIN u.clients, NEW p2 \in DOMAIN u.clients
        PROVE  /\ Good(remove_session(u, p1, p2))
               /\ remove_session(u, p1, p2).sessions = u.sessions \ {<<p1, p2>>}
               /\ remove_session(u, p1, p2).clients = u.clients
    <2>1. Good(remove_session(u, p1, p2))
      <3>1. /\ u.sessions \ {<<p1, p2>>} \subseteq Obj \X Obj
            /\ \A x \in u.sessions \ {<<p1, p2>>} :
                  x[1] \in DOMAIN u.clients /\ x[2] \in DOMAIN u.clients
            /\ \A x \in u.sessions \ {<<p1, p2>>} :
                  x[1] # x[2] => <<x[2], x[1]>> \notin u.sessions \ {<<p1, p2>>}
        BY <1>1 DEF Good, Tables, LiveSessions, OneWay
      <3> QED BY <1>1, <3>1, SessionsGood, Zenon DEF remove_session
    <2>2. /\ remove_session(u, p1, p2).sessions = u.sessions \ {<<p1, p2>>}
          /\ remove_session(u, p1, p2).clients = u.clients
      BY <1>1 DEF Good, Tables, remove_session
    <2> QED BY <2>1, <2>2
  <1>2. Good(remove_session(remove_session(s, p, q), q, p))
    BY <1>1
  <1>3. Good(Connect(s, p, q))
    <2>1. CASE <<p, q>> \in s.sessions
      BY <2>1 DEF Connect
    <2>2. CASE <<p, q>> \notin s.sessions
      <3> DEFINE u == remove_session(s, q, p)
                 S == u.sessions \cup {<<p, q>>}
      <3>1. /\ Good(u)
            /\ u.sessions = s.sessions \ {<<q, p>>}
            /\ u.clients = s.clients
        BY <1>1
      <3> HIDE DEF u
      <3>2. p \in Obj /\ q \in Obj
        BY DEF Good, Tables
      <3>3. /\ S \subseteq Obj \X Obj
            /\ \A x \in S : x[1] \in DOMAIN u.clients /\ x[2] \in DOMAIN u.clients
        BY <3>1, <3>2 DEF Good, Tables, LiveSessions
      <3>4. \A x \in S : x[1] # x[2] => <<x[2], x[1]>> \notin S
        BY <2>2, <3>1, <3>2 DEF Good, Tables, OneWay
      <3>5. Good([u EXCEPT !.sessions = S])
        BY <3>1, <3>3, <3>4, SessionsGood
      <3> QED BY <2>2, <3>5 DEF Connect, add_session, u
    <2> QED BY <2>1, <2>2
  <1> QED BY <1>1, <1>2, <1>3

-----------------------------------------------------------------------------
\* No client is older than n.
Young(s, n) == \A p \in DOMAIN s.clients : s.clients[p].age <= n

\* The clients of s that have not timed out are still clients in t.
Keeps(s, t) ==
  \A p \in DOMAIN s.clients : ~client_is_timeout(s, p) =>
    /\ p \in DOMAIN t.clients
    /\ t.clients[p].addr = s.clients[p].addr
    /\ t.clients[p].vpnIP = s.clients[p].vpnIP
    /\ t.clients[p].age <= s.clients[p].age

\* The age of a registered client is a natural number.
LEMMA AgeType ==
  ASSUME NEW s, Good(s), NEW p \in DOMAIN s.clients
  PROVE  s.clients[p].age \in Nat
  BY DEF Good, Tables, ClientRec

\* Keeps composes: what two parts of a turn do to the clients.
LEMMA KeepsTransitive ==
  ASSUME NEW s, Good(s), NEW t, Good(t), NEW u, Good(u), Keeps(s, t), Keeps(t, u)
  PROVE  Keeps(s, u)
  <1> SUFFICES ASSUME NEW p \in DOMAIN s.clients, ~client_is_timeout(s, p)
               PROVE  /\ p \in DOMAIN u.clients
                      /\ u.clients[p].addr = s.clients[p].addr
                      /\ u.clients[p].vpnIP = s.clients[p].vpnIP
                      /\ u.clients[p].age <= s.clients[p].age
    BY DEF Keeps
  <1>1. /\ p \in DOMAIN t.clients
        /\ t.clients[p].addr = s.clients[p].addr
        /\ t.clients[p].vpnIP = s.clients[p].vpnIP
        /\ t.clients[p].age <= s.clients[p].age
    BY DEF Keeps
  <1>2. s.clients[p].age \in Nat /\ t.clients[p].age \in Nat
    BY <1>1, AgeType
  <1>3. ~client_is_timeout(t, p)
    BY <1>1, <1>2, RdvAssumption DEF client_is_timeout
  <1>4. /\ p \in DOMAIN u.clients
        /\ u.clients[p].addr = t.clients[p].addr
        /\ u.clients[p].vpnIP = t.clients[p].vpnIP
        /\ u.clients[p].age <= t.clients[p].age
    BY <1>1, <1>3 DEF Keeps
  <1>5. u.clients[p].age \in Nat
    BY <1>4, AgeType
  <1> QED BY <1>1, <1>2, <1>4, <1>5

\* A change of the sessions alone keeps every client.
LEMMA SameClients ==
  ASSUME NEW s, Good(s), NEW t, t.clients = s.clients
  PROVE  /\ Keeps(s, t)
         /\ \A n : Young(s, n) => Young(t, n)
  BY AgeType DEF Keeps, Young

\* Removing a set of timed-out clients keeps all the others.
LEMMA DropClients ==
  ASSUME NEW s, Good(s), NEW D, D \subseteq DOMAIN s.clients
  PROVE  /\ \A n : Young(s, n) => Young(drop(s, D), n)
         /\ \A p \in DOMAIN s.clients \ D :
              /\ p \in DOMAIN drop(s, D).clients
              /\ drop(s, D).clients[p] = s.clients[p]
         /\ (\A p \in D : client_is_timeout(s, p)) => Keeps(s, drop(s, D))
  <1> DEFINE t == drop(s, D)
  <1>1. t.clients = Restrict(s.clients, DOMAIN s.clients \ D)
    BY DropFields, Zenon DEF Good
  <1> HIDE DEF t
  <1>2. /\ DOMAIN t.clients = DOMAIN s.clients \ D
        /\ \A p \in DOMAIN t.clients : t.clients[p] = s.clients[p]
    BY <1>1 DEF Restrict
  <1>3. ASSUME \A p \in D : client_is_timeout(s, p)
        PROVE  Keeps(s, t)
    BY <1>2, <1>3, AgeType DEF Keeps
  <1>4. \A n : Young(s, n) => Young(t, n)
    BY <1>2 DEF Young
  <1> QED BY <1>2, <1>3, <1>4 DEF t

\* clean_dead_clients keeps every client that has not timed out, and leaves none
\* older than two PEER_TIMEOUTs.
LEMMA CleanStep ==
  ASSUME NEW s, Good(s)
  PROVE  /\ Good(clean_dead_clients(s))
         /\ Young(clean_dead_clients(s), 2 * PeerTimeout)
         /\ \A n : Young(s, n) => Young(clean_dead_clients(s), n)
         /\ Keeps(s, clean_dead_clients(s))
  <1> DEFINE D == {p \in DOMAIN s.clients : client_is_dead(s, p)}
             t == drop(s, D)
  <1>1. \A p \in D : client_is_timeout(s, p)
    BY AgeType, RdvAssumption DEF client_is_dead, client_is_timeout
  <1>2. D \subseteq DOMAIN s.clients
    OBVIOUS
  <1>3. \A p \in DOMAIN s.clients \ D : s.clients[p].age <= 2 * PeerTimeout
    BY AgeType, RdvAssumption DEF client_is_dead
  <1>4. clean_dead_clients(s) = t
    BY DEF clean_dead_clients
  <1> HIDE DEF D
  <1>5. Good(t)
    BY <1>2, DropGood
  <1>6. Keeps(s, t) /\ \A n : Young(s, n) => Young(t, n)
    BY <1>1, <1>2, DropClients
  <1>7. t.clients = Restrict(s.clients, DOMAIN s.clients \ D)
    BY DropFields, Zenon DEF Good
  <1>8. Young(t, 2 * PeerTimeout)
    BY <1>3, <1>7 DEF Young, Restrict
  <1> QED BY <1>4, <1>5, <1>6, <1>8

\* add_client keeps the registered clients.
LEMMA AddKeeps ==
  ASSUME NEW s, Good(s), NEW p \in Obj \ DOMAIN s.clients,
         NEW a, NEW v, NEW local, NEW n \in Nat, Young(s, n)
  PROVE  /\ Keeps(s, add_client(s, p, a, v, local))
         /\ Young(add_client(s, p, a, v, local), n)
  <1> DEFINE t == add_client(s, p, a, v, local)
             c == [addr |-> a, vpnIP |-> v, local |-> local, age |-> 0]
  <1>1. t.clients = Put(s.clients, p, c) /\ c.age = 0
    BY DEF add_client
  <1> HIDE DEF t, c
  <1>2. /\ DOMAIN t.clients = DOMAIN s.clients \cup {p}
        /\ t.clients[p].age = 0
        /\ \A q \in DOMAIN s.clients : t.clients[q] = s.clients[q]
    BY <1>1 DEF Put
  <1>3. Keeps(s, t)
    BY <1>2, AgeType DEF Keeps
  <1>4. Young(t, n)
    BY <1>2 DEF Young
  <1> QED BY <1>3, <1>4 DEF t

\* client_update_time keeps the registered clients and makes none older.
LEMMA UpdateKeeps ==
  ASSUME NEW s, Good(s), NEW p \in DOMAIN s.clients, NEW n \in Nat, Young(s, n)
  PROVE  /\ Keeps(s, client_update_time(s, p))
         /\ Young(client_update_time(s, p), n)
  <1> DEFINE t == client_update_time(s, p)
  <1>1. t.clients = [s.clients EXCEPT ![p].age = 0]
    BY DEF Good, Tables, client_update_time
  <1> HIDE DEF t
  <1>2. /\ DOMAIN t.clients = DOMAIN s.clients
        /\ \A q \in DOMAIN s.clients :
             /\ t.clients[q].addr = s.clients[q].addr
             /\ t.clients[q].vpnIP = s.clients[q].vpnIP
             /\ t.clients[q].age = IF q = p THEN 0 ELSE s.clients[q].age
    BY <1>1 DEF Good, Tables, ClientRec
  <1>3. Keeps(s, t)
    BY <1>2, AgeType DEF Keeps
  <1>4. Young(t, n)
    BY <1>2 DEF Young
  <1> QED BY <1>3, <1>4 DEF t

-----------------------------------------------------------------------------
\* The bound on the ages between two cleanings.
Aged == 2 * PeerTimeout + sinceClean

\* The inductive invariant.
IInv ==
  /\ TypeOK
  /\ Good(srv)
  /\ Young(srv, Aged)
  /\ DOMAIN srv.clients = {} \/ sinceClean <= CleanPeriod + waited

\* The end of a turn, with its periodic cleaning, keeps the invariant when the
\* handler left consistent tables.
LEMMA EndTurnStep ==
  ASSUME IInv, NEW s, NEW out, Good(s), Young(s, Aged), out \subseteq Datagram,
         EndTurn(s, out)
  PROVE  IInv' /\ Keeps(s, srv')
  <1>1. /\ Good(clean_dead_clients(s))
        /\ Young(clean_dead_clients(s), 2 * PeerTimeout)
        /\ Keeps(s, clean_dead_clients(s))
    BY CleanStep
  <1>2. /\ srv' = IF sinceClean > CleanPeriod THEN clean_dead_clients(s) ELSE s
        /\ sinceClean' = IF sinceClean > CleanPeriod THEN 0 ELSE sinceClean
        /\ waited' = 0
        /\ sent' = out
        /\ pc' \in {"loop", "exit"}
        /\ end_server' = end_server
    BY DEF EndTurn, NextTurn
  <1>3. /\ sinceClean \in Nat
        /\ end_server \in BOOLEAN
    BY DEF IInv, TypeOK
  <1>4. Good(srv') /\ Keeps(s, srv')
    BY <1>1, <1>2, SameClients
  <1>5. Young(srv', Aged')
    <2>1. CASE sinceClean > CleanPeriod
      <3>1. Aged' = 2 * PeerTimeout
        BY <1>2, <2>1, RdvAssumption DEF Aged
      <3> QED BY <1>1, <1>2, <2>1, <3>1
    <2>2. CASE ~(sinceClean > CleanPeriod)
      <3>1. Aged' = Aged /\ srv' = s
        BY <1>2, <2>2 DEF Aged
      <3> QED BY <3>1
    <2> QED BY <2>1, <2>2
  <1>6. sinceClean' <= CleanPeriod + waited' /\ sinceClean' \in Nat
    BY <1>2, <1>3, RdvAssumption
  <1>7. TypeOK'
    BY <1>2, <1>3, <1>4, <1>6, RdvAssumption DEF TypeOK, Good
  <1> QED BY <1>4, <1>5, <1>6, <1>7 DEF IInv

\* What a lookup in one of the two trees returns is NULL or a registered client.
LEMMA Indexed ==
  ASSUME NEW s, Good(s)
  PROVE  /\ \A a : get_client_real(s, a) # NULL =>
              /\ get_client_real(s, a) \in DOMAIN s.clients
              /\ s.clients[get_client_real(s, a)].addr = a
         /\ \A a : get_client_real(s, a) = NULL => a \notin DOMAIN s.addr_root
         /\ \A v : get_client_VPN(s, v) # NULL =>
              /\ get_client_VPN(s, v) \in DOMAIN s.clients
              /\ s.clients[get_client_VPN(s, v)].vpnIP = v
  BY RdvAssumption
  DEF Good, Tables, AddressIndex, VpnIndex, get_client_real, get_client_VPN, tfind

\* add_client and its answer, from consistent tables without the endpoint.
LEMMA RegisterStep ==
  ASSUME IInv, NEW s, Good(s), Young(s, Aged), Keeps(srv, s),
         NEW a \in Addr, a \notin DOMAIN s.addr_root,
         NEW v \in VpnIP, NEW local \in BOOLEAN, Register(s, a, v, local)
  PROVE  IInv' /\ Keeps(srv, srv')
  <1>0. Aged \in Nat /\ Good(srv)
    BY RdvAssumption DEF IInv, TypeOK, Aged
  <1>1. CASE EndTurn(s, {})
    <2>1. IInv' /\ Keeps(s, srv')
      BY <1>1, EndTurnStep
    <2> QED BY <1>0, <2>1, KeepsTransitive DEF IInv
  <1>2. ASSUME ~full(s), NEW p \in Obj \ DOMAIN s.clients,
               EndTurn(add_client(s, p, a, v, local), {Reply("OK", a)})
        PROVE  IInv' /\ Keeps(srv, srv')
    <2> DEFINE t == add_client(s, p, a, v, local)
    <2>1. Good(t)
      BY <1>2, AddGood
    <2>2. Keeps(s, t) /\ Young(t, Aged)
      BY <1>0, <1>2, AddKeeps
    <2>3. {Reply("OK", a)} \subseteq Datagram
      BY DEF Reply, Datagram
    <2>4. EndTurn(t, {Reply("OK", a)})
      BY <1>2
    <2> HIDE DEF t
    <2>5. IInv' /\ Keeps(t, srv')
      BY <2>1, <2>2, <2>3, <2>4, EndTurnStep
    <2>6. Keeps(srv, t)
      BY <1>0, <2>1, <2>2, KeepsTransitive, Zenon
    <2> QED BY <1>0, <2>1, <2>5, <2>6, KeepsTransitive DEF IInv
  <1> QED BY <1>1, <1>2 DEF Register

\* Removing clients takes nodes out of the address tree and adds none.
LEMMA DropAddresses ==
  ASSUME NEW s, Good(s), NEW D
  PROVE  DOMAIN drop(s, D).addr_root = DOMAIN s.addr_root \ Endpoints(s.clients, D)
  <1>1. drop(s, D).addr_root = tdelete(s.addr_root, Endpoints(s.clients, D))
    BY DropFields, Zenon DEF Good
  <1> QED BY <1>1 DEF tdelete, Restrict

\* A turn whose handler keeps the clients that have not timed out.
LEMMA TurnStep ==
  ASSUME IInv, NEW s, NEW out, Good(s), Young(s, Aged), Keeps(srv, s),
         out \subseteq Datagram, EndTurn(s, out)
  PROVE  IInv' /\ Keeps(srv, srv')
  <1>1. IInv' /\ Keeps(s, srv')
    BY EndTurnStep, Zenon
  <1> QED BY <1>1, KeepsTransitive DEF IInv

\* HELLO from an endpoint that is not registered (server.c:203-239).
LEMMA HelloUnknownStep ==
  ASSUME IInv, NEW a \in Addr, NEW v \in VpnIP, NEW local \in BOOLEAN,
         HelloUnknown(a, v, local)
  PROVE  IInv' /\ Keeps(srv, srv')
  <1> DEFINE q  == get_client_VPN(srv, v)
             s1 == IF q = NULL THEN srv ELSE drop(srv, {q})
             s2 == IF at_limit(s1) THEN clean_dead_clients(s1) ELSE s1
  <1>0. Good(srv) /\ Young(srv, Aged)
    BY DEF IInv
  <1>1. Keeps(srv, srv)
    BY <1>0, SameClients
  <1>2. {Reply("NOK", a)} \subseteq Datagram
    BY DEF Reply, Datagram
  <1>3. CASE EndTurn(srv, {Reply("NOK", a)})
    BY <1>0, <1>1, <1>2, <1>3, TurnStep
  <1>4. CASE /\ q # NULL => client_is_timeout(srv, q)
             /\ IF at_limit(s2) THEN EndTurn(s2, {Reply("NOK", a)})
                                ELSE Register(s2, a, v, local)
    <2>1. Good(s1) /\ Young(s1, Aged) /\ Keeps(srv, s1)
      <3>1. CASE q = NULL
        BY <1>0, <1>1, <3>1
      <3>2. CASE q # NULL
        <4>1. {q} \subseteq DOMAIN srv.clients
          BY <1>0, <3>2, Indexed
        <4>2. \A p \in {q} : client_is_timeout(srv, p)
          BY <1>4, <3>2
        <4>3. Good(drop(srv, {q}))
          BY <1>0, <4>1, DropGood, Zenon
        <4>4. Young(drop(srv, {q}), Aged) /\ Keeps(srv, drop(srv, {q}))
          BY <1>0, <4>1, <4>2, DropClients, Zenon
        <4> QED BY <3>2, <4>3, <4>4, Zenon
      <3> QED BY <3>1, <3>2
    <2>2. a \notin DOMAIN s1.addr_root
      <3>1. a \notin DOMAIN srv.addr_root
        BY <1>0, Indexed DEF HelloUnknown
      <3>2. CASE q = NULL
        BY <3>1, <3>2
      <3>3. CASE q # NULL
        BY <1>0, <3>1, <3>3, DropAddresses
      <3> QED BY <3>2, <3>3, Zenon
    <2> HIDE DEF s1
    <2>3. Good(s2) /\ Young(s2, Aged) /\ Keeps(srv, s2)
      BY <1>0, <2>1, CleanStep, KeepsTransitive, Zenon
    <2>4. a \notin DOMAIN s2.addr_root
      BY <2>1, <2>2, DropAddresses DEF clean_dead_clients
    <2> HIDE DEF s2
    <2>5. CASE EndTurn(s2, {Reply("NOK", a)})
      BY <1>2, <2>3, <2>5, TurnStep
    <2>6. CASE Register(s2, a, v, local)
      BY <2>3, <2>4, <2>6, RegisterStep, Zenon
    <2> QED BY <1>4, <2>5, <2>6, Zenon
  <1> QED BY <1>3, <1>4 DEF HelloUnknown

\* HELLO from a registered endpoint (server.c:240-269).
LEMMA HelloKnownStep ==
  ASSUME IInv, NEW a \in Addr, NEW v \in VpnIP, NEW local \in BOOLEAN,
         HelloKnown(a, v, local)
  PROVE  IInv' /\ Keeps(srv, srv')
  <1> DEFINE p == get_client_real(srv, a)
  <1>0. Good(srv) /\ Young(srv, Aged) /\ Keeps(srv, srv) /\ Aged \in Nat
    BY SameClients, RdvAssumption DEF IInv, TypeOK, Aged
  <1>1. p \in DOMAIN srv.clients /\ srv.clients[p].addr = a
    BY <1>0, Indexed DEF HelloKnown
  <1>2. {Reply("NOK", a)} \subseteq Datagram /\ {Reply("OK", a)} \subseteq Datagram
    BY DEF Reply, Datagram
  <1> HIDE DEF p
  <1>3. CASE EndTurn(client_update_time(srv, p), {Reply("OK", a)})
    <2>1. Good(client_update_time(srv, p))
      BY <1>0, <1>1, UpdateTimeGood
    <2>2. Young(client_update_time(srv, p), Aged) /\ Keeps(srv, client_update_time(srv, p))
      BY <1>0, <1>1, UpdateKeeps
    <2> QED BY <1>2, <1>3, <2>1, <2>2, TurnStep, Zenon
  <1>4. CASE client_is_timeout(srv, p) /\ Register(drop(srv, {p}), a, v, local)
    <2>1. Good(drop(srv, {p}))
      BY <1>0, <1>1, DropGood
    <2>2. Young(drop(srv, {p}), Aged) /\ Keeps(srv, drop(srv, {p}))
      BY <1>0, <1>1, <1>4, DropClients, Zenon
    <2>3. a \notin DOMAIN drop(srv, {p}).addr_root
      <3>1. a \in Endpoints(srv.clients, {p})
        BY <1>1 DEF Endpoints
      <3> QED BY <1>0, <3>1, DropAddresses
    <2> QED BY <1>4, <2>1, <2>2, <2>3, RegisterStep, Zenon
  <1>5. CASE EndTurn(srv, {Reply("NOK", a)})
    BY <1>0, <1>2, <1>5, TurnStep
  <1> QED BY <1>3, <1>4, <1>5 DEF HelloKnown, p

\* The turns that answer RECONNECT or PONG, or ignore the datagram.
LEMMA SmallTurnsStep ==
  ASSUME IInv, NEW a \in Addr,
         Unregistered(a) \/ Ping(a) \/ Ignored
  PROVE  IInv' /\ Keeps(srv, srv')
  <1>0. Good(srv) /\ Young(srv, Aged) /\ Keeps(srv, srv) /\ Aged \in Nat
    BY SameClients, RdvAssumption DEF IInv, TypeOK, Aged
  <1>1. CASE Unregistered(a)
    <2>1. {Reply("RECONNECT", a)} \subseteq Datagram
      BY DEF Reply, Datagram
    <2> QED BY <1>0, <1>1, <2>1, TurnStep, Zenon DEF Unregistered
  <1>2. CASE Ping(a)
    <2> DEFINE p == get_client_real(srv, a)
    <2>1. p \in DOMAIN srv.clients
      BY <1>0, <1>2, Indexed, Zenon DEF Ping
    <2>2. {Reply("PONG", a)} \subseteq Datagram
      BY DEF Reply, Datagram
    <2>3. EndTurn(client_update_time(srv, p), {Reply("PONG", a)})
      BY <1>2 DEF Ping
    <2> HIDE DEF p
    <2>4. Good(client_update_time(srv, p))
      BY <1>0, <2>1, UpdateTimeGood
    <2>5. Young(client_update_time(srv, p), Aged) /\ Keeps(srv, client_update_time(srv, p))
      BY <1>0, <2>1, UpdateKeeps
    <2> QED BY <2>2, <2>3, <2>4, <2>5, TurnStep
  <1>3. CASE Ignored
    BY <1>0, <1>3, TurnStep, Zenon DEF Ignored
  <1> QED BY <1>1, <1>2, <1>3

\* add_session and remove_session leave the clients alone.
LEMMA SessionOpsClients ==
  ASSUME NEW s, Good(s), NEW p, NEW q
  PROVE  /\ remove_session(s, p, q).clients = s.clients
         /\ remove_session(remove_session(s, p, q), q, p).clients = s.clients
         /\ Connect(s, p, q).clients = s.clients
  <1>1. DOMAIN s = {"clients", "addr_root", "vpn_root", "sessions", "n_clients"}
    BY DEF Good, Tables
  <1>2. ASSUME NEW u, NEW p1, NEW p2,
               DOMAIN u = {"clients", "addr_root", "vpn_root", "sessions", "n_clients"}
        PROVE  /\ remove_session(u, p1, p2).clients = u.clients
               /\ DOMAIN remove_session(u, p1, p2) = DOMAIN u
               /\ add_session(u, p1, p2).clients = u.clients
    BY <1>2, Zenon DEF remove_session, add_session
  <1> QED BY <1>1, <1>2 DEF Connect

\* ASK_CONNECTION (server.c:280-324).
LEMMA AskStep ==
  ASSUME IInv, NEW a \in Addr, NEW v \in VpnIP, AskConnection(a, v)
  PROVE  IInv' /\ Keeps(srv, srv')
  <1> DEFINE p   == get_client_real(srv, a)
             q   == get_client_VPN(srv, v)
             loc == send_local_ip(srv, p, q)
  <1>0. Good(srv) /\ Young(srv, Aged) /\ Keeps(srv, srv)
    BY SameClients, Zenon DEF IInv
  <1>1. p \in DOMAIN srv.clients
    BY <1>0, Indexed DEF AskConnection
  <1>2. q # NULL => q \in DOMAIN srv.clients
    BY <1>0, Indexed
  <1>3. {send_REJECT(a, v)} \subseteq Datagram
    BY DEF send_REJECT, Datagram
  <1>4. CASE EndTurn(srv, {send_REJECT(a, v)})
    BY <1>0, <1>3, <1>4, TurnStep, Zenon
  <1>5. CASE /\ q # NULL /\ client_is_timeout(srv, q)
             /\ EndTurn(drop(srv, {q}), {send_REJECT(a, v)})
    <2>1. Good(drop(srv, {q}))
      BY <1>0, <1>2, <1>5, DropGood, Zenon
    <2>2. Young(drop(srv, {q}), Aged) /\ Keeps(srv, drop(srv, {q}))
      BY <1>0, <1>2, <1>5, DropClients, Zenon
    <2> QED BY <1>3, <1>5, <2>1, <2>2, TurnStep
  <1>6. CASE /\ q # NULL
             /\ EndTurn(Connect(srv, p, q),
                        {send_ANS(srv, p, q, loc), send_FWD(srv, q, p, loc)})
    <2>1. Good(Connect(srv, p, q))
      BY <1>0, <1>1, <1>2, <1>6, ConnectGood, Zenon
    <2>2. Young(Connect(srv, p, q), Aged) /\ Keeps(srv, Connect(srv, p, q))
      BY <1>0, SessionOpsClients, SameClients
    <2>3. /\ srv.clients[p] \in ClientRec /\ srv.clients[q] \in ClientRec
      BY <1>0, <1>1, <1>2, <1>6, Zenon DEF Good, Tables
    <2>4. loc \in BOOLEAN
      BY <2>3, Zenon DEF send_local_ip, ClientRec
    <2> HIDE DEF p, q, loc
    <2>5. {send_ANS(srv, p, q, loc), send_FWD(srv, q, p, loc)} \subseteq Datagram
      BY <2>3, <2>4 DEF send_ANS, send_FWD, Introduce, Datagram, ClientRec
    <2> QED BY <1>6, <2>1, <2>2, <2>5, TurnStep
  <1>7. CASE q # NULL /\ EndTurn(remove_session(srv, q, p), {send_REJECT(a, v)})
    <2>1. Good(remove_session(srv, q, p))
      BY <1>0, <1>1, <1>2, <1>7, ConnectGood, Zenon
    <2>2. Young(remove_session(srv, q, p), Aged) /\ Keeps(srv, remove_session(srv, q, p))
      BY <1>0, SessionOpsClients, SameClients
    <2> QED BY <1>3, <1>7, <2>1, <2>2, TurnStep
  <1> QED BY <1>4, <1>5, <1>6, <1>7 DEF AskConnection

\* CLOSE_CONNECTION (server.c:325-337).
LEMMA CloseStep ==
  ASSUME IInv, NEW a \in Addr, NEW v \in VpnIP, CloseConnection(a, v)
  PROVE  IInv' /\ Keeps(srv, srv')
  <1> DEFINE p == get_client_real(srv, a)
             q == get_client_VPN(srv, v)
             t == IF q = NULL THEN srv
                  ELSE remove_session(remove_session(srv, p, q), q, p)
  <1>0. Good(srv) /\ Young(srv, Aged) /\ Keeps(srv, srv)
    BY SameClients DEF IInv
  <1>1. p \in DOMAIN srv.clients
    BY <1>0, Indexed DEF CloseConnection
  <1>2. q # NULL => q \in DOMAIN srv.clients
    BY <1>0, Indexed
  <1>3. EndTurn(t, {})
    BY DEF CloseConnection
  <1> HIDE DEF p, q
  <1>4. Good(t) /\ t.clients = srv.clients
    BY <1>0, <1>1, <1>2, ConnectGood, SessionOpsClients
  <1> HIDE DEF t
  <1>5. Young(t, Aged) /\ Keeps(srv, t)
    BY <1>0, <1>4, SameClients
  <1> QED BY <1>3, <1>4, <1>5, TurnStep, Zenon

\* BYE (server.c:272-275), the only message that removes a client in time.
LEMMA ByeStep ==
  ASSUME IInv, NEW a \in Addr, Bye(a)
  PROVE  /\ IInv'
         /\ \A p \in Obj : Evicted(p) => srv.clients[p].addr = a
  <1> DEFINE q == get_client_real(srv, a)
             t == drop(srv, {q})
  <1>0. Good(srv) /\ Young(srv, Aged)
    BY Zenon DEF IInv
  <1>1. {q} \subseteq DOMAIN srv.clients /\ srv.clients[q].addr = a
    BY <1>0, Indexed DEF Bye
  <1>2. EndTurn(t, {})
    BY DEF Bye
  <1> HIDE DEF q
  <1>3. Good(t)
    BY <1>0, <1>1, DropGood, Zenon
  <1>4. /\ Young(t, Aged)
        /\ \A p \in DOMAIN srv.clients \ {q} :
             p \in DOMAIN t.clients /\ t.clients[p] = srv.clients[p]
    BY <1>0, <1>1, DropClients, Zenon
  <1> HIDE DEF t
  <1>5. IInv' /\ Keeps(t, srv')
    BY <1>2, <1>3, <1>4, EndTurnStep, Zenon
  <1>6. ASSUME NEW p \in Obj, Evicted(p), p # q
        PROVE  FALSE
    BY <1>4, <1>5, <1>6, Zenon DEF Evicted, Keeps, client_is_timeout
  <1> QED BY <1>1, <1>5, <1>6

\* A step that keeps the clients evicts none.
LEMMA KeepsNoEviction ==
  ASSUME Keeps(srv, srv')
  PROVE  \A p \in Obj : ~Evicted(p)
  BY DEF Keeps, Evicted

\* A second passes: every client gets older, and the time until the next
\* cleaning gets shorter by as much.
LEMMA TickStep ==
  ASSUME IInv, Tick
  PROVE  IInv' /\ \A p \in Obj : ~Evicted(p)
  <1> DEFINE cl == [p \in DOMAIN srv.clients |->
                      [srv.clients[p] EXCEPT !.age = srv.clients[p].age + 1]]
  <1>0. Good(srv) /\ Young(srv, Aged) /\ TypeOK
    BY DEF IInv
  <1>1. /\ srv'.clients = cl
        /\ srv'.addr_root = srv.addr_root
        /\ srv'.vpn_root = srv.vpn_root
        /\ srv'.sessions = srv.sessions
        /\ srv'.n_clients = srv.n_clients
        /\ srv' = [clients |-> srv'.clients, addr_root |-> srv'.addr_root,
                   vpn_root |-> srv'.vpn_root, sessions |-> srv'.sessions,
                   n_clients |-> srv'.n_clients]
    BY <1>0 DEF Tick, Good, Tables
  <1>2. /\ DOMAIN cl = DOMAIN srv.clients
        /\ \A p \in DOMAIN cl :
             /\ cl[p] \in ClientRec
             /\ cl[p].addr = srv.clients[p].addr
             /\ cl[p].vpnIP = srv.clients[p].vpnIP
             /\ cl[p].age = srv.clients[p].age + 1
    BY <1>0 DEF Good, Tables, ClientRec
  <1>3. cl \in [DOMAIN cl -> ClientRec]
    BY <1>2, Zenon
  <1> HIDE DEF cl
  <1>4. Good(srv')
    <2>1. Tables(srv')
      BY <1>0, <1>1, <1>2, <1>3 DEF Good, Tables
    <2>2. AddressIndex(srv') /\ VpnIndex(srv')
      BY <1>0, <1>1, <1>2, SMT, SMTT(30) DEF Good, AddressIndex, VpnIndex
    <2>3. LiveSessions(srv') /\ OneWay(srv') /\ Counted(srv')
      BY <1>0, <1>1, <1>2, Zenon DEF Good, LiveSessions, OneWay, Counted
    <2> QED BY <2>1, <2>2, <2>3 DEF Good
  <1>5. Young(srv', Aged')
    <2>1. Aged' = Aged + 1 /\ Aged \in Nat
      BY <1>0, RdvAssumption DEF Tick, Aged, TypeOK
    <2>2. \A p \in DOMAIN srv.clients : srv.clients[p].age \in Nat
      BY <1>0, AgeType
    <2> QED BY <1>0, <1>1, <1>2, <2>1, <2>2 DEF Young
  <1>6. DOMAIN srv'.clients = {} \/ sinceClean' <= CleanPeriod + waited'
    BY <1>0, <1>1, <1>2, RdvAssumption DEF Tick, IInv, TypeOK
  <1>7. TypeOK'
    BY <1>0, <1>4, RdvAssumption DEF Tick, TypeOK, Good
  <1>8. \A p \in Obj : ~Evicted(p)
    BY <1>1, <1>2 DEF Evicted
  <1> QED BY <1>4, <1>5, <1>6, <1>7, <1>8 DEF IInv

\* select() times out and the dead clients are removed (server.c:376-380).
LEMMA SelectTimeoutStep ==
  ASSUME IInv, SelectTimeout
  PROVE  IInv' /\ Keeps(srv, srv')
  <1>1. /\ Good(srv')
        /\ Young(srv', 2 * PeerTimeout)
        /\ Keeps(srv, srv')
    BY CleanStep DEF IInv, SelectTimeout
  <1>2. Young(srv', Aged')
    <2>1. Aged' = 2 * PeerTimeout
      BY RdvAssumption DEF SelectTimeout, Aged
    <2> QED BY <1>1, <2>1
  <1>3. sinceClean' <= CleanPeriod + waited'
    BY RdvAssumption DEF SelectTimeout
  <1>4. TypeOK'
    BY <1>1, RdvAssumption DEF IInv, TypeOK, Good, SelectTimeout, NextTurn
  <1> QED BY <1>1, <1>2, <1>3, <1>4 DEF IInv

\* The removal of all clients when the server stops (server.c:383-389).
LEMMA TeardownStep ==
  ASSUME IInv, Teardown
  PROVE  IInv'
  <1> DEFINE D == DOMAIN srv.clients
  <1>0. Good(srv) /\ Young(srv, Aged) /\ TypeOK
    BY DEF IInv
  <1>1. Good(drop(srv, D)) /\ Young(drop(srv, D), Aged)
    BY <1>0, DropGood, DropClients
  <1>2. drop(srv, D).clients = Restrict(srv.clients, D \ D)
    BY <1>0, DropFields, Zenon DEF Good
  <1>3. DOMAIN drop(srv, D).clients = {}
    BY <1>2 DEF Restrict
  <1>4. srv' = drop(srv, D) /\ Aged' = Aged
    BY DEF Teardown, Aged
  <1> HIDE DEF D
  <1>5. Good(srv') /\ Young(srv', Aged') /\ DOMAIN srv'.clients = {}
    BY <1>1, <1>3, <1>4, Zenon
  <1>6. TypeOK'
    BY <1>0, <1>5 DEF Good, Teardown, TypeOK
  <1> QED BY <1>5, <1>6 DEF IInv

\* The steps that leave the tables alone.
LEMMA QuietStep ==
  ASSUME IInv, Signal \/ Interrupted \/ UNCHANGED vars
  PROVE  IInv' /\ Keeps(srv, srv')
  <1>1. /\ srv' = srv /\ waited' = waited /\ sinceClean' = sinceClean
        /\ end_server' \in BOOLEAN
        /\ pc' \in {"loop", "exit", "stopped"}
        /\ sent' \subseteq Datagram
    BY Zenon DEF IInv, TypeOK, Signal, Interrupted, vars
  <1>2. Aged' = Aged
    BY <1>1 DEF Aged
  <1>3. Keeps(srv, srv')
    BY <1>1, SameClients DEF IInv
  <1> QED BY <1>1, <1>2, <1>3 DEF IInv, TypeOK

\* The server starts with empty tables.
LEMMA InitIInv == Init => IInv
  <1> SUFFICES ASSUME Init PROVE IInv
    OBVIOUS
  <1>1. /\ srv.clients = [p \in {} |-> NULL]
        /\ srv.addr_root = [a \in {} |-> NULL]
        /\ srv.vpn_root = [v \in {} |-> NULL]
        /\ srv.sessions = {}
        /\ srv.n_clients = 0
        /\ srv = [clients |-> srv.clients, addr_root |-> srv.addr_root,
                  vpn_root |-> srv.vpn_root, sessions |-> srv.sessions,
                  n_clients |-> srv.n_clients]
    BY DEF Init, EmptyTables
  <1>2. Tables(srv)
    BY <1>1 DEF Tables
  <1>3. AddressIndex(srv) /\ VpnIndex(srv) /\ LiveSessions(srv) /\ OneWay(srv)
    BY <1>1 DEF AddressIndex, VpnIndex, LiveSessions, OneWay
  <1>4. Counted(srv)
    BY <1>1, FS_EmptySet, RdvAssumption DEF Counted
  <1>5. TypeOK
    <2>1. waited \in 0 .. SelectDelay /\ sinceClean \in Nat
      BY RdvAssumption DEF Init
    <2>2. /\ end_server \in BOOLEAN
          /\ pc \in {"loop", "exit", "stopped"}
          /\ sent \subseteq Datagram
      BY Zenon DEF Init
    <2> QED BY <1>2, <2>1, <2>2 DEF TypeOK
  <1> QED BY <1>1, <1>2, <1>3, <1>4, <1>5 DEF IInv, Good, Young

\* Every step of the server keeps the inductive invariant, and evicts no client
\* that has not timed out except by BYE or when the server stops.
LEMMA NextStep ==
  ASSUME IInv, [Next]_vars
  PROVE  /\ IInv'
         /\ \A p \in Obj : Evicted(p) => Bye(srv.clients[p].addr) \/ Teardown
  <1>1. ASSUME NEW a \in Addr, NEW v \in VpnIP, NEW local \in BOOLEAN,
               HelloUnknown(a, v, local) \/ HelloKnown(a, v, local)
        PROVE  IInv' /\ Keeps(srv, srv')
    BY <1>1, HelloUnknownStep, HelloKnownStep
  <1>2. ASSUME NEW a \in Addr, Unregistered(a) \/ Ping(a)
        PROVE  IInv' /\ Keeps(srv, srv')
    BY <1>2, SmallTurnsStep
  <1>3. ASSUME NEW a \in Addr, NEW v \in VpnIP,
               AskConnection(a, v) \/ CloseConnection(a, v)
        PROVE  IInv' /\ Keeps(srv, srv')
    BY <1>3, AskStep, CloseStep, Zenon
  <1>4. ASSUME Ignored
        PROVE  IInv' /\ Keeps(srv, srv')
    BY <1>4, SameClients, TurnStep DEF Ignored, IInv
  <1>5. ASSUME NEW a \in Addr, Bye(a)
        PROVE  /\ IInv'
               /\ \A p \in Obj : Evicted(p) => Bye(srv.clients[p].addr)
    BY <1>5, ByeStep
  <1>6. ASSUME SelectTimeout \/ Signal \/ Interrupted \/ Stopped \/ UNCHANGED vars
        PROVE  IInv' /\ Keeps(srv, srv')
    BY <1>6, SelectTimeoutStep, QuietStep DEF Stopped
  <1>7. CASE Tick
    BY <1>7, TickStep
  <1>8. CASE Teardown
    BY <1>8, TeardownStep
  <1> QED
    BY <1>1, <1>2, <1>3, <1>4, <1>5, <1>6, <1>7, <1>8, KeepsNoEviction, Zenon
    DEF Next, Receive

\* The inductive invariant implies the properties that the model checker checks.
LEMMA IInvImplies ==
  IInv => /\ TypeOK /\ AddressTreeExact /\ VpnTreeNotDangling
          /\ SessionsNotDangling /\ SessionsOneWay /\ ClientLimit
          /\ ForgottenInTime
  <1> SUFFICES ASSUME IInv PROVE ForgottenInTime
    BY DEF IInv, Good, AddressTreeExact, VpnTreeNotDangling, SessionsNotDangling,
           SessionsOneWay, ClientLimit
  <1> SUFFICES ASSUME NEW p \in DOMAIN srv.clients
               PROVE  srv.clients[p].age <= 2 * PeerTimeout + CleanPeriod + SelectDelay
    BY DEF ForgottenInTime
  <1>1. srv.clients[p].age \in Nat /\ srv.clients[p].age <= 2 * PeerTimeout + sinceClean
    BY AgeType DEF IInv, Young, Aged
  <1>2. sinceClean <= CleanPeriod + waited /\ waited <= SelectDelay
    BY RdvAssumption DEF IInv, TypeOK
  <1> QED BY <1>1, <1>2, RdvAssumption DEF IInv, TypeOK

\* Every reachable state of the server satisfies the inductive invariant.
THEOREM Invariance == Spec => []IInv
  <1>1. IInv /\ [Next]_vars => IInv'
    BY NextStep
  <1> QED BY InitIInv, <1>1, PTL DEF Spec

\* Type correctness, and the consistency of the trees, of the sessions and of the
\* client count of the server, for any number of clients, endpoints and addresses
\* and for every configured limit.
THEOREM Safety ==
  Spec => [](/\ TypeOK /\ AddressTreeExact /\ VpnTreeNotDangling
             /\ SessionsNotDangling /\ SessionsOneWay /\ ClientLimit)
  BY Invariance, IInvImplies, PTL

\* Whatever the traffic, a silent client is removed within two PEER_TIMEOUTs, one
\* cleaning period and one select delay.
THEOREM Forgetting == Spec => []ForgottenInTime
  BY Invariance, IInvImplies, PTL

\* No message of another endpoint unregisters a client that has not timed out.
THEOREM Eviction == Spec => NoEviction
  <1>1. IInv /\ [Next]_vars =>
          [\A p \in Obj : Evicted(p) => Bye(srv.clients[p].addr) \/ Teardown]_vars
    BY NextStep
  <1> QED BY Invariance, <1>1, PTL DEF Spec, NoEviction
=============================================================================
