------------------------------ MODULE PeerTable ------------------------------
(***************************************************************************)
(* The peers of a VPN client and the threads that share them               *)
(* (client/peer.c and client/communication.c).                             *)
(*                                                                         *)
(* A peer is a reference-counted object, member of a list and indexed by   *)
(* two trees.  Three threads look peers up: comm_tun ("tun"), rdv_handling *)
(* ("rdv") and comm_socket ("sock").  Each peer has a peer_handling thread *)
(* and, for a part of its life, a punch and an SSL_writing thread.         *)
(*                                                                         *)
(* Locks: the recursive GLOBAL mutex protects the list and the trees, and  *)
(* the mutex of a peer protects its fields.  A step runs from one point    *)
(* where the thread may block to the next: waiting for a mutex, waiting on *)
(* cond_connected, or waiting for the network.  The packets in the FIFO    *)
(* BIOs of a peer are left out, and with them the blocking of BIO_write.   *)
(***************************************************************************)
EXTENDS Integers, FiniteSets, Functions

CONSTANTS
  Obj,          \* the addresses malloc may return for a struct client
  NULL,
  VpnIP,        \* the VPN addresses of the other clients
  Endpoints,    \* the public endpoints of each VPN address, over time
  NoAddr,       \* 0.0.0.0:0, the endpoint of a peer that was only requested
  Local,        \* the VPN addresses that this host sends packets to
  Receiving,    \* those of the three threads that get messages
  Handshakes,   \* TRUE when DTLS handshakes may succeed
  MaxClients,   \* config.max_clients
  Spurious,     \* TRUE when a condition wait may return without a signal
  AllocFails    \* TRUE when the last allocation of peers_add_caller may fail

ASSUME PeersAssumption ==
  /\ NULL \notin Obj
  /\ NoAddr \notin UNION {Endpoints[v] : v \in VpnIP}
  /\ Local \subseteq VpnIP
  /\ Receiving \subseteq {"tun", "rdv", "sock"}
  /\ Handshakes \in BOOLEAN
  /\ MaxClients \in Nat
  /\ Spurious \in BOOLEAN /\ AllocFails \in BOOLEAN

VARIABLES
  obj,            \* the allocated peers
  vpn_root,       \* clients_vpn_root: VPN addresses to peers
  addr_root,      \* clients_address_root: the peers at its nodes
  global,         \* the GLOBAL mutex is held
  th,             \* the three looking-up threads
  ph, pu, wr,     \* the peer_handling, punch and SSL_writing thread of a peer
  asked,          \* the VPN addresses of which the server was asked
  end_campagnol

trees == <<vpn_root, addr_root>>
workers == <<ph, pu, wr>>
vars == <<obj, trees, global, th, workers, asked, end_campagnol>>

Addr == UNION {Endpoints[v] : v \in VpnIP}

(***************************************************************************)
(* Trees, as in libc: tsearch keeps the node that has the key already.     *)
(* The VPN address of a peer never changes, so its tree is a function.     *)
(***************************************************************************)
tsearch(root, key, p) ==
  IF key \in DOMAIN root THEN root
  ELSE [k \in DOMAIN root \cup {key} |-> IF k = key THEN p ELSE root[k]]

tdelete(root, key) == Restrict(root, DOMAIN root \ {key})

tfind(root, key) == IF key \in DOMAIN root THEN root[key] ELSE NULL

\* The endpoint of a peer may change while it is at a node of the address tree.
\* A search compares the present endpoints; among several nodes that are no
\* longer in order it may miss the one it looks for.
Disordered ==
  /\ Cardinality(addr_root) > 1
  /\ \E p \in addr_root : p \in DOMAIN obj => obj[p].addr # obj[p].key

\* Where a search for a may end; NULL when it finds nothing.  A node of a freed
\* peer may compare equal to anything.
NodesAt(a) ==
  LET hits == {p \in addr_root : p \in DOMAIN obj => obj[p].addr = a}
  IN  IF hits = {} \/ Disordered THEN hits \cup {NULL} ELSE hits

tsearch_addr(a, p) ==
  \E n \in NodesAt(a) : addr_root' = IF n = NULL THEN addr_root \cup {p} ELSE addr_root

tdelete_addr(a) == \E n \in NodesAt(a) : addr_root' = addr_root \ {n}

(***************************************************************************)
(* The messages that the three threads handle.  ANS and REJ answer a past  *)
(* ASK_CONNECTION; the network may delay and repeat them.                  *)
(***************************************************************************)
RdvMessage ==
  [type : {"REJ"}, vpnIP : asked]
    \cup (UNION {[type : {"ANS"}, vpnIP : {v}, addr : Endpoints[v]] : v \in asked})
    \cup (UNION {[type : {"FWD"}, vpnIP : {v}, addr : Endpoints[v]] : v \in VpnIP})

Message(t) ==
  CASE t = "tun"  -> [type : {"packet"}, vpnIP : Local]
    [] t = "rdv"  -> RdvMessage
    [] t = "sock" -> [type : {"DTLS", "PUNCH"}, addr : Addr]

NoMessage == [type |-> "none"]

Idle == [pc |-> "idle", msg |-> NoMessage, peer |-> NULL]

Init ==
  /\ obj = [p \in {} |-> NULL]
  /\ vpn_root = [v \in {} |-> NULL] /\ addr_root = {}
  /\ global = FALSE
  /\ th = [t \in {"tun", "rdv", "sock"} |-> Idle]
  /\ ph = [p \in Obj |-> "none"]
  /\ pu = [p \in Obj |-> "none"]
  /\ wr = [p \in Obj |-> "none"]
  /\ asked = {}
  /\ end_campagnol = FALSE

Goto(t, pc) == th' = [th EXCEPT ![t].pc = pc]

\* The message has been handled; the reference to the peer is still held.
Handled(t) == th' = [th EXCEPT ![t].pc = "decr", ![t].msg = NoMessage]

\* The end of a turn of a thread's loop, and the test of the loop condition;
\* comm_socket first goes on with recvfrom.
EndTurn(t) ==
  th' = [th EXCEPT ![t] = IF end_campagnol /\ t # "sock"
                          THEN [Idle EXCEPT !.pc = "exit"] ELSE Idle]

\* select() or BIO_read time out and the loop condition fails.
ExitLoop(t) ==
  /\ th[t].pc = "idle"
  /\ end_campagnol
  /\ Goto(t, "exit")
  /\ UNCHANGED <<obj, trees, global, workers, asked, end_campagnol>>

(***************************************************************************)
(* client/peer.c                                                           *)
(***************************************************************************)
\* MUTANT of DecrRef: a freed peer stays in the tree of endpoints.
DecrRef_keeps_addr(p, n, next) ==
  /\ ~global
  /\ IF obj[p].ref = n
     THEN /\ obj' = Restrict(obj, DOMAIN obj \ {p})
          /\ vpn_root' = tdelete(vpn_root, obj[p].vpnIP)
          /\ addr_root' = addr_root
          /\ ph' = [ph EXCEPT ![p] = "none"]
     ELSE /\ obj' = [obj EXCEPT ![p].ref = @ - n]
          /\ ph' = [ph EXCEPT ![p] = next]
          /\ UNCHANGED trees
  /\ UNCHANGED global

\* peers_decr_ref, with peers_remove when the count reaches 0.  next is the
\* position of the peer_handling thread if the peer lives on.
DecrRef(p, n, next) ==
  /\ ~global
  /\ IF obj[p].ref = n
     THEN /\ obj' = Restrict(obj, DOMAIN obj \ {p})
          /\ vpn_root' = tdelete(vpn_root, obj[p].vpnIP)
          /\ tdelete_addr(obj[p].addr)
          /\ ph' = [ph EXCEPT ![p] = "none"]
     ELSE /\ obj' = [obj EXCEPT ![p].ref = @ - n]
          /\ ph' = [ph EXCEPT ![p] = next]
          /\ UNCHANGED trees
  /\ UNCHANGED global

\* peers_get_by_VPN and peers_get_by_endpoint: the GLOBAL mutex is held until
\* the mutex of the peer is locked.  A node that points to a freed peer is
\* undefined behaviour, and the thread is lost.
Lookup(t, m) ==
  \E p \in IF t = "sock" THEN NodesAt(m.addr) ELSE {tfind(vpn_root, m.vpnIP)} :
      /\ th[t].pc = "idle"
      /\ ~global
      /\ \/ /\ p = NULL
            /\ IF m.type \in {"packet", "FWD"}
               THEN th' = [th EXCEPT ![t] = [pc |-> "add", msg |-> m, peer |-> NULL]]
               ELSE EndTurn(t)
            /\ UNCHANGED <<obj, global>>
         \/ /\ p \in DOMAIN obj
            /\ th' = [th EXCEPT ![t] = [pc |-> IF obj[p].locked THEN "lock" ELSE "got",
                                        msg |-> m, peer |-> p]]
            /\ obj' = [obj EXCEPT ![p].ref = @ + 1, ![p].locked = TRUE]
            /\ global' = obj[p].locked
         \/ /\ p \in Obj \ DOMAIN obj
            /\ th' = [th EXCEPT ![t] = [pc |-> "lost", msg |-> m, peer |-> p]]
            /\ UNCHANGED <<obj, global>>
      /\ UNCHANGED <<trees, workers, asked, end_campagnol>>

LookupLocks(t) ==
  LET p == th[t].peer
  IN  /\ th[t].pc = "lock"
      /\ ~obj[p].locked
      /\ obj' = [obj EXCEPT ![p].locked = TRUE]
      /\ global' = FALSE
      /\ Goto(t, "got")
      /\ UNCHANGED <<trees, workers, asked, end_campagnol>>

NewPeer(m) ==
  [vpnIP |-> m.vpnIP, addr |-> IF m.type = "FWD" THEN m.addr ELSE NoAddr,
   key |-> IF m.type = "FWD" THEN m.addr ELSE NoAddr,
   state |-> IF m.type = "FWD" THEN "PUNCHING" ELSE "NEW",
   ref |-> 2, locked |-> FALSE, answer |-> "none", shutdown |-> FALSE]

\* peers_add, called because the lookup returned NULL.
Add(t) ==
  LET m == th[t].msg
  IN  /\ th[t].pc = "add"
      /\ ~global
      /\ \/ \* too many clients, or an allocation fails
            EndTurn(t) /\ UNCHANGED <<obj, trees>>
         \/ /\ Cardinality(DOMAIN obj) < MaxClients
            /\ \E p \in Obj \ DOMAIN obj :
                 /\ obj' = [q \in DOMAIN obj \cup {p} |->
                              IF q = p THEN NewPeer(m) ELSE obj[q]]
                 /\ vpn_root' = tsearch(vpn_root, m.vpnIP, p)
                 /\ IF m.type = "FWD" THEN tsearch_addr(m.addr, p) ELSE UNCHANGED addr_root
                 /\ th' = [th EXCEPT ![t].pc = "start", ![t].peer = p]
         \/ \* the second tsearch fails: the peer is freed
            /\ AllocFails
            /\ Cardinality(DOMAIN obj) < MaxClients
            /\ m.type = "FWD"
            /\ NULL \in NodesAt(m.addr)
            /\ \E p \in Obj \ DOMAIN obj : vpn_root' = tsearch(vpn_root, m.vpnIP, p)
            /\ EndTurn(t)
            /\ UNCHANGED <<obj, addr_root>>
      /\ UNCHANGED <<global, workers, asked, end_campagnol>>

\* MUTANT of Start: peer_handling runs without a reference of its own.
Start_no_ref(t) ==
  /\ th[t].pc = "start"
  /\ ph' = [ph EXCEPT ![th[t].peer] = "top"]
  /\ Handled(t)
  /\ UNCHANGED <<obj, trees, global, pu, wr, asked, end_campagnol>>

\* start_peer_handling
Start(t) ==
  LET p == th[t].peer
  IN  /\ th[t].pc = "start"
      /\ obj' = [obj EXCEPT ![p].ref = @ + 1]
      /\ ph' = [ph EXCEPT ![p] = "top"]
      /\ Handled(t)
      /\ UNCHANGED <<trees, global, pu, wr, asked, end_campagnol>>

Release(t) ==
  LET p == th[t].peer
  IN  /\ th[t].pc = "decr"
      /\ DecrRef(p, 1, ph[p])
      /\ EndTurn(t)
      /\ UNCHANGED <<pu, wr, asked, end_campagnol>>

(***************************************************************************)
(* What the three threads do with the peer they found, whose mutex they    *)
(* hold.                                                                   *)
(***************************************************************************)
\* conditionSignal(&peer->cond_connected)
SignalConnected(p) == ph' = [ph EXCEPT ![p] = IF @ = "wait" THEN "woken" ELSE @]

\* A packet from the TUN device, a DTLS record, or FWD_CONNECTION for a known
\* peer: the packet is put in a FIFO, and the mutex released.
Forward(t) ==
  /\ th[t].pc = "got"
  /\ th[t].msg.type \in {"packet", "DTLS", "FWD"}
  /\ obj' = [obj EXCEPT ![th[t].peer].locked = FALSE]
  /\ Handled(t)
  /\ UNCHANGED <<trees, global, workers, asked, end_campagnol>>

\* PUNCH from the peer.
Punched(t) ==
  LET p == th[t].peer
  IN  /\ th[t].pc = "got"
      /\ th[t].msg.type = "PUNCH"
      /\ SignalConnected(p)
      /\ obj' = [obj EXCEPT ![p].locked = FALSE]
      /\ Handled(t)
      /\ UNCHANGED <<trees, global, pu, wr, asked, end_campagnol>>

\* ANS_CONNECTION or REJ_CONNECTION: the condition is signalled after the
\* mutex is released.  Only state NEW reads rdv_answer, so the value is forgotten
\* in the other states.
Answer(t) ==
  LET p == th[t].peer
      m == th[t].msg
  IN  /\ th[t].pc = "got"
      /\ m.type \in {"ANS", "REJ"}
      /\ obj' = [obj EXCEPT ![p].locked = FALSE,
                            ![p].answer = IF obj[p].state = "NEW" THEN m.type ELSE @,
                            ![p].addr = IF m.type = "ANS" THEN m.addr ELSE @]
      /\ Goto(t, "signal")
      /\ UNCHANGED <<trees, global, workers, asked, end_campagnol>>

Signal(t) ==
  /\ th[t].pc = "signal"
  /\ SignalConnected(th[t].peer)
  /\ Handled(t)
  /\ UNCHANGED <<obj, trees, global, pu, wr, asked, end_campagnol>>

\* A broadcast packet of the TUN device is put in the FIFO of every peer, under
\* the GLOBAL mutex and, in turn, the mutex of each peer.
Broadcast ==
  /\ "tun" \in Receiving
  /\ th["tun"].pc = "idle"
  /\ ~global
  /\ global' = TRUE
  /\ th' = [th EXCEPT !["tun"] = [pc |-> "broadcast", peer |-> NULL,
                                  msg |-> [type |-> "todo", peers |-> DOMAIN obj]]]
  /\ UNCHANGED <<obj, trees, workers, asked, end_campagnol>>

BroadcastTo(p) ==
  /\ th["tun"].pc = "broadcast"
  /\ p \in th["tun"].msg.peers
  /\ ~obj[p].locked
  /\ th' = [th EXCEPT !["tun"].msg.peers = @ \ {p}]
  /\ UNCHANGED <<obj, trees, global, workers, asked, end_campagnol>>

BroadcastEnds ==
  /\ th["tun"].pc = "broadcast"
  /\ th["tun"].msg.peers = {}
  /\ global' = FALSE
  /\ EndTurn("tun")
  /\ UNCHANGED <<obj, trees, workers, asked, end_campagnol>>

(***************************************************************************)
(* The end of start_vpn, run by the thread of comm_tun.                    *)
(***************************************************************************)
EndSignal ==
  /\ ~end_campagnol
  /\ end_campagnol' = TRUE
  /\ UNCHANGED <<obj, trees, global, th, workers, asked>>

Teardown ==
  /\ \A t \in DOMAIN th : th[t].pc = "exit"
  /\ ~global
  /\ global' = TRUE
  /\ th' = [th EXCEPT !["tun"] = [pc |-> "teardown", peer |-> NULL,
                                  msg |-> [type |-> "todo", peers |-> DOMAIN obj]]]
  /\ UNCHANGED <<obj, trees, workers, asked, end_campagnol>>

\* end_peer_handling
EndPeerHandling(p) ==
  /\ th["tun"].pc = "teardown"
  /\ p \in th["tun"].msg.peers
  /\ ~obj[p].locked
  /\ obj' = [obj EXCEPT ![p].shutdown = TRUE]
  /\ th' = [th EXCEPT !["tun"].msg.peers = @ \ {p}]
  /\ UNCHANGED <<trees, global, workers, asked, end_campagnol>>

TeardownEnds ==
  /\ th["tun"].pc = "teardown"
  /\ th["tun"].msg.peers = {}
  /\ global' = FALSE
  /\ th' = [th EXCEPT !["tun"] = [Idle EXCEPT !.pc = "join"]]
  /\ UNCHANGED <<obj, trees, workers, asked, end_campagnol>>

\* while (peers_n_clients != 0) { usleep(100000); }
Finish ==
  /\ th["tun"].pc = "join"
  /\ DOMAIN obj = {}
  /\ Goto("tun", "stopped")
  /\ UNCHANGED <<obj, trees, global, workers, asked, end_campagnol>>

Stopped == th["tun"].pc = "stopped" /\ UNCHANGED vars

(***************************************************************************)
(* peer_handling.  "top" is the head of its loop, where it takes the mutex *)
(* of its peer and branches on the state.                                  *)
(***************************************************************************)
\* Runs the loop body of state st, up to the next blocking point.
AtTop(p, st) ==
  /\ ph[p] = "top"
  /\ ~obj[p].locked
  /\ obj[p].state = st

SetState(p, st) == obj' = [obj EXCEPT ![p].state = st]

\* end_campagnol closes a peer that is not yet established.
HandlerGivesUp(p) ==
  /\ end_campagnol
  /\ AtTop(p, "NEW") \/ AtTop(p, "PUNCHING") \/ AtTop(p, "LINKED")
  /\ SetState(p, "CLOSED")
  /\ UNCHANGED <<trees, global, th, workers, asked, end_campagnol>>

\* ASK_CONNECTION is sent, then the wait on cond_connected starts.
Ask(p) ==
  /\ ~end_campagnol
  /\ AtTop(p, "NEW")
  /\ asked' = asked \cup {obj[p].vpnIP}
  /\ ph' = [ph EXCEPT ![p] = "wait"]
  /\ UNCHANGED <<obj, trees, global, th, pu, wr, end_campagnol>>

\* MUTANT of StartPunch: the punch thread has no reference.
StartPunch_no_ref(p) ==
  /\ ~end_campagnol
  /\ AtTop(p, "PUNCHING")
  /\ pu' = [pu EXCEPT ![p] = "run"]
  /\ ph' = [ph EXCEPT ![p] = "wait"]
  /\ UNCHANGED <<obj, trees, global, th, wr, asked, end_campagnol>>

\* start_punch, then the wait on cond_connected starts.
StartPunch(p) ==
  /\ ~end_campagnol
  /\ AtTop(p, "PUNCHING")
  /\ obj' = [obj EXCEPT ![p].ref = @ + 1]
  /\ pu' = [pu EXCEPT ![p] = "run"]
  /\ ph' = [ph EXCEPT ![p] = "wait"]
  /\ UNCHANGED <<trees, global, th, wr, asked, end_campagnol>>

\* The three seconds are over, or the wait returns without a signal.
WaitEnds(p) ==
  /\ ph[p] = "wait"
  /\ ph' = [ph EXCEPT ![p] = "expired"]
  /\ UNCHANGED <<obj, trees, global, th, pu, wr, asked, end_campagnol>>

SpuriousWakeup(p) ==
  /\ Spurious
  /\ ph[p] = "wait"
  /\ ph' = [ph EXCEPT ![p] = "woken"]
  /\ UNCHANGED <<obj, trees, global, th, pu, wr, asked, end_campagnol>>

\* Back from the wait in state NEW.  rdv_answer is uninitialised until the
\* first answer, so the comparison may go either way.
Answered(p) ==
  /\ ph[p] \in {"woken", "expired"}
  /\ ~obj[p].locked
  /\ obj[p].state = "NEW"
  /\ \/ /\ ph[p] = "expired" \/ obj[p].answer \in {"REJ", "none"} \/ end_campagnol
        /\ obj' = [obj EXCEPT ![p].state = "CLOSED", ![p].answer = "none"]
        /\ ph' = [ph EXCEPT ![p] = "top"]
     \/ /\ ph[p] = "woken" /\ obj[p].answer # "REJ" /\ ~end_campagnol
        /\ obj' = [obj EXCEPT ![p].locked = TRUE, ![p].answer = "none"]
        /\ ph' = [ph EXCEPT ![p] = "register"]
  /\ UNCHANGED <<trees, global, th, pu, wr, asked, end_campagnol>>

\* peers_register_endpoint, with the mutex of the peer held.
RegisterEndpoint(p) ==
  /\ ph[p] = "register"
  /\ ~global
  /\ \/ /\ tsearch_addr(obj[p].addr, p)
        /\ obj' = [obj EXCEPT ![p].locked = FALSE, ![p].state = "PUNCHING",
                              ![p].key = obj[p].addr]
     \/ \* tsearch fails
        /\ obj' = [obj EXCEPT ![p].locked = FALSE, ![p].state = "CLOSED"]
        /\ UNCHANGED addr_root
  /\ ph' = [ph EXCEPT ![p] = "top"]
  /\ UNCHANGED <<vpn_root, global, th, pu, wr, asked, end_campagnol>>

\* Back from the wait in state PUNCHING.
Linked(p) ==
  /\ ph[p] \in {"woken", "expired"}
  /\ ~obj[p].locked
  /\ obj[p].state = "PUNCHING"
  /\ SetState(p, IF ph[p] = "expired" \/ end_campagnol THEN "CLOSED" ELSE "LINKED")
  /\ ph' = [ph EXCEPT ![p] = "top"]
  /\ UNCHANGED <<trees, global, th, pu, wr, asked, end_campagnol>>

StartHandshake(p) ==
  /\ ~end_campagnol
  /\ AtTop(p, "LINKED")
  /\ ph' = [ph EXCEPT ![p] = "handshake"]
  /\ UNCHANGED <<obj, trees, global, th, pu, wr, asked, end_campagnol>>

\* The DTLS handshake succeeds or fails; it fails once shutdown is set, because
\* the empty packet of end_peer_handling ends the stream.
Handshake(p) ==
  /\ ph[p] = "handshake"
  /\ ~obj[p].locked
  /\ \/ SetState(p, "CLOSED")
     \/ Handshakes /\ ~obj[p].shutdown /\ SetState(p, "ESTABLISHED")
  /\ ph' = [ph EXCEPT ![p] = "top"]
  /\ UNCHANGED <<trees, global, th, pu, wr, asked, end_campagnol>>

\* start_SSL_writing, then the reading loop.
Establish(p) ==
  /\ AtTop(p, "ESTABLISHED")
  /\ obj' = [obj EXCEPT ![p].ref = @ + 1]
  /\ wr' = [wr EXCEPT ![p] = "run"]
  /\ ph' = [ph EXCEPT ![p] = "reading"]
  /\ UNCHANGED <<trees, global, th, pu, asked, end_campagnol>>

\* The reading loop ends: a time-out of the session, the shutdown of the other
\* side, an error, or end_peer_handling.  Then end_SSL_writing.
EndSession(p) ==
  /\ ph[p] = "reading"
  /\ ~obj[p].locked
  /\ SetState(p, "CLOSED")
  /\ ph' = [ph EXCEPT ![p] = "top"]
  /\ UNCHANGED <<trees, global, th, pu, wr, asked, end_campagnol>>

Closed(p) ==
  /\ AtTop(p, "CLOSED")
  /\ ph' = [ph EXCEPT ![p] = "decr"]
  /\ UNCHANGED <<obj, trees, global, th, pu, wr, asked, end_campagnol>>

\* MUTANT of HandlerExits: one reference too few is given back.
HandlerExits_one(p) ==
  /\ ph[p] = "decr"
  /\ DecrRef(p, 1, "done")
  /\ UNCHANGED <<th, pu, wr, asked, end_campagnol>>

\* One reference for the thread and one for the list.
HandlerExits(p) ==
  /\ ph[p] = "decr"
  /\ DecrRef(p, 2, "done")
  /\ UNCHANGED <<th, pu, wr, asked, end_campagnol>>

\* punch stops when the peer is closed or after PUNCH_NUMBER messages; in
\* between it takes the mutex of the peer for each message.
PunchStops(p) ==
  /\ pu[p] = "run"
  /\ ~obj[p].locked
  /\ pu' = [pu EXCEPT ![p] = "decr"]
  /\ UNCHANGED <<obj, trees, global, th, ph, wr, asked, end_campagnol>>

PunchExits(p) ==
  /\ pu[p] = "decr"
  /\ DecrRef(p, 1, ph[p])
  /\ pu' = [pu EXCEPT ![p] = "none"]
  /\ UNCHANGED <<th, wr, asked, end_campagnol>>

\* SSL_writing stops on the empty packet of end_SSL_writing, which follows the
\* change of an established peer to CLOSED, or on an error.
WriterStops(p) ==
  /\ wr[p] = "run"
  /\ wr' = [wr EXCEPT ![p] = "decr"]
  /\ UNCHANGED <<obj, trees, global, th, ph, pu, asked, end_campagnol>>

WriterExits(p) ==
  /\ wr[p] = "decr"
  /\ DecrRef(p, 1, ph[p])
  /\ wr' = [wr EXCEPT ![p] = "none"]
  /\ UNCHANGED <<th, pu, asked, end_campagnol>>

ThreadStep(t) ==
  \/ LookupLocks(t) \/ Add(t) \/ Start(t) \/ Release(t)
  \/ Forward(t) \/ Punched(t) \/ Answer(t) \/ Signal(t)

MainStep ==
  \/ BroadcastEnds \/ Teardown \/ TeardownEnds \/ Finish
  \/ \E p \in DOMAIN obj : BroadcastTo(p) \/ EndPeerHandling(p)

HandlerStep(p) ==
  \/ HandlerGivesUp(p) \/ Ask(p) \/ StartPunch(p) \/ Answered(p)
  \/ RegisterEndpoint(p) \/ Linked(p) \/ StartHandshake(p) \/ Establish(p)
  \/ Closed(p) \/ HandlerExits(p)

PunchStep(p) == PunchStops(p) \/ PunchExits(p)

Next ==
  \/ \E t \in DOMAIN th :
       \/ ThreadStep(t) \/ ExitLoop(t)
       \/ t \in Receiving /\ \E m \in Message(t) : Lookup(t, m)
  \/ Broadcast \/ MainStep \/ EndSignal \/ Stopped
  \/ \E p \in DOMAIN obj :
       \/ HandlerStep(p) \/ WaitEnds(p) \/ SpuriousWakeup(p) \/ Handshake(p)
       \/ EndSession(p) \/ PunchStep(p) \/ WriterStops(p) \/ WriterExits(p)

Spec == Init /\ [][Next]_vars

\* Every thread that can run does so, waits with a deadline end, punch sends a
\* bounded number of messages, and the empty packets of end_peer_handling and
\* end_SSL_writing are read.  The socket's queue is empty again and again.
Fairness ==
  /\ \A t \in {"tun", "rdv", "sock"} :
       WF_vars(ThreadStep(t)) /\ SF_vars(ExitLoop(t))
  /\ WF_vars(MainStep)
  /\ \A p \in Obj :
       /\ WF_vars(p \in DOMAIN obj /\ HandlerStep(p))
       /\ WF_vars(p \in DOMAIN obj /\ WaitEnds(p))
       /\ WF_vars(p \in DOMAIN obj /\ obj[p].shutdown /\ Handshake(p))
       /\ WF_vars(p \in DOMAIN obj /\ obj[p].shutdown /\ EndSession(p))
       /\ WF_vars(p \in DOMAIN obj /\ PunchStep(p))
       /\ WF_vars(p \in DOMAIN obj /\ obj[p].state = "CLOSED" /\ WriterStops(p))
       /\ WF_vars(p \in DOMAIN obj /\ WriterExits(p))

FairSpec == Spec /\ Fairness
-----------------------------------------------------------------------------
(***************************************************************************)
(* Properties                                                              *)
(***************************************************************************)
Peer ==
  [vpnIP : VpnIP, addr : Addr \cup {NoAddr}, key : Addr \cup {NoAddr},
   state : {"NEW", "PUNCHING", "LINKED", "ESTABLISHED", "CLOSED"},
   ref : Nat, locked : BOOLEAN, answer : {"none", "ANS", "REJ"},
   shutdown : BOOLEAN]

\* Type invariant of the peers, of the trees and of the threads' positions.
TypeOK ==
  /\ DOMAIN obj \subseteq Obj
  /\ \A p \in DOMAIN obj : obj[p] \in Peer
  /\ DOMAIN vpn_root \subseteq VpnIP
  /\ addr_root \subseteq Obj
  /\ global \in BOOLEAN
  /\ \A t \in DOMAIN th :
       /\ th[t].peer \in Obj \cup {NULL}
       /\ th[t].pc \in {"idle", "lock", "add", "start", "got", "signal", "decr", "lost",
                        "broadcast", "exit", "teardown", "join", "stopped"}
  /\ ph \in [Obj -> {"none", "top", "wait", "woken", "expired", "register",
                     "handshake", "reading", "decr", "done"}]
  /\ pu \in [Obj -> {"none", "run", "decr"}]
  /\ wr \in [Obj -> {"none", "run", "decr"}]
  /\ asked \subseteq VpnIP
  /\ end_campagnol \in BOOLEAN

one(b) == IF b THEN 1 ELSE 0

Holds(t, p) ==
  th[t].peer = p /\ th[t].pc \in {"lock", "start", "got", "signal", "decr"}

\* The reference count of a peer is the number of threads that use it, plus one
\* for the list until peer_handling ends (peer.c:130-131): a count that is too
\* low frees the peer under a thread, one that is too high leaks it and keeps
\* start_vpn waiting for ever.  The type invariant is part of it.
RefCountExact ==
  /\ TypeOK
  /\ \A p \in DOMAIN obj :
       obj[p].ref = one(ph[p] # "done") + one(ph[p] \notin {"none", "done"})
                    + one(pu[p] # "none") + one(wr[p] # "none")
                    + Cardinality({t \in DOMAIN th : Holds(t, p)})

\* A thread only uses allocated peers: the detached punch and SSL_writing
\* threads, and the three threads between a lookup and peers_decr_ref.
NoUseAfterFree ==
  /\ \A p \in Obj : ph[p] # "none" \/ pu[p] # "none" \/ wr[p] # "none" => p \in DOMAIN obj
  /\ \A t \in DOMAIN th : /\ th[t].pc # "lost"
                         /\ \A p \in Obj : Holds(t, p) => p \in DOMAIN obj

\* Every node of the trees points to an allocated peer, and a node of the VPN
\* tree to one with the node's key, whichever of two peers with the same VPN
\* address is freed first: a lookup returns NULL or a peer in use (peer.c:302-303).
TreesNotDangling ==
  /\ \A v \in DOMAIN vpn_root : vpn_root[v] \in DOMAIN obj /\ obj[vpn_root[v]].vpnIP = v
  /\ addr_root \subseteq DOMAIN obj

\* peer_handling waits for GLOBAL with its peer's mutex held, and the thread that
\* holds GLOBAL needs that mutex.
LockCycle ==
  \E p \in Obj, t \in DOMAIN th :
    /\ ph[p] = "register"
    /\ \/ th[t].pc = "lock" /\ th[t].peer = p
       \/ th[t].pc \in {"broadcast", "teardown"} /\ p \in th[t].msg.peers

\* The client stops: after SIGTERM all threads end and all peers are freed
\* (communication.c:967-1008), unless the lock cycle of peer_handling and a
\* lookup (communication.c:278) has closed: nothing else keeps it from stopping.
StopsCleanly == end_campagnol ~> th["tun"].pc = "stopped" \/ LockCycle

\* A lookup returns with "the client's mutex is locked" (peer.c:304).
LookupReturns ==
  \A t \in {"tun", "rdv", "sock"} : th[t].pc = "lock" ~> th[t].pc # "lock"
=============================================================================
