----------------------------- MODULE Rendezvous -----------------------------
(***************************************************************************)
(* Two clients, the rendezvous server and the UDP network between them:    *)
(* registration (register_rdv), the hole punching that the server mediates *)
(* (rdv_handling, comm_socket and the states of peer_handling) and the end *)
(* of a session at one side only.                                          *)
(*                                                                         *)
(* The server is the module RdvServer; each datagram it receives is one of *)
(* its handlers.  Its clock is replaced by two faults: Silence makes it    *)
(* miss the PINGs of a client, and then it may clean the client out.  Of a *)
(* client this module keeps where the thread of the other client's peer    *)
(* object stands; the threads, references and mutexes are in PeerTable and *)
(* the FIFOs and DTLS sessions in PeerSession.                             *)
(*                                                                         *)
(* The network reorders datagrams freely.  It loses one, duplicates one or *)
(* delivers one after the receiver has given up waiting only as a fault,   *)
(* and MaxFaults bounds the faults of a behaviour; so do a crash of a      *)
(* client and a failed allocation of the server.                           *)
(***************************************************************************)
EXTENDS Naturals, FiniteSets, FiniteSetsExt

CONSTANTS
  Clients,     \* two clients; each is also its address inside the VPN
  Local,       \* the clients whose TUN device has packets for the other one
  Busy,        \* those of Local that always have more packets
  Fresh,       \* the clients that are still to register; the others have
  EndpointOf,  \* the public endpoint of each client
  Obj, NULL,   \* as in RdvServer
  MaxTries,    \* MAX_REGISTERING_TRIES
  MaxFaults,
  MaxNet       \* the datagrams in transit at a time

ASSUME TwoClients ==
  /\ Cardinality(Clients) = 2
  /\ Local \subseteq Clients /\ Busy \subseteq Local /\ Fresh \subseteq Clients
  /\ MaxTries \in Nat \ {0} /\ MaxFaults \in Nat /\ MaxNet \in Nat

VARIABLES
  srv,     \* the tables of the server
  sent,    \* what the server sent in the last step
  net,     \* the datagrams in transit
  mode,    \* of each client: "first" (the registration in start_vpn), "again"
           \* (the one in rdv_handling), "run", "off"
  tries,   \* registeringTries, 0 outside of register_rdv
  st,      \* the state of its object for the other client, "none" without one
  dialer,  \* is_dtls_client of that object
  faults

vars == <<srv, sent, net, mode, tries, st, dialer, faults>>

R == INSTANCE RdvServer WITH
       Addr <- {EndpointOf[c] : c \in Clients}, VpnIP <- Clients,
       MaxClients <- 0, PeerTimeout <- 1, CleanPeriod <- 0, SelectDelay <- 0,
       waited <- 0, sinceClean <- 0, end_server <- Obj = {}, pc <- "loop"

Other(c) == CHOOSE o \in Clients : o # c

ServerBound == {"HELLO", "PING", "BYE", "ASK_CONNECTION"}

PeerBound == {"PUNCH", "DATA", "ALERT"}

\* init_smsg and xsendto to the server, and to the other client.
ToServer(type, c, v) == [type |-> type, from |-> c, vpnIP |-> v]

ToPeer(type, c) == [type |-> type, to |-> EndpointOf[Other(c)]]

\* In transit: from c to the server, from the server to c, from the other to c.
Outgoing(c, types) ==
  {m \in net : m.type \in types \cap ServerBound /\ m.from = c}

Incoming(c, types) ==
  {m \in net : m.type \in types \ ServerBound /\ m.to = EndpointOf[c]}

Answers == {"OK", "NOK", "PONG", "RECONNECT", "REJ_CONNECTION", "ANS_CONNECTION"}

\* A client sends of its own accord while few datagrams are in transit.
Transit(ms) == Cardinality(ms) <= MaxNet /\ net' = ms

Fault == faults < MaxFaults /\ faults' = faults + 1

\* A timed wait ends when what should end it did not come; or early, because
\* that was delayed.
Expires(pending) ==
  \/ ~pending /\ UNCHANGED faults
  \/ pending /\ Fault

\* What happens within the 3 s of the wait of c in PUNCHING: the
\* datagrams in transit are delivered and the CLOSED objects are freed.
Soon(c) ==
  \/ \E d \in Clients :
       \/ st[d] = "CLOSED"
       \/ Outgoing(d, ServerBound) \cup Incoming(d, Answers \cup {"FWD_CONNECTION"}) # {}
  \/ Incoming(c, PeerBound) # {}

Init ==
  /\ srv = LET at == CHOOSE f \in [Clients -> Obj] : \A c \in Clients : f[c] # f[Other(c)]
               Add(c, t) == R!add_client(t, at[c], EndpointOf[c], c, FALSE)
           IN FoldSet(Add, R!EmptyTables, Clients \ Fresh)
  /\ sent = {}
  /\ net = {ToServer("HELLO", c, c) : c \in Fresh}
  /\ mode = [c \in Clients |-> IF c \in Fresh THEN "first" ELSE "run"]
  /\ tries = [c \in Clients |-> IF c \in Fresh THEN 1 ELSE 0]
  /\ st = [c \in Clients |-> "none"]
  /\ dialer = [c \in Clients |-> FALSE]
  /\ faults = 0
-----------------------------------------------------------------------------
(***************************************************************************)
(* The server handles a datagram; handle_packet selects the handler.       *)
(***************************************************************************)
Handle(m) ==
  LET a == EndpointOf[m.from]
  IN \/ m.type = "HELLO" /\ (R!HelloUnknown(a, m.vpnIP, FALSE)
                               \/ R!HelloKnown(a, m.vpnIP, FALSE))
     \/ m.type # "HELLO" /\ R!Unregistered(a)
     \/ m.type = "PING" /\ R!Ping(a)
     \/ m.type = "BYE" /\ R!Bye(a)
     \/ m.type = "ASK_CONNECTION" /\ R!AskConnection(a, m.vpnIP)

\* An allocation failed in the handler: no answer to HELLO, or a rejection
\* although the client that was asked for is there.
AllocFailed(m) ==
  \/ m.type = "HELLO" /\ sent' = {}
  \/ /\ m.type = "ASK_CONNECTION"
     /\ \E x \in sent' : x.type = "REJ_CONNECTION"
     /\ R!get_client_VPN(srv', m.vpnIP) # NULL

ServerReceives(m) ==
  /\ m.type \in ServerBound
  /\ Handle(m)
  /\ net' = (net \ {m}) \cup sent'
  /\ IF AllocFailed(m) THEN Fault ELSE UNCHANGED faults
  /\ UNCHANGED <<mode, tries, st, dialer>>

\* MUTANT of ServerCleans: a client that timed out is never dead.
ServerCleans_later ==
  /\ srv' = R!drop(srv, {p \in DOMAIN srv.clients : srv.clients[p].age > 3})
  /\ srv' # srv
  /\ sent' = {}
  /\ UNCHANGED <<net, mode, tries, st, dialer, faults>>

\* select() times out: the clients that were silent for too long are removed.
ServerCleans ==
  /\ srv' = R!clean_dead_clients(srv)
  /\ srv' # srv
  /\ sent' = {}
  /\ UNCHANGED <<net, mode, tries, st, dialer, faults>>

\* The server does not hear of c any more, because c has stopped or because
\* several of its PINGs are lost: c times out, and later counts as dead.
Silence(c) ==
  LET p == R!get_client_real(srv, EndpointOf[c])
  IN /\ c \in Fresh /\ p # NULL
     /\ IF mode[c] = "off" THEN UNCHANGED faults ELSE Fault
     /\ \E age \in {2, 3} :
          /\ age > srv.clients[p].age
          /\ srv' = [srv EXCEPT !.clients = [@ EXCEPT ![p].age = age]]
     /\ sent' = {}
     /\ UNCHANGED <<net, mode, tries, st, dialer>>
-----------------------------------------------------------------------------
(***************************************************************************)
(* Registration.                                                           *)
(***************************************************************************)
\* The next turn of the loop in register_rdv, or its end: start_vpn gives up
\* and says BYE, rdv_handling goes on.
Retry(c, rest) ==
  IF tries[c] < MaxTries
  THEN /\ net' = rest \cup {ToServer("HELLO", c, c)}
       /\ tries' = [tries EXCEPT ![c] = @ + 1]
       /\ UNCHANGED mode
  ELSE /\ net' = rest \cup (IF mode[c] = "first" THEN {ToServer("BYE", c, c)} ELSE {})
       /\ tries' = [tries EXCEPT ![c] = 0]
       /\ mode' = [mode EXCEPT ![c] = IF mode[c] = "first" THEN "off" ELSE "run"]

\* A message of the server in register_rdv: anything but OK costs a try, and
\* messages of other kinds are discarded.
RegisterReads(c, m) ==
  /\ mode[c] \in {"first", "again"}
  /\ m \in Incoming(c, Answers \cup {"FWD_CONNECTION"})
  /\ IF m.type = "OK"
     THEN /\ net' = net \ {m}
          /\ tries' = [tries EXCEPT ![c] = 0]
          /\ mode' = [mode EXCEPT ![c] = "run"]
     ELSE Retry(c, net \ {m})
  /\ sent' = {}
  /\ UNCHANGED <<srv, st, dialer, faults>>

\* BIO_read in register_rdv times out.
RegisterTimesOut(c) ==
  /\ mode[c] \in {"first", "again"}
  /\ Expires(Outgoing(c, {"HELLO"}) \cup Incoming(c, {"OK", "NOK"}) # {})
  /\ Retry(c, net)
  /\ sent' = {}
  /\ UNCHANGED <<srv, st, dialer>>

\* The server does not know c, or has not heard of it for too long.
Stale(c) ==
  LET p == R!get_client_real(srv, EndpointOf[c])
  IN p # NULL => srv.clients[p].age > 0

\* handler_sigTimerPing.  The other PINGs are left out: the server answers
\* PONG, and both sides stay as they are.
Ping(c) ==
  /\ mode[c] \in {"run", "again"} /\ Stale(c)
  /\ Outgoing(c, ServerBound) = {} /\ Incoming(c, Answers) = {}
  /\ Transit(net \cup {ToServer("PING", c, c)})
  /\ sent' = {}
  /\ UNCHANGED <<srv, mode, tries, st, dialer, faults>>
-----------------------------------------------------------------------------
(***************************************************************************)
(* The connection with the other client.                                   *)
(***************************************************************************)
\* comm_tun reads a packet for an unknown client: peers_add, and peer_handling
\* sends ASK_CONNECTION and waits.
TunPacket(c) ==
  /\ c \in Local /\ mode[c] \in {"run", "again"} /\ st[c] = "none"
  /\ Outgoing(c, ServerBound) = {}
  /\ st' = [st EXCEPT ![c] = "NEW"]
  /\ dialer' = [dialer EXCEPT ![c] = TRUE]
  /\ Transit(net \cup {ToServer("ASK_CONNECTION", c, Other(c))})
  /\ sent' = {}
  /\ UNCHANGED <<srv, mode, tries, faults>>

\* What an answer does to the object: conditionSignal wakes the thread up from
\* its wait in NEW, which looks at rdv_answer, and also from its wait in
\* PUNCHING, which does not.
Answered(c, type) ==
  CASE st[c] = "NEW" -> IF type = "ANS_CONNECTION" THEN "PUNCHING" ELSE "CLOSED"
    [] st[c] = "PUNCHING" -> "LINKED"
    [] OTHER -> st[c]

\* rdv_handling: REJ_CONNECTION, ANS_CONNECTION, and PONG, OK, NOK ignored.
RdvAnswer(c, m) ==
  /\ mode[c] = "run" /\ m \in Incoming(c, Answers \ {"RECONNECT"})
  /\ st' = IF m.type \in {"REJ_CONNECTION", "ANS_CONNECTION"}
           THEN [st EXCEPT ![c] = Answered(c, m.type)] ELSE st
  /\ net' = net \ {m}
  /\ sent' = {}
  /\ UNCHANGED <<srv, mode, tries, dialer, faults>>

\* MUTANT of RdvForward: the caller is added as if it had been called.
RdvForward_requested(c, m) ==
  /\ mode[c] = "run" /\ m \in Incoming(c, {"FWD_CONNECTION"})
  /\ st' = IF st[c] = "none" THEN [st EXCEPT ![c] = "PUNCHING"] ELSE st
  /\ dialer' = IF st[c] = "none" THEN [dialer EXCEPT ![c] = TRUE] ELSE dialer
  /\ net' = net \ {m}
  /\ sent' = {}
  /\ UNCHANGED <<srv, mode, tries, faults>>

\* rdv_handling: FWD_CONNECTION adds the caller unless there is an object, even
\* a CLOSED one that is still referenced.
RdvForward(c, m) ==
  /\ mode[c] = "run" /\ m \in Incoming(c, {"FWD_CONNECTION"})
  /\ st' = IF st[c] = "none" THEN [st EXCEPT ![c] = "PUNCHING"] ELSE st
  /\ dialer' = IF st[c] = "none" THEN [dialer EXCEPT ![c] = FALSE] ELSE dialer
  /\ net' = net \ {m}
  /\ sent' = {}
  /\ UNCHANGED <<srv, mode, tries, faults>>

\* MUTANT of RdvReconnect: the message is ignored.
RdvReconnect_ignored(c, m) ==
  /\ mode[c] = "run" /\ m \in Incoming(c, {"RECONNECT"})
  /\ net' = net \ {m}
  /\ sent' = {}
  /\ UNCHANGED <<srv, mode, tries, st, dialer, faults>>

\* rdv_handling: RECONNECT runs register_rdv.
RdvReconnect(c, m) ==
  /\ mode[c] = "run" /\ m \in Incoming(c, {"RECONNECT"})
  /\ mode' = [mode EXCEPT ![c] = "again"]
  /\ tries' = [tries EXCEPT ![c] = 1]
  /\ net' = (net \ {m}) \cup {ToServer("HELLO", c, c)}
  /\ sent' = {}
  /\ UNCHANGED <<srv, st, dialer, faults>>

\* The states in which the object is in the tree of endpoints.
Reachable == {"PUNCHING", "LINKED", "ESTABLISHED", "CLOSED"}

\* The thread punch sends while the object is not CLOSED.
Punch(c) ==
  /\ st[c] \in {"PUNCHING", "LINKED"} /\ st[Other(c)] \notin {"LINKED", "ESTABLISHED"}
  /\ Incoming(Other(c), PeerBound) = {}
  /\ Transit(net \cup {ToPeer("PUNCH", c)})
  /\ sent' = {}
  /\ UNCHANGED <<srv, mode, tries, st, dialer, faults>>

\* comm_tun sends a packet through the session.
Data(c) ==
  /\ c \in Local /\ mode[c] # "off" /\ st[c] = "ESTABLISHED" /\ st[Other(c)] # "ESTABLISHED"
  /\ Incoming(Other(c), PeerBound) = {}
  /\ Transit(net \cup {ToPeer("DATA", c)})
  /\ sent' = {}
  /\ UNCHANGED <<srv, mode, tries, st, dialer, faults>>

\* The object of c becomes CLOSED; in is what stays or is put in transit.
ClosePeer(c, in) ==
  /\ st' = [st EXCEPT ![c] = "CLOSED"]
  /\ net' = in
  /\ sent' = {}
  /\ UNCHANGED <<srv, mode, tries, dialer>>

\* The same with CLOSE_CONNECTION.  It reaches the server at once: it changes
\* the table of sessions, which the clients do not see, or is answered
\* RECONNECT.
CloseAndTell(c, in) ==
  /\ R!CloseConnection(EndpointOf[c], Other(c)) \/ R!Unregistered(EndpointOf[c])
  /\ st' = [st EXCEPT ![c] = "CLOSED"]
  /\ net' = in \cup sent'
  /\ UNCHANGED <<mode, tries, dialer>>

\* MUTANT of SocketReads: application data of an unknown client is dropped.
SocketReads_silent(c, m) ==
  /\ m \in Incoming(c, PeerBound)
  /\ UNCHANGED faults
  /\ CASE m.type = "ALERT" /\ st[c] = "ESTABLISHED" -> ClosePeer(c, net \ {m})
       [] m.type = "ALERT" /\ st[c] = "LINKED" -> CloseAndTell(c, net \ {m})
       [] OTHER ->
            /\ st' = IF m.type = "PUNCH" /\ st[c] = "PUNCHING"
                     THEN [st EXCEPT ![c] = "LINKED"] ELSE st
            /\ net' = net \ {m}
            /\ sent' = {}
            /\ UNCHANGED <<srv, mode, tries, dialer>>

\* comm_socket: a PUNCH wakes up the wait in PUNCHING; a DTLS record goes to
\* the session, which an alert ends; application data of a client that is not
\* in the tree of endpoints is answered by an alert.
SocketReads(c, m) ==
  /\ m \in Incoming(c, PeerBound)
  /\ UNCHANGED faults
  /\ CASE m.type = "ALERT" /\ st[c] = "ESTABLISHED" -> ClosePeer(c, net \ {m})
       [] m.type = "ALERT" /\ st[c] = "LINKED" -> CloseAndTell(c, net \ {m})
       [] OTHER ->
            /\ st' = IF m.type = "PUNCH" /\ st[c] = "PUNCHING"
                     THEN [st EXCEPT ![c] = "LINKED"] ELSE st
            /\ net' = (net \ {m}) \cup
                 (IF m.type = "DATA" /\ st[c] \notin Reachable /\ mode[c] # "off"
                  THEN {ToPeer("ALERT", c)} ELSE {})
            /\ sent' = {}
            /\ UNCHANGED <<srv, mode, tries, dialer>>

\* The wait in NEW times out.
AskExpires(c) ==
  /\ st[c] = "NEW"
  /\ Expires(Outgoing(c, {"ASK_CONNECTION"})
               \cup Incoming(c, {"ANS_CONNECTION", "REJ_CONNECTION"}) # {})
  /\ ClosePeer(c, net)

\* The wait in PUNCHING times out.
PunchExpires(c) ==
  /\ st[c] = "PUNCHING"
  /\ Expires(Soon(c) \/ st[Other(c)] \in {"PUNCHING", "LINKED"})
  /\ CloseAndTell(c, net)

\* The DTLS handshake needs both sides in LINKED, in different roles.
Compatible(c) == st[Other(c)] = "LINKED" /\ dialer[c] # dialer[Other(c)]

Handshake ==
  /\ \A c \in Clients : st[c] = "LINKED" /\ Compatible(c)
  /\ st' = [c \in Clients |-> "ESTABLISHED"]
  /\ sent' = {}
  /\ UNCHANGED <<srv, net, mode, tries, dialer, faults>>

\* MUTANT of HandshakeFails: two DTLS clients wait for each other.
HandshakeFails_waits(c) ==
  /\ st[c] = "LINKED" /\ ~Compatible(c) /\ st[Other(c)] # "LINKED"
  /\ Expires(Soon(c) \/ st[Other(c)] = "PUNCHING")
  /\ CloseAndTell(c, net)

\* SSL_do_handshake fails: at once when both sides are DTLS clients, after its
\* retransmissions when the other side is not there.
HandshakeFails(c) ==
  /\ st[c] = "LINKED" /\ ~Compatible(c)
  /\ IF st[Other(c)] = "LINKED" THEN UNCHANGED faults
     ELSE Expires(Soon(c) \/ st[Other(c)] = "PUNCHING")
  /\ CloseAndTell(c, net)

\* The session has been idle for too long: CLOSE_CONNECTION, SSL_shutdown.
SessionTimesOut(c) ==
  /\ st[c] = "ESTABLISHED"
  /\ CloseAndTell(c, net \cup {ToPeer("ALERT", c)})
  /\ UNCHANGED faults

\* The last reference to the CLOSED object is dropped.
PeerFreed(c) ==
  /\ st[c] = "CLOSED"
  /\ st' = [st EXCEPT ![c] = "none"]
  /\ sent' = {}
  /\ UNCHANGED <<srv, net, mode, tries, dialer, faults>>
-----------------------------------------------------------------------------
(***************************************************************************)
(* Faults.                                                                 *)
(***************************************************************************)
Lose(m) ==
  /\ Fault
  /\ net' = net \ {m}
  /\ sent' = {}
  /\ UNCHANGED <<srv, mode, tries, st, dialer>>

\* The server gets m twice.
Duplicate(m) ==
  /\ m.type \in ServerBound /\ Handle(m) /\ ~AllocFailed(m)
  /\ Fault
  /\ net' = net \cup sent'
  /\ UNCHANGED <<mode, tries, st, dialer>>

\* c dies without a word and is started again.
Crash(c) ==
  /\ c \in Fresh /\ Fault
  /\ mode' = [mode EXCEPT ![c] = "first"]
  /\ tries' = [tries EXCEPT ![c] = 1]
  /\ st' = [st EXCEPT ![c] = "none"]
  /\ dialer' = [dialer EXCEPT ![c] = FALSE]
  /\ net' = net \cup {ToServer("HELLO", c, c)}
  /\ sent' = {}
  /\ UNCHANGED srv

\* A datagram reaches a client that has stopped.
Unread(c, m) ==
  /\ mode[c] = "off" /\ m \in Incoming(c, Answers \cup {"FWD_CONNECTION"})
  /\ net' = net \ {m}
  /\ sent' = {}
  /\ UNCHANGED <<srv, mode, tries, st, dialer, faults>>

\* The datagrams of the given types that the server sent to c.
FromServer(c, types) ==
  \E m \in Incoming(c, types) :
    \/ RegisterReads(c, m) \/ RdvAnswer(c, m) \/ RdvForward(c, m)
    \/ RdvReconnect(c, m) \/ Unread(c, m)

\* The thread of the object in c.
PeerThread(c) ==
  AskExpires(c) \/ PunchExpires(c) \/ HandshakeFails(c) \/ PeerFreed(c)

Next ==
  \/ \E c \in Clients :
       \/ \E m \in Outgoing(c, ServerBound) : ServerReceives(m)
       \/ FromServer(c, Answers) \/ FromServer(c, {"FWD_CONNECTION"})
       \/ \E m \in Incoming(c, PeerBound) : SocketReads(c, m)
       \/ RegisterTimesOut(c) \/ Ping(c) \/ TunPacket(c) \/ Punch(c) \/ Data(c)
       \/ PeerThread(c) \/ SessionTimesOut(c) \/ Silence(c) \/ Crash(c)
  \/ Handshake \/ ServerCleans
  \/ \E m \in net : Lose(m) \/ Duplicate(m)

Spec == Init /\ [][Next]_vars

\* A session whose other end is gone and over which nothing is sent.
Idle(c) == c \notin Busy /\ st[Other(c)] # "ESTABLISHED" /\ SessionTimesOut(c)

\* What goes on between c and the server, and on the way to c from the other.
ServerChannel(c) ==
  \/ \E m \in Outgoing(c, ServerBound) : ServerReceives(m)
  \/ RegisterTimesOut(c) \/ Ping(c)

PeerChannel(c) ==
  \/ \E m \in Incoming(c, PeerBound) : SocketReads(c, m)
  \/ Punch(Other(c)) \/ (Other(c) \in Busy /\ Data(Other(c)))

\* Every datagram is delivered or lost, every timer runs out, every thread goes
\* on, and a busy client keeps sending.  SF where MaxNet may stop a step.
Fairness ==
  /\ \A c \in Clients :
       /\ WF_vars(ServerChannel(c))
       /\ WF_vars(FromServer(c, Answers))
       /\ WF_vars(FromServer(c, {"FWD_CONNECTION"}))
       /\ SF_vars(PeerChannel(c))
       /\ SF_vars(PeerThread(c) \/ Handshake \/ Idle(c))
  /\ WF_vars(ServerCleans \/ \E c \in Clients : mode[c] = "off" /\ Silence(c))
  /\ \A c \in Busy : WF_vars(TunPacket(c))

FairSpec == Spec /\ Fairness
-----------------------------------------------------------------------------
(***************************************************************************)
(* Properties                                                              *)
(***************************************************************************)
\* Every attempt to reach the other client ends, in a session or without an
\* object: late, duplicated and crossing answers, a FWD_CONNECTION that finds a
\* CLOSED object, and two clients that open at the same time and both take the
\* DTLS client's role, leave no thread of peer_handling waiting forever.
AttemptsEnd ==
  \A c \in Clients : []<>(st[c] \in {"none", "ESTABLISHED"})

HalfOpen(c) == st[c] = "ESTABLISHED" /\ st[Other(c)] # "ESTABLISHED"

\* A session that only one side still has, "due to a lost close notification,
\* or we died uncleanly and were restarted" (communication.c:755-756), ends:
\* by the alert that answers its data, or idle.  There are two exceptions.  A
\* side that opens again and again: the FWD_CONNECTION finds the old object, and
\* the data find the new one in the tree of endpoints and are dropped.  And a
\* side that keeps sending to a client that is gone: every packet it sends
\* renews peer->time (communication.c:894), so it never sees itself idle.
HalfOpenEnds ==
  \A c \in Clients : <>[]HalfOpen(c) => []<>(st[Other(c)] = "NEW" \/ mode[Other(c)] = "off")

Known(c) == R!get_client_real(srv, EndpointOf[c]) # NULL

\* A running client that the server has forgotten is registered again: its
\* next PING is answered RECONNECT and rdv_handling runs register_rdv, which
\* may itself fail and is then repeated.
ForgottenReturns ==
  \A c \in Clients : []<>(mode[c] = "run" => Known(c))

\* A client that gave up registering does not stay registered: the server may
\* have registered it, the OK being lost or late, and NOK answered all further
\* tries; then the BYE of start_vpn or the time-outs of the server remove it,
\* also when a HELLO arrives behind the BYE.
StoppedForgotten ==
  \A c \in Clients : []<>(mode[c] = "off" => ~Known(c))

Connected == \A c \in Clients : st[c] = "ESTABLISHED"

\* A client that always has packets for the other one gets its session, again
\* and again, when the other one leaves it to open the connection; otherwise
\* both may open at the same time, fail the handshake, and do so again.
OneSidedConnects ==
  \A c \in Busy :
    <>[](st[Other(c)] # "NEW") => []<>(Connected \/ \E d \in Clients : mode[d] = "off")
=============================================================================
