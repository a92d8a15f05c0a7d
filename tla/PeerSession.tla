----------------------------- MODULE PeerSession -----------------------------
(***************************************************************************)
(* One DTLS session of a client: the threads that share its two FIFO BIOs  *)
(* (client/communication.c).                                               *)
(*                                                                         *)
(* comm_tun ("tun") puts packets in out_fifo, SSL_writing ("wr") takes     *)
(* them and calls SSL_write.  comm_socket ("sock") puts records in rbio,   *)
(* peer_handling ("rd") takes them through SSL_do_handshake and SSL_read.  *)
(* The end of start_vpn ("main") ends the session.  An empty packet, "end",*)
(* in a FIFO ends its reader.                                              *)
(*                                                                         *)
(* The FIFOs are the bounded queues that BssFifo implements.  A thread     *)
(* whose next step is a BIO_write on a full FIFO is blocked.  The mutex of *)
(* the peer is only shown where it is held over such a call.  What the     *)
(* session's timers decide, and what OpenSSL answers, is left open.        *)
(***************************************************************************)
EXTENDS Integers, Sequences, FiniteSets

CONSTANTS
  Size,       \* config.FIFO_size
  Words,      \* the number of values of a word of a checksum, 2^16 in the code
  Headers,    \* IP headers, sequences of words, the checksum set to 0
  Ciphers,    \* [blocksize, mac_size] of the ciphers and digests
  Mtus,       \* values of config.tun_mtu
  UMod        \* the number of values of an unsigned int

\* The MTU of a record fits an unsigned int, and a header has no more
\* words than a word has values.
ASSUME SessionAssumption ==
  /\ Size \in Nat \ {0} /\ UMod \in Nat
  /\ Words \in Nat \ 0 .. 2
  /\ \A header \in Headers : header \in Seq(0 .. Words - 1) /\ Len(header) <= Words
  /\ Mtus \subseteq Nat /\ Ciphers \subseteq [blocksize : Nat, mac_size : Nat]
  /\ \A mtu \in Mtus, c \in Ciphers : mtu + 2 * c.blocksize + c.mac_size + 14 < UMod

VARIABLES
  out_fifo, droptail,   \* the packets to send, and the policy of their FIFO
  rbio, should_read,    \* the records received, and the retry flag of their BIO
  state, shutdown,      \* fields of the peer
  ssl_shutdown,         \* the flags "sent" and "received" of SSL_get_shutdown
  tun, wr, rd, sock, main,  \* the positions of the threads
  r,                    \* what SSL_read returned
  rec,                  \* the record comm_socket is about to forward
  reason,               \* why peer_handling closed the session
  killed,               \* what became of the "end" of end_SSL_writing
  end_campagnol

fifos == <<out_fifo, droptail, rbio, should_read>>
peer == <<state, shutdown, ssl_shutdown>>
ghosts == <<reason, killed>>
vars == <<fifos, peer, tun, wr, rd, sock, main, r, rec, ghosts, end_campagnol>>

Init ==
  /\ out_fifo = <<>> /\ droptail = TRUE
  /\ rbio = <<>> /\ should_read = FALSE
  /\ state = "LINKED" /\ shutdown = FALSE /\ ssl_shutdown = {}
  /\ tun = "idle" /\ sock = "idle" /\ wr = "none" /\ rd = "handshake" /\ main = "run"
  /\ r = "none" /\ rec = "none"
  /\ reason = "none" /\ killed = "no"
  /\ end_campagnol = FALSE

\* The last reference of the peer is gone.
Freed == rd = "gone" /\ wr \in {"none", "gone"} /\ tun \in {"idle", "exit"}
         /\ sock \in {"idle", "exit"}

\* comm_tun holds both mutexes while it broadcasts, main holds GLOBAL while it
\* ends the session.
MutexFree == tun # "broadcast"
GlobalFree == MutexFree /\ main # "end"

\* BIO_write on out_fifo: may it return, and the packets afterwards.
CanWriteOut == Len(out_fifo) < Size \/ droptail
WrittenOut(x) == IF Len(out_fifo) < Size THEN Append(out_fifo, x) ELSE out_fifo

\* BIO_write on rbio, which also clears its retry flag.
WriteIn(x) == Len(rbio) < Size /\ rbio' = Append(rbio, x) /\ should_read' = FALSE

EndTurn == IF end_campagnol THEN "exit" ELSE "idle"

(***************************************************************************)
(* The arithmetic of peer_handling, as pure operators.                     *)
(***************************************************************************)
\* The loop of compute_csum adds up the words.
Total(header) ==
  LET sum[n \in 0 .. Len(header)] == IF n = 0 THEN 0 ELSE sum[n - 1] + header[n]
  IN sum[Len(header)]

\* MUTANT of compute_csum: the carries are not folded.
compute_csum_unfolded(header) ==
  Words - 1 - (Total(header) % Words)

\* compute_csum of a header, an even number of bytes: the sum of its words is
\* folded once, complemented and cut to the width of a word.
compute_csum(header) ==
  LET sum == Total(header)
      folded == (sum \div Words) + (sum % Words)
  IN Words - 1 - (folded % Words)

\* x & (blocksize - 1) in unsigned int, for 0 and for powers of 2.
LowBits(x, blocksize) == IF blocksize = 0 THEN x ELSE x % blocksize

DTLS1_RT_HEADER_LENGTH == 13

\* MUTANT of RequiredMtu: a packet that fills its blocks gets one block more.
RequiredMtu_block(mtu, c) ==
  LET pkt_size == mtu + 1 + c.blocksize + c.mac_size
  IN (pkt_size + c.blocksize - LowBits(pkt_size, c.blocksize) + DTLS1_RT_HEADER_LENGTH) % UMod

\* ssl->d1->mtu of a session that is established.
RequiredMtu(mtu, c) ==
  LET pkt_size == mtu + 1 + c.blocksize + c.mac_size
      rest == LowBits(pkt_size, c.blocksize)
      padding == IF rest # 0 THEN c.blocksize - rest ELSE 0
  IN (pkt_size + padding + DTLS1_RT_HEADER_LENGTH) % UMod

(***************************************************************************)
(* comm_tun and comm_socket                                                *)
(***************************************************************************)
\* A packet for the peer: its state is tested, then the mutex is released.
TunPacket ==
  /\ tun = "idle" /\ GlobalFree /\ ~Freed
  /\ tun' = IF state # "CLOSED" THEN "packet" ELSE EndTurn
  /\ UNCHANGED <<fifos, peer, wr, rd, sock, main, r, rec, ghosts, end_campagnol>>

\* A broadcast: BIO_write is called with the two mutexes held.
TunBroadcast ==
  /\ tun = "idle" /\ GlobalFree /\ ~Freed
  /\ tun' = IF state = "ESTABLISHED" THEN "broadcast" ELSE EndTurn
  /\ UNCHANGED <<fifos, peer, wr, rd, sock, main, r, rec, ghosts, end_campagnol>>

TunWrite ==
  /\ tun \in {"packet", "broadcast"} /\ CanWriteOut
  /\ out_fifo' = WrittenOut("packet")
  /\ tun' = EndTurn
  /\ UNCHANGED <<droptail, rbio, should_read, peer, wr, rd, sock, main, r, rec,
                 ghosts, end_campagnol>>

\* select times out and the loop condition fails.
TunExit ==
  /\ tun = "idle" /\ end_campagnol
  /\ tun' = "exit"
  /\ UNCHANGED <<fifos, peer, wr, rd, sock, main, r, rec, ghosts, end_campagnol>>

\* A DTLS record of the peer: application data, or an alert.
SockRecord(x) ==
  /\ sock = "idle" /\ GlobalFree /\ ~Freed
  /\ IF state \in {"LINKED", "ESTABLISHED"} THEN sock' = "record" /\ rec' = x
     ELSE UNCHANGED <<sock, rec>>
  /\ UNCHANGED <<fifos, peer, tun, wr, rd, main, r, ghosts, end_campagnol>>

SockWrite ==
  /\ sock = "record" /\ WriteIn(rec)
  /\ sock' = "idle" /\ rec' = "none"
  /\ UNCHANGED <<out_fifo, droptail, peer, tun, wr, rd, main, r, ghosts, end_campagnol>>

SockExit ==
  /\ sock = "idle" /\ end_campagnol
  /\ sock' = "exit"
  /\ UNCHANGED <<fifos, peer, tun, wr, rd, main, r, rec, ghosts, end_campagnol>>

(***************************************************************************)
(* SSL_writing                                                             *)
(***************************************************************************)
\* MUTANT of WrStart: the drop tail policy is kept.
WrStart_droptail ==
  /\ wr = "start"
  /\ wr' = "read"
  /\ UNCHANGED <<fifos, peer, tun, rd, sock, main, r, rec, ghosts, end_campagnol>>

WrStart ==
  /\ wr = "start"
  /\ droptail' = FALSE /\ wr' = "read"
  /\ UNCHANGED <<out_fifo, rbio, should_read, peer, tun, rd, sock, main, r, rec,
                 ghosts, end_campagnol>>

\* BIO_read, without a time-out; an empty packet ends the thread.
WrRead ==
  /\ wr = "read" /\ out_fifo # <<>>
  /\ out_fifo' = Tail(out_fifo)
  /\ wr' = IF Head(out_fifo) = "end" THEN "gone" ELSE "write"
  /\ UNCHANGED <<droptail, rbio, should_read, peer, tun, rd, sock, main, r, rec,
                 ghosts, end_campagnol>>

\* MUTANT of WrWrite: the mutex of the peer is taken first.
WrWrite_locked ==
  /\ wr = "write" /\ MutexFree /\ wr' = "read"
  /\ UNCHANGED <<fifos, peer, tun, rd, sock, main, r, rec, ghosts, end_campagnol>>

\* SSL_write succeeds, or fails in a way that the thread ignores.
WrWrite ==
  /\ wr = "write" /\ wr' = "read"
  /\ UNCHANGED <<fifos, peer, tun, rd, sock, main, r, rec, ghosts, end_campagnol>>

\* SSL_ERROR_ZERO_RETURN, or SSL_ERROR_SSL of a session that is not shut down.
WrFails ==
  /\ wr = "write" /\ (ssl_shutdown = {} \/ "received" \in ssl_shutdown)
  /\ wr' = "gone"
  /\ UNCHANGED <<fifos, peer, tun, rd, sock, main, r, rec, ghosts, end_campagnol>>

(***************************************************************************)
(* peer_handling                                                           *)
(***************************************************************************)
\* SSL_do_handshake reads a record and goes on.
HandshakeReads ==
  /\ rd = "handshake" /\ rbio # <<>> /\ Head(rbio) # "end"
  /\ rbio' = Tail(rbio) /\ should_read' = FALSE
  /\ UNCHANGED <<out_fifo, droptail, peer, tun, wr, rd, sock, main, r, rec, ghosts,
                 end_campagnol>>

HandshakeSucceeds ==
  /\ rd = "handshake" /\ MutexFree
  /\ state' = "ESTABLISHED" /\ rd' = "established"
  /\ UNCHANGED <<fifos, shutdown, ssl_shutdown, tun, wr, sock, main, r, rec, ghosts,
                 end_campagnol>>

\* It fails; it does so when it reads an empty packet.
HandshakeFails ==
  /\ rd = "handshake" /\ MutexFree
  /\ state' = "CLOSED" /\ rd' = "closed" /\ reason' = "handshake"
  /\ UNCHANGED <<fifos, shutdown, ssl_shutdown, tun, wr, sock, main, r, rec, killed,
                 end_campagnol>>

\* start_SSL_writing
StartWriting ==
  /\ rd = "established"
  /\ wr' = "start" /\ rd' = "read"
  /\ UNCHANGED <<fifos, peer, tun, sock, main, r, rec, ghosts, end_campagnol>>

\* SSL_read waits in fifo_read, ...
ReadWaits ==
  /\ rd = "read" /\ rbio = <<>>
  /\ rd' = "wait"
  /\ UNCHANGED <<fifos, peer, tun, wr, sock, main, r, rec, ghosts, end_campagnol>>

\* ... reads a record; an alert closes the session for reading; ...
ReadRecord ==
  /\ rd \in {"read", "wait"} /\ rbio # <<>>
  /\ r' = Head(rbio) /\ rbio' = Tail(rbio) /\ should_read' = FALSE
  /\ ssl_shutdown' = IF r' = "alert" THEN ssl_shutdown \cup {"received"} ELSE ssl_shutdown
  /\ rd' = "returned"
  /\ UNCHANGED <<out_fifo, droptail, state, shutdown, tun, wr, sock, main, rec,
                 ghosts, end_campagnol>>

\* ... or times out, also when a record arrives just then.
ReadTimesOut ==
  /\ rd = "wait"
  /\ r' = "timeout" /\ should_read' = TRUE
  /\ rd' = "returned"
  /\ UNCHANGED <<out_fifo, droptail, rbio, peer, tun, wr, sock, main, rec, ghosts,
                 end_campagnol>>

\* BIO_should_read: a keepalive is sent or not, and the loop goes on.
TimeoutGoesOn ==
  /\ rd = "returned" /\ should_read /\ MutexFree
  /\ rd' = "read" /\ r' = "none"
  /\ UNCHANGED <<fifos, peer, tun, wr, sock, main, rec, ghosts, end_campagnol>>

\* MUTANT of Closes: the writing thread is not ended.
Closes_writing(why, flags) ==
  /\ MutexFree
  /\ state' = "CLOSED" /\ ssl_shutdown' = flags
  /\ rd' = "closed" /\ r' = "none" /\ reason' = why
  /\ UNCHANGED <<fifos, shutdown, tun, wr, sock, main, rec, killed, end_campagnol>>

\* The state is changed under the mutex, and end_SSL_writing is next.
Closes(why, flags) ==
  /\ MutexFree
  /\ state' = "CLOSED" /\ ssl_shutdown' = flags
  /\ rd' = "end_writing" /\ r' = "none" /\ reason' = why
  /\ UNCHANGED <<fifos, shutdown, tun, wr, sock, main, rec, killed, end_campagnol>>

\* BIO_should_read, and the session has timed out: SSL_shutdown.
SessionTimesOut ==
  /\ rd = "returned" /\ should_read
  /\ Closes("timeout", ssl_shutdown \cup {"sent"})

\* Data for the TUN device.
Deliver ==
  /\ rd = "returned" /\ ~should_read /\ r = "data" /\ MutexFree
  /\ rd' = "read" /\ r' = "none"
  /\ UNCHANGED <<fifos, peer, tun, wr, sock, main, rec, ghosts, end_campagnol>>

\* SSL_ERROR_ZERO_RETURN, or the error of a fatal alert.
AlertCloses ==
  /\ rd = "returned" /\ ~should_read /\ r = "alert"
  /\ Closes("alert", ssl_shutdown)

\* SSL_ERROR_SYSCALL, for an empty packet and for a time-out whose retry flag
\* BIO_write has cleared: with shutdown set SSL_shutdown follows.
ErrorCloses ==
  /\ rd = "returned" /\ ~should_read /\ r \in {"end", "timeout"}
  /\ IF shutdown THEN Closes("shutdown", ssl_shutdown \cup {"sent"})
     ELSE Closes("error", ssl_shutdown)

\* end_SSL_writing
EndWriting ==
  /\ rd = "end_writing" /\ CanWriteOut
  /\ out_fifo' = WrittenOut("end")
  /\ killed' = IF Len(out_fifo) < Size THEN "sent" ELSE "dropped"
  /\ rd' = "closed"
  /\ UNCHANGED <<droptail, rbio, should_read, peer, tun, wr, sock, main, r, rec,
                 reason, end_campagnol>>

\* State CLOSED: peers_decr_ref, under GLOBAL.
RdExits ==
  /\ rd = "closed" /\ GlobalFree
  /\ rd' = "gone"
  /\ UNCHANGED <<fifos, peer, tun, wr, sock, main, r, rec, ghosts, end_campagnol>>

(***************************************************************************)
(* The end of start_vpn                                                    *)
(***************************************************************************)
EndSignal ==
  /\ ~end_campagnol /\ end_campagnol' = TRUE
  /\ UNCHANGED <<fifos, peer, tun, wr, rd, sock, main, r, rec, ghosts>>

\* The other threads are joined; end_peer_handling for a peer of the list, with
\* GLOBAL locked.
EndPeerHandling ==
  /\ main = "run" /\ tun = "exit" /\ sock = "exit"
  /\ IF Freed THEN main' = "join" /\ UNCHANGED shutdown
     ELSE main' = "end" /\ shutdown' = TRUE
  /\ UNCHANGED <<fifos, state, ssl_shutdown, tun, wr, rd, sock, r, rec, ghosts,
                 end_campagnol>>

\* MUTANT of MainWrite: the empty packet is not written.
MainWrite_nothing ==
  /\ main = "end"
  /\ main' = "join"
  /\ UNCHANGED <<fifos, peer, tun, wr, rd, sock, r, rec, ghosts, end_campagnol>>

MainWrite ==
  /\ main = "end" /\ WriteIn("end")
  /\ main' = "join"
  /\ UNCHANGED <<out_fifo, droptail, peer, tun, wr, rd, sock, r, rec, ghosts,
                 end_campagnol>>

\* peers_n_clients is 0.
MainEnds ==
  /\ main = "join" /\ Freed
  /\ main' = "stopped"
  /\ UNCHANGED <<fifos, peer, tun, wr, rd, sock, r, rec, ghosts, end_campagnol>>

-----------------------------------------------------------------------------
WrStep == WrStart \/ WrRead \/ WrWrite \/ WrFails

RdStep ==
  \/ StartWriting \/ ReadWaits \/ ReadRecord \/ ReadTimesOut \/ TimeoutGoesOn
  \/ SessionTimesOut \/ Deliver \/ AlertCloses \/ ErrorCloses \/ EndWriting \/ RdExits

MainStep == EndPeerHandling \/ MainWrite \/ MainEnds

Next ==
  \/ TunPacket \/ TunBroadcast \/ TunWrite \/ TunExit
  \/ \E x \in {"data", "alert"} : SockRecord(x)
  \/ SockWrite \/ SockExit
  \/ WrStep
  \/ HandshakeReads \/ HandshakeSucceeds \/ HandshakeFails \/ RdStep
  \/ EndSignal \/ MainStep

Spec == Init /\ [][Next]_vars

\* Every thread that can run does so.  The queue of the socket is empty again
\* and again, and a handshake ends when it reads the empty packet.
Fairness ==
  /\ WF_vars(TunWrite \/ TunExit) /\ WF_vars(SockWrite) /\ SF_vars(SockExit)
  /\ WF_vars(WrStart \/ WrRead \/ WrWrite) /\ WF_vars(RdStep) /\ WF_vars(MainStep)
  /\ WF_vars(HandshakeReads)
  /\ WF_vars(rbio # <<>> /\ Head(rbio) = "end" /\ HandshakeFails)

FairSpec == Spec /\ Fairness
-----------------------------------------------------------------------------
(***************************************************************************)
(* Properties                                                              *)
(***************************************************************************)
\* The FIFOs hold no more than their size, ...
QueuesOK ==
  /\ out_fifo \in Seq({"packet", "end"}) /\ Len(out_fifo) <= Size
  /\ rbio \in Seq({"data", "alert", "end"}) /\ Len(rbio) <= Size

\* ... the flags are flags, ...
FlagsOK ==
  /\ droptail \in BOOLEAN /\ should_read \in BOOLEAN /\ shutdown \in BOOLEAN
  /\ end_campagnol \in BOOLEAN

\* ... and every thread is somewhere in its code.
PlacesOK ==
  /\ state \in {"LINKED", "ESTABLISHED", "CLOSED"}
  /\ ssl_shutdown \subseteq {"sent", "received"}
  /\ tun \in {"idle", "packet", "broadcast", "exit"}
  /\ sock \in {"idle", "record", "exit"}
  /\ wr \in {"none", "start", "read", "write", "gone"}
  /\ rd \in {"handshake", "established", "read", "wait", "returned", "end_writing",
             "closed", "gone"}
  /\ main \in {"run", "end", "join", "stopped"}
  /\ r \in {"none", "data", "alert", "end", "timeout"}
  /\ rec \in {"none", "data", "alert"}
  /\ reason \in {"none", "handshake", "timeout", "alert", "shutdown", "error"}
  /\ killed \in {"no", "sent", "dropped"}

\* Type invariant of the FIFOs and of the threads' positions.
TypeOK == QueuesOK /\ FlagsOK /\ PlacesOK

\* A FIFO is full and the thread that read it has left.
OutStuck == wr = "gone" /\ Len(out_fifo) = Size
InStuck == rd \in {"end_writing", "closed", "gone"} /\ Len(rbio) = Size

\* After SIGTERM the session's five threads end and start_vpn gets past its wait
\* for the last peer, although each of them blocks on FIFOs that others read.
\* Only three things can keep it: out_fifo or rbio is full and its reader has
\* left, or the "end" for SSL_writing met a full FIFO that still drops.
SessionStops ==
  end_campagnol ~> main = "stopped" \/ OutStuck \/ InStuck \/ killed = "dropped"

\* A broadcast that blocks with the GLOBAL mutex and that of the peer locked
\* returns, unless SSL_writing has left a full out_fifo behind.
BroadcastReturns == tun = "broadcast" ~> tun # "broadcast" \/ OutStuck

\* The client sends its own close notification exactly when it ends the
\* session itself, and SSL_writing gets its "end" in every session that was
\* established: no path of peer_handling leaves it running.  The
\* type invariant, with the sizes of the FIFOs, is part of it.
ClosedInOrder ==
  /\ TypeOK
  /\ rd \in {"closed", "gone"} =>
       /\ ("sent" \in ssl_shutdown) = (reason \in {"timeout", "shutdown"})
       /\ (wr = "none") = (reason = "handshake")
       /\ (killed = "no") = (reason = "handshake")

\* The "end" for SSL_writing is only lost while SSL_writing has not yet run: an
\* established session with a full out_fifo is closed before its first step.
\* SSL_writing then never ends.
EndLostOnlyEarly == [][killed' # killed /\ killed' = "dropped" => wr = "start"]_vars

\* The header that a broadcast packet gets verifies, that is, its words and
\* checksum add up to 0 in one's complement (RFC 1071), exactly when folding
\* the carry once leaves no other.
ChecksumVerifies ==
  rd = "returned" /\ r = "data" /\ tun = "idle" /\ sock = "idle" /\ rbio = <<>> =>
    \A header \in Headers :
      LET sum == Total(header)
      IN (sum + compute_csum(header)) % (Words - 1) = 0 <=>
           (sum \div Words) + (sum % Words) < Words

\* The length of the DTLS record of a packet: the IV, and the data with MAC and
\* padding length filled up to whole blocks.
RecordLength(mtu, c) ==
  LET whole == {n \in 0 .. mtu + c.mac_size + c.blocksize + 1 :
                  n >= mtu + c.mac_size + 1 /\ n % c.blocksize = 0}
  IN DTLS1_RT_HEADER_LENGTH + c.blocksize + (CHOOSE n \in whole : \A m \in whole : n <= m)

\* The MTU given to OpenSSL is exactly the record of the largest packet, for
\* every block cipher ("compute the required MTU", communication.c:352); with a
\* stream cipher, blocksize 0, it is the length of the header alone.
MtuFitsRecord ==
  rd = "established" /\ tun = "idle" /\ sock = "idle" /\ rbio = <<>> =>
    \A mtu \in Mtus, c \in Ciphers :
      RequiredMtu(mtu, c) = IF c.blocksize = 0 THEN DTLS1_RT_HEADER_LENGTH
                            ELSE RecordLength(mtu, c)
=============================================================================
