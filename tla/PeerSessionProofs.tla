------------------------- MODULE PeerSessionProofs -------------------------
(***************************************************************************)
(* Proofs about PeerSession, for every size of the FIFOs: how a session is *)
(* closed, when the end of its writing thread can be lost, the MTU that    *)
(* OpenSSL is given, and when the checksum of a header verifies.           *)
(***************************************************************************)
EXTENDS PeerSession, WellFoundedInduction, TLAPS

\* Why the session was closed and what became of the "end" follow from where
\* peer_handling stands; SSL_writing has the FIFO drop packets only before its
\* first step.
Stages ==
  /\ sock = "record" => rec # "none"
  /\ rd \in {"end_writing", "closed", "gone"} <=> reason # "none"
  /\ rd = "end_writing" => reason # "handshake"
  /\ wr = "none" <=> rd \in {"handshake", "established"} \/ reason = "handshake"
  /\ killed # "no" <=> rd \in {"closed", "gone"} /\ reason # "handshake"
  /\ "sent" \in ssl_shutdown <=> reason \in {"timeout", "shutdown"}
  /\ droptail => wr \in {"none", "start"}

IInv == TypeOK /\ Stages

\* A FIFO after a BIO_write that found room, ...
LEMMA FifoWrite ==
  ASSUME NEW S, NEW q \in Seq(S), Len(q) < Size, NEW x \in S
  PROVE  Append(q, x) \in Seq(S) /\ Len(Append(q, x)) <= Size
  BY SessionAssumption

\* ... and after a BIO_read.
LEMMA FifoRead ==
  ASSUME NEW S, NEW q \in Seq(S), Len(q) <= Size, q # <<>>
  PROVE  Head(q) \in S /\ Tail(q) \in Seq(S) /\ Len(Tail(q)) <= Size
<1>1. Len(q) # 0
  OBVIOUS
<1>2. Head(q) \in S /\ Tail(q) \in Seq(S) /\ Len(Tail(q)) = Len(q) - 1
  BY <1>1
<1> QED BY <1>2, SessionAssumption

\* A session begins with the invariant.
LEMMA InitIInv == Init => IInv
<1> SUFFICES ASSUME Init PROVE IInv
  OBVIOUS
<1>1. QueuesOK
  <2>1. Size \in Nat
    BY SessionAssumption
  <2> QED BY <2>1 DEF Init, QueuesOK
<1>2. FlagsOK
  BY Zenon DEF Init, FlagsOK
<1>3. PlacesOK
  BY DEF Init, PlacesOK
<1>4. Stages
  BY DEF Init, Stages
<1> QED BY <1>1, <1>2, <1>3, <1>4 DEF IInv, TypeOK

\* Every step of the five threads keeps the FIFOs within their size: whoever
\* writes has tested for room, and records are of the kinds comm_socket reads.
LEMMA QueuesNext == IInv /\ [Next]_vars => QueuesOK'
<1> SUFFICES ASSUME IInv, [Next]_vars PROVE QueuesOK'
  OBVIOUS
<1> USE DEF QueuesOK
<1>1. /\ out_fifo \in Seq({"packet", "end"}) /\ Len(out_fifo) <= Size
      /\ rbio \in Seq({"data", "alert", "end"}) /\ Len(rbio) <= Size
  BY DEF IInv, TypeOK
<1>2. \A x \in {"packet", "end"} :
        WrittenOut(x) \in Seq({"packet", "end"}) /\ Len(WrittenOut(x)) <= Size
  BY <1>1, FifoWrite, Zenon DEF WrittenOut
<1>3. ASSUME NEW x \in {"data", "alert", "end"}, WriteIn(x)
      PROVE  rbio' \in Seq({"data", "alert", "end"}) /\ Len(rbio') <= Size
  BY <1>1, <1>3, FifoWrite DEF WriteIn
<1>4. out_fifo # <<>> => Tail(out_fifo) \in Seq({"packet", "end"}) /\ Len(Tail(out_fifo)) <= Size
  BY <1>1, FifoRead
<1>5. rbio # <<>> => Tail(rbio) \in Seq({"data", "alert", "end"}) /\ Len(Tail(rbio)) <= Size
  BY <1>1, FifoRead
<1>6. CASE UNCHANGED fifos
  BY <1>1, <1>6 DEF fifos
<1>7. CASE TunWrite
  BY <1>1, <1>2, <1>7 DEF TunWrite
<1>8. CASE SockWrite
  <2>1. rec \in {"data", "alert", "end"}
    BY <1>8 DEF SockWrite, IInv, TypeOK, PlacesOK, Stages
  <2> QED BY <1>1, <1>3, <1>8, <2>1 DEF SockWrite
<1>9. CASE WrStart
  BY <1>1, <1>9 DEF WrStart
<1>10. CASE WrRead
  BY <1>1, <1>4, <1>10 DEF WrRead
<1>11. CASE HandshakeReads
  BY <1>1, <1>5, <1>11 DEF HandshakeReads
<1>12. CASE ReadRecord
  BY <1>1, <1>5, <1>12 DEF ReadRecord
<1>13. CASE ReadTimesOut
  BY <1>1, <1>13 DEF ReadTimesOut
<1>14. CASE EndWriting
  BY <1>1, <1>2, <1>14 DEF EndWriting
<1>15. CASE MainWrite
  BY <1>1, <1>3, <1>15 DEF MainWrite
<1> QED
  BY <1>6, <1>7, <1>8, <1>9, <1>10, <1>11, <1>12, <1>13, <1>14, <1>15, Zenon
  DEF Next, vars, TunPacket, TunBroadcast, TunExit, SockRecord, SockExit, WrStep, WrWrite,
      WrFails, HandshakeSucceeds, HandshakeFails, RdStep, StartWriting, ReadWaits,
      TimeoutGoesOn, SessionTimesOut, Deliver, AlertCloses, ErrorCloses, Closes, RdExits,
      EndSignal, MainStep, EndPeerHandling, MainEnds

\* Every step leaves the threads at places of their code and keeps Stages.
LEMMA StagesNext == IInv /\ [Next]_vars => PlacesOK' /\ Stages'
<1> SUFFICES ASSUME IInv, [Next]_vars PROVE PlacesOK' /\ Stages'
  OBVIOUS
<1> USE DEF IInv, TypeOK, PlacesOK, Stages
<1>1. CASE UNCHANGED vars
  BY <1>1 DEF vars, fifos, peer, ghosts
<1>2. ASSUME NEW x \in {"data", "alert"}, SockRecord(x) PROVE PlacesOK' /\ Stages'
  BY <1>2 DEF SockRecord, fifos, peer, ghosts
<1>3. CASE TunPacket
  BY <1>3 DEF TunPacket, EndTurn, fifos, peer, ghosts
<1>4. CASE TunBroadcast
  BY <1>4 DEF TunBroadcast, EndTurn, fifos, peer, ghosts
<1>5. CASE TunWrite
  BY <1>5 DEF TunWrite, EndTurn, fifos, peer, ghosts
<1>6. CASE TunExit
  BY <1>6 DEF TunExit, fifos, peer, ghosts
<1>7. CASE SockWrite
  BY <1>7 DEF SockWrite, WriteIn, fifos, peer, ghosts
<1>8. CASE SockExit
  BY <1>8 DEF SockExit, fifos, peer, ghosts
<1>9. CASE WrStart
  BY <1>9 DEF WrStart, fifos, peer, ghosts
<1>10. CASE WrRead
  BY <1>10 DEF WrRead, fifos, peer, ghosts
<1>11. CASE WrWrite
  BY <1>11 DEF WrWrite, fifos, peer, ghosts
<1>12. CASE WrFails
  BY <1>12 DEF WrFails, fifos, peer, ghosts
<1>13. CASE HandshakeReads
  BY <1>13 DEF HandshakeReads, fifos, peer, ghosts
<1>14. CASE HandshakeSucceeds
  BY <1>14 DEF HandshakeSucceeds, fifos, peer, ghosts
<1>15. CASE HandshakeFails
  BY <1>15 DEF HandshakeFails, fifos, peer, ghosts
<1>16. CASE StartWriting
  BY <1>16 DEF StartWriting, fifos, peer, ghosts
<1>17. CASE ReadWaits
  BY <1>17 DEF ReadWaits, fifos, peer, ghosts
<1>18. CASE ReadRecord
  <2>1. Head(rbio) \in {"data", "alert", "end"}
    BY <1>18, FifoRead DEF ReadRecord, QueuesOK
  <2> QED BY <1>18, <2>1 DEF ReadRecord, ghosts
<1>19. CASE ReadTimesOut
  BY <1>19 DEF ReadTimesOut, fifos, peer, ghosts
<1>20. CASE TimeoutGoesOn
  BY <1>20 DEF TimeoutGoesOn, fifos, peer, ghosts
<1>21. CASE SessionTimesOut
  BY <1>21 DEF SessionTimesOut, Closes, fifos, peer, ghosts
<1>22. CASE Deliver
  BY <1>22 DEF Deliver, fifos, peer, ghosts
<1>23. CASE AlertCloses
  BY <1>23 DEF AlertCloses, Closes, fifos, peer, ghosts
<1>24. CASE ErrorCloses
  <2>1. rd = "returned"
    BY <1>24 DEF ErrorCloses
  <2>2. CASE Closes("shutdown", ssl_shutdown \cup {"sent"})
    BY <2>1, <2>2 DEF Closes, fifos
  <2>3. CASE Closes("error", ssl_shutdown)
    BY <2>1, <2>3 DEF Closes, fifos
  <2> QED BY <1>24, <2>2, <2>3, Zenon DEF ErrorCloses
<1>25. CASE EndWriting
  BY <1>25 DEF EndWriting, CanWriteOut, fifos, peer, ghosts
<1>26. CASE RdExits
  BY <1>26 DEF RdExits, fifos, peer, ghosts
<1>27. CASE EndSignal
  BY <1>27 DEF EndSignal, fifos, peer, ghosts
<1>28. CASE EndPeerHandling
  BY <1>28 DEF EndPeerHandling, fifos, peer, ghosts
<1>29. CASE MainWrite
  BY <1>29 DEF MainWrite, WriteIn, fifos, peer, ghosts
<1>30. CASE MainEnds
  BY <1>30 DEF MainEnds, fifos, peer, ghosts
<1> QED
  BY <1>1, <1>2, <1>3, <1>4, <1>5, <1>6, <1>7, <1>8, <1>9, <1>10, <1>11, <1>12, <1>13,
     <1>14, <1>15, <1>16, <1>17, <1>18, <1>19, <1>20, <1>21, <1>22, <1>23, <1>24, <1>25,
     <1>26, <1>27, <1>28, <1>29, <1>30, Zenon
  DEF Next, WrStep, RdStep, MainStep

\* The flags stay flags.
LEMMA FlagsNext == IInv /\ [Next]_vars => FlagsOK'
<1> SUFFICES ASSUME IInv, [Next]_vars PROVE FlagsOK'
  OBVIOUS
<1> USE DEF IInv, TypeOK, FlagsOK
<1>1. CASE UNCHANGED vars
  BY <1>1 DEF vars, fifos, peer, ghosts
<1>2. ASSUME NEW x \in {"data", "alert"}, SockRecord(x) PROVE FlagsOK'
  BY <1>2 DEF SockRecord, fifos, peer, ghosts
<1>3. CASE TunPacket
  BY <1>3 DEF TunPacket, EndTurn, fifos, peer, ghosts
<1>4. CASE TunBroadcast
  BY <1>4 DEF TunBroadcast, EndTurn, fifos, peer, ghosts
<1>5. CASE TunWrite
  BY <1>5 DEF TunWrite, EndTurn, fifos, peer, ghosts
<1>6. CASE TunExit
  BY <1>6 DEF TunExit, fifos, peer, ghosts
<1>7. CASE SockWrite
  BY <1>7, Zenon DEF SockWrite, WriteIn, fifos, peer, ghosts
<1>8. CASE SockExit
  BY <1>8 DEF SockExit, fifos, peer, ghosts
<1>9. CASE WrStart
  BY <1>9, Zenon DEF WrStart, fifos, peer, ghosts
<1>10. CASE WrRead
  BY <1>10 DEF WrRead, fifos, peer, ghosts
<1>11. CASE WrWrite
  BY <1>11 DEF WrWrite, fifos, peer, ghosts
<1>12. CASE WrFails
  BY <1>12 DEF WrFails, fifos, peer, ghosts
<1>13. CASE HandshakeReads
  BY <1>13, Zenon DEF HandshakeReads, fifos, peer, ghosts
<1>14. CASE HandshakeSucceeds
  BY <1>14 DEF HandshakeSucceeds, fifos, peer, ghosts
<1>15. CASE HandshakeFails
  BY <1>15 DEF HandshakeFails, fifos, peer, ghosts
<1>16. CASE StartWriting
  BY <1>16 DEF StartWriting, fifos, peer, ghosts
<1>17. CASE ReadWaits
  BY <1>17 DEF ReadWaits, fifos, peer, ghosts
<1>18. CASE ReadRecord
  BY <1>18, Zenon DEF ReadRecord, fifos, peer, ghosts
<1>19. CASE ReadTimesOut
  BY <1>19 DEF ReadTimesOut, fifos, peer, ghosts
<1>20. CASE TimeoutGoesOn
  BY <1>20 DEF TimeoutGoesOn, fifos, peer, ghosts
<1>21. CASE SessionTimesOut
  BY <1>21 DEF SessionTimesOut, Closes, fifos, peer, ghosts
<1>22. CASE Deliver
  BY <1>22 DEF Deliver, fifos, peer, ghosts
<1>23. CASE AlertCloses
  BY <1>23 DEF AlertCloses, Closes, fifos, peer, ghosts
<1>24. CASE ErrorCloses
  BY <1>24 DEF ErrorCloses, Closes, fifos, peer, ghosts
<1>25. CASE EndWriting
  BY <1>25 DEF EndWriting, CanWriteOut, fifos, peer, ghosts
<1>26. CASE RdExits
  BY <1>26 DEF RdExits, fifos, peer, ghosts
<1>27. CASE EndSignal
  BY <1>27 DEF EndSignal, fifos, peer, ghosts
<1>28. CASE EndPeerHandling
  BY <1>28, Zenon DEF EndPeerHandling, fifos, peer, ghosts
<1>29. CASE MainWrite
  BY <1>29, Zenon DEF MainWrite, WriteIn, fifos, peer, ghosts
<1>30. CASE MainEnds
  BY <1>30 DEF MainEnds, fifos, peer, ghosts
<1> QED
  BY <1>1, <1>2, <1>3, <1>4, <1>5, <1>6, <1>7, <1>8, <1>9, <1>10, <1>11, <1>12, <1>13,
     <1>14, <1>15, <1>16, <1>17, <1>18, <1>19, <1>20, <1>21, <1>22, <1>23, <1>24, <1>25,
     <1>26, <1>27, <1>28, <1>29, <1>30
  DEF Next, WrStep, RdStep, MainStep

\* The invariant holds throughout.
THEOREM Invariance == Spec => []IInv
<1>1. IInv /\ [Next]_vars => IInv'
  BY QueuesNext, FlagsNext, StagesNext DEF IInv, TypeOK
<1> QED BY InitIInv, <1>1, PTL DEF Spec

\* A session is closed in order, for every size of its FIFOs: SSL_writing is
\* told to end unless it never began, SSL_shutdown is called exactly when the
\* client itself ends the session, and no FIFO overflows.
THEOREM Closing == Spec => []ClosedInOrder
<1>1. IInv => ClosedInOrder
  <2> SUFFICES ASSUME IInv PROVE ClosedInOrder
    OBVIOUS
  <2>1. TypeOK /\ Stages
    BY DEF IInv
  <2>2. ASSUME rd \in {"closed", "gone"}
        PROVE  /\ ("sent" \in ssl_shutdown) = (reason \in {"timeout", "shutdown"})
               /\ (wr = "none") = (reason = "handshake")
               /\ (killed = "no") = (reason = "handshake")
    BY <2>1, <2>2 DEF Stages
  <2> QED BY <2>1, <2>2 DEF ClosedInOrder
<1> QED BY <1>1, Invariance, PTL

\* The "end" for SSL_writing is lost only before its first step, for every size
\* of the FIFO: later droptail is off.
THEOREM EndLostEarly == Spec => EndLostOnlyEarly
<1>1. IInv /\ [Next]_vars => [killed' # killed /\ killed' = "dropped" => wr = "start"]_vars
  <2> SUFFICES ASSUME IInv, Next, killed' # killed, killed' = "dropped" PROVE wr = "start"
    BY DEF vars, ghosts
  <2>1. EndWriting
    BY Zenon DEF Next, ghosts, TunPacket, TunBroadcast, TunWrite, TunExit, SockRecord, SockWrite,
      SockExit, WrStep, WrStart, WrRead, WrWrite, WrFails, HandshakeReads, HandshakeSucceeds,
      HandshakeFails, RdStep, StartWriting, ReadWaits, ReadRecord, ReadTimesOut, TimeoutGoesOn,
      SessionTimesOut, Deliver, AlertCloses, ErrorCloses, Closes, RdExits, EndSignal,
      MainStep, EndPeerHandling, MainWrite, MainEnds
  <2>2. droptail /\ rd = "end_writing"
    BY <2>1 DEF EndWriting, CanWriteOut
  <2> QED BY <2>2 DEF IInv, Stages
<1> QED BY <1>1, Invariance, PTL DEF Spec, EndLostOnlyEarly
-----------------------------------------------------------------------------
\* Division with remainder.
LEMMA DivMod ==
  ASSUME NEW x \in Nat, NEW b \in Nat \ {0}
  PROVE  /\ x \div b \in Nat /\ x % b \in Nat /\ x % b < b
         /\ x % b = x - b * (x \div b)
<1>1. x % b \in Int /\ 0 <= x % b /\ x % b < b
  OBVIOUS
<1>2. x \div b \in Int /\ x \div b >= 0
  OBVIOUS
<1>3. x % b = x - b * (x \div b)
  OBVIOUS
<1> QED BY <1>1, <1>2, <1>3

\* Different multiples of b are b apart.
LEMMA Multiples ==
  ASSUME NEW k \in Nat, NEW q \in Nat, NEW b \in Nat \ {0}, b * k < b * q
  PROVE  b * k + b <= b * q
<1>1. k < q
  OBVIOUS
<1>2. k + 1 <= q
  BY <1>1
<1>3. b * (k + 1) <= b * q
  BY <1>2
<1> QED BY <1>3

\* A quotient and a remainder below the divisor are the quotient and the
\* remainder.
LEMMA Division ==
  ASSUME NEW b \in Nat \ {0}, NEW q \in Nat, NEW e \in 0 .. b - 1
  PROVE  (q * b + e) % b = e
<1> DEFINE x == q * b + e
           k == x \div b
           s == x % b
<1>1. x \in Nat
  OBVIOUS
<1>2. k \in Nat /\ s \in Nat /\ s < b /\ s = x - b * k
  <2> HIDE DEF x
  <2> QED BY <1>1, DivMod, Zenon
<1> HIDE DEF k, s
<1>3. b * k + s = b * q + e /\ b * k \in Nat /\ b * q \in Nat
  BY <1>2
<1>4. ~(b * k < b * q)
  BY <1>2, <1>3, Multiples
<1>5. ~(b * q < b * k)
  BY <1>2, <1>3, Multiples
<1>6. s = e
  BY <1>2, <1>3, <1>4, <1>5
<1> QED BY <1>6, Zenon DEF s

\* The number that the padding of the code leads to is a multiple of the block
\* size, less than a block from length.
LEMMA PaddedMultiple ==
  ASSUME NEW length \in Nat, NEW b \in Nat \ {0}, NEW e \in Nat, NEW q \in Nat,
         e < b, e = length + b - b * q
  PROVE  \E k \in Nat : /\ (IF e # 0 THEN length + b - e ELSE length) = b * k
                        /\ length <= b * k /\ b * k < length + b
<1>1. CASE e = 0
  <2>1. length = b * (q - 1)
    BY <1>1
  <2>2. q # 0
    BY <1>1
  <2>3. q - 1 \in Nat
    BY <2>2
  <2> DEFINE k == q - 1
  <2> HIDE DEF k
  <2>4. k \in Nat /\ length = b * k
    BY <2>1, <2>3 DEF k
  <2> QED BY <1>1, <2>4
<1>2. CASE e # 0
  <2> DEFINE p == b * q
  <2>1. p \in Int /\ p = length + b - e
    OBVIOUS
  <2> HIDE DEF p
  <2>2. length <= p /\ p < length + b
    BY <1>2, <2>1
  <2> QED BY <1>2, <2>1, <2>2 DEF p
<1> QED BY <1>1, <1>2

\* It is the least multiple from length on.
LEMMA Padding ==
  ASSUME NEW length \in Nat, NEW b \in Nat \ {0}, NEW n \in Nat, NEW k \in Nat,
         n = b * k, length <= n, n < length + b
  PROVE  n % b = 0 /\ \A m \in Nat : m >= length /\ m % b = 0 => n <= m
<1>1. n % b = 0
  <2>1. (b * k) % b = 0
    OBVIOUS
  <2> QED BY <2>1
<1>2. ASSUME NEW m \in Nat, m >= length, m % b = 0, m < n PROVE FALSE
  <2> DEFINE i == m \div b
  <2>1. i \in Nat /\ m = b * i
    BY <1>2, DivMod
  <2> HIDE DEF i
  <2>2. b * i + b <= b * k
    BY <2>1, <1>2, Multiples
  <2>3. m + b <= n
    BY <2>1, <2>2
  <2> QED BY <2>3, <1>2
<1>3. ASSUME NEW m \in Nat, m >= length, m % b = 0 PROVE n <= m
  <2>1. ~(m < n)
    BY <1>2, <1>3, Zenon
  <2> QED BY <2>1
<1> QED BY <1>1, <1>3

\* The MTU of the code is the length of the record, for every MTU of the TUN
\* device and every cipher with blocks.
LEMMA BlockMtu ==
  ASSUME NEW mtu \in Mtus, NEW c \in Ciphers, c.blocksize # 0
  PROVE  RequiredMtu(mtu, c) = RecordLength(mtu, c)
<1> DEFINE b == c.blocksize
           length == mtu + c.mac_size + 1
<1>1. mtu \in Nat /\ b \in Nat \ {0} /\ c.mac_size \in Nat /\ UMod \in Nat
      /\ mtu + 2 * b + c.mac_size + 14 < UMod
  BY SessionAssumption
<1> HIDE DEF b
<1>2. length \in Nat /\ length + b \in Nat /\ mtu + 1 + b + c.mac_size = length + b
      /\ mtu + c.mac_size + b + 1 = length + b /\ length + b + b + 13 < UMod
  BY <1>1
<1> DEFINE e == (length + b) % b
           q == (length + b) \div b
           n == IF e # 0 THEN length + b - e ELSE length
           whole == {m \in 0 .. length + b : m >= length /\ m % b = 0}
<1> HIDE DEF length
<1>3. e \in Nat /\ e < b /\ q \in Nat /\ e = length + b - b * q
  <2> DEFINE x == length + b
  <2>1. x \in Nat /\ b \in Nat \ {0}
    BY <1>1, <1>2
  <2> HIDE DEF x
  <2>2. /\ x \div b \in Nat /\ x % b \in Nat /\ x % b < b
        /\ x % b = x - b * (x \div b)
    BY <2>1, DivMod, Zenon
  <2>3. e \in Nat /\ e < b /\ q \in Nat /\ e = (length + b) - b * q
    BY <2>2, Zenon DEF x
  <2> HIDE DEF e, q
  <2> QED BY <2>3, <1>1, <1>2
<1>4. RequiredMtu(mtu, c) = (n + b + 13) % UMod
  <2>1. RequiredMtu(mtu, c) =
          (length + b + (IF e # 0 THEN b - e ELSE 0) + 13) % UMod
    BY <1>1, <1>2 DEF RequiredMtu, LowBits, DTLS1_RT_HEADER_LENGTH, b
  <2> HIDE DEF e
  <2>2. length + b + (IF e # 0 THEN b - e ELSE 0) + 13 = n + b + 13
    BY <1>1, <1>2, <1>3
  <2> HIDE DEF n
  <2> QED BY <2>1, <2>2
<1>5. RecordLength(mtu, c) =
        13 + b + (CHOOSE x \in whole : \A m \in whole : x <= m)
  BY <1>2, Zenon DEF RecordLength, DTLS1_RT_HEADER_LENGTH, b, length
<1> HIDE DEF e, q
<1>6. PICK k \in Nat : n = b * k /\ length <= b * k /\ b * k < length + b
  BY <1>1, <1>2, <1>3, PaddedMultiple, ZenonT(30)
<1>7. n \in Nat
  BY <1>1, <1>2, <1>3
<1> HIDE DEF n
<1>8. length <= n /\ n < length + b
  BY <1>6
<1>9. n % b = 0 /\ \A m \in Nat : m >= length /\ m % b = 0 => n <= m
  BY <1>1, <1>2, <1>6, <1>7, <1>8, Padding, Zenon
<1>10. n \in whole /\ (\A m \in whole : n <= m) /\ whole \subseteq Nat
  <2>1. n \in 0 .. length + b
    BY <1>1, <1>2, <1>7, <1>8
  <2>2. n \in whole
    BY <2>1, <1>2, <1>7, <1>8, <1>9, Zenon
  <2>3. ASSUME NEW m \in whole PROVE m \in Nat /\ m >= length /\ m % b = 0
    <3>1. m \in 0 .. length + b /\ m >= length /\ m % b = 0
      BY <2>3, Zenon
    <3>2. m \in Nat
      BY <3>1, <1>2
    <3> QED BY <3>1, <3>2
  <2> HIDE DEF whole
  <2> QED BY <1>9, <2>2, <2>3, Zenon
<1> HIDE DEF whole
<1>11. n = CHOOSE x \in whole : \A m \in whole : x <= m
  <2> DEFINE x == CHOOSE x \in whole : \A m \in whole : x <= m
  <2>1. x \in whole /\ \A m \in whole : x <= m
    BY <1>10, Zenon
  <2> HIDE DEF x
  <2>2. x = n
    BY <1>10, <2>1
  <2> QED BY <2>2 DEF x
<1>12. n + b + 13 \in Nat /\ n + b + 13 < UMod
  BY <1>1, <1>2, <1>7, <1>8
<1>13. (n + b + 13) % UMod = n + b + 13
  BY <1>1, <1>12
<1>14. n + b + 13 = 13 + b + n
  BY <1>1, <1>7
<1> QED BY <1>4, <1>5, <1>11, <1>13, <1>14, Zenon

\* The MTU given to OpenSSL is exactly the record of the largest packet, for
\* every MTU of the TUN device and every block cipher, and the length of the
\* header alone for a stream cipher.
THEOREM MtuIsExact == Spec => []MtuFitsRecord
<1>1. ASSUME NEW mtu \in Mtus, NEW c \in Ciphers, c.blocksize = 0
      PROVE  RequiredMtu(mtu, c) = DTLS1_RT_HEADER_LENGTH
  <2>1. mtu \in Nat /\ c.mac_size \in Nat /\ UMod \in Nat
        /\ mtu + 2 * c.blocksize + c.mac_size + 14 < UMod
    BY SessionAssumption
  <2> QED BY <1>1, <2>1 DEF RequiredMtu, LowBits, DTLS1_RT_HEADER_LENGTH
<1>2. MtuFitsRecord
  BY <1>1, BlockMtu DEF MtuFitsRecord
<1> QED BY <1>2, PTL
-----------------------------------------------------------------------------
\* A set that has 0, and with every number the next one, has all of them: the
\* least number outside it would come after one of its numbers.
LEMMA SetInduction ==
  ASSUME NEW T, 0 \in T, \A n \in Nat : n \in T => n + 1 \in T
  PROVE  Nat \subseteq T
<1> DEFINE F == Nat \ T
<1>1. SUFFICES ASSUME F # {} PROVE FALSE
  OBVIOUS
<1>2. PICK n \in F : \A m \in F : ~(<<m, n>> \in OpToRel(<, Nat))
  <2>1. F \subseteq Nat /\ IsWellFoundedOn(OpToRel(<, Nat), Nat)
    BY NatLessThanWellFounded, Zenon
  <2> HIDE DEF F
  <2> QED BY <1>1, <2>1, WFMin, Zenon
<1>3. \A m \in F : ~(m < n)
  BY <1>2, Zenon DEF OpToRel
<1>4. n - 1 \in Nat /\ n - 1 \notin F
  BY <1>3
<1> QED BY <1>4

\* What the loop of compute_csum adds up: at most one less than the number of
\* values of a word, for each word.
LEMMA TotalBounds ==
  ASSUME NEW header \in Headers
  PROVE  Total(header) \in Nat /\ Total(header) <= Words * (Words - 1)
<1> DEFINE N == Len(header)
           Eq(g) == g = [n \in 0 .. N |-> IF n = 0 THEN 0 ELSE g[n - 1] + header[n]]
           sum == CHOOSE g : Eq(g)
           Starts(g, k) == g = [n \in 0 .. k |-> IF n = 0 THEN 0 ELSE g[n - 1] + header[n]]
           K == {k \in Nat : \E g : Starts(g, k)}
<1>1. /\ Words \in Nat \ 0 .. 2 /\ N \in Nat /\ N <= Words
      /\ \A n \in 1 .. N : header[n] \in 0 .. Words - 1
  BY SessionAssumption
<1>2. 0 \in K
  <2>1. Starts([n \in 0 .. 0 |-> 0], 0)
    OBVIOUS
  <2> QED BY <2>1, Zenon
<1>3. \A k \in Nat : k \in K => k + 1 \in K
  <2> SUFFICES ASSUME NEW k \in Nat, NEW g, Starts(g, k) PROVE \E h : Starts(h, k + 1)
    OBVIOUS
  <2> DEFINE h == [n \in 0 .. k + 1 |-> IF n = k + 1 THEN g[k] + header[k + 1] ELSE g[n]]
  <2>1. ASSUME NEW n \in 0 .. k + 1
        PROVE  h[n] = IF n = 0 THEN 0 ELSE h[n - 1] + header[n]
    <3>1. CASE n = k + 1
      <4>1. n # 0 /\ n - 1 = k /\ k \in 0 .. k + 1 /\ k # k + 1
        BY <3>1
      <4> QED BY <3>1, <4>1
    <3>2. CASE n # k + 1
      <4>1. n \in 0 .. k /\ (n # 0 => n - 1 \in 0 .. k + 1 /\ n - 1 # k + 1)
        BY <3>2
      <4>2. g[n] = IF n = 0 THEN 0 ELSE g[n - 1] + header[n]
        BY <4>1
      <4> QED BY <3>2, <4>1, <4>2
    <3> QED BY <3>1, <3>2
  <2>2. Starts(h, k + 1)
    BY <2>1
  <2> QED BY <2>2, Zenon
<1>4. N \in K
  <2> HIDE DEF K
  <2> QED BY <1>1, <1>2, <1>3, SetInduction, Zenon
<1>5. \E g : Eq(g)
  BY <1>4
<1>7. Eq(sum)
  BY <1>5
<1>8. Total(header) = sum[N]
  BY DEF Total
<1> HIDE DEF sum
<1> DEFINE T == {n \in Nat : n <= N => sum[n] \in Nat /\ sum[n] <= n * (Words - 1)}
<1>9. 0 \in T
  BY <1>1, <1>7
<1>10. \A n \in Nat : n \in T => n + 1 \in T
  <2> SUFFICES ASSUME NEW n \in Nat, n \in T, n + 1 <= N
               PROVE  sum[n + 1] \in Nat /\ sum[n + 1] <= (n + 1) * (Words - 1)
    OBVIOUS
  <2>1. n + 1 \in 0 .. N /\ n + 1 # 0 /\ (n + 1) - 1 = n /\ n + 1 \in 1 .. N
    BY <1>1
  <2>2. sum[n + 1] = sum[n] + header[n + 1]
    BY <1>7, <2>1
  <2>3. sum[n] \in Nat /\ sum[n] <= n * (Words - 1)
    BY <1>1, <2>1
  <2>4. header[n + 1] \in 0 .. Words - 1
    BY <1>1, <2>1
  <2>5. (n + 1) * (Words - 1) = n * (Words - 1) + (Words - 1)
    BY <1>1
  <2> QED BY <1>1, <2>2, <2>3, <2>4, <2>5
<1>11. N \in T
  <2> HIDE DEF T
  <2> QED BY <1>1, <1>9, <1>10, SetInduction, Zenon
<1>12. sum[N] \in Nat /\ sum[N] <= N * (Words - 1)
  BY <1>11
<1>13. N * (Words - 1) <= Words * (Words - 1)
  <2>1. (Words - N) * (Words - 1) >= 0
    BY <1>1
  <2>2. (Words - N) * (Words - 1) = Words * (Words - 1) - N * (Words - 1)
    BY <1>1
  <2>3. N * (Words - 1) \in Int /\ Words * (Words - 1) \in Int
    BY <1>1
  <2> QED BY <2>1, <2>2, <2>3
<1>14. N * (Words - 1) \in Int /\ Words * (Words - 1) \in Int
  BY <1>1
<1> QED BY <1>8, <1>12, <1>13, <1>14

\* The checksum of a header makes it verify exactly when one folding leaves no
\* carry, for every width of the words and every header.
THEOREM ChecksumIsExact == Spec => []ChecksumVerifies
<1>1. ASSUME NEW header \in Headers
      PROVE  LET sum == Total(header)
             IN (sum + compute_csum(header)) % (Words - 1) = 0 <=>
                  (sum \div Words) + (sum % Words) < Words
  <2> DEFINE W == Words
             sum == Total(header)
             q == sum \div W
             s == sum % W
             b == W - 1
  <2>1. W \in Nat \ 0 .. 2 /\ b \in Nat \ {0, 1} /\ W = b + 1
    BY SessionAssumption
  <2>2. sum \in Nat /\ sum <= W * (W - 1)
    BY TotalBounds
  <2> HIDE DEF W, sum
  <2>3. sum = W * q + s /\ q \in Nat /\ s \in 0 .. W - 1
    BY <2>1, <2>2
  <2> HIDE DEF q, s
  <2>4. q < W
    <3>1. SUFFICES ASSUME q >= W PROVE FALSE
      BY <2>1, <2>3
    <3>2. W * (q - W) >= 0
      BY <2>1, <2>3, <3>1
    <3>3. W * (q - W) = W * q - W * W /\ W * (W - 1) = W * W - W
      BY <2>1, <2>3
    <3>4. W * q \in Int /\ W * W \in Int
      BY <2>1, <2>3
    <3> QED BY <2>1, <2>2, <2>3, <3>2, <3>3, <3>4
  <2>5. compute_csum(header) = W - 1 - ((q + s) % W)
    BY DEF compute_csum, W, sum, q, s
  <2>6. W * q = q * b + q /\ (q + 1) * b = q * b + b /\ (q + 2) * b = q * b + 2 * b /\ q * b \in Int
    <3> HIDE DEF b
    <3> QED BY <2>1, <2>3
  <2>7. ASSUME q + s < W PROVE (sum + compute_csum(header)) % b = 0
    <3>1. (q + s) % W = q + s
      BY <2>1, <2>3, <2>7
    <3>2. sum + compute_csum(header) = (q + 1) * b + 0
      <4> HIDE DEF b
      <4> QED BY <2>1, <2>3, <2>5, <2>6, <3>1
    <3>3. ((q + 1) * b + 0) % b = 0
      <4>1. q + 1 \in Nat /\ 0 \in 0 .. b - 1 /\ b \in Nat \ {0}
        BY <2>1, <2>3
      <4> HIDE DEF b
      <4> QED BY <4>1, Division
    <3> QED BY <3>2, <3>3
  <2>8. ASSUME ~(q + s < W) PROVE (sum + compute_csum(header)) % b # 0
    <3>1. (q + s) % W = q + s - W
      <4>1. q + s = 1 * W + (q + s - W) /\ q + s - W \in 0 .. W - 1 /\ 1 \in Nat /\ W \in Nat \ {0}
        BY <2>1, <2>3, <2>4, <2>8
      <4> QED BY <4>1, Division
    <3>2. sum + compute_csum(header) = (q + 2) * b + 1
      <4> HIDE DEF b
      <4> QED BY <2>1, <2>3, <2>5, <2>6, <3>1
    <3>3. ((q + 2) * b + 1) % b = 1
      <4>1. q + 2 \in Nat /\ 1 \in 0 .. b - 1 /\ b \in Nat \ {0}
        BY <2>1, <2>3
      <4> HIDE DEF b
      <4> QED BY <4>1, Division, Zenon
    <3> QED BY <3>2, <3>3
  <2>9. (sum + compute_csum(header)) % b = 0 <=> q + s < W
    BY <2>7, <2>8
  <2> QED BY <2>9 DEF W, sum, q, s
<1>2. ChecksumVerifies
  BY <1>1 DEF ChecksumVerifies
<1> QED BY <1>2, PTL
============================================================================
