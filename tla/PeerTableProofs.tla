-------------------------- MODULE PeerTableProofs --------------------------
(***************************************************************************)
(* Proofs about PeerTable, for any number of peers, VPN addresses and      *)
(* endpoints: the reference counts are exact, no thread works with a freed *)
(* peer and, when no allocation fails, no condition wait returns by itself *)
(* and every other client keeps its endpoint, no lookup ends at one.       *)
(***************************************************************************)
EXTENDS PeerTable, FiniteSetTheorems, TLAPS

\* The three threads that look peers up, the positions of which they hold a
\* reference, and the other ones.
Threads == {"tun", "rdv", "sock"}

Holding == {"lock", "start", "got", "signal", "decr"}

Positions == Holding \cup {"idle", "add", "lost", "broadcast", "exit", "teardown", "join", "stopped"}

\* What the messages of a thread hold when it gets to use them.
MessageOK(pc, m) ==
  /\ pc = "add" => /\ m.type \in {"packet", "FWD"} /\ m.vpnIP \in VpnIP
                   /\ m.type = "FWD" => m.addr \in Addr
  /\ pc \in {"lock", "got"} /\ m.type = "ANS" => m.addr \in Addr

ThreadsOK ==
  /\ DOMAIN th = Threads
  /\ \A t \in Threads :
       /\ DOMAIN th[t] = {"pc", "msg", "peer"}
       /\ th[t].pc \in Positions /\ th[t].peer \in Obj \cup {NULL}
       /\ MessageOK(th[t].pc, th[t].msg)

PeersOK ==
  /\ DOMAIN obj \subseteq Obj
  /\ \A p \in DOMAIN obj : obj[p] \in Peer

TreesOK == DOMAIN vpn_root \subseteq VpnIP /\ addr_root \subseteq Obj

WorkersOK ==
  /\ ph \in [Obj -> {"none", "top", "wait", "woken", "expired", "register",
                     "handshake", "reading", "decr", "done"}]
  /\ pu \in [Obj -> {"none", "run", "decr"}]
  /\ wr \in [Obj -> {"none", "run", "decr"}]

RestOK == global \in BOOLEAN /\ asked \subseteq VpnIP /\ end_campagnol \in BOOLEAN

\* A peer that is not allocated has no threads, and nobody holds it.
Unused ==
  /\ \A p \in Obj \ DOMAIN obj : ph[p] = "none" /\ pu[p] = "none" /\ wr[p] = "none"
  /\ \A t \in Threads : th[t].pc \in Holding => th[t].peer \in DOMAIN obj

\* Only one thread starts peer_handling for a peer.
Starting ==
  \A t \in Threads : th[t].pc = "start" =>
    /\ ph[th[t].peer] = "none"
    /\ \A u \in Threads \ {t} : th[u].pc = "start" => th[u].peer # th[t].peer

\* Where peer_handling can be in each state of its peer, and when the other two
\* threads may run: each is started only once.
Phase(p) ==
  LET st == obj[p].state
  IN /\ ph[p] = "none" => st \in {"NEW", "PUNCHING"} /\ pu[p] = "none" /\ wr[p] = "none"
     /\ ph[p] \in {"wait", "woken", "expired"} => st \in {"NEW", "PUNCHING"}
     /\ ph[p] = "register" => st = "NEW"
     /\ ph[p] = "handshake" => st = "LINKED"
     /\ ph[p] = "reading" => st = "ESTABLISHED"
     /\ ph[p] \in {"decr", "done"} => st = "CLOSED"
     /\ pu[p] # "none" => st # "NEW" /\ ~(st = "PUNCHING" /\ ph[p] = "top")
     /\ wr[p] # "none" => st = "CLOSED" \/ (st = "ESTABLISHED" /\ ph[p] = "reading")

Phases == \A p \in DOMAIN obj : Phase(p)

Holders(p) == {t \in Threads : Holds(t, p)}

\* The references of the list and of the three threads of the peer.
Own(p) ==
  one(ph[p] # "done") + one(ph[p] \notin {"none", "done"})
    + one(pu[p] # "none") + one(wr[p] # "none")

Counts == \A p \in DOMAIN obj : obj[p].ref = Own(p) + Cardinality(Holders(p))

Types == ThreadsOK /\ PeersOK /\ TreesOK /\ WorkersOK /\ RestOK

IInv == Types /\ Unused /\ Starting /\ Phases /\ Counts
-----------------------------------------------------------------------------
(***************************************************************************)
(* Who holds a reference.                                                  *)
(***************************************************************************)
\* Thread t goes to pc with the peer q, the other two stay.
Moves(t, pc, q) ==
  \A u \in Threads : /\ th'[u].pc = IF u = t THEN pc ELSE th[u].pc
                     /\ th'[u].peer = IF u = t THEN q ELSE th[u].peer

\* The references of the workers of a peer are a number.
LEMMA OwnNat ==
  ASSUME NEW p
  PROVE  Own(p) \in Nat
  BY DEF Own, one

\* Three threads at most hold a peer.
LEMMA HoldersFinite ==
  ASSUME NEW p
  PROVE  IsFiniteSet(Holders(p)) /\ Cardinality(Holders(p)) \in Nat
<1>1. IsFiniteSet({"tun"})
  BY FS_Singleton, Zenon
<1>2. IsFiniteSet({"tun"} \cup {"rdv"})
  BY <1>1, FS_AddElement
<1>3. IsFiniteSet(({"tun"} \cup {"rdv"}) \cup {"sock"})
  BY <1>2, FS_AddElement
<1>4. Threads = ({"tun"} \cup {"rdv"}) \cup {"sock"}
  BY DEF Threads
<1>5. IsFiniteSet(Threads)
  BY <1>3, <1>4
<1>6. Holders(p) \subseteq Threads
  BY DEF Holders
<1>7. IsFiniteSet(Holders(p))
  BY <1>5, <1>6, FS_Subset
<1> QED BY <1>7, FS_CardinalityType

\* The number of holders when t moves.
LEMMA MoveCount ==
  ASSUME NEW t \in Threads, NEW pc, NEW q, Moves(t, pc, q), DOMAIN th = Threads, NEW p
  PROVE  /\ Holds(t, p) /\ ~(q = p /\ pc \in Holding) =>
              Cardinality(Holders(p))' = Cardinality(Holders(p)) - 1
         /\ ~Holds(t, p) /\ q = p /\ pc \in Holding =>
              Cardinality(Holders(p))' = Cardinality(Holders(p)) + 1
         /\ (Holds(t, p) <=> q = p /\ pc \in Holding) => Holders(p)' = Holders(p)
<1> DEFINE H == Holders(p)
           now == q = p /\ pc \in Holding
<1>1. Holders(p)' = IF now THEN H \cup {t} ELSE H \ {t}
  BY DEF Moves, Holders, Holds, Holding
<1>2. t \in H <=> Holds(t, p)
  BY DEF Holders
<1>3. IsFiniteSet(H)
  BY HoldersFinite
<1> HIDE DEF H, now
<1>4. ASSUME t \in H PROVE Cardinality(H \ {t}) = Cardinality(H) - 1 /\ H \cup {t} = H
  BY <1>3, <1>4, FS_RemoveElement
<1>5. ASSUME t \notin H PROVE Cardinality(H \cup {t}) = Cardinality(H) + 1 /\ H \ {t} = H
  BY <1>3, <1>5, FS_AddElement
<1> QED BY <1>1, <1>2, <1>4, <1>5 DEF H, now

-----------------------------------------------------------------------------
(***************************************************************************)
(* Steps of the threads of a peer, of which none is freed.                 *)
(***************************************************************************)
\* Only the peer p and its threads change, and its count by as much as their
\* number.
Only(p) ==
  /\ DOMAIN obj' = DOMAIN obj
  /\ \A q \in DOMAIN obj \ {p} : obj'[q] = obj[q]
  /\ \A q \in Obj \ {p} : ph'[q] = ph[q] /\ pu'[q] = pu[q] /\ wr'[q] = wr[q]

\* The positions and the number of holders stay with the three threads.
LEMMA SameThreads ==
  ASSUME UNCHANGED th
  PROVE  /\ \A p : Holders(p)' = Holders(p)
         /\ \A t, p : Holds(t, p)' = Holds(t, p)
         /\ ThreadsOK => ThreadsOK'
  BY DEF Holders, Holds, ThreadsOK, MessageOK

\* Such a step keeps the invariant.
LEMMA WorkerStep ==
  ASSUME IInv, UNCHANGED th, NEW p \in DOMAIN obj, ph[p] # "none", Only(p),
         obj'[p] \in Peer, WorkersOK', TreesOK', RestOK', Phase(p)',
         obj'[p].ref = obj[p].ref + Own(p)' - Own(p)
  PROVE  IInv'
<1> USE SameThreads DEF IInv, Types
<1>1. ThreadsOK'
  OBVIOUS
<1>2. PeersOK'
  BY DEF PeersOK, Only
<1>3. Unused'
  BY DEF Unused, Only
<1>4. Starting'
  BY DEF Starting, Only, Unused, Holding, PeersOK
<1>5. Phases'
  <2> SUFFICES ASSUME NEW q \in DOMAIN obj' PROVE Phase(q)'
    BY DEF Phases
  <2>1. CASE q = p
    BY <2>1
  <2>2. CASE q # p
    BY <2>2 DEF Phases, Phase, Only, PeersOK
  <2> QED BY <2>1, <2>2
<1>6. Counts'
  <2> SUFFICES ASSUME NEW q \in DOMAIN obj' PROVE obj'[q].ref = Own(q)' + Cardinality(Holders(q))'
    BY DEF Counts
  <2>1. obj[q].ref = Own(q) + Cardinality(Holders(q)) /\ Cardinality(Holders(q))' = Cardinality(Holders(q))
    BY DEF Counts, Only
  <2>2. Cardinality(Holders(q)) \in Nat /\ Own(q) \in Nat /\ Own(q)' \in Nat
    BY HoldersFinite DEF Own, one
  <2>3. CASE q = p
    BY <2>1, <2>2, <2>3
  <2>4. CASE q # p
    <3>1. Own(q)' = Own(q) /\ obj'[q] = obj[q]
      BY <2>4 DEF Own, Only, PeersOK
    <3> QED BY <2>1, <2>2, <3>1, Zenon
  <2> QED BY <2>3, <2>4
<1> QED BY <1>1, <1>2, <1>3, <1>4, <1>5, <1>6

\* The steps of peer_handling, punch and SSL_writing that free nothing.
Working(p) ==
  \/ HandlerGivesUp(p) \/ Ask(p) \/ StartPunch(p) \/ WaitEnds(p) \/ SpuriousWakeup(p)
  \/ Answered(p) \/ RegisterEndpoint(p) \/ Linked(p) \/ StartHandshake(p) \/ Handshake(p)
  \/ Establish(p) \/ EndSession(p) \/ Closed(p) \/ PunchStops(p) \/ WriterStops(p)

\* They leave the other peers alone, and the types hold.
LEMMA WorkingTypes ==
  ASSUME Types, NEW p \in DOMAIN obj, Working(p)
  PROVE  UNCHANGED th /\ Only(p) /\ obj'[p] \in Peer /\ WorkersOK' /\ TreesOK' /\ RestOK'
<1>1. p \in Obj /\ obj[p] \in Peer
  BY DEF Types, PeersOK
<1>2. WorkersOK /\ TreesOK /\ RestOK
  BY DEF Types
<1> USE DEF Only, WorkersOK, TreesOK, RestOK, Peer
<1>3. CASE HandlerGivesUp(p)
  BY <1>1, <1>2, <1>3 DEF HandlerGivesUp, AtTop, SetState, workers, trees
<1>4. CASE Ask(p)
  BY <1>1, <1>2, <1>4 DEF Ask, AtTop, trees
<1>5. CASE StartPunch(p)
  BY <1>1, <1>2, <1>5 DEF StartPunch, AtTop, trees
<1>6. CASE WaitEnds(p)
  BY <1>1, <1>2, <1>6 DEF WaitEnds, trees
<1>7. CASE SpuriousWakeup(p)
  BY <1>1, <1>2, <1>7 DEF SpuriousWakeup, trees
<1>8. CASE Answered(p)
  <2>1. obj' \in {[obj EXCEPT ![p].state = "CLOSED", ![p].answer = "none"],
                 [obj EXCEPT ![p].locked = TRUE, ![p].answer = "none"]}
    BY <1>8 DEF Answered
  <2>2. DOMAIN obj' = DOMAIN obj /\ (\A q \in DOMAIN obj \ {p} : obj'[q] = obj[q])
    BY <2>1
  <2>3. obj'[p] \in {[obj[p] EXCEPT !.state = "CLOSED", !.answer = "none"],
                    [obj[p] EXCEPT !.locked = TRUE, !.answer = "none"]}
    BY <2>1
  <2>4. obj'[p] \in Peer
    BY <1>1, <2>3, ZenonT(30)
  <2> QED BY <1>1, <1>2, <1>8, <2>2, <2>4 DEF Answered, trees
<1>9. CASE RegisterEndpoint(p)
  <2>1. addr_root' \subseteq addr_root \cup {p}
    BY <1>9 DEF RegisterEndpoint, tsearch_addr
  <2>2. obj[p].addr \in Addr \cup {NoAddr}
    BY <1>1
  <2> DEFINE a == obj[p].addr
  <2> HIDE DEF a
  <2>3. obj' \in {[obj EXCEPT ![p].locked = FALSE, ![p].state = "PUNCHING", ![p].key = a],
                 [obj EXCEPT ![p].locked = FALSE, ![p].state = "CLOSED"]}
    BY <1>9 DEF RegisterEndpoint, a
  <2>4. DOMAIN obj' = DOMAIN obj /\ (\A q \in DOMAIN obj \ {p} : obj'[q] = obj[q])
    BY <2>3
  <2>5. obj'[p] \in {[obj[p] EXCEPT !.locked = FALSE, !.state = "PUNCHING", !.key = a],
                    [obj[p] EXCEPT !.locked = FALSE, !.state = "CLOSED"]}
    BY <2>3
  <2>6. obj'[p] \in Peer
    BY <1>1, <2>2, <2>5, ZenonT(30) DEF a
  <2> QED BY <1>1, <1>2, <1>9, <2>1, <2>4, <2>6 DEF RegisterEndpoint
<1>10. CASE Linked(p)
  BY <1>1, <1>2, <1>10 DEF Linked, SetState, trees
<1>11. CASE StartHandshake(p)
  BY <1>1, <1>2, <1>11 DEF StartHandshake, AtTop, trees
<1>12. CASE Handshake(p)
  BY <1>1, <1>2, <1>12 DEF Handshake, SetState, trees
<1>13. CASE Establish(p)
  BY <1>1, <1>2, <1>13 DEF Establish, AtTop, trees
<1>14. CASE EndSession(p)
  BY <1>1, <1>2, <1>14 DEF EndSession, SetState, trees
<1>15. CASE Closed(p)
  BY <1>1, <1>2, <1>15 DEF Closed, AtTop, trees
<1>16. CASE PunchStops(p)
  BY <1>1, <1>2, <1>16 DEF PunchStops, trees
<1>17. CASE WriterStops(p)
  BY <1>1, <1>2, <1>17 DEF WriterStops, trees
<1> QED
    BY <1>3, <1>4, <1>5, <1>6, <1>7, <1>8, <1>9, <1>10, <1>11, <1>12, <1>13, <1>14, <1>15,
       <1>16, <1>17, Zenon DEF Working

\* They keep the phases of the peer and count their references.
LEMMA WorkingPhase ==
  ASSUME IInv, NEW p \in DOMAIN obj, Working(p)
  PROVE  /\ ph[p] # "none" /\ Phase(p)'
         /\ obj'[p].ref = obj[p].ref + Own(p)' - Own(p)
<1>1. p \in Obj /\ obj[p] \in Peer
  BY DEF IInv, Types, PeersOK
<1>2. WorkersOK /\ Phase(p)
  BY DEF IInv, Types, Phases
<1> USE DEF WorkersOK, Phase, Own, one, Peer
<1>3. CASE HandlerGivesUp(p)
  BY <1>1, <1>2, <1>3 DEF HandlerGivesUp, AtTop, SetState, workers, trees
<1>4. CASE Ask(p)
  BY <1>1, <1>2, <1>4 DEF Ask, AtTop, trees
<1>5. CASE StartPunch(p)
  BY <1>1, <1>2, <1>5 DEF StartPunch, AtTop, trees
<1>6. CASE WaitEnds(p)
  BY <1>1, <1>2, <1>6 DEF WaitEnds, trees
<1>7. CASE SpuriousWakeup(p)
  BY <1>1, <1>2, <1>7 DEF SpuriousWakeup, trees
<1>8. CASE Answered(p)
  BY <1>1, <1>2, <1>8 DEF Answered, trees
<1>9. CASE RegisterEndpoint(p)
  BY <1>1, <1>2, <1>9 DEF RegisterEndpoint
<1>10. CASE Linked(p)
  BY <1>1, <1>2, <1>10 DEF Linked, SetState, trees
<1>11. CASE StartHandshake(p)
  BY <1>1, <1>2, <1>11 DEF StartHandshake, AtTop, trees
<1>12. CASE Handshake(p)
  BY <1>1, <1>2, <1>12 DEF Handshake, SetState, trees
<1>13. CASE Establish(p)
  BY <1>1, <1>2, <1>13 DEF Establish, AtTop, trees
<1>14. CASE EndSession(p)
  BY <1>1, <1>2, <1>14 DEF EndSession, SetState, trees
<1>15. CASE Closed(p)
  BY <1>1, <1>2, <1>15 DEF Closed, AtTop, trees
<1>16. CASE PunchStops(p)
  BY <1>1, <1>2, <1>16 DEF PunchStops, trees
<1>17. CASE WriterStops(p)
  BY <1>1, <1>2, <1>17 DEF WriterStops, trees
<1> QED
    BY <1>3, <1>4, <1>5, <1>6, <1>7, <1>8, <1>9, <1>10, <1>11, <1>12, <1>13, <1>14, <1>15,
       <1>16, <1>17, Zenon DEF Working

\* So they keep the invariant.
LEMMA WorkingStep ==
  ASSUME IInv, NEW p \in DOMAIN obj, Working(p)
  PROVE  IInv'
  BY WorkingTypes, WorkingPhase, WorkerStep DEF IInv
-----------------------------------------------------------------------------
(***************************************************************************)
(* Steps of the three threads, of which none allocates or frees.           *)
(***************************************************************************)
\* The peers stay, and a waiting peer_handling may be woken.
Stays ==
  /\ DOMAIN obj' = DOMAIN obj
  /\ \A p \in DOMAIN obj : obj'[p].state = obj[p].state
  /\ \A p \in Obj : ph'[p] = ph[p] \/ (ph[p] = "wait" /\ ph'[p] = "woken")
  /\ UNCHANGED <<pu, wr>>

\* A thread that takes and gives up its references with the counts keeps the
\* invariant.
LEMMA MoveStep ==
  ASSUME IInv, NEW t \in Threads, NEW pc, NEW q, Moves(t, pc, q), pc # "start",
         pc \in Holding => q \in DOMAIN obj, Types', Stays,
         \A p \in DOMAIN obj :
           obj'[p].ref = obj[p].ref + one(q = p /\ pc \in Holding) - one(Holds(t, p))
  PROVE  IInv'
<1> USE DEF IInv, Types
<1>1. Unused'
  BY DEF Unused, Moves, Stays
<1>2. Starting'
  BY DEF Starting, Unused, Moves, Stays, Holding, PeersOK
<1>3. Phases'
  <2> SUFFICES ASSUME NEW p \in DOMAIN obj PROVE Phase(p)'
    BY DEF Phases, Stays
  <2>1. Phase(p) /\ p \in Obj
    BY DEF Phases, PeersOK
  <2> QED BY <2>1, Zenon DEF Phase, Stays
<1>4. Counts'
  <2> SUFFICES ASSUME NEW p \in DOMAIN obj
               PROVE  obj'[p].ref = Own(p)' + Cardinality(Holders(p))'
    BY DEF Counts, Stays
  <2> DEFINE n == Cardinality(Holders(p))
  <2>1. obj[p].ref = Own(p) + n
    BY DEF Counts
  <2>2. n \in Nat /\ Own(p) \in Nat
    BY HoldersFinite DEF Own, one
  <2>3. Own(p)' = Own(p)
    BY DEF Own, one, Stays, PeersOK
  <2>4. DOMAIN th = Threads
    BY DEF ThreadsOK
  <2>5. n' = n + one(q = p /\ pc \in Holding) - one(Holds(t, p))
    <3>1. n \in Nat
      BY <2>2, Zenon
    <3> DEFINE now == q = p /\ pc \in Holding
               was == Holds(t, p)
    <3>2. /\ was /\ ~now => n' = n - 1
          /\ ~was /\ now => n' = n + 1
          /\ (was <=> now) => n' = n
      BY <2>4, MoveCount
    <3> HIDE DEF n, now, was
    <3>3. n' = n + one(now) - one(was)
      BY <3>1, <3>2 DEF one
    <3> QED BY <3>3 DEF now, was
  <2> HIDE DEF n
  <2>6. obj'[p].ref = obj[p].ref + one(q = p /\ pc \in Holding) - one(Holds(t, p))
    OBVIOUS
  <2> DEFINE i == one(q = p /\ pc \in Holding)
             j == one(Holds(t, p))
  <2>7. i \in Nat /\ j \in Nat
    BY DEF one
  <2> HIDE DEF i, j
  <2>8. obj'[p].ref = Own(p) + n + i - j /\ n' = n + i - j
    BY <2>1, <2>5, <2>6, Zenon DEF i, j
  <2>9. obj'[p].ref = Own(p)' + n'
    BY <2>2, <2>3, <2>7, <2>8
  <2> QED BY <2>9, Zenon DEF n
<1> QED BY <1>1, <1>2, <1>3, <1>4, Zenon

\* How a thread goes on: with another position, ...
LEMMA GotoMoves ==
  ASSUME ThreadsOK, NEW t \in Threads, NEW pc \in Positions, Goto(t, pc),
         MessageOK(pc, th[t].msg)
  PROVE  ThreadsOK' /\ Moves(t, pc, th[t].peer)
  BY DEF ThreadsOK, Goto, Moves, MessageOK

\* ... having handled its message, ...
LEMMA HandledMoves ==
  ASSUME ThreadsOK, NEW t \in Threads, Handled(t)
  PROVE  ThreadsOK' /\ Moves(t, "decr", th[t].peer)
  BY DEF ThreadsOK, Handled, Moves, MessageOK, NoMessage, Positions, Holding

\* ... with a new message and perhaps a peer, ...
LEMMA PutMoves ==
  ASSUME ThreadsOK, NEW t \in Threads, NEW pc \in Positions, NEW m, MessageOK(pc, m),
         NEW q \in Obj \cup {NULL},
         th' = [th EXCEPT ![t] = [pc |-> pc, msg |-> m, peer |-> q]]
  PROVE  ThreadsOK' /\ Moves(t, pc, q)
  BY DEF ThreadsOK, Moves, MessageOK

\* ... or at the end of a turn of its loop.
LEMMA EndTurnMoves ==
  ASSUME ThreadsOK, NEW t \in Threads, EndTurn(t)
  PROVE  ThreadsOK' /\ \E pc \in {"idle", "exit"} : Moves(t, pc, NULL)
<1>1. PICK pc \in {"idle", "exit"} :
        th' = [th EXCEPT ![t] = [pc |-> pc, msg |-> NoMessage, peer |-> NULL]]
  <2>1. Idle = [pc |-> "idle", msg |-> NoMessage, peer |-> NULL]
    BY DEF Idle
  <2>2. [Idle EXCEPT !.pc = "exit"] = [pc |-> "exit", msg |-> NoMessage, peer |-> NULL]
    BY DEF Idle
  <2>3. CASE end_campagnol /\ t # "sock"
    BY <2>2, <2>3, Zenon DEF EndTurn
  <2>4. CASE ~(end_campagnol /\ t # "sock")
    BY <2>1, <2>4, Zenon DEF EndTurn
  <2> QED BY <2>3, <2>4
<1>2. MessageOK(pc, NoMessage) /\ pc \in Positions
  BY DEF MessageOK, Positions
<1> QED BY <1>1, <1>2, PutMoves, Zenon

\* A thread that held nothing and holds nothing: the peers need not be looked at.
LEMMA FreeMove ==
  ASSUME IInv, NEW t \in Threads, th[t].pc \notin Holding,
         NEW pc \in Positions \ Holding, NEW q, Moves(t, pc, q), ThreadsOK', TreesOK', RestOK',
         PeersOK', DOMAIN obj' = DOMAIN obj, UNCHANGED workers,
         \A p \in DOMAIN obj : obj'[p].state = obj[p].state /\ obj'[p].ref = obj[p].ref
  PROVE  IInv'
<1>1. Types' /\ Stays
  BY DEF IInv, Types, WorkersOK, Stays, workers
<1>2. \A p \in DOMAIN obj :
        obj'[p].ref = obj[p].ref + one(q = p /\ pc \in Holding) - one(Holds(t, p))
  BY DEF IInv, Types, PeersOK, Peer, one, Holds, Holding
<1>3. pc # "start"
  BY Zenon DEF Holding
<1> QED BY <1>1, <1>2, <1>3, MoveStep, Zenon

\* A thread that keeps the peer it holds.
LEMMA KeepMove ==
  ASSUME IInv, NEW t \in Threads, th[t].pc \in Holding,
         NEW pc \in Holding \ {"start"}, Moves(t, pc, th[t].peer), Types', Stays,
         \A p \in DOMAIN obj : obj'[p].ref = obj[p].ref
  PROVE  IInv'
<1>1. th[t].peer \in DOMAIN obj
  BY DEF IInv, Unused
<1>2. \A p \in DOMAIN obj :
        obj'[p].ref = obj[p].ref + one(th[t].peer = p /\ pc \in Holding) - one(Holds(t, p))
  BY DEF IInv, Types, PeersOK, Peer, one, Holds, Holding
<1> QED BY <1>1, <1>2, MoveStep

\* The loops' ends, broadcast packets and the end of start_vpn.
LEMMA LoopStep ==
  ASSUME IInv, Broadcast \/ MainStep \/ \E t \in Threads : ExitLoop(t)
  PROVE  IInv'
<1>1. ThreadsOK /\ PeersOK /\ TreesOK /\ RestOK /\ "tun" \in Threads
  BY DEF IInv, Types, Threads
<1>2. ASSUME NEW t \in Threads, th[t].pc \notin Holding, NEW pc \in Positions \ Holding, NEW q,
             Moves(t, pc, q), ThreadsOK',
             UNCHANGED <<obj, trees, workers, asked, end_campagnol>>, global' \in BOOLEAN
      PROVE  IInv'
  <2>1. TreesOK' /\ RestOK' /\ PeersOK' /\ UNCHANGED <<obj, workers>>
    BY <1>1, <1>2, Zenon DEF TreesOK, RestOK, PeersOK, trees
  <2> QED BY <1>2, <2>1, FreeMove
<1>3. ASSUME NEW t \in Threads, ExitLoop(t) PROVE IInv'
  <2>1. Goto(t, "exit") /\ th[t].pc = "idle"
    BY <1>3, Zenon DEF ExitLoop
  <2>2. ThreadsOK' /\ Moves(t, "exit", th[t].peer)
    BY <1>1, <2>1, GotoMoves, Zenon DEF MessageOK, Positions
  <2> QED BY <1>1, <1>2, <1>3, <2>1, <2>2, Zenon DEF ExitLoop, RestOK, Positions, Holding
<1>4. CASE Broadcast
  <2>1. ThreadsOK' /\ Moves("tun", "broadcast", NULL)
    BY <1>1, <1>4, PutMoves, Zenon DEF Broadcast, MessageOK, Positions
  <2> QED BY <1>1, <1>2, <1>4, <2>1 DEF Broadcast, Positions, Holding
<1>5. CASE BroadcastEnds
  <2>1. PICK pc \in {"idle", "exit"} : ThreadsOK' /\ Moves("tun", pc, NULL)
    BY <1>1, <1>5, EndTurnMoves, Zenon DEF BroadcastEnds
  <2> QED BY <1>1, <1>2, <1>5, <2>1, Zenon DEF BroadcastEnds, Positions, Holding
<1>6. CASE Teardown
  <2>1. ThreadsOK' /\ Moves("tun", "teardown", NULL)
    BY <1>1, <1>6, PutMoves, Zenon DEF Teardown, MessageOK, Positions
  <2>2. th["tun"].pc = "exit"
    BY <1>1, <1>6 DEF Teardown, ThreadsOK
  <2> QED BY <1>1, <1>2, <1>6, <2>1, <2>2 DEF Teardown, Positions, Holding
<1>7. CASE TeardownEnds
  <2>1. [Idle EXCEPT !.pc = "join"] = [pc |-> "join", msg |-> NoMessage, peer |-> NULL]
    BY DEF Idle
  <2>2. th' = [th EXCEPT !["tun"] = [pc |-> "join", msg |-> NoMessage, peer |-> NULL]]
    BY <1>7, <2>1, Zenon DEF TeardownEnds
  <2>3. ThreadsOK' /\ Moves("tun", "join", NULL)
    BY <1>1, <2>2, PutMoves, Zenon DEF MessageOK, Positions
  <2> QED BY <1>1, <1>2, <1>7, <2>3, Zenon DEF TeardownEnds, Positions, Holding
<1>8. CASE Finish
  <2>1. Goto("tun", "stopped") /\ th["tun"].pc = "join"
    BY <1>8, Zenon DEF Finish
  <2>2. ThreadsOK' /\ Moves("tun", "stopped", th["tun"].peer)
    BY <1>1, <2>1, GotoMoves, Zenon DEF MessageOK, Positions
  <2> QED BY <1>1, <1>2, <1>8, <2>1, <2>2, Zenon DEF Finish, RestOK, Positions, Holding
<1>9. ASSUME NEW p \in DOMAIN obj, BroadcastTo(p) \/ EndPeerHandling(p) PROVE IInv'
  <2> DEFINE pc == th["tun"].pc
  <2>1. pc \in {"broadcast", "teardown"} /\ th' = [th EXCEPT !["tun"].msg.peers = @ \ {p}]
    BY <1>9 DEF BroadcastTo, EndPeerHandling
  <2>2. ThreadsOK' /\ Moves("tun", pc, th["tun"].peer)
    BY <1>1, <2>1 DEF ThreadsOK, Moves, MessageOK
  <2>3. TreesOK' /\ RestOK' /\ UNCHANGED workers
    BY <1>1, <1>9, Zenon DEF TreesOK, RestOK, BroadcastTo, EndPeerHandling, trees
  <2>4. PeersOK' /\ DOMAIN obj' = DOMAIN obj
        /\ \A r \in DOMAIN obj : obj'[r].state = obj[r].state /\ obj'[r].ref = obj[r].ref
    <3>1. CASE BroadcastTo(p)
      BY <1>1, <3>1 DEF PeersOK, BroadcastTo
    <3>2. CASE EndPeerHandling(p)
      <4>1. /\ DOMAIN obj' = DOMAIN obj /\ \A r \in DOMAIN obj \ {p} : obj'[r] = obj[r]
            /\ obj'[p] = [obj[p] EXCEPT !.shutdown = TRUE]
        BY <3>2 DEF EndPeerHandling
      <4>2. obj'[p] \in Peer /\ obj'[p].state = obj[p].state /\ obj'[p].ref = obj[p].ref
        BY <1>1, <4>1, Zenon DEF PeersOK, Peer
      <4> QED BY <1>1, <4>1, <4>2, Zenon DEF PeersOK
    <3> QED BY <1>9, <3>1, <3>2
  <2>5. pc \in Positions \ Holding
    BY <2>1 DEF Positions, Holding
  <2> QED BY <1>1, <2>2, <2>3, <2>4, <2>5, FreeMove, Zenon
<1> QED BY <1>3, <1>4, <1>5, <1>6, <1>7, <1>8, <1>9, Zenon DEF MainStep

\* What the threads do with a peer they have found.
LEMMA FoundStep ==
  ASSUME IInv, NEW t \in Threads,
         LookupLocks(t) \/ Forward(t) \/ Punched(t) \/ Answer(t) \/ Signal(t)
  PROVE  IInv'
<1> DEFINE p == th[t].peer
<1>1. ThreadsOK /\ PeersOK /\ TreesOK /\ WorkersOK /\ RestOK
  BY DEF IInv, Types
<1>2. th[t].pc \in {"lock", "got", "signal"}
  BY Zenon DEF LookupLocks, Forward, Punched, Answer, Signal
<1>3. p \in DOMAIN obj /\ p \in Obj /\ obj[p] \in Peer
  BY <1>1, <1>2 DEF IInv, Unused, PeersOK, Holding
<1>4. PICK pc \in {"got", "signal", "decr"} : ThreadsOK' /\ Moves(t, pc, p)
  <2>1. CASE LookupLocks(t)
    <3>1. MessageOK("got", th[t].msg)
      BY <1>1, <2>1, Zenon DEF ThreadsOK, MessageOK, LookupLocks
    <3> QED BY <1>1, <2>1, <3>1, GotoMoves, Zenon DEF LookupLocks, Positions, Holding
  <2>2. CASE Answer(t)
    <3>1. MessageOK("signal", th[t].msg)
      BY Zenon DEF MessageOK
    <3> QED BY <1>1, <2>2, <3>1, GotoMoves DEF Answer, Positions, Holding
  <2>3. CASE Forward(t) \/ Punched(t) \/ Signal(t)
    BY <1>1, <2>3, HandledMoves DEF Forward, Punched, Signal
  <2> QED BY <2>1, <2>2, <2>3, Zenon
<1>5. TreesOK' /\ RestOK' /\ UNCHANGED <<pu, wr>>
  BY <1>1, Zenon DEF TreesOK, RestOK, LookupLocks, Forward, Punched, Answer, Signal, trees, workers
<1>6. WorkersOK' /\ \A r \in Obj : ph'[r] = ph[r] \/ (ph[r] = "wait" /\ ph'[r] = "woken")
  BY <1>1, <1>3, Zenon DEF WorkersOK, LookupLocks, Forward, Punched, Answer, Signal, workers, SignalConnected
<1>7. /\ DOMAIN obj' = DOMAIN obj /\ obj'[p] \in Peer
      /\ obj'[p].state = obj[p].state /\ obj'[p].ref = obj[p].ref
      /\ \A r \in DOMAIN obj \ {p} : obj'[r] = obj[r]
  <2>1. CASE LookupLocks(t) \/ Forward(t) \/ Punched(t)
    <3>1. PICK b \in BOOLEAN : obj' = [obj EXCEPT ![p].locked = b]
      BY <2>1, Zenon DEF LookupLocks, Forward, Punched
    <3>2. /\ DOMAIN obj' = DOMAIN obj /\ \A r \in DOMAIN obj \ {p} : obj'[r] = obj[r]
          /\ obj'[p] = [obj[p] EXCEPT !.locked = b]
      BY <1>3, <3>1, Zenon
    <3> QED BY <1>3, <3>2 DEF Peer
  <2>3. CASE Signal(t)
    BY <1>3, <2>3, Zenon DEF Signal
  <2>2. CASE Answer(t)
    <3> DEFINE m == th[t].msg
               ans == IF obj[p].state = "NEW" THEN m.type ELSE obj[p].answer
               a == IF m.type = "ANS" THEN m.addr ELSE obj[p].addr
    <3>1. ans \in {"none", "ANS", "REJ"} /\ a \in Addr \cup {NoAddr}
      BY <1>1, <1>3, <2>2, Zenon DEF Answer, ThreadsOK, MessageOK, Peer
    <3>2. obj' = [obj EXCEPT ![p].locked = FALSE, ![p].answer = ans, ![p].addr = a]
      BY <1>3, <2>2 DEF Answer
    <3> HIDE DEF ans, a
    <3>3. DOMAIN obj' = DOMAIN obj /\ \A r \in DOMAIN obj \ {p} : obj'[r] = obj[r]
      BY <1>3, <3>2
    <3>4. obj'[p] = [obj[p] EXCEPT !.locked = FALSE, !.answer = ans, !.addr = a]
      BY <1>3, <3>2
    <3>5. obj'[p] \in Peer /\ obj'[p].state = obj[p].state /\ obj'[p].ref = obj[p].ref
      BY <1>3, <3>1, <3>4, Zenon DEF Peer
    <3> QED BY <3>3, <3>5, Zenon
  <2> QED BY <2>1, <2>2, <2>3
<1>8. PeersOK'
  BY <1>1, <1>7 DEF PeersOK
<1>9. Types' /\ Stays
  BY <1>4, <1>5, <1>6, <1>7, <1>8, Zenon DEF Types, Stays
<1>10. \A r \in DOMAIN obj : obj'[r].ref = obj[r].ref
  BY <1>7
<1>11. th[t].pc \in Holding /\ pc \in Holding \ {"start"}
  BY <1>2, Zenon DEF Holding
<1> QED BY <1>4, <1>9, <1>10, <1>11, KeepMove

\* What the messages of the network and of the TUN device hold.
LEMMA MessageTypes ==
  ASSUME NEW t \in Threads, asked \subseteq VpnIP, NEW m \in Message(t)
  PROVE  /\ m.type \in {"packet", "FWD"} => MessageOK("add", m)
         /\ \A pc \in {"lock", "got", "lost"} : MessageOK(pc, m)
<1> USE DEF MessageOK
<1>1. CASE t = "tun"
  BY <1>1, PeersAssumption DEF Message
<1>2. CASE t = "sock"
  BY <1>2 DEF Message
<1>3. CASE t = "rdv"
  <2> DEFINE REJ == [type : {"REJ"}, vpnIP : asked]
             ANS == UNION {[type : {"ANS"}, vpnIP : {v}, addr : Endpoints[v]] : v \in asked}
             FWD == UNION {[type : {"FWD"}, vpnIP : {v}, addr : Endpoints[v]] : v \in VpnIP}
  <2>1. m \in REJ => m.type = "REJ"
    OBVIOUS
  <2>2. ASSUME NEW v \in VpnIP, NEW x, m \in [type : {x}, vpnIP : {v}, addr : Endpoints[v]]
        PROVE  m.type = x /\ m.vpnIP \in VpnIP /\ m.addr \in Addr
    BY <2>2 DEF Addr
  <2>3. m \in ANS => m.type = "ANS" /\ m.addr \in Addr
    BY <2>2
  <2>4. m \in FWD => m.type = "FWD" /\ m.vpnIP \in VpnIP /\ m.addr \in Addr
    BY <2>2
  <2>5. m \in RdvMessage
    BY <1>3 DEF Message
  <2>7. RdvMessage = REJ \cup ANS \cup FWD
    BY DEF RdvMessage
  <2> HIDE DEF REJ, ANS, FWD
  <2>6. m \in REJ \cup ANS \cup FWD
    BY <2>5, <2>7
  <2> QED BY <2>1, <2>3, <2>4, <2>6
<1> QED BY <1>1, <1>2, <1>3 DEF Threads

\* A lookup, whatever it finds.
LEMMA LookupStep ==
  ASSUME IInv, NEW t \in Threads, NEW m \in Message(t), Lookup(t, m)
  PROVE  IInv'
<1>1. ThreadsOK /\ PeersOK /\ TreesOK /\ WorkersOK /\ RestOK
  BY DEF IInv, Types
<1>2. th[t].pc = "idle" /\ UNCHANGED <<trees, workers, asked, end_campagnol>>
  BY DEF Lookup
<1>3. TreesOK' /\ WorkersOK' /\ UNCHANGED workers /\ th[t].pc \notin Holding
  BY <1>1, <1>2 DEF TreesOK, WorkersOK, trees, workers, Holding
<1>4. asked \subseteq VpnIP
  BY <1>1 DEF RestOK
<1>5. ASSUME UNCHANGED <<obj, global>>, NEW pc \in Positions \ Holding, NEW q,
             ThreadsOK', Moves(t, pc, q)
      PROVE  IInv'
  <2>1. RestOK' /\ PeersOK' /\ UNCHANGED obj
    BY <1>1, <1>2, <1>5, Zenon DEF RestOK, PeersOK
  <2> QED BY <1>3, <1>5, <2>1, FreeMove, Zenon
<1>6. ASSUME UNCHANGED <<obj, global>>, m.type \in {"packet", "FWD"},
             th' = [th EXCEPT ![t] = [pc |-> "add", msg |-> m, peer |-> NULL]]
      PROVE  IInv'
  <2>1. ThreadsOK' /\ Moves(t, "add", NULL)
    BY <1>1, <1>4, <1>6, MessageTypes, PutMoves, Zenon DEF Positions
  <2> QED BY <1>5, <1>6, <2>1 DEF Positions, Holding
<1>7. ASSUME UNCHANGED <<obj, global>>, EndTurn(t)
      PROVE  IInv'
  <2>1. PICK pc \in {"idle", "exit"} : ThreadsOK' /\ Moves(t, pc, NULL)
    BY <1>1, <1>7, EndTurnMoves
  <2> QED BY <1>5, <1>7, <2>1 DEF Positions, Holding
<1>8. ASSUME UNCHANGED <<obj, global>>, NEW p \in Obj,
             th' = [th EXCEPT ![t] = [pc |-> "lost", msg |-> m, peer |-> p]]
      PROVE  IInv'
  <2>1. ThreadsOK' /\ Moves(t, "lost", p)
    BY <1>1, <1>4, <1>8, MessageTypes, PutMoves, Zenon DEF Positions
  <2> QED BY <1>5, <1>8, <2>1 DEF Positions, Holding
<1>9. ASSUME NEW p \in DOMAIN obj, NEW pc \in {"lock", "got"},
             th' = [th EXCEPT ![t] = [pc |-> pc, msg |-> m, peer |-> p]],
             obj' = [obj EXCEPT ![p].ref = @ + 1, ![p].locked = TRUE],
             global' = obj[p].locked
      PROVE  IInv'
  <2>1. p \in Obj /\ obj[p] \in Peer
    BY <1>1 DEF PeersOK
  <2>2. ThreadsOK' /\ Moves(t, pc, p)
    BY <1>1, <1>4, <1>9, <2>1, MessageTypes, PutMoves, Zenon DEF Positions, Holding
  <2> DEFINE n == obj[p].ref + 1
  <2>9. obj' = [obj EXCEPT ![p].ref = n, ![p].locked = TRUE]
    BY <1>9
  <2>10. n \in Nat
    BY <2>1 DEF Peer
  <2> HIDE DEF n
  <2>3. /\ DOMAIN obj' = DOMAIN obj /\ \A r \in DOMAIN obj \ {p} : obj'[r] = obj[r]
        /\ obj'[p] = [obj[p] EXCEPT !.ref = n, !.locked = TRUE]
    BY <2>9
  <2>4. obj'[p] \in Peer /\ obj'[p].state = obj[p].state /\ obj'[p].ref = n
    BY <2>1, <2>3, <2>10, Zenon DEF Peer
  <2>5. PeersOK' /\ RestOK'
    <3>1. global' \in BOOLEAN
      BY <1>9, <2>1 DEF Peer
    <3>2. RestOK'
      BY <1>1, <1>2, <3>1 DEF RestOK
    <3> QED BY <1>1, <2>3, <2>4, <3>2 DEF PeersOK
  <2>6. Types' /\ Stays
    BY <1>3, <2>2, <2>3, <2>4, <2>5, Zenon DEF Types, Stays, workers
  <2>7. ASSUME NEW r \in DOMAIN obj
        PROVE  obj'[r].ref = obj[r].ref + one(p = r /\ pc \in Holding) - one(Holds(t, r))
    <3>1. ~Holds(t, r) /\ pc \in Holding
      BY <1>2 DEF Holds, Holding
    <3>2. one(Holds(t, r)) = 0 /\ one(p = r /\ pc \in Holding) = IF p = r THEN 1 ELSE 0
      BY <3>1 DEF one
    <3>3. obj[r].ref \in Nat
      BY <1>1, Zenon DEF PeersOK, Peer
    <3>4. CASE r = p
      BY <2>4, <3>2, <3>3, <3>4 DEF n
    <3>5. CASE r # p
      BY <2>3, <3>2, <3>3, <3>5
    <3> QED BY <3>4, <3>5
  <2>8. pc # "start"
    OBVIOUS
  <2> QED BY <2>2, <2>6, <2>7, <2>8, MoveStep, SMT, SMTT(30)
<1> QED
  <2>1. PICK p : \/ /\ p = NULL
                    /\ IF m.type \in {"packet", "FWD"}
                       THEN th' = [th EXCEPT ![t] = [pc |-> "add", msg |-> m, peer |-> NULL]]
                       ELSE EndTurn(t)
                    /\ UNCHANGED <<obj, global>>
                 \/ /\ p \in DOMAIN obj
                    /\ th' = [th EXCEPT ![t] = [pc |-> IF obj[p].locked THEN "lock" ELSE "got",
                                                msg |-> m, peer |-> p]]
                    /\ obj' = [obj EXCEPT ![p].ref = @ + 1, ![p].locked = TRUE]
                    /\ global' = obj[p].locked
                 \/ /\ p \in Obj \ DOMAIN obj
                    /\ th' = [th EXCEPT ![t] = [pc |-> "lost", msg |-> m, peer |-> p]]
                    /\ UNCHANGED <<obj, global>>
    BY Zenon DEF Lookup
  <2>2. CASE p = NULL /\ UNCHANGED <<obj, global>>
             /\ IF m.type \in {"packet", "FWD"}
                THEN th' = [th EXCEPT ![t] = [pc |-> "add", msg |-> m, peer |-> NULL]]
                ELSE EndTurn(t)
    BY <1>6, <1>7, <2>2, Zenon
  <2>3. CASE /\ p \in DOMAIN obj
             /\ th' = [th EXCEPT ![t] = [pc |-> IF obj[p].locked THEN "lock" ELSE "got",
                                         msg |-> m, peer |-> p]]
             /\ obj' = [obj EXCEPT ![p].ref = @ + 1, ![p].locked = TRUE]
             /\ global' = obj[p].locked
    <3> DEFINE pc == IF obj[p].locked THEN "lock" ELSE "got"
    <3>1. pc \in {"lock", "got"}
      OBVIOUS
    <3> HIDE DEF pc
    <3>2. th' = [th EXCEPT ![t] = [pc |-> pc, msg |-> m, peer |-> p]]
      BY <2>3 DEF pc
    <3> QED BY <1>9, <2>3, <3>1, <3>2, Zenon
  <2> QED BY <1>8, <2>1, <2>2, <2>3, Zenon

\* peers_add: the new peer has the references of the list and of the thread.
LEMMA NewPeerStep ==
  ASSUME IInv, NEW t \in Threads, th[t].pc = "add", NEW p \in Obj \ DOMAIN obj,
         obj' = [q \in DOMAIN obj \cup {p} |-> IF q = p THEN NewPeer(th[t].msg) ELSE obj[q]],
         th' = [th EXCEPT ![t].pc = "start", ![t].peer = p],
         TreesOK', UNCHANGED <<global, workers, asked, end_campagnol>>
  PROVE  IInv'
<1> DEFINE new == NewPeer(th[t].msg)
<1>1. ThreadsOK /\ PeersOK /\ WorkersOK /\ RestOK /\ DOMAIN th = Threads
  BY DEF IInv, Types, ThreadsOK
<1>2. /\ new \in Peer /\ new.state \in {"NEW", "PUNCHING"} /\ new.ref = 2
  BY <1>1 DEF ThreadsOK, MessageOK, NewPeer, Peer
<1>3. /\ DOMAIN obj' = DOMAIN obj \cup {p} /\ obj'[p] = new
      /\ \A q \in DOMAIN obj : obj'[q] = obj[q]
  OBVIOUS
<1> HIDE DEF new
<1>4. Moves(t, "start", p)
  BY <1>1 DEF Moves, ThreadsOK
<1>5. Types'
  <2>1. ThreadsOK'
    BY <1>1 DEF ThreadsOK, MessageOK, Positions, Holding
  <2>2. PeersOK'
    BY <1>1, <1>2, <1>3 DEF PeersOK
  <2>3. WorkersOK' /\ RestOK'
    BY <1>1 DEF WorkersOK, RestOK, workers
  <2> QED BY <2>1, <2>2, <2>3, Zenon DEF Types
<1>6. UNCHANGED <<ph, pu, wr>> /\ ph[p] = "none" /\ pu[p] = "none" /\ wr[p] = "none"
  BY DEF IInv, Unused, workers
<1>7. \A u \in Threads : th[u].pc \in Holding => th[u].peer \in DOMAIN obj
  BY DEF IInv, Unused
<1>8. Unused'
  BY <1>3, <1>4, <1>6, <1>7, ZenonT(30) DEF IInv, Unused, Moves
<1>9. Starting'
  <2>1. Starting /\ \A u \in Threads : th[u].pc = "start" => th[u].peer # p
    BY <1>7 DEF IInv, Holding
  <2>2. /\ th'[t].peer = p
        /\ \A u \in Threads \ {t} : th'[u].pc = th[u].pc /\ th'[u].peer = th[u].peer
    BY <1>4, Zenon DEF Moves
  <2>3. ph' = ph
    BY <1>6
  <2> SUFFICES ASSUME NEW u \in Threads, th'[u].pc = "start"
               PROVE  /\ ph'[th'[u].peer] = "none"
                      /\ \A v \in Threads \ {u} : th'[v].pc = "start" => th'[v].peer # th'[u].peer
    BY Zenon DEF Starting
  <2>4. CASE u = t
    BY <1>6, <2>1, <2>2, <2>3, <2>4, ZenonT(30)
  <2>5. CASE u # t
    <3>1. th[u].pc = "start" /\ th'[u].peer = th[u].peer /\ th[u].peer # p
      BY <2>1, <2>2, <2>5, Zenon
    <3>2. /\ ph[th[u].peer] = "none"
          /\ \A v \in Threads \ {u} : th[v].pc = "start" => th[v].peer # th[u].peer
      BY <2>1, <3>1, Zenon DEF Starting
    <3>3. ASSUME NEW v \in Threads \ {u}, th'[v].pc = "start" PROVE th'[v].peer # th'[u].peer
      <4>1. CASE v = t
        BY <2>2, <3>1, <4>1
      <4>2. CASE v # t
        BY <2>2, <3>1, <3>2, <3>3, <4>2, Zenon
      <4> QED BY <4>1, <4>2, Zenon
    <3> QED BY <2>3, <3>1, <3>2, <3>3, Zenon
  <2> QED BY <2>4, <2>5, Zenon
<1>10. Phases'
  <2> SUFFICES ASSUME NEW q \in DOMAIN obj' PROVE Phase(q)'
    BY DEF Phases
  <2>1. CASE q = p
    BY <1>2, <1>3, <1>6, <2>1, Zenon DEF Phase
  <2>2. CASE q # p
    BY <1>3, <1>6, <2>2 DEF IInv, Phases, Phase
  <2> QED BY <2>1, <2>2
<1>11. Counts'
  <2> SUFFICES ASSUME NEW q \in DOMAIN obj' PROVE obj'[q].ref = Own(q)' + Cardinality(Holders(q))'
    BY Zenon DEF Counts
  <2>1. Own(q)' = Own(q)
    BY <1>6 DEF Own
  <2>2. CASE q = p
    <3>1. Holders(p) = {}
      BY <1>7 DEF Holders, Holds, Holding
    <3>2. Cardinality(Holders(p)) = 0
      BY <3>1, FS_EmptySet
    <3>3. ~Holds(t, p)
      BY <1>7 DEF Holds, Holding
    <3>4. Cardinality(Holders(p))' = Cardinality(Holders(p)) + 1
      BY <1>1, <1>4, <3>3, MoveCount DEF Holding
    <3>5. Own(p) = 1
      BY <1>6 DEF Own, one
    <3> QED BY <1>2, <1>3, <2>1, <2>2, <3>2, <3>4, <3>5
  <2>3. CASE q # p
    <3>1. ~Holds(t, q)
      BY DEF Holds
    <3>2. Holders(q)' = Holders(q)
      BY <1>1, <1>4, <2>3, <3>1, MoveCount, Zenon
    <3> QED BY <1>3, <2>1, <2>3, <3>2 DEF IInv, Counts
  <2> QED BY <2>2, <2>3
<1> QED BY <1>5, <1>8, <1>9, <1>10, <1>11, Zenon DEF IInv

\* peers_add, when it fails too.
LEMMA AddStep ==
  ASSUME IInv, NEW t \in Threads, Add(t)
  PROVE  IInv'
<1>1. ThreadsOK /\ PeersOK /\ TreesOK /\ RestOK
  BY DEF IInv, Types
<1>2. th[t].pc = "add" /\ UNCHANGED <<global, workers, asked, end_campagnol>>
  BY Zenon DEF Add
<1>3. DOMAIN vpn_root \subseteq VpnIP /\ addr_root \subseteq Obj /\ th[t].msg.vpnIP \in VpnIP
  BY <1>1, <1>2 DEF ThreadsOK, MessageOK, TreesOK
<1>4. \A q : DOMAIN tsearch(vpn_root, th[t].msg.vpnIP, q) \subseteq VpnIP
  BY <1>3, Zenon DEF tsearch
<1>5. ASSUME EndTurn(t), UNCHANGED obj, TreesOK' PROVE IInv'
  <2>1. PICK pc \in {"idle", "exit"} : ThreadsOK' /\ Moves(t, pc, NULL)
    BY <1>1, <1>5, EndTurnMoves, Zenon
  <2>2. RestOK' /\ PeersOK' /\ UNCHANGED workers
    BY <1>1, <1>2, <1>5 DEF RestOK, PeersOK
  <2>3. th[t].pc \notin Holding /\ pc \in Positions \ Holding
    BY <1>2 DEF Holding, Positions
  <2> QED BY <1>5, <2>1, <2>2, <2>3, FreeMove
<1>6. ASSUME NEW p \in Obj \ DOMAIN obj,
             obj' = [q \in DOMAIN obj \cup {p} |-> IF q = p THEN NewPeer(th[t].msg) ELSE obj[q]],
             vpn_root' = tsearch(vpn_root, th[t].msg.vpnIP, p),
             IF th[t].msg.type = "FWD" THEN tsearch_addr(th[t].msg.addr, p) ELSE UNCHANGED addr_root,
             th' = [th EXCEPT ![t].pc = "start", ![t].peer = p]
      PROVE  IInv'
  <2>1. addr_root' \subseteq addr_root \cup {p}
    BY <1>6, Zenon DEF tsearch_addr
  <2>2. TreesOK'
    BY <1>3, <1>4, <1>6, <2>1, Zenon DEF TreesOK
  <2> QED BY <1>2, <1>6, <2>2, NewPeerStep, Zenon
<1>7. CASE EndTurn(t) /\ UNCHANGED <<obj, trees>>
  <2>1. TreesOK'
    BY <1>1, <1>7 DEF TreesOK, trees
  <2> QED BY <1>5, <1>7, <2>1, Zenon
<1>8. ASSUME NEW p, vpn_root' = tsearch(vpn_root, th[t].msg.vpnIP, p), EndTurn(t),
             UNCHANGED <<obj, addr_root>>
      PROVE  IInv'
  <2>1. TreesOK'
    BY <1>3, <1>4, <1>8, Zenon DEF TreesOK
  <2> QED BY <1>5, <1>8, <2>1, Zenon
<1> QED BY <1>6, <1>7, <1>8, Zenon DEF Add

\* start_peer_handling: the new thread has a reference of its own.
LEMMA StartStep ==
  ASSUME IInv, NEW t \in Threads, Start(t)
  PROVE  IInv'
<1> DEFINE p == th[t].peer
           n == obj[p].ref + 1
<1>1. ThreadsOK /\ PeersOK /\ TreesOK /\ WorkersOK /\ RestOK
  BY DEF IInv, Types
<1>2. th[t].pc = "start" /\ Handled(t) /\ UNCHANGED <<trees, global, pu, wr, asked, end_campagnol>>
  BY DEF Start
<1>3. obj' = [obj EXCEPT ![p].ref = n] /\ ph' = [ph EXCEPT ![p] = "top"]
  BY Zenon DEF Start
<1>4. p \in DOMAIN obj /\ p \in Obj /\ obj[p] \in Peer /\ ph[p] = "none"
  BY <1>1, <1>2, Zenon DEF IInv, Unused, Starting, PeersOK, Holding
<1>5. n \in Nat
  BY <1>4 DEF Peer
<1>6. ThreadsOK' /\ Moves(t, "decr", p)
  BY <1>1, <1>2, HandledMoves, Zenon
<1>7. /\ \A u \in Threads : th'[u].peer = th[u].peer
      /\ th'[t].pc = "decr" /\ \A u \in Threads \ {t} : th'[u].pc = th[u].pc
  BY <1>6 DEF Moves
<1> HIDE DEF p, n
<1>8. /\ DOMAIN obj' = DOMAIN obj /\ \A r \in DOMAIN obj \ {p} : obj'[r] = obj[r]
      /\ obj'[p] = [obj[p] EXCEPT !.ref = n]
  BY <1>3, <1>4
<1>9. obj'[p] \in Peer /\ obj'[p].state = obj[p].state /\ obj'[p].ref = n
  BY <1>4, <1>5, <1>8, Zenon DEF Peer
<1>10. ph'[p] = "top" /\ (\A r \in Obj \ {p} : ph'[r] = ph[r]) /\ UNCHANGED <<pu, wr>>
  BY <1>1, <1>2, <1>3, <1>4, Zenon DEF WorkersOK
<1>11. Types'
  <2>1. PeersOK'
    BY <1>1, <1>8, <1>9, Zenon DEF PeersOK
  <2>2. WorkersOK' /\ TreesOK' /\ RestOK'
    BY <1>1, <1>2, <1>3, Zenon DEF WorkersOK, TreesOK, RestOK, trees
  <2> QED BY <1>6, <2>1, <2>2 DEF Types
<1>12. Unused'
  <2>1. \A r \in Obj \ DOMAIN obj : ph'[r] = "none" /\ pu'[r] = "none" /\ wr'[r] = "none"
    BY <1>4, <1>10, Zenon DEF IInv, Unused
  <2>2. \A u \in Threads : th'[u].pc \in Holding => th[u].peer \in DOMAIN obj
    BY <1>2, <1>7, Zenon DEF IInv, Unused, Holding
  <2> QED BY <1>7, <1>8, <2>1, <2>2, Zenon DEF Unused
<1>13. Starting'
  <2>1. Starting /\ \A u \in Threads : th'[u].pc = "start" => th[u].pc = "start" /\ u # t
    BY <1>7, Zenon DEF IInv
  <2>2. \A u \in Threads : th'[u].pc = "start" => th[u].peer # p /\ th[u].peer \in Obj
    BY <1>1, <1>2, <1>4, <2>1 DEF Starting, p, IInv, Unused, PeersOK, Holding
  <2> SUFFICES ASSUME NEW u \in Threads, th'[u].pc = "start"
               PROVE  /\ ph'[th'[u].peer] = "none"
                      /\ \A v \in Threads \ {u} : th'[v].pc = "start" => th'[v].peer # th'[u].peer
    BY Zenon DEF Starting
  <2>3. ph[th[u].peer] = "none" /\ ph'[th[u].peer] = ph[th[u].peer]
    BY <1>10, <2>1, <2>2, Zenon DEF Starting
  <2>4. ASSUME NEW v \in Threads \ {u}, th'[v].pc = "start" PROVE th[v].peer # th[u].peer
    BY <2>1, <2>4 DEF Starting
  <2> QED BY <1>7, <2>3, <2>4, Zenon
<1>14. Phases'
  <2> SUFFICES ASSUME NEW q \in DOMAIN obj PROVE Phase(q)'
    BY <1>8 DEF Phases
  <2>1. Phase(q) /\ q \in Obj
    BY <1>1, Zenon DEF IInv, Phases, PeersOK
  <2>2. CASE q = p
    BY <1>4, <1>9, <1>10, <2>1, <2>2 DEF Phase
  <2>3. CASE q # p
    BY <1>8, <1>10, <2>1, <2>3, Zenon DEF Phase
  <2> QED BY <2>2, <2>3
<1>15. Counts'
  <2> SUFFICES ASSUME NEW q \in DOMAIN obj PROVE obj'[q].ref = Own(q)' + Cardinality(Holders(q))'
    BY <1>8, Zenon DEF Counts
  <2>1. Holders(q)' = Holders(q)
    BY <1>2, <1>7, <1>11, Zenon DEF Holders, Holds
  <2>2. obj[q].ref = Own(q) + Cardinality(Holders(q)) /\ Cardinality(Holders(q)) \in Nat
    BY HoldersFinite, Zenon DEF IInv, Counts
  <2>3. CASE q = p
    <3>1. Own(q)' = Own(q) + 1 /\ Own(q) \in Nat
      BY <1>4, <1>10, <2>3, SMT, SMTT(30) DEF Own, one
    <3> QED BY <1>9, <2>1, <2>2, <2>3, <3>1 DEF n
  <2>4. CASE q # p
    <3>1. Own(q)' = Own(q)
      BY <1>1, <1>10, <2>4, Zenon DEF Own, PeersOK
    <3> QED BY <1>8, <2>1, <2>2, <2>4, <3>1, Zenon
  <2> QED BY <2>3, <2>4, Zenon
<1> QED BY <1>11, <1>12, <1>13, <1>14, <1>15, Zenon DEF IInv
-----------------------------------------------------------------------------
(***************************************************************************)
(* peers_decr_ref.                                                         *)
(***************************************************************************)
\* A peer that nobody uses is freed: this keeps the invariant.
LEMMA FreeStep ==
  ASSUME IInv, NEW p \in DOMAIN obj, obj' = Restrict(obj, DOMAIN obj \ {p}),
         ThreadsOK', TreesOK', WorkersOK', RestOK',
         ph'[p] = "none", pu'[p] = "none", wr'[p] = "none",
         \A r \in Obj \ {p} : ph'[r] = ph[r] /\ pu'[r] = pu[r] /\ wr'[r] = wr[r],
         \A u \in Threads : th'[u].pc \in Holding =>
           th'[u].pc = th[u].pc /\ th'[u].peer = th[u].peer /\ th[u].peer # p,
         \A r \in DOMAIN obj \ {p} : Holders(r)' = Holders(r)
  PROVE  IInv'
<1>1. DOMAIN obj' = DOMAIN obj \ {p} /\ \A r \in DOMAIN obj \ {p} : obj'[r] = obj[r]
  BY DEF Restrict
<1>2. PeersOK' /\ PeersOK
  BY <1>1, Zenon DEF IInv, Types, PeersOK
<1>3. Unused'
  BY <1>1, <1>2, Zenon DEF IInv, Unused, PeersOK
<1>4. Starting'
  <2>1. Starting /\ \A u \in Threads : th'[u].pc = "start" =>
          th[u].pc = "start" /\ th'[u].peer = th[u].peer /\ th[u].peer # p /\ th[u].peer \in Obj
    BY <1>2, Zenon DEF IInv, Holding, Unused, PeersOK
  <2> SUFFICES ASSUME NEW u \in Threads, th'[u].pc = "start"
               PROVE  /\ ph'[th'[u].peer] = "none"
                      /\ \A v \in Threads \ {u} : th'[v].pc = "start" => th'[v].peer # th'[u].peer
    BY Zenon DEF Starting
  <2>2. ph[th[u].peer] = "none" /\ ph'[th[u].peer] = ph[th[u].peer]
    BY <2>1 DEF Starting
  <2>3. ASSUME NEW v \in Threads \ {u}, th'[v].pc = "start" PROVE th'[v].peer # th'[u].peer
    <3>1. th[v].pc = "start" /\ th'[v].peer = th[v].peer /\ th[u].pc = "start" /\ th'[u].peer = th[u].peer
      BY <2>1, <2>3, Zenon
    <3>2. th[v].peer # th[u].peer
      BY <2>1, <2>3, <3>1, Zenon DEF Starting
    <3> QED BY <3>1, <3>2, Zenon
  <2> QED BY <2>1, <2>2, <2>3, Zenon
<1>5. Phases'
  <2>1. ASSUME NEW r \in DOMAIN obj \ {p} PROVE Phase(r)'
    <3>1. r \in Obj \ {p}
      BY <1>2, Zenon DEF PeersOK
    <3>2. obj'[r] = obj[r] /\ ph'[r] = ph[r] /\ pu'[r] = pu[r] /\ wr'[r] = wr[r]
      BY <1>1, <3>1, Zenon
    <3>3. Phase(r)
      BY Zenon DEF IInv, Phases
    <3> QED BY <3>2, <3>3, Zenon DEF Phase
  <2> QED BY <1>1, <2>1, Zenon DEF Phases
<1>6. Counts'
  <2> SUFFICES ASSUME NEW q \in DOMAIN obj \ {p}
               PROVE  obj'[q].ref = Own(q)' + Cardinality(Holders(q))'
    BY <1>1, ZenonT(30) DEF Counts
  <2>1. Own(q)' = Own(q)
    BY <1>2, Zenon DEF Own, PeersOK
  <2>2. obj'[q].ref = Own(q) + Cardinality(Holders(q)) /\ Holders(q)' = Holders(q)
    BY <1>1, Zenon DEF IInv, Counts
  <2> QED BY <2>1, <2>2, Zenon
<1> QED BY <1>2, <1>3, <1>4, <1>5, <1>6, Zenon DEF IInv, Types

\* The trees and the other shared variables after peers_decr_ref.
LEMMA DecrTrees ==
  ASSUME Types, NEW p \in DOMAIN obj, NEW n, NEW next, DecrRef(p, n, next),
         UNCHANGED <<asked, end_campagnol>>
  PROVE  TreesOK' /\ RestOK'
<1>1. TreesOK /\ RestOK
  BY DEF Types
<1>2. RestOK'
  BY <1>1, Zenon DEF RestOK, DecrRef
<1>3. CASE obj[p].ref = n
  <2>1. vpn_root' = tdelete(vpn_root, obj[p].vpnIP) /\ addr_root' \subseteq addr_root
    BY <1>3, Zenon DEF DecrRef, tdelete_addr
  <2>2. DOMAIN vpn_root' \subseteq DOMAIN vpn_root
    BY <2>1 DEF tdelete, Restrict
  <2> QED BY <1>1, <1>2, <2>1, <2>2, Zenon DEF TreesOK
<1>4. CASE obj[p].ref # n
  BY <1>1, <1>2, <1>4, Zenon DEF DecrRef, TreesOK, trees
<1> QED BY <1>3, <1>4

\* One of the peer's own threads ends: it frees the peer when it was the last
\* to use it.
LEMMA ExitStep ==
  ASSUME IInv, NEW p \in DOMAIN obj, HandlerExits(p) \/ PunchExits(p) \/ WriterExits(p)
  PROVE  IInv'
<1>1. Types /\ WorkersOK /\ PeersOK /\ Phase(p) /\ p \in Obj /\ obj[p] \in Peer
  BY Zenon DEF IInv, Types, PeersOK, Phases
<1>2. PICK n \in {1, 2}, next \in {"done", ph[p]} :
        /\ DecrRef(p, n, next)
        /\ HandlerExits(p) => n = 2 /\ next = "done"
        /\ ~HandlerExits(p) => n = 1 /\ next = ph[p]
  BY Zenon DEF HandlerExits, PunchExits, WriterExits
<1>3. UNCHANGED <<th, asked, end_campagnol>>
  BY Zenon DEF HandlerExits, PunchExits, WriterExits
<1>4. TreesOK' /\ RestOK'
  BY <1>1, <1>2, <1>3, DecrTrees, Zenon
<1>5. Own(p) \in Nat /\ Cardinality(Holders(p)) \in Nat
      /\ obj[p].ref = Own(p) + Cardinality(Holders(p))
  BY HoldersFinite, OwnNat, Zenon DEF IInv, Counts
<1>6. Own(p) >= n
  BY <1>1, <1>2, SMT, SMTT(30) DEF Own, one, HandlerExits, PunchExits, WriterExits, Phase
<1>7. CASE obj[p].ref = n
  <2>1. Cardinality(Holders(p)) = 0 /\ Own(p) = n
    BY <1>5, <1>6, <1>7
  <2>2. Holders(p) = {}
    BY <2>1, HoldersFinite, FS_EmptySet
  <2>3. obj' = Restrict(obj, DOMAIN obj \ {p}) /\ ph' = [ph EXCEPT ![p] = "none"]
    BY <1>2, <1>7, Zenon DEF DecrRef
  <2>4. pu'[p] = "none" /\ wr'[p] = "none"
    BY <1>1, <1>2, <2>1 DEF Own, one, WorkersOK, HandlerExits, PunchExits, WriterExits
  <2>5. WorkersOK' /\ ph'[p] = "none"
        /\ \A r \in Obj \ {p} : ph'[r] = ph[r] /\ pu'[r] = pu[r] /\ wr'[r] = wr[r]
    BY <1>1, <2>3, Zenon DEF WorkersOK, HandlerExits, PunchExits, WriterExits
  <2>6. \A u \in Threads : th'[u].pc \in Holding =>
          th'[u].pc = th[u].pc /\ th'[u].peer = th[u].peer /\ th[u].peer # p
    BY <1>3, <2>2, Zenon DEF Holders, Holds, Holding
  <2>7. ThreadsOK' /\ \A r : Holders(r)' = Holders(r)
    BY <1>1, <1>3, SameThreads, Zenon DEF Types
  <2> QED BY <1>4, <2>3, <2>4, <2>5, <2>6, <2>7, FreeStep, Zenon
<1>8. CASE obj[p].ref # n
  <2> DEFINE m == obj[p].ref - n
  <2>1. obj' = [obj EXCEPT ![p].ref = m] /\ ph' = [ph EXCEPT ![p] = next]
    BY <1>2, <1>8, Zenon DEF DecrRef
  <2>2. m \in Nat
    BY <1>5, <1>6
  <2> HIDE DEF m
  <2>3. /\ DOMAIN obj' = DOMAIN obj /\ \A r \in DOMAIN obj \ {p} : obj'[r] = obj[r]
        /\ obj'[p] = [obj[p] EXCEPT !.ref = m]
    BY <2>1, Zenon
  <2>4. obj'[p] \in Peer /\ obj'[p].state = obj[p].state /\ obj'[p].ref = m
    BY <1>1, <2>2, <2>3, Zenon DEF Peer
  <2>5. ph[p] # "none" /\ Phase(p)' /\ Own(p)' = Own(p) - n
    BY <1>1, <1>2, <2>1, <2>4 DEF Phase, Own, one, WorkersOK, HandlerExits, PunchExits, WriterExits
  <2>6. WorkersOK' /\ \A r \in Obj \ {p} : ph'[r] = ph[r] /\ pu'[r] = pu[r] /\ wr'[r] = wr[r]
    BY <1>1, <1>2, <2>1, Zenon DEF WorkersOK, HandlerExits, PunchExits, WriterExits
  <2>7. Only(p)
    BY <2>3, <2>6, Zenon DEF Only
  <2>8. obj'[p].ref = obj[p].ref + Own(p)' - Own(p)
    BY <1>5, <2>4, <2>5, SMT, SMTT(30) DEF m
  <2>9. UNCHANGED th
    BY <1>3, Zenon
  <2> QED BY <1>4, <2>4, <2>5, <2>6, <2>7, <2>8, <2>9, WorkerStep
<1> QED BY <1>7, <1>8

\* A thread gives up its reference to the peer it has found, and frees the peer
\* when it was the last to use it.
LEMMA ReleaseStep ==
  ASSUME IInv, NEW t \in Threads, Release(t)
  PROVE  IInv'
<1> DEFINE p == th[t].peer
<1>1. Types /\ ThreadsOK /\ WorkersOK /\ PeersOK
  BY Zenon DEF IInv, Types
<1>2. th[t].pc = "decr" /\ DecrRef(p, 1, ph[p]) /\ EndTurn(t) /\ UNCHANGED <<pu, wr, asked, end_campagnol>>
  BY DEF Release
<1>3. p \in DOMAIN obj /\ p \in Obj /\ obj[p] \in Peer /\ Holds(t, p)
  BY <1>1, <1>2, Zenon DEF IInv, Unused, PeersOK, Holding, Holds
<1>4. TreesOK' /\ RestOK'
  BY <1>1, <1>2, <1>3, DecrTrees, Zenon
<1>5. PICK pc \in {"idle", "exit"} : ThreadsOK' /\ Moves(t, pc, NULL)
  BY <1>1, <1>2, EndTurnMoves
<1>6. /\ th'[t].pc \notin Holding
      /\ \A u \in Threads \ {t} : th'[u].pc = th[u].pc /\ th'[u].peer = th[u].peer
  BY <1>5, Zenon DEF Moves, Holding
<1>7. Own(p) \in Nat /\ Cardinality(Holders(p)) \in Nat /\ IsFiniteSet(Holders(p))
      /\ obj[p].ref = Own(p) + Cardinality(Holders(p))
  BY <1>3, HoldersFinite, OwnNat, Zenon DEF IInv, Counts
<1>8. t \in Holders(p) /\ Cardinality(Holders(p) \ {t}) = Cardinality(Holders(p)) - 1
      /\ Cardinality(Holders(p) \ {t}) \in Nat /\ IsFiniteSet(Holders(p) \ {t})
  <2>1. t \in Holders(p)
    BY <1>3 DEF Holders
  <2> QED BY <1>7, <2>1, FS_RemoveElement, FS_CardinalityType
<1> HIDE DEF p
<1>9. CASE obj[p].ref = 1
  <2>1. Own(p) = 0 /\ Cardinality(Holders(p) \ {t}) = 0
    <3>1. ASSUME NEW a \in Nat, NEW b \in Nat, NEW c \in Nat, a + b = 1, c = b - 1
          PROVE  a = 0 /\ c = 0
      BY <3>1
    <3>2. Own(p) + Cardinality(Holders(p)) = 1
      BY <1>7, <1>9, Zenon
    <3> QED BY <1>7, <1>8, <3>1, <3>2, Zenon
  <2>2. Holders(p) \ {t} = {}
    BY <1>8, <2>1, FS_EmptySet, Zenon
  <2>3. obj' = Restrict(obj, DOMAIN obj \ {p}) /\ ph' = [ph EXCEPT ![p] = "none"]
    BY <1>2, <1>9, Zenon DEF DecrRef
  <2>4. pu[p] = "none" /\ wr[p] = "none"
    BY <2>1 DEF Own, one
  <2>5. /\ WorkersOK' /\ ph'[p] = "none" /\ pu'[p] = "none" /\ wr'[p] = "none"
        /\ \A r \in Obj \ {p} : ph'[r] = ph[r] /\ pu'[r] = pu[r] /\ wr'[r] = wr[r]
    BY <1>1, <1>2, <1>3, <2>3, <2>4 DEF WorkersOK
  <2>6. \A u \in Threads : th'[u].pc \in Holding =>
          th'[u].pc = th[u].pc /\ th'[u].peer = th[u].peer /\ th[u].peer # p
    BY <1>6, <2>2, Zenon DEF Holders, Holds, Holding
  <2>7. \A r \in DOMAIN obj \ {p} : Holders(r)' = Holders(r)
    BY <1>2, <1>6 DEF Holders, Holds, Holding, p
  <2> QED BY <1>3, <1>4, <1>5, <2>3, <2>5, <2>6, <2>7, FreeStep, ZenonT(30)
<1>10. CASE obj[p].ref # 1
  <2> DEFINE m == obj[p].ref - 1
  <2>1. obj' = [obj EXCEPT ![p].ref = m] /\ ph' = [ph EXCEPT ![p] = ph[p]]
    BY <1>2, <1>10, Zenon DEF DecrRef
  <2>2. m \in Nat
    BY <1>7, <1>8, SMT, SMTT(30)
  <2> HIDE DEF m
  <2>3. /\ DOMAIN obj' = DOMAIN obj /\ \A r \in DOMAIN obj \ {p} : obj'[r] = obj[r]
        /\ obj'[p] = [obj[p] EXCEPT !.ref = m]
    BY <1>3, <2>1
  <2>4. obj'[p] \in Peer /\ obj'[p].state = obj[p].state /\ obj'[p].ref = m
    BY <1>3, <2>2, <2>3 DEF Peer
  <2>5. PeersOK'
    BY <1>1, <2>3, <2>4 DEF PeersOK
  <2>6. WorkersOK' /\ \A r \in Obj : ph'[r] = ph[r]
    BY <1>1, <1>2, <2>1, Zenon DEF WorkersOK
  <2>7. Types' /\ Stays
    BY <1>2, <1>4, <1>5, <2>3, <2>4, <2>5, <2>6, Zenon DEF Types, Stays
  <2>8. ASSUME NEW r \in DOMAIN obj
        PROVE  obj'[r].ref = obj[r].ref + one(NULL = r /\ pc \in Holding) - one(Holds(t, r))
    <3>1. pc \notin Holding /\ (Holds(t, r) <=> r = p)
      BY <1>2, Zenon DEF Holds, Holding, p
    <3>2. one(NULL = r /\ pc \in Holding) = 0 /\ one(Holds(t, r)) = IF r = p THEN 1 ELSE 0
      BY <3>1, Zenon DEF one
    <3>3. obj[r].ref \in Nat
      BY <1>1, Zenon DEF PeersOK, Peer
    <3>4. CASE r = p
      BY <2>4, <3>2, <3>3, <3>4, SMT, SMTT(30) DEF m
    <3>5. CASE r # p
      BY <2>3, <3>2, <3>3, <3>5
    <3> QED BY <3>4, <3>5, Zenon
  <2>9. pc # "start" /\ (pc \in Holding => NULL \in DOMAIN obj)
    BY DEF Holding
  <2> QED BY <1>5, <2>7, <2>8, <2>9, MoveStep
<1> QED BY <1>9, <1>10
-----------------------------------------------------------------------------
\* The client starts without peers.
LEMMA InitIInv == Init => IInv
<1> SUFFICES ASSUME Init PROVE IInv
  OBVIOUS
<1>1. obj = [p \in {} |-> NULL] /\ DOMAIN obj = {}
  BY Zenon DEF Init
<1>2. \A t \in Threads : th[t] = [pc |-> "idle", msg |-> NoMessage, peer |-> NULL]
  BY DEF Init, Threads, Idle
<1>3. ThreadsOK
  <2>1. DOMAIN th = Threads
    BY Zenon DEF Init, Threads
  <2>2. ASSUME NEW t \in Threads
        PROVE  /\ DOMAIN th[t] = {"pc", "msg", "peer"}
               /\ th[t].pc = "idle" /\ th[t].peer = NULL
    <3> DEFINE r == [pc |-> "idle", msg |-> NoMessage, peer |-> NULL]
    <3>1. DOMAIN r = {"pc", "msg", "peer"} /\ r.pc = "idle" /\ r.peer = NULL
      OBVIOUS
    <3> HIDE DEF r
    <3> QED BY <1>2, <3>1, Zenon DEF r
  <2>3. "idle" \in Positions /\ "idle" \notin {"add", "lock", "got"}
    BY DEF Positions
  <2>4. \A m : MessageOK("idle", m)
    BY <2>3 DEF MessageOK
  <2> QED BY <2>1, <2>2, <2>3, <2>4, Zenon DEF ThreadsOK
<1>4. PeersOK /\ TreesOK /\ WorkersOK /\ RestOK
  BY <1>1, Zenon DEF Init, PeersOK, TreesOK, WorkersOK, RestOK
<1>5. Unused /\ Starting
  BY <1>2 DEF Init, Unused, Starting, Holding
<1>6. Phases /\ Counts
  BY <1>1, Zenon DEF Phases, Counts
<1> QED BY <1>3, <1>4, <1>5, <1>6, Zenon DEF IInv, Types

\* A step that changes none of the variables of the invariant, or only the flag
\* of the signal handler.
LEMMA QuietStep ==
  ASSUME IInv, UNCHANGED <<obj, trees, global, th, workers, asked>>, end_campagnol' \in BOOLEAN
  PROVE  IInv'
<1>1. UNCHANGED th /\ UNCHANGED <<obj, ph, pu, wr>>
  BY Zenon DEF workers
<1>2. Types'
  BY <1>1, SameThreads, Zenon DEF IInv, Types, PeersOK, TreesOK, WorkersOK, RestOK, trees
<1>3. Unused' /\ Starting'
  BY <1>1 DEF IInv, Unused, Starting
<1>4. Phases'
  BY <1>1, Zenon DEF IInv, Phases, Phase
<1>5. Counts'
  BY <1>1, SameThreads, Zenon DEF IInv, Counts, Own
<1> QED BY <1>2, <1>3, <1>4, <1>5, Zenon DEF IInv

\* Every step of every thread keeps the invariant.
LEMMA NextIInv == IInv /\ [Next]_vars => IInv'
<1> SUFFICES ASSUME IInv, [Next]_vars PROVE IInv'
  BY Zenon
<1>1. DOMAIN th = Threads /\ end_campagnol \in BOOLEAN
  BY DEF IInv, Types, ThreadsOK, RestOK
<1>2. CASE UNCHANGED vars \/ Stopped \/ EndSignal
  <2>1. UNCHANGED <<obj, trees, global, th, workers, asked>> /\ end_campagnol' \in BOOLEAN
    BY <1>1, <1>2, Zenon DEF vars, Stopped, EndSignal
  <2> QED BY <2>1, QuietStep
<1>3. ASSUME NEW t \in DOMAIN th, ThreadStep(t) PROVE IInv'
  BY <1>1, <1>3, FoundStep, AddStep, StartStep, ReleaseStep, Zenon DEF ThreadStep
<1>4. ASSUME NEW t \in DOMAIN th, ExitLoop(t) PROVE IInv'
  BY <1>1, <1>4, LoopStep, Zenon
<1>5. ASSUME NEW t \in DOMAIN th, NEW m \in Message(t), Lookup(t, m) PROVE IInv'
  BY <1>1, <1>5, LookupStep, Zenon
<1>6. CASE Broadcast \/ MainStep
  BY <1>6, LoopStep, Zenon
<1>7. ASSUME NEW p \in DOMAIN obj,
             \/ HandlerStep(p) \/ WaitEnds(p) \/ SpuriousWakeup(p) \/ Handshake(p)
             \/ EndSession(p) \/ PunchStep(p) \/ WriterStops(p) \/ WriterExits(p)
      PROVE  IInv'
  <2>1. Working(p) \/ HandlerExits(p) \/ PunchExits(p) \/ WriterExits(p)
    BY <1>7, Zenon DEF Working, HandlerStep, PunchStep
  <2> QED BY <2>1, WorkingStep, ExitStep, Zenon
<1> QED BY <1>2, <1>3, <1>4, <1>5, <1>6, <1>7, Zenon DEF Next

\* The invariant holds in every state of the client.
THEOREM Invariance == Spec => []IInv
  BY InitIInv, NextIInv, PTL DEF Spec

\* The reference count of every peer is the number of threads that use it plus
\* the one of the list (peers_incr_ref, peers_decr_ref), for any number of peers
\* and addresses, whatever the trees return, with failed allocations and
\* condition waits that return by themselves.
THEOREM ReferenceCounts == Spec => []RefCountExact
<1>1. IInv => RefCountExact
  <2> SUFFICES ASSUME IInv PROVE RefCountExact
    BY Zenon
  <2>1. TypeOK
    BY Zenon DEF IInv, Types, TypeOK, ThreadsOK, PeersOK, TreesOK, WorkersOK, RestOK, Positions, Holding
  <2>2. ASSUME NEW p \in DOMAIN obj
        PROVE  obj[p].ref = one(ph[p] # "done") + one(ph[p] \notin {"none", "done"})
                            + one(pu[p] # "none") + one(wr[p] # "none")
                            + Cardinality({t \in DOMAIN th : Holds(t, p)})
    <3>1. {t \in DOMAIN th : Holds(t, p)} = Holders(p)
      BY Zenon DEF IInv, Types, ThreadsOK, Holders
    <3>2. obj[p].ref = Own(p) + Cardinality(Holders(p))
      BY Zenon DEF IInv, Counts
    <3> QED BY <3>1, <3>2, Zenon DEF Own
  <2> QED BY <2>1, <2>2, Zenon DEF RefCountExact
<1> QED BY <1>1, Invariance, PTL

-----------------------------------------------------------------------------

\* The two trees: no allocation fails, no condition wait returns by itself and
\* every other client keeps its endpoint.
NoFaults ==
  /\ ~Spurious /\ ~AllocFails
  /\ \A v \in VpnIP : \E a : Endpoints[v] = {a}

\* The endpoint of a peer is set once, before it enters the tree of endpoints,
\* and peer_handling gets out of the state NEW only after an answer.
Settled(p) ==
  LET o == obj[p]
  IN /\ o.addr \in Endpoints[o.vpnIP] \cup {NoAddr}
     /\ p \in addr_root => o.addr # NoAddr /\ o.key = o.addr /\ o.state # "NEW"
     /\ o.state = "NEW" /\ ph[p] = "woken" => o.answer # "none"
     /\ o.state = "NEW" /\ o.answer = "ANS" => o.addr # NoAddr
     /\ ph[p] = "register" => o.addr # NoAddr

\* An answer to peer_handling has been given, and perhaps been read.
Answering(p) == obj[p].answer # "none" \/ ph[p] = "register"

\* The message and the peer of a thread belong together.
Matched(t) ==
  LET m == th[t].msg
      p == th[t].peer
  IN /\ th[t].pc # "lost"
     /\ th[t].pc = "add" /\ m.type = "FWD" => m.addr \in Endpoints[m.vpnIP]
     /\ th[t].pc \in {"lock", "got"} =>
          /\ m.type = "ANS" => m.addr \in Endpoints[obj[p].vpnIP]
          /\ m.type = "PUNCH" => obj[p].state # "NEW"
     /\ th[t].pc = "signal" /\ obj[p].state = "NEW" => Answering(p)

\* The tree of endpoints has one node for each endpoint.
Distinct == \A p, q \in addr_root : obj[p].addr = obj[q].addr => p = q

TreeInv ==
  /\ TreesNotDangling /\ Distinct
  /\ \A p \in DOMAIN obj : Settled(p)
  /\ \A t \in Threads : Matched(t)

\* A search of the tree of endpoints is exact.
LEMMA SearchExact ==
  ASSUME TreeInv, NEW a, NEW n \in NodesAt(a)
  PROVE  /\ n # NULL => n \in addr_root /\ n \in DOMAIN obj /\ obj[n].addr = a
         /\ n = NULL => NULL \in addr_root \/ \A p \in addr_root : obj[p].addr # a
<1>1. addr_root \subseteq DOMAIN obj /\ \A p \in addr_root : obj[p].key = obj[p].addr
  BY DEF TreeInv, TreesNotDangling, Settled
<1>2. ~Disordered
  BY <1>1, Zenon DEF Disordered
<1> QED BY <1>1, <1>2, Zenon DEF NodesAt

\* NULL is no peer.
LEMMA NotNull ==
  ASSUME IInv
  PROVE  NULL \notin addr_root /\ NULL \notin DOMAIN obj
  BY PeersAssumption, Zenon DEF IInv, Types, TreesOK, PeersOK
-----------------------------------------------------------------------------
(***************************************************************************)
(* Steps that leave the trees alone.                                       *)
(***************************************************************************)
\* The peer p keeps its place in the trees, and no answer to it is forgotten.
Soft(p) ==
  /\ obj'[p].vpnIP = obj[p].vpnIP
  /\ p \in addr_root => obj'[p].addr = obj[p].addr
  /\ obj'[p].state = "NEW" => obj[p].state = "NEW" /\ (Answering(p) => Answering(p)')
  /\ Settled(p)'

\* When all peers do, and the threads that move stay matched, the trees stay right.
LEMMA SoftStep ==
  ASSUME IInv, TreeInv, UNCHANGED trees, DOMAIN obj' = DOMAIN obj,
         \A p \in DOMAIN obj : Soft(p),
         \A t \in Threads : th'[t] = th[t] \/ Matched(t)'
  PROVE  TreeInv'
<1>1. UNCHANGED <<vpn_root, addr_root>>
  BY DEF trees
<1>2. TreesNotDangling'
  BY <1>1, Zenon DEF TreeInv, TreesNotDangling, Soft
<1>3. Distinct'
  <2>1. addr_root' = addr_root
    BY <1>1
  <2>2. ASSUME NEW x \in addr_root PROVE obj'[x].addr = obj[x].addr
    <3>1. x \in DOMAIN obj
      BY Zenon DEF TreeInv, TreesNotDangling
    <3> QED BY <3>1, Zenon DEF Soft
  <2>3. ASSUME NEW x \in addr_root', NEW y \in addr_root', obj'[x].addr = obj'[y].addr PROVE x = y
    <3>1. x \in addr_root /\ y \in addr_root
      BY <2>1, <2>3, Zenon
    <3>2. obj[x].addr = obj[y].addr
      BY <2>2, <2>3, <3>1, Zenon
    <3> QED BY <3>1, <3>2, Zenon DEF TreeInv, Distinct
  <2> QED BY <2>3, Zenon DEF Distinct
<1>4. \A p \in DOMAIN obj' : Settled(p)'
  BY Zenon DEF Soft
<1>5. ASSUME NEW t \in Threads, th'[t] = th[t] PROVE Matched(t)'
  <2> DEFINE q == th[t].peer
  <2>1. Matched(t) /\ (th[t].pc \in Holding => q \in DOMAIN obj)
    BY DEF TreeInv, IInv, Unused
  <2>2. CASE th[t].pc \in Holding
    <3>1. Soft(q)
      BY <2>1, <2>2, Zenon
    <3>2. th'[t].pc = th[t].pc /\ th'[t].msg = th[t].msg /\ th'[t].peer = q
      BY <1>5, Zenon
    <3>3. /\ obj'[q].vpnIP = obj[q].vpnIP
          /\ obj'[q].state = "NEW" => obj[q].state = "NEW"
      BY <3>1, Zenon DEF Soft
    <3>4. th'[t].pc = "signal" /\ obj'[q].state = "NEW" => Answering(th[t].peer)'
      BY <2>1, <3>1, <3>2, Zenon DEF Matched, Soft
    <3> QED BY <2>1, <3>2, <3>3, <3>4, Zenon DEF Matched
  <2>3. CASE th[t].pc \notin Holding
    BY <1>5, <2>1, <2>3, ZenonT(30) DEF Matched, Holding
  <2> QED BY <2>2, <2>3, Zenon
<1> QED BY <1>2, <1>3, <1>4, <1>5, Zenon DEF TreeInv

\* Of the peer p only the count, the mutex and the flag shutdown change.
Unmoved(p) ==
  /\ obj'[p].vpnIP = obj[p].vpnIP /\ obj'[p].addr = obj[p].addr /\ obj'[p].key = obj[p].key
  /\ obj'[p].state = obj[p].state /\ obj'[p].answer = obj[p].answer

\* Its peer_handling thread is neither woken nor registers the endpoint.
Calm(p) == ph'[p] = ph[p] \/ (ph[p] # "register" /\ ph'[p] \notin {"register", "woken"})

\* Such a peer keeps its place.
LEMMA SoftPeer ==
  ASSUME TreeInv, NEW p \in DOMAIN obj, UNCHANGED addr_root, Unmoved(p), Calm(p)
  PROVE  Soft(p)
<1>1. Settled(p)
  BY Zenon DEF TreeInv
<1> QED BY <1>1, Zenon DEF Soft, Settled, Answering, Unmoved, Calm

\* The steps of a peer's own threads, but for the registration of its endpoint.
LEMMA WorkingSoft ==
  ASSUME IInv, TreeInv, NoFaults, NEW p \in DOMAIN obj, Working(p), ~RegisterEndpoint(p)
  PROVE  Soft(p) /\ UNCHANGED trees
<1>1. p \in Obj /\ obj[p] \in Peer /\ p \in DOMAIN ph /\ p \in DOMAIN obj
  BY DEF IInv, Types, PeersOK, WorkersOK
<1>2. Settled(p)
  BY DEF TreeInv
<1>3. ASSUME UNCHANGED trees,
             obj'[p] = obj[p] \/ obj'[p] = [obj[p] EXCEPT !.ref = obj[p].ref + 1],
             Calm(p)
      PROVE  Soft(p) /\ UNCHANGED trees
  <2>1. UNCHANGED addr_root
    BY <1>3 DEF trees
  <2>2. Unmoved(p)
    BY <1>1, <1>3, Zenon DEF Peer, Unmoved
  <2> QED BY <1>3, <2>1, <2>2, SoftPeer, Zenon
<1>4. ASSUME UNCHANGED trees, NEW st \in {"CLOSED", "LINKED", "ESTABLISHED"},
             obj' = [obj EXCEPT ![p].state = st], ph'[p] = "top"
      PROVE  Soft(p) /\ UNCHANGED trees
  <2>1. obj'[p] = [obj[p] EXCEPT !.state = st] /\ UNCHANGED addr_root
    BY <1>4 DEF trees
  <2> QED BY <1>1, <1>2, <1>4, <2>1, Zenon DEF Soft, Settled, Peer
<1>5. CASE Ask(p)
  BY <1>1, <1>3, <1>5, Zenon DEF Ask, AtTop, Calm
<1>6. CASE StartPunch(p)
  BY <1>1, <1>3, <1>6, Zenon DEF StartPunch, AtTop, Calm
<1>7. CASE WaitEnds(p)
  BY <1>1, <1>3, <1>7, Zenon DEF WaitEnds, Calm
<1>8. CASE StartHandshake(p)
  BY <1>1, <1>3, <1>8, Zenon DEF StartHandshake, AtTop, Calm
<1>9. CASE Establish(p)
  BY <1>1, <1>3, <1>9, Zenon DEF Establish, AtTop, Calm
<1>10. CASE Closed(p)
  BY <1>1, <1>3, <1>10, Zenon DEF Closed, AtTop, Calm
<1>11. CASE PunchStops(p)
  BY <1>1, <1>3, <1>11 DEF PunchStops, Calm
<1>12. CASE WriterStops(p)
  BY <1>1, <1>3, <1>12, Zenon DEF WriterStops, Calm
<1>13. CASE HandlerGivesUp(p)
  BY <1>1, <1>4, <1>13, Zenon DEF HandlerGivesUp, SetState, AtTop, workers
<1>14. CASE Linked(p)
  BY <1>1, <1>4, <1>14, Zenon DEF Linked, SetState
<1>15. CASE Handshake(p)
  BY <1>1, <1>4, <1>15, Zenon DEF Handshake, SetState
<1>16. CASE EndSession(p)
  BY <1>1, <1>4, <1>16, Zenon DEF EndSession, SetState
<1>17. CASE Answered(p)
  <2>1. UNCHANGED <<trees, addr_root>>
    BY <1>17, Zenon DEF Answered, trees
  <2>2. CASE obj' = [obj EXCEPT ![p].state = "CLOSED", ![p].answer = "none"] /\ ph' = [ph EXCEPT ![p] = "top"]
    <3>1. obj'[p] = [obj[p] EXCEPT !.state = "CLOSED", !.answer = "none"] /\ ph'[p] = "top"
      BY <1>1, <2>2, Zenon
    <3> QED BY <1>1, <1>2, <2>1, <3>1, Zenon DEF Soft, Settled, Peer
  <2>3. CASE /\ obj[p].answer # "REJ" /\ ph[p] = "woken"
             /\ obj' = [obj EXCEPT ![p].locked = TRUE, ![p].answer = "none"]
             /\ ph' = [ph EXCEPT ![p] = "register"]
    <3>1. obj'[p] = [obj[p] EXCEPT !.locked = TRUE, !.answer = "none"] /\ ph'[p] = "register"
      BY <1>1, <2>3, Zenon
    <3>2. obj[p].addr # NoAddr /\ obj[p].state = "NEW"
      BY <1>1, <1>2, <1>17, <2>3, Zenon DEF Answered, Settled, Peer
    <3> QED BY <1>1, <1>2, <2>1, <3>1, <3>2, Zenon DEF Soft, Settled, Peer, Answering
  <2> QED BY <1>17, <2>2, <2>3, Zenon DEF Answered
<1>18. ~SpuriousWakeup(p)
  BY Zenon DEF SpuriousWakeup, NoFaults
<1> QED
    BY <1>5, <1>6, <1>7, <1>8, <1>9, <1>10, <1>11, <1>12, <1>13, <1>14, <1>15, <1>16,
       <1>17, <1>18, Zenon DEF Working

\* So they keep the trees.
LEMMA WorkingTrees ==
  ASSUME IInv, TreeInv, NoFaults, NEW p \in DOMAIN obj, Working(p), ~RegisterEndpoint(p)
  PROVE  TreeInv'
<1>1. UNCHANGED th /\ Only(p) /\ Soft(p) /\ UNCHANGED trees
  BY WorkingTypes, WorkingSoft, Zenon DEF IInv
<1>2. ASSUME NEW q \in DOMAIN obj \ {p} PROVE Soft(q)
  <2>1. obj'[q] = obj[q] /\ ph'[q] = ph[q] /\ UNCHANGED addr_root
    BY <1>1, Zenon DEF Only, trees, IInv, Types, PeersOK
  <2> QED BY <2>1, SoftPeer DEF Unmoved, Calm
<1> QED BY <1>1, <1>2, SoftStep, Zenon DEF Only

\* The steps of the three threads that change at most the count, the mutex or
\* the flag shutdown of the peers, and do not wake a peer in state NEW.
LEMMA QuietTrees ==
  ASSUME IInv, TreeInv, UNCHANGED trees, DOMAIN obj' = DOMAIN obj,
         \A p \in DOMAIN obj : Unmoved(p) /\ Calm(p),
         \A t \in Threads : th'[t] = th[t] \/ Matched(t)'
  PROVE  TreeInv'
<1>1. UNCHANGED addr_root
  BY Zenon DEF trees
<1>2. \A p \in DOMAIN obj : Soft(p)
  BY <1>1, SoftPeer, Zenon
<1> QED BY <1>2, SoftStep, ZenonT(30)

\* A thread that goes on without a peer.
LEMMA UnmatchedThread ==
  ASSUME NEW t, th'[t].pc \notin {"lost", "add", "lock", "got", "signal"}
  PROVE  Matched(t)'
  BY DEF Matched

\* The peers are the same but for the count, the mutex and the flag shutdown.
LEMMA SameFields ==
  ASSUME PeersOK, NEW p \in DOMAIN obj, NEW n, NEW b, NEW s,
         \/ obj' = obj
         \/ obj' = [obj EXCEPT ![p].locked = b]
         \/ obj' = [obj EXCEPT ![p].shutdown = s]
         \/ obj' = [obj EXCEPT ![p].ref = n]
         \/ obj' = [obj EXCEPT ![p].ref = n, ![p].locked = b]
  PROVE  DOMAIN obj' = DOMAIN obj /\ \A q \in DOMAIN obj : Unmoved(q)
<1>1. DOMAIN obj' = DOMAIN obj /\ \A q \in DOMAIN obj \ {p} : obj'[q] = obj[q]
  OBVIOUS
<1>2. obj[p] \in Peer
  BY DEF PeersOK
<1>3. \/ obj'[p] = obj[p]
      \/ obj'[p] = [obj[p] EXCEPT !.locked = b]
      \/ obj'[p] = [obj[p] EXCEPT !.shutdown = s]
      \/ obj'[p] = [obj[p] EXCEPT !.ref = n]
      \/ obj'[p] = [obj[p] EXCEPT !.ref = n, !.locked = b]
  OBVIOUS
<1>4. Unmoved(p)
  BY <1>2, <1>3, Zenon DEF Peer, Unmoved
<1> QED BY <1>1, <1>4 DEF Unmoved

\* The loops' ends, broadcast packets and the end of start_vpn.
LEMMA LoopTrees ==
  ASSUME IInv, TreeInv, Broadcast \/ MainStep \/ \E t \in Threads : ExitLoop(t)
  PROVE  TreeInv'
<1>1. ThreadsOK /\ PeersOK /\ "tun" \in Threads
  BY Zenon DEF IInv, Types, Threads
<1>2. UNCHANGED trees /\ UNCHANGED ph
  BY DEF Broadcast, MainStep, ExitLoop, BroadcastEnds, Teardown, TeardownEnds, Finish,
         BroadcastTo, EndPeerHandling, workers
<1>3. DOMAIN obj' = DOMAIN obj /\ \A q \in DOMAIN obj : Unmoved(q)
  <2>1. obj' = obj \/ \E p \in DOMAIN obj : obj' = [obj EXCEPT ![p].shutdown = TRUE]
    BY Zenon DEF Broadcast, MainStep, ExitLoop, BroadcastEnds, Teardown, TeardownEnds, Finish,
           BroadcastTo, EndPeerHandling
  <2>2. CASE obj' = obj
    BY <2>2 DEF Unmoved
  <2>3. ASSUME NEW p \in DOMAIN obj, obj' = [obj EXCEPT ![p].shutdown = TRUE]
        PROVE  DOMAIN obj' = DOMAIN obj /\ \A q \in DOMAIN obj : Unmoved(q)
    BY <1>1, <2>3, SameFields, Zenon
  <2> QED BY <2>1, <2>2, <2>3, Zenon
<1>4. PICK t \in Threads : /\ th'[t].pc \notin {"lost", "add", "lock", "got", "signal"}
                           /\ \A u \in Threads \ {t} : th'[u] = th[u]
  <2>1. ASSUME NEW t \in Threads, ExitLoop(t)
        PROVE  th'[t].pc = "exit" /\ \A u \in Threads \ {t} : th'[u] = th[u]
    BY <1>1, <2>1, Zenon DEF ExitLoop, Goto, ThreadsOK
  <2>2. CASE Broadcast \/ Teardown \/ TeardownEnds \/ Finish
    BY <1>1, <2>2 DEF Broadcast, Teardown, TeardownEnds, Finish, Goto, ThreadsOK, Idle
  <2>3. CASE BroadcastEnds
    BY <1>1, <2>3, Zenon DEF BroadcastEnds, EndTurn, Idle, ThreadsOK
  <2>4. ASSUME NEW p \in DOMAIN obj, BroadcastTo(p) \/ EndPeerHandling(p)
        PROVE  /\ th'["tun"].pc \in {"broadcast", "teardown"}
               /\ \A u \in Threads \ {"tun"} : th'[u] = th[u]
    BY <1>1, <2>4, Zenon DEF BroadcastTo, EndPeerHandling, ThreadsOK
  <2> QED BY <1>1, <2>1, <2>2, <2>3, <2>4, Zenon DEF MainStep
<1>5. \A u \in Threads : th'[u] = th[u] \/ Matched(u)'
  BY <1>4, UnmatchedThread, Zenon
<1> QED BY <1>2, <1>3, <1>5, QuietTrees, Zenon DEF Calm

\* What the threads do with a peer they have found.
LEMMA FoundTrees ==
  ASSUME IInv, TreeInv, NoFaults, NEW t \in Threads,
         LookupLocks(t) \/ Forward(t) \/ Punched(t) \/ Answer(t) \/ Signal(t)
  PROVE  TreeInv'
<1>0. PICK p, m : p = th[t].peer /\ m = th[t].msg
  OBVIOUS
<1>1. ThreadsOK /\ PeersOK /\ WorkersOK /\ Matched(t)
  BY DEF IInv, Types, TreeInv
<1>2. th[t].pc \in {"lock", "got", "signal"}
  BY ZenonT(30) DEF LookupLocks, Forward, Punched, Answer, Signal
<1>3. p \in DOMAIN obj /\ p \in Obj /\ obj[p] \in Peer /\ p \in DOMAIN ph /\ Settled(p)
  BY <1>0, <1>1, <1>2, ZenonT(30) DEF IInv, Unused, PeersOK, WorkersOK, Holding, TreeInv
<1>4. UNCHANGED trees /\ UNCHANGED addr_root
  BY Zenon DEF LookupLocks, Forward, Punched, Answer, Signal, trees
<1>5. \A u \in Threads \ {t} : th'[u] = th[u]
  BY <1>1 DEF ThreadsOK, LookupLocks, Forward, Punched, Answer, Signal, Goto, Handled
<1>6. CASE LookupLocks(t) \/ Forward(t)
  <2>1. PICK b \in BOOLEAN : obj' = [obj EXCEPT ![p].locked = b]
    BY <1>0, <1>6, Zenon DEF LookupLocks, Forward
  <2>2. DOMAIN obj' = DOMAIN obj /\ \A q \in DOMAIN obj : Unmoved(q)
    BY <1>1, <1>3, <2>1, SameFields, Zenon
  <2>3. \A q \in DOMAIN obj : Calm(q)
    BY <1>6, Zenon DEF LookupLocks, Forward, workers, Calm
  <2>4. Matched(t)'
    <3>1. CASE LookupLocks(t)
      <4>1. th'[t].pc = "got" /\ th'[t].msg = m /\ th'[t].peer = p /\ th[t].pc = "lock"
        BY <1>0, <1>1, <3>1, Zenon DEF LookupLocks, Goto, ThreadsOK
      <4>2. Unmoved(p)
        BY <1>3, <2>2
      <4> QED BY <1>0, <1>1, <4>1, <4>2, Zenon DEF Matched, Unmoved
    <3>2. CASE Forward(t)
      BY <1>1, <3>2, UnmatchedThread, Zenon DEF Forward, Handled, ThreadsOK
    <3> QED BY <1>6, <3>1, <3>2, Zenon
  <2> QED BY <1>4, <1>5, <2>2, <2>3, <2>4, QuietTrees, ZenonT(30)
<1>7. CASE Punched(t) \/ Signal(t)
  <2>1. DOMAIN obj' = DOMAIN obj /\ \A q \in DOMAIN obj : Unmoved(q)
    <3>1. obj' = obj \/ obj' = [obj EXCEPT ![p].locked = FALSE]
      BY <1>0, <1>7, Zenon DEF Punched, Signal
    <3> QED BY <1>1, <1>3, <3>1, SameFields, Zenon
  <2>2. ph' = [ph EXCEPT ![p] = IF @ = "wait" THEN "woken" ELSE @]
    BY <1>0, <1>7 DEF Punched, Signal, SignalConnected
  <2>3. Soft(p)
    <3>1. Unmoved(p) /\ ph'[p] = IF ph[p] = "wait" THEN "woken" ELSE ph[p]
      BY <1>3, <2>1, <2>2, Zenon
    <3>2. obj[p].state # "NEW" \/ Answering(p)
      BY <1>0, <1>1, <1>7, Zenon DEF Punched, Signal, Matched
    <3>3. obj[p].state = "NEW" /\ ph[p] = "wait" => obj[p].answer # "none"
      BY <3>2 DEF Answering
    <3>4. Settled(p)'
      BY <1>3, <1>4, <3>1, <3>3, ZenonT(30) DEF Settled, Unmoved
    <3>5. Answering(p) => Answering(p)'
      BY <3>1, Zenon DEF Answering, Unmoved
    <3> QED BY <3>1, <3>4, <3>5, Zenon DEF Soft, Unmoved
  <2>4. ASSUME NEW q \in DOMAIN obj \ {p} PROVE Soft(q)
    <3>1. Unmoved(q) /\ Calm(q)
      BY <1>1, <2>1, <2>2, Zenon DEF Calm, WorkersOK, PeersOK
    <3> QED BY <1>4, <3>1, SoftPeer, Zenon
  <2>5. Matched(t)'
    BY <1>1, <1>7, UnmatchedThread DEF Punched, Signal, Handled, ThreadsOK
  <2> QED BY <1>4, <1>5, <2>1, <2>3, <2>4, <2>5, SoftStep, Zenon
<1>8. CASE Answer(t)
  <2> DEFINE ans == IF obj[p].state = "NEW" THEN m.type ELSE obj[p].answer
             a == IF m.type = "ANS" THEN m.addr ELSE obj[p].addr
  <2>1. /\ obj' = [obj EXCEPT ![p].locked = FALSE, ![p].answer = ans, ![p].addr = a]
        /\ th[t].pc = "got" /\ m.type \in {"ANS", "REJ"} /\ UNCHANGED ph
    BY <1>0, <1>8 DEF Answer, workers
  <2>2. /\ a \in Endpoints[obj[p].vpnIP] \cup {NoAddr}
        /\ m.type = "ANS" => a # NoAddr
        /\ obj[p].addr # NoAddr => a = obj[p].addr
    <3>1. obj[p].vpnIP \in VpnIP /\ obj[p].addr \in Endpoints[obj[p].vpnIP] \cup {NoAddr}
      BY <1>3, Zenon DEF Peer, Settled
    <3>2. PICK e : Endpoints[obj[p].vpnIP] = {e}
      BY <3>1, Zenon DEF NoFaults
    <3>3. m.type = "ANS" => m.addr \in Endpoints[obj[p].vpnIP]
      BY <1>0, <1>1, <2>1 DEF Matched
    <3>4. e # NoAddr
      BY <3>1, <3>2, PeersAssumption, Zenon
    <3> QED BY <3>1, <3>2, <3>3, <3>4
  <2>3. ans # "none" \/ obj[p].state # "NEW"
    BY <2>1
  <2>4. ans = "ANS" /\ obj[p].state = "NEW" => a # NoAddr
    BY <2>2, Zenon
  <2> HIDE DEF ans, a
  <2>5. /\ DOMAIN obj' = DOMAIN obj /\ \A q \in DOMAIN obj \ {p} : obj'[q] = obj[q]
        /\ obj'[p] = [obj[p] EXCEPT !.locked = FALSE, !.answer = ans, !.addr = a]
    BY <1>3, <2>1, Zenon
  <2>6. /\ obj'[p].addr = a /\ obj'[p].answer = ans /\ obj'[p].state = obj[p].state
        /\ obj'[p].vpnIP = obj[p].vpnIP /\ obj'[p].key = obj[p].key
    BY <1>3, <2>5, Zenon DEF Peer
  <2>7. Soft(p)
    <3>1. Settled(p)'
      BY <1>3, <1>4, <2>1, <2>2, <2>3, <2>4, <2>6 DEF Settled
    <3>2. obj[p].state = "NEW" => Answering(p)'
      BY <2>3, <2>6 DEF Answering
    <3>3. p \in addr_root => a = obj[p].addr
      BY <1>3, <2>2 DEF Settled
    <3> QED BY <2>6, <3>1, <3>2, <3>3 DEF Soft
  <2>8. ASSUME NEW q \in DOMAIN obj \ {p} PROVE Soft(q)
    BY <1>4, <2>1, <2>5, SoftPeer, Zenon DEF Unmoved, Calm
  <2>9. Matched(t)'
    <3>1. th'[t].pc = "signal" /\ th'[t].peer = p
      BY <1>0, <1>1, <1>8, Zenon DEF Answer, Goto, ThreadsOK
    <3> QED BY <2>3, <2>6, <3>1, Zenon DEF Matched, Answering
  <2> QED BY <1>4, <1>5, <2>5, <2>7, <2>8, <2>9, SoftStep, Zenon
<1> QED BY <1>6, <1>7, <1>8, Zenon

\* start_peer_handling
LEMMA StartTrees ==
  ASSUME IInv, TreeInv, NEW t \in Threads, Start(t)
  PROVE  TreeInv'
<1> DEFINE p == th[t].peer
<1>1. ThreadsOK /\ PeersOK /\ WorkersOK
  BY DEF IInv, Types
<1>2. p \in DOMAIN obj /\ p \in Obj /\ ph[p] = "none"
  BY <1>1 DEF Start, IInv, Unused, Starting, PeersOK, Holding
<1>3. PICK n : obj' = [obj EXCEPT ![p].ref = n]
  BY Zenon DEF Start
<1>4. DOMAIN obj' = DOMAIN obj /\ \A q \in DOMAIN obj : Unmoved(q)
  BY <1>1, <1>2, <1>3, SameFields, Zenon
<1>5. \A q \in DOMAIN obj : Calm(q)
  BY <1>1, <1>2, Zenon DEF Start, WorkersOK, PeersOK, Calm
<1>6. UNCHANGED trees /\ \A u \in Threads \ {t} : th'[u] = th[u]
  BY <1>1 DEF Start, Handled, ThreadsOK
<1>7. Matched(t)'
  BY <1>1, UnmatchedThread, Zenon DEF Start, Handled, ThreadsOK
<1> QED BY <1>4, <1>5, <1>6, <1>7, QuietTrees

\* What a thread that goes on to add the peer of a message holds.
LEMMA AddThread ==
  ASSUME NEW msg
  PROVE  LET held == [pc |-> "add", msg |-> msg, peer |-> NULL]
         IN  held.pc = "add" /\ held.msg = msg
  OBVIOUS

\* The messages of the server name endpoints of the client they are about.
LEMMA MessageEndpoints ==
  ASSUME NEW t \in Threads, NEW m \in Message(t), m.type \in {"ANS", "FWD", "packet"}
  PROVE  /\ m.type # "packet" => t = "rdv" /\ m.addr \in Endpoints[m.vpnIP]
         /\ m.type = "packet" => t = "tun"
<1>1. CASE t = "tun"
  BY <1>1 DEF Message
<1>2. CASE t = "sock"
  BY <1>2, Zenon DEF Message
<1>3. CASE t = "rdv"
  <2> DEFINE REJ == [type : {"REJ"}, vpnIP : asked]
             ANS == UNION {[type : {"ANS"}, vpnIP : {v}, addr : Endpoints[v]] : v \in asked}
             FWD == UNION {[type : {"FWD"}, vpnIP : {v}, addr : Endpoints[v]] : v \in VpnIP}
  <2>1. m \in REJ => m.type = "REJ"
    BY Zenon
  <2>2. ASSUME NEW v, NEW x, m \in [type : {x}, vpnIP : {v}, addr : Endpoints[v]]
        PROVE  m.type = x /\ m.vpnIP = v /\ m.addr \in Endpoints[v]
    BY <2>2, Zenon
  <2>3. m \in ANS => m.type = "ANS" /\ m.addr \in Endpoints[m.vpnIP]
    BY <2>2, Zenon
  <2>4. m \in FWD => m.type = "FWD" /\ m.addr \in Endpoints[m.vpnIP]
    BY <2>2
  <2>5. m \in RdvMessage
    BY <1>3, Zenon DEF Message
  <2>6. RdvMessage = REJ \cup ANS \cup FWD
    BY DEF RdvMessage
  <2> HIDE DEF REJ, ANS, FWD
  <2>7. m \in REJ \cup ANS \cup FWD
    BY <2>5, <2>6, Zenon
  <2> QED BY <1>3, <2>1, <2>3, <2>4, <2>7
<1> QED BY <1>1, <1>2, <1>3, Zenon DEF Threads

\* A lookup finds NULL or an allocated peer: the one its message is for.
LEMMA LookupFinds ==
  ASSUME IInv, TreeInv, NEW t \in Threads, NEW m \in Message(t),
         NEW p \in IF t = "sock" THEN NodesAt(m.addr) ELSE {tfind(vpn_root, m.vpnIP)}
  PROVE  /\ p \notin Obj \ DOMAIN obj
         /\ p \in DOMAIN obj =>
              /\ m.type = "ANS" => m.addr \in Endpoints[obj[p].vpnIP]
              /\ m.type = "PUNCH" => obj[p].state # "NEW"
<1>1. NULL \notin Obj
  BY PeersAssumption, Zenon
<1>2. CASE t = "sock"
  <2>1. p # NULL => p \in addr_root /\ p \in DOMAIN obj
    BY <1>2, SearchExact, Zenon
  <2>2. p \in addr_root /\ p \in DOMAIN obj => obj[p].state # "NEW"
    BY DEF TreeInv, Settled
  <2>3. m.type # "ANS"
    BY <1>2, Zenon DEF Message
  <2>4. p \in DOMAIN obj => p # NULL
    BY NotNull, Zenon
  <2> QED BY <1>1, <2>1, <2>2, <2>3, <2>4, Zenon
<1>3. CASE t # "sock"
  <2>1. p = IF m.vpnIP \in DOMAIN vpn_root THEN vpn_root[m.vpnIP] ELSE NULL
    BY <1>3, Zenon DEF tfind
  <2>2. p # NULL => p \in DOMAIN obj /\ obj[p].vpnIP = m.vpnIP
    BY <2>1 DEF TreeInv, TreesNotDangling
  <2>3. m.type # "PUNCH"
    <3>1. CASE t = "tun"
      BY <3>1, Zenon DEF Message
    <3>2. CASE t = "rdv"
      <4>1. m \in RdvMessage
        BY <3>2, Zenon DEF Message
      <4> QED BY <4>1 DEF RdvMessage
    <3> QED BY <1>3, <3>1, <3>2, Zenon DEF Threads
  <2>4. m.type = "ANS" => m.addr \in Endpoints[m.vpnIP]
    BY MessageEndpoints
  <2>5. p \in DOMAIN obj => p # NULL
    BY NotNull
  <2> QED BY <1>1, <2>2, <2>3, <2>4, <2>5, Zenon
<1> QED BY <1>2, <1>3, Zenon

\* A lookup, whatever it finds.
LEMMA LookupTrees ==
  ASSUME IInv, TreeInv, NEW t \in Threads, NEW m \in Message(t), Lookup(t, m)
  PROVE  TreeInv'
<1>1. ThreadsOK /\ PeersOK
  BY DEF IInv, Types
<1>2. UNCHANGED trees /\ UNCHANGED workers
  BY Zenon DEF Lookup
<1>3. \A q \in DOMAIN obj : Calm(q)
  BY <1>2, Zenon DEF Calm, workers
<1>4. ASSUME UNCHANGED obj, \A u \in Threads : th'[u] = th[u] \/ Matched(u)'
      PROVE  TreeInv'
  <2>1. DOMAIN obj' = DOMAIN obj /\ \A q \in DOMAIN obj : Unmoved(q)
    BY <1>4 DEF Unmoved
  <2> QED BY <1>2, <1>3, <1>4, <2>1, QuietTrees
<1>5. ASSUME UNCHANGED obj, m.type \in {"packet", "FWD"},
             th' = [th EXCEPT ![t] = [pc |-> "add", msg |-> m, peer |-> NULL]]
      PROVE  TreeInv'
  <2>1. th'[t] = [pc |-> "add", msg |-> m, peer |-> NULL] /\ \A u \in Threads \ {t} : th'[u] = th[u]
    BY <1>1, <1>5 DEF ThreadsOK
  <2>2. m.type = "FWD" => m.addr \in Endpoints[m.vpnIP]
    BY MessageEndpoints
  <2>3. th'[t].pc = "add" /\ th'[t].msg = m
    BY <2>1, AddThread, ZenonT(30)
  <2>4. Matched(t)'
    BY <2>2, <2>3, ZenonT(30) DEF Matched
  <2> QED BY <1>4, <1>5, <2>1, <2>4, Zenon
<1>6. ASSUME UNCHANGED obj, EndTurn(t)
      PROVE  TreeInv'
  <2>1. th'[t].pc \in {"idle", "exit"} /\ \A u \in Threads \ {t} : th'[u] = th[u]
    BY <1>1, <1>6, Zenon DEF EndTurn, Idle, ThreadsOK
  <2>2. Matched(t)'
    BY <2>1, UnmatchedThread, Zenon
  <2> QED BY <1>4, <1>6, <2>1, <2>2, Zenon
<1>7. ASSUME NEW p \in DOMAIN obj, NEW pc \in {"lock", "got"},
             m.type = "ANS" => m.addr \in Endpoints[obj[p].vpnIP],
             m.type = "PUNCH" => obj[p].state # "NEW",
             th' = [th EXCEPT ![t] = [pc |-> pc, msg |-> m, peer |-> p]],
             obj' = [obj EXCEPT ![p].ref = @ + 1, ![p].locked = TRUE]
      PROVE  TreeInv'
  <2>1. PICK n : obj' = [obj EXCEPT ![p].ref = n, ![p].locked = TRUE]
    BY <1>7, Zenon
  <2>2. DOMAIN obj' = DOMAIN obj /\ \A q \in DOMAIN obj : Unmoved(q)
    BY <1>1, <2>1, SameFields, Zenon
  <2>3. th'[t] = [pc |-> pc, msg |-> m, peer |-> p] /\ \A u \in Threads \ {t} : th'[u] = th[u]
    BY <1>1, <1>7, Zenon DEF ThreadsOK
  <2>4. Unmoved(p)
    BY <2>2, Zenon
  <2>5. Matched(t)'
    BY <1>7, <2>3, <2>4 DEF Matched, Unmoved
  <2> QED BY <1>2, <1>3, <2>2, <2>3, <2>5, QuietTrees, Zenon
<1> QED
  <2>1. PICK p \in IF t = "sock" THEN NodesAt(m.addr) ELSE {tfind(vpn_root, m.vpnIP)} :
                 \/ /\ p = NULL
                    /\ IF m.type \in {"packet", "FWD"}
                       THEN th' = [th EXCEPT ![t] = [pc |-> "add", msg |-> m, peer |-> NULL]]
                       ELSE EndTurn(t)
                    /\ UNCHANGED <<obj, global>>
                 \/ /\ p \in DOMAIN obj
                    /\ th' = [th EXCEPT ![t] = [pc |-> IF obj[p].locked THEN "lock" ELSE "got",
                                                msg |-> m, peer |-> p]]
                    /\ obj' = [obj EXCEPT ![p].ref = @ + 1, ![p].locked = TRUE]
                 \/ p \in Obj \ DOMAIN obj
    BY Zenon DEF Lookup
  <2>2. CASE p = NULL /\ UNCHANGED <<obj, global>>
             /\ IF m.type \in {"packet", "FWD"}
                THEN th' = [th EXCEPT ![t] = [pc |-> "add", msg |-> m, peer |-> NULL]]
                ELSE EndTurn(t)
    <3>1. UNCHANGED obj
      BY <2>2
    <3> QED BY <1>5, <1>6, <2>2, <3>1, Zenon
  <2>3. CASE /\ p \in DOMAIN obj
             /\ th' = [th EXCEPT ![t] = [pc |-> IF obj[p].locked THEN "lock" ELSE "got",
                                         msg |-> m, peer |-> p]]
             /\ obj' = [obj EXCEPT ![p].ref = @ + 1, ![p].locked = TRUE]
    <3> DEFINE pc == IF obj[p].locked THEN "lock" ELSE "got"
    <3>1. pc \in {"lock", "got"}
      OBVIOUS
    <3> HIDE DEF pc
    <3>2. th' = [th EXCEPT ![t] = [pc |-> pc, msg |-> m, peer |-> p]]
      BY <2>3 DEF pc
    <3>3. /\ m.type = "ANS" => m.addr \in Endpoints[obj[p].vpnIP]
          /\ m.type = "PUNCH" => obj[p].state # "NEW"
      BY <2>3, LookupFinds, Zenon
    <3> QED BY <1>7, <2>3, <3>1, <3>2, <3>3, Zenon
  <2>4. p \notin Obj \ DOMAIN obj
    BY LookupFinds, Zenon
  <2> QED BY <2>1, <2>2, <2>3, <2>4, Zenon
-----------------------------------------------------------------------------
(***************************************************************************)
(* Steps that change the trees.                                            *)
(***************************************************************************)
\* A peer is put at a node of its endpoint, unless there is one already.
LEMMA InsertExact ==
  ASSUME IInv, TreeInv, NEW a, NEW p, tsearch_addr(a, p)
  PROVE  \/ addr_root' = addr_root
         \/ addr_root' = addr_root \cup {p} /\ \A q \in addr_root : obj[q].addr # a
<1>1. PICK n \in NodesAt(a) : addr_root' = IF n = NULL THEN addr_root \cup {p} ELSE addr_root
  BY DEF tsearch_addr
<1> QED BY <1>1, SearchExact, NotNull, Zenon

\* peers_register_endpoint
LEMMA RegisterTrees ==
  ASSUME IInv, TreeInv, NEW p \in DOMAIN obj, RegisterEndpoint(p)
  PROVE  TreeInv'
<1>1. p \in Obj /\ obj[p] \in Peer /\ p \in DOMAIN ph /\ Settled(p) /\ Phase(p)
  BY DEF IInv, Types, PeersOK, WorkersOK, TreeInv, Phases
<1>2. ph[p] = "register" /\ ph' = [ph EXCEPT ![p] = "top"] /\ UNCHANGED <<vpn_root, th>>
  BY DEF RegisterEndpoint
<1>3. obj[p].addr # NoAddr /\ obj[p].state = "NEW" /\ p \notin addr_root
  BY <1>1, <1>2, Zenon DEF Settled, Phase
<1> DEFINE a == obj[p].addr
<1>4. PICK st \in {"PUNCHING", "CLOSED"}, k \in {a} :
        /\ \/ obj' = [obj EXCEPT ![p].locked = FALSE, ![p].state = st, ![p].key = k] /\ k = a
           \/ obj' = [obj EXCEPT ![p].locked = FALSE, ![p].state = st] /\ UNCHANGED addr_root
        /\ addr_root' = addr_root \/ (addr_root' = addr_root \cup {p} /\ \A q \in addr_root : obj[q].addr # a)
  BY InsertExact, Zenon DEF RegisterEndpoint
<1>5. /\ DOMAIN obj' = DOMAIN obj /\ \A q \in DOMAIN obj \ {p} : obj'[q] = obj[q] /\ ph'[q] = ph[q]
      /\ ph'[p] = "top"
  BY <1>1, <1>2, <1>4, Zenon DEF IInv, Types, PeersOK, WorkersOK
<1>6. /\ \/ obj'[p] = [obj[p] EXCEPT !.locked = FALSE, !.state = st, !.key = k] /\ k = a
         \/ obj'[p] = [obj[p] EXCEPT !.locked = FALSE, !.state = st] /\ UNCHANGED addr_root
  BY <1>4, Zenon
<1>7. /\ obj'[p].vpnIP = obj[p].vpnIP /\ obj'[p].addr = a /\ obj'[p].state = st
      /\ addr_root' = addr_root \/ obj'[p].key = a
  BY <1>1, <1>6, Zenon DEF Peer
<1> HIDE DEF a
<1>8. TreesNotDangling'
  BY <1>2, <1>4, <1>5, <1>7 DEF TreeInv, TreesNotDangling
<1>9. Distinct'
  <2>1. addr_root \subseteq DOMAIN obj \ {p}
    BY <1>3, Zenon DEF TreeInv, TreesNotDangling
  <2> QED BY <1>4, <1>5, <1>7, <2>1 DEF TreeInv, Distinct
<1>10. ASSUME NEW q \in DOMAIN obj' PROVE Settled(q)'
  <2>1. Settled(q)
    BY <1>5, Zenon DEF TreeInv
  <2>2. CASE q = p
    BY <1>1, <1>3, <1>4, <1>5, <1>7, <2>2, Zenon DEF Settled, a
  <2>3. CASE q # p
    <3>1. obj'[q] = obj[q] /\ ph'[q] = ph[q] /\ (q \in addr_root' => q \in addr_root)
      BY <1>4, <1>5, <2>3, Zenon
    <3> QED BY <2>1, <3>1, Zenon DEF Settled
  <2> QED BY <2>2, <2>3, Zenon
<1>11. ASSUME NEW t \in Threads PROVE Matched(t)'
  <2>1. PICK q : q = th[t].peer
    BY Zenon
  <2>2. Matched(t) /\ th'[t] = th[t] /\ (th[t].pc \in Holding => q \in DOMAIN obj)
    BY <1>2, <2>1, Zenon DEF TreeInv, IInv, Unused
  <2>3. q \in DOMAIN obj => /\ obj'[q].vpnIP = obj[q].vpnIP
                            /\ obj'[q].state = "NEW" => obj'[q] = obj[q] /\ ph'[q] = ph[q] /\ obj[q].state = "NEW"
    BY <1>5, <1>7
  <2> QED BY <2>1, <2>2, <2>3, Zenon DEF Matched, Answering, Holding
<1> QED BY <1>8, <1>9, <1>10, <1>11, Zenon DEF TreeInv

\* peers_add
LEMMA AddTrees ==
  ASSUME IInv, TreeInv, NoFaults, NEW t \in Threads, Add(t)
  PROVE  TreeInv'
<1>1. ThreadsOK /\ PeersOK /\ Matched(t) /\ UNCHANGED ph
  BY DEF IInv, Types, TreeInv, Add, workers
<1>2. PICK m : m = th[t].msg
  BY Zenon
<1>3. MessageOK("add", m) /\ (m.type = "FWD" => m.addr \in Endpoints[m.vpnIP]) /\ th[t].pc = "add"
  BY <1>1, <1>2, Zenon DEF Add, Matched, ThreadsOK
<1>4. CASE EndTurn(t) /\ UNCHANGED <<obj, trees>>
  <2>1. th'[t].pc \in {"idle", "exit"} /\ \A u \in Threads \ {t} : th'[u] = th[u]
    BY <1>1, <1>4, Zenon DEF EndTurn, Idle, ThreadsOK
  <2>2. Matched(t)'
    BY <2>1, UnmatchedThread, Zenon
  <2>3. UNCHANGED obj /\ UNCHANGED trees
    BY <1>4, Zenon
  <2>4. DOMAIN obj' = DOMAIN obj /\ \A q \in DOMAIN obj : Unmoved(q) /\ Calm(q)
    BY <1>1, <2>3 DEF Unmoved, Calm
  <2> QED BY <2>1, <2>2, <2>3, <2>4, QuietTrees
<1>5. ASSUME NEW p \in Obj \ DOMAIN obj,
             obj' = [q \in DOMAIN obj \cup {p} |-> IF q = p THEN NewPeer(m) ELSE obj[q]],
             vpn_root' = tsearch(vpn_root, m.vpnIP, p),
             IF m.type = "FWD" THEN tsearch_addr(m.addr, p) ELSE UNCHANGED addr_root,
             th' = [th EXCEPT ![t].pc = "start", ![t].peer = p]
      PROVE  TreeInv'
  <2> DEFINE new == NewPeer(m)
  <2>1. DOMAIN obj' = DOMAIN obj \cup {p} /\ obj'[p] = new /\ \A q \in DOMAIN obj : obj'[q] = obj[q]
    BY <1>5, Zenon
  <2>2. /\ new.vpnIP = m.vpnIP /\ new.answer = "none"
        /\ m.type = "FWD" => new.addr = m.addr /\ new.key = m.addr /\ new.state = "PUNCHING"
        /\ m.type # "FWD" => new.addr = NoAddr
    BY DEF NewPeer
  <2> HIDE DEF new
  <2>3. m.vpnIP \in VpnIP /\ (m.type = "FWD" => m.addr # NoAddr)
    BY <1>3, PeersAssumption, Zenon DEF MessageOK, Addr
  <2>4. \/ addr_root' = addr_root
        \/ m.type = "FWD" /\ addr_root' = addr_root \cup {p} /\ \A q \in addr_root : obj[q].addr # m.addr
    BY <1>5, InsertExact, Zenon
  <2>5. addr_root \subseteq DOMAIN obj
    BY DEF TreeInv, TreesNotDangling
  <2>6. TreesNotDangling'
    <3>1. addr_root' \subseteq DOMAIN obj'
      BY <2>1, <2>4, <2>5, Zenon
    <3>2. ASSUME NEW v \in DOMAIN vpn_root' PROVE vpn_root'[v] \in DOMAIN obj' /\ obj'[vpn_root'[v]].vpnIP = v
      <4>1. \/ v \in DOMAIN vpn_root /\ vpn_root'[v] = vpn_root[v]
            \/ v = m.vpnIP /\ vpn_root'[v] = p
        BY <1>5, <3>2, Zenon DEF tsearch
      <4>2. v \in DOMAIN vpn_root => vpn_root[v] \in DOMAIN obj /\ obj[vpn_root[v]].vpnIP = v
        BY DEF TreeInv, TreesNotDangling
      <4> QED BY <2>1, <2>2, <4>1, <4>2, Zenon
    <3> QED BY <3>1, <3>2, Zenon DEF TreesNotDangling
  <2>7. Distinct'
    <3>1. \A q \in addr_root : q \in DOMAIN obj /\ obj'[q].addr = obj[q].addr
      BY <2>1, <2>5, Zenon
    <3>2. ASSUME NEW x \in addr_root, NEW y \in addr_root, obj[x].addr = obj[y].addr PROVE x = y
      BY <3>2, Zenon DEF TreeInv, Distinct
    <3>3. CASE addr_root' = addr_root
      <4>1. ASSUME NEW x \in addr_root', NEW y \in addr_root', obj'[x].addr = obj'[y].addr PROVE x = y
        <5>1. x \in addr_root /\ y \in addr_root
          BY <3>3, <4>1, Zenon
        <5>2. obj[x].addr = obj[y].addr
          BY <3>1, <4>1, <5>1, Zenon
        <5> QED BY <3>2, <5>1, <5>2, Zenon
      <4> QED BY <4>1, Zenon DEF Distinct
    <3>4. CASE m.type = "FWD" /\ addr_root' = addr_root \cup {p} /\ \A q \in addr_root : obj[q].addr # m.addr
      <4>1. obj'[p].addr = m.addr /\ \A q \in addr_root : obj'[q].addr # m.addr
        BY <2>1, <2>2, <3>1, <3>4, Zenon
      <4>2. ASSUME NEW x \in addr_root', NEW y \in addr_root', obj'[x].addr = obj'[y].addr PROVE x = y
        BY <3>1, <3>2, <3>4, <4>1, <4>2, Zenon
      <4> QED BY <4>2, Zenon DEF Distinct
    <3> QED BY <2>4, <3>3, <3>4, Zenon
  <2>8. ASSUME NEW q \in DOMAIN obj' PROVE Settled(q)'
    <3>1. CASE q = p
      <4>1. ph[p] = "none"
        BY ZenonT(30) DEF IInv, Unused
      <4>2. ph'[p] = "none" /\ obj'[p].answer = "none" /\ obj'[p].vpnIP = m.vpnIP
        BY <1>1, <2>1, <2>2, <4>1, Zenon
      <4>3. obj'[p].addr \in Endpoints[m.vpnIP] \cup {NoAddr}
        <5>1. CASE m.type = "FWD"
          BY <1>3, <2>1, <2>2, <5>1, Zenon
        <5>2. CASE m.type # "FWD"
          BY <2>1, <2>2, <5>2, Zenon
        <5> QED BY <5>1, <5>2, Zenon
      <4>4. p \in addr_root' => m.type = "FWD"
        BY <2>4, <2>5, Zenon
      <4>5. p \in addr_root' =>
              obj'[p].addr # NoAddr /\ obj'[p].key = obj'[p].addr /\ obj'[p].state # "NEW"
        BY <2>1, <2>2, <2>3, <4>4, Zenon
      <4> QED BY <3>1, <4>2, <4>3, <4>5, Zenon DEF Settled
    <3>2. CASE q # p
      <4>1. Settled(q) /\ obj'[q] = obj[q] /\ (q \in addr_root' => q \in addr_root)
        BY <2>1, <2>4, <3>2, Zenon DEF TreeInv
      <4> QED BY <1>1, <4>1, Zenon DEF Settled
    <3> QED BY <3>1, <3>2, Zenon
  <2>9. ASSUME NEW u \in Threads PROVE Matched(u)'
    <3>1. CASE u = t
      BY <1>1, <1>5, <3>1, UnmatchedThread, Zenon DEF ThreadsOK
    <3>2. CASE u # t
      <4>1. PICK q : q = th[u].peer
        OBVIOUS
      <4>2. Matched(u) /\ th'[u] = th[u] /\ (th[u].pc \in Holding => obj'[q] = obj[q])
        BY <1>1, <1>5, <2>1, <3>2, <4>1, Zenon DEF TreeInv, IInv, Unused, ThreadsOK
      <4> QED BY <1>1, <4>1, <4>2, Zenon DEF Matched, Answering, Holding
    <3> QED BY <3>1, <3>2, Zenon
  <2> QED BY <2>6, <2>7, <2>8, <2>9, Zenon DEF TreeInv
<1> QED BY <1>2, <1>4, <1>5, Zenon DEF Add, NoFaults

\* peers_remove: the freed peer leaves both trees.  The other peers keep their
\* nodes, unless they have the VPN address or the endpoint of the freed one.
LEMMA FreeTrees ==
  ASSUME IInv, IInv', TreeInv, NEW p \in DOMAIN obj, NEW n, NEW next, DecrRef(p, n, next),
         obj[p].ref = n, \A t \in Threads : th'[t] = th[t] \/ Matched(t)'
  PROVE  TreeInv'
<1>1. /\ obj' = Restrict(obj, DOMAIN obj \ {p}) /\ ph' = [ph EXCEPT ![p] = "none"]
      /\ vpn_root' = tdelete(vpn_root, obj[p].vpnIP) /\ tdelete_addr(obj[p].addr)
  BY DEF DecrRef
<1>2. /\ DOMAIN obj' = DOMAIN obj \ {p}
      /\ \A q \in DOMAIN obj' : obj'[q] = obj[q] /\ ph'[q] = ph[q] /\ q # p /\ q \in DOMAIN obj
  BY <1>1, Zenon DEF Restrict, IInv, Types, PeersOK, WorkersOK
<1>3. PICK k \in NodesAt(obj[p].addr) : addr_root' = addr_root \ {k}
  BY <1>1 DEF tdelete_addr
<1>4. addr_root' \subseteq addr_root \ {p}
  <2>1. CASE p \in addr_root
    <3>1. k # NULL
      BY <1>3, <2>1, SearchExact, NotNull, Zenon
    <3>2. k \in addr_root /\ obj[k].addr = obj[p].addr
      BY <1>3, <3>1, SearchExact, Zenon
    <3>3. k = p
      BY <2>1, <3>2, Zenon DEF TreeInv, Distinct
    <3> QED BY <1>3, <3>3, Zenon
  <2>2. CASE p \notin addr_root
    BY <1>3, <2>2, Zenon
  <2> QED BY <2>1, <2>2, Zenon
<1>5. TreesNotDangling'
  <2>1. addr_root' \subseteq DOMAIN obj'
    BY <1>2, <1>4 DEF TreeInv, TreesNotDangling
  <2>2. ASSUME NEW v \in DOMAIN vpn_root' PROVE vpn_root'[v] \in DOMAIN obj' /\ obj'[vpn_root'[v]].vpnIP = v
    <3>1. v \in DOMAIN vpn_root /\ v # obj[p].vpnIP /\ vpn_root'[v] = vpn_root[v]
      BY <1>1, <2>2, Zenon DEF tdelete, Restrict
    <3>2. vpn_root[v] \in DOMAIN obj /\ obj[vpn_root[v]].vpnIP = v
      BY <3>1, Zenon DEF TreeInv, TreesNotDangling
    <3> QED BY <1>2, <3>1, <3>2, ZenonT(30)
  <2> QED BY <2>1, <2>2, Zenon DEF TreesNotDangling
<1>6. Distinct'
  <2>1. \A q \in addr_root' : q \in addr_root /\ obj'[q] = obj[q]
    BY <1>2, <1>4, <1>5, Zenon DEF TreesNotDangling
  <2> QED BY <2>1, Zenon DEF TreeInv, Distinct
<1>7. ASSUME NEW q \in DOMAIN obj' PROVE Settled(q)'
  <2>1. Settled(q) /\ obj'[q] = obj[q] /\ ph'[q] = ph[q] /\ (q \in addr_root' => q \in addr_root)
    BY <1>2, <1>4, Zenon DEF TreeInv
  <2> QED BY <2>1, ZenonT(30) DEF Settled
<1>8. ASSUME NEW t \in Threads, th'[t] = th[t] PROVE Matched(t)'
  <2>1. PICK q : q = th[t].peer
    OBVIOUS
  <2>2. Matched(t) /\ (th[t].pc \in Holding => q \in DOMAIN obj')
    BY <1>8, <2>1, ZenonT(30) DEF TreeInv, IInv, Unused
  <2>3. th[t].pc \in Holding => obj'[q] = obj[q] /\ ph'[q] = ph[q]
    BY <1>2, <2>2, ZenonT(30)
  <2> QED BY <1>8, <2>1, <2>2, <2>3, ZenonT(30) DEF Matched, Answering, Holding
<1> QED BY <1>5, <1>6, <1>7, <1>8, Zenon DEF TreeInv

\* peers_decr_ref, freeing or not.
LEMMA DecrRefTrees ==
  ASSUME IInv, IInv', TreeInv, NEW p \in DOMAIN obj, NEW n, NEW next, DecrRef(p, n, next),
         next \in {ph[p], "done"}, next = "done" => ph[p] # "register",
         \A t \in Threads : th'[t] = th[t] \/ Matched(t)'
  PROVE  TreeInv'
<1>1. CASE obj[p].ref = n
  BY <1>1, FreeTrees, Zenon
<1>2. CASE obj[p].ref # n
  <2>1. PICK k : obj' = [obj EXCEPT ![p].ref = k]
    BY <1>2 DEF DecrRef
  <2>2. UNCHANGED trees /\ ph' = [ph EXCEPT ![p] = next]
    BY <1>2 DEF DecrRef
  <2>3. DOMAIN obj' = DOMAIN obj /\ \A q \in DOMAIN obj : Unmoved(q)
    BY <2>1, SameFields, Zenon DEF IInv, Types
  <2>4. \A q \in DOMAIN obj : Calm(q)
    BY <2>2 DEF Calm, IInv, Types, PeersOK, WorkersOK
  <2> QED BY <2>2, <2>3, <2>4, QuietTrees, Zenon
<1> QED BY <1>1, <1>2, ZenonT(30)

\* The end of a peer's own thread.
LEMMA ExitTrees ==
  ASSUME IInv, IInv', TreeInv, NEW p \in DOMAIN obj, HandlerExits(p) \/ PunchExits(p) \/ WriterExits(p)
  PROVE  TreeInv'
<1>1. \A t \in Threads : th'[t] = th[t]
  BY DEF HandlerExits, PunchExits, WriterExits
<1>2. CASE HandlerExits(p)
  BY <1>1, <1>2, DecrRefTrees, Zenon DEF HandlerExits
<1>3. CASE PunchExits(p) \/ WriterExits(p)
  <2>1. DecrRef(p, 1, ph[p])
    BY <1>3, Zenon DEF PunchExits, WriterExits
  <2>2. ph[p] = "done" => ph[p] # "register"
    OBVIOUS
  <2> QED BY <1>1, <2>1, <2>2, DecrRefTrees, Zenon
<1> QED BY <1>2, <1>3, Zenon

\* The end of a thread's turn with a peer.
LEMMA ReleaseTrees ==
  ASSUME IInv, IInv', TreeInv, NEW t \in Threads, Release(t)
  PROVE  TreeInv'
<1>1. ThreadsOK
  BY DEF IInv, Types
<1>2. PICK p : p = th[t].peer
  OBVIOUS
<1>3. p \in DOMAIN obj /\ DecrRef(p, 1, ph[p]) /\ EndTurn(t)
  BY <1>2, Zenon DEF Release, IInv, Unused, Holding
<1>4. th'[t].pc \in {"idle", "exit"} /\ \A u \in Threads \ {t} : th'[u] = th[u]
  BY <1>1, <1>3, Zenon DEF EndTurn, Idle, ThreadsOK
<1>5. \A u \in Threads : th'[u] = th[u] \/ Matched(u)'
  BY <1>4, UnmatchedThread, Zenon
<1>6. ph[p] = "done" => ph[p] # "register"
  OBVIOUS
<1> QED BY <1>3, <1>5, <1>6, DecrRefTrees, Zenon
-----------------------------------------------------------------------------
\* The client starts with empty trees.
LEMMA InitTrees == Init => TreeInv
<1> SUFFICES ASSUME Init PROVE TreeInv
  OBVIOUS
<1>1. DOMAIN obj = {} /\ DOMAIN vpn_root = {} /\ addr_root = {}
  BY Zenon DEF Init
<1>2. \A t \in Threads : th[t].pc = "idle"
  BY DEF Init, Threads, Idle
<1> QED BY <1>1, <1>2, Zenon DEF TreeInv, TreesNotDangling, Distinct, Matched

\* Every step of every thread keeps the trees in order.
LEMMA NextTrees == NoFaults /\ IInv /\ IInv' /\ TreeInv /\ [Next]_vars => TreeInv'
<1> SUFFICES ASSUME NoFaults, IInv, IInv', TreeInv, [Next]_vars PROVE TreeInv'
  BY Zenon
<1>1. DOMAIN th = Threads
  BY Zenon DEF IInv, Types, ThreadsOK
<1>2. CASE UNCHANGED vars \/ Stopped \/ EndSignal
  <2>1. UNCHANGED <<obj, trees, th, ph>> /\ UNCHANGED trees
    BY <1>2, Zenon DEF vars, Stopped, EndSignal, workers
  <2>2. DOMAIN obj' = DOMAIN obj /\ \A q \in DOMAIN obj : Unmoved(q) /\ Calm(q)
    BY <2>1 DEF Unmoved, Calm
  <2> QED BY <2>1, <2>2, QuietTrees, Zenon
<1>3. ASSUME NEW t \in DOMAIN th, ThreadStep(t) PROVE TreeInv'
  BY <1>1, <1>3, FoundTrees, AddTrees, StartTrees, ReleaseTrees, Zenon DEF ThreadStep
<1>4. ASSUME NEW t \in DOMAIN th, ExitLoop(t) PROVE TreeInv'
  BY <1>1, <1>4, LoopTrees, Zenon
<1>5. ASSUME NEW t \in DOMAIN th, NEW m \in Message(t), Lookup(t, m) PROVE TreeInv'
  BY <1>1, <1>5, LookupTrees, Zenon
<1>6. CASE Broadcast \/ MainStep
  BY <1>6, LoopTrees, Zenon
<1>7. ASSUME NEW p \in DOMAIN obj,
             \/ HandlerStep(p) \/ WaitEnds(p) \/ SpuriousWakeup(p) \/ Handshake(p)
             \/ EndSession(p) \/ PunchStep(p) \/ WriterStops(p) \/ WriterExits(p)
      PROVE  TreeInv'
  <2>1. Working(p) \/ HandlerExits(p) \/ PunchExits(p) \/ WriterExits(p)
    BY <1>7, Zenon DEF Working, HandlerStep, PunchStep
  <2> QED BY <2>1, WorkingTrees, RegisterTrees, ExitTrees, Zenon
<1> QED BY <1>2, <1>3, <1>4, <1>5, <1>6, <1>7, Zenon DEF Next

\* Without faults the invariant of the trees holds in every state of the client.
THEOREM TreeInvariance == NoFaults => (Spec => []TreeInv)
<1> SUFFICES ASSUME NoFaults PROVE Spec => []TreeInv
  OBVIOUS
<1>1. IInv /\ IInv' /\ TreeInv /\ [Next]_vars => TreeInv'
  BY NextTrees
<1> QED BY <1>1, InitTrees, Invariance, PTL DEF Spec

\* Without faults every node of the trees points to an allocated peer, a node of
\* the VPN tree to one with the node's key, however many peers have the same VPN
\* address or endpoint (peers_add, peers_register_endpoint, peers_remove).
THEOREM NodesArePeers == NoFaults => (Spec => []TreesNotDangling)
<1>1. TreeInv => TreesNotDangling
  BY DEF TreeInv
<1> QED BY <1>1, TreeInvariance, PTL

\* Without faults no thread ever uses a freed peer: not the three threads
\* between a lookup and peers_decr_ref, not the detached ones.
THEOREM PeersAreAllocated == NoFaults => (Spec => []NoUseAfterFree)
<1>1. ASSUME IInv, TreeInv PROVE NoUseAfterFree
  <2>1. \A p \in Obj : ph[p] # "none" \/ pu[p] # "none" \/ wr[p] # "none" => p \in DOMAIN obj
    BY <1>1, Zenon DEF IInv, Unused
  <2>2. DOMAIN th = Threads
    BY <1>1, Zenon DEF IInv, Types, ThreadsOK
  <2>3. ASSUME NEW t \in Threads
        PROVE  th[t].pc # "lost" /\ \A p \in Obj : Holds(t, p) => p \in DOMAIN obj
    <3>1. th[t].pc # "lost"
      BY <1>1, Zenon DEF TreeInv, Matched
    <3>2. th[t].pc \in Holding => th[t].peer \in DOMAIN obj
      BY <1>1 DEF IInv, Unused
    <3> QED BY <3>1, <3>2 DEF Holds, Holding
  <2> QED BY <2>1, <2>2, <2>3, Zenon DEF NoUseAfterFree
<1> QED BY <1>1, Invariance, TreeInvariance, PTL
==============================================================================
