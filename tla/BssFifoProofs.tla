---------------------------- MODULE BssFifoProofs ----------------------------
(***************************************************************************)
(* Proofs about the FIFO BIO, for every size, threshold and set of         *)
(* writers.  WaitCountersExact is proved whatever the wake-ups; the other  *)
(* results assume that the wait of fifo_read never returns without a       *)
(* signal (NoSpuriousRead), because fifo_read does not test nelem again.   *)
(***************************************************************************)
EXTENDS BssFifo, FiniteSetTheorems, SequenceTheorems, TLAPS

NoSpuriousRead == "read" \notin Spurious

\* A reader that has been signalled will find a packet.
SignalledReaderHasItem == rpc = "woken" => nelem # 0

\* A writer that waits still has its packet.
BlockedWritersHaveItem == \A w \in Writers : wpc[w] # "idle" => inp[w] \in Item

Counters == TypeOK /\ WaitCountersExact

\* The inductive invariant.
IInv ==
  /\ Counters
  /\ BlockedWritersHaveItem
  /\ RingConsistent
  /\ ReaderNotStranded
  /\ SignalledReaderHasItem
  /\ WritersNotStranded

Busy == {w \in Writers : wpc[w] # "idle"}
-----------------------------------------------------------------------------
(***************************************************************************)
(* The type invariant and the counters                                     *)
(***************************************************************************)

\* The set of blocked writers that waiting_write counts is finite.
LEMMA BusyFinite == IsFiniteSet(Busy) /\ Cardinality(Busy) \in Nat
<1>1. Busy \subseteq Writers
  BY DEF Busy
<1>2. IsFiniteSet(Busy)
  BY <1>1, FS_Subset, FifoAssumption
<1> QED
  BY <1>2, FS_CardinalityType

\* Moving a writer between "wait" and "woken" leaves the set of blocked writers.
LEMMA BusyKept ==
  ASSUME TypeOK, NEW w \in Writers, wpc[w] # "idle",
         NEW p \in {"wait", "woken"}, wpc' = [wpc EXCEPT ![w] = p]
  PROVE  Busy' = Busy /\ wpc' \in [Writers -> {"idle", "wait", "woken"}]
BY DEF Busy, TypeOK

\* conditionSignal on cond_write leaves the set of blocked writers.
LEMMA SignalBusy ==
  ASSUME TypeOK, SignalWriter \/ wpc' = wpc
  PROVE  Busy' = Busy /\ wpc' \in [Writers -> {"idle", "wait", "woken"}]
<1>1. CASE wpc' = wpc
  BY <1>1 DEF Busy, TypeOK
<1>2. CASE SignalWriter /\ wpc' # wpc
  <2>1. PICK w \in Waiting : wpc' = [wpc EXCEPT ![w] = "woken"]
    BY <1>2 DEF SignalWriter
  <2> QED
    BY <2>1, BusyKept, Zenon DEF Waiting
<1> QED
  BY <1>1, <1>2

\* A blocked writer that completes leaves the set, one that was idle was not in
\* it and is not in it afterwards.
LEMMA BusyLeaves ==
  ASSUME TypeOK, NEW w \in Writers, wpc' = [wpc EXCEPT ![w] = "idle"]
  PROVE  /\ wpc' \in [Writers -> {"idle", "wait", "woken"}]
         /\ wpc[w] = "idle" => Busy' = Busy
         /\ wpc[w] # "idle" => Cardinality(Busy') = Cardinality(Busy) - 1
                               /\ Cardinality(Busy) > 0
<1>1. wpc' \in [Writers -> {"idle", "wait", "woken"}]
  BY DEF TypeOK
<1>2. Busy' = Busy \ {w}
  BY DEF Busy, TypeOK
<1>3. wpc[w] = "idle" => w \notin Busy
  BY DEF Busy
<1>4. ASSUME wpc[w] # "idle"
      PROVE  Cardinality(Busy') = Cardinality(Busy) - 1 /\ Cardinality(Busy) > 0
  <2>1. w \in Busy
    BY <1>4 DEF Busy
  <2>2. Cardinality(Busy \ {w}) = Cardinality(Busy) - 1
    BY <2>1, BusyFinite, FS_RemoveElement, Zenon
  <2>3. Cardinality(Busy) # 0
    BY <2>1, BusyFinite, FS_EmptySet
  <2> QED
    BY <1>2, <2>2, <2>3, BusyFinite
<1> QED
  BY <1>1, <1>2, <1>3, <1>4

\* A writer that blocks enters the set.
LEMMA BusyEnters ==
  ASSUME TypeOK, NEW w \in Writers, wpc[w] = "idle", wpc' = [wpc EXCEPT ![w] = "wait"]
  PROVE  /\ wpc' \in [Writers -> {"idle", "wait", "woken"}]
         /\ Cardinality(Busy') = Cardinality(Busy) + 1
<1>1. Busy' = Busy \cup {w} /\ w \notin Busy
  BY DEF Busy, TypeOK
<1>2. Cardinality(Busy \cup {w}) = Cardinality(Busy) + 1
  BY <1>1, BusyFinite, FS_AddElement
<1> QED
  BY <1>1, <1>2 DEF TypeOK

\* The indexes and the unsigned counter stay in their ranges.
LEMMA RingArithmetic ==
  /\ \A i \in 0 .. Size - 1 : after(i) \in 0 .. Size - 1
  /\ \A n \in 0 .. UMod - 1 : dec(n) \in 0 .. UMod - 1 /\ inc(n) \in 0 .. UMod - 1
BY FifoAssumption DEF after, dec, inc

\* The end of fifo_read.
LEMMA TakeCounters ==
  ASSUME Counters, Take,
         waiting_read' \in Nat /\ waiting_read' = 0
  PROVE  Counters'
<1> USE DEF Counters
<1>1. Busy' = Busy /\ wpc' \in [Writers -> {"idle", "wait", "woken"}]
  BY SignalBusy DEF Take
<1>2. TypeOK'
  BY <1>1, RingArithmetic, FifoAssumption, Zenon DEF TypeOK, Take, flags
<1>3. WaitCountersExact'
  BY <1>1 DEF Take, WaitCountersExact, Busy
<1> QED
  BY <1>2, <1>3

\* The end of fifo_write: w leaves the blocked writers if it was one of them.
LEMMA StoreCounters ==
  ASSUME Counters, NEW w \in Writers, NEW x \in Item \cup {NoItem}, Store(w, x),
         waiting_write' = IF wpc[w] = "idle" THEN waiting_write ELSE waiting_write - 1
  PROVE  Counters'
<1> USE DEF Counters
<1>1. /\ wpc' \in [Writers -> {"idle", "wait", "woken"}]
      /\ wpc[w] = "idle" => Busy' = Busy
      /\ wpc[w] # "idle" => Cardinality(Busy') = Cardinality(Busy) - 1
                            /\ Cardinality(Busy) > 0
  BY BusyLeaves, Zenon DEF Store
<1>2. waiting_write = Cardinality(Busy)
  BY DEF WaitCountersExact, Busy
<1>3. waiting_write' = Cardinality(Busy') /\ waiting_write' \in Nat
  BY <1>1, <1>2, BusyFinite
<1>4. TypeOK'
  BY <1>1, <1>3, RingArithmetic, FifoAssumption, Zenon DEF TypeOK, Store, flags
<1>5. WaitCountersExact'
  <2>1. waiting_read' = IF rpc' = "idle" THEN 0 ELSE 1
    BY DEF Store, WaitCountersExact, TypeOK
  <2> QED
    BY <2>1, <1>3 DEF WaitCountersExact, Busy
<1> QED
  BY <1>4, <1>5

\* Every step keeps the types and the counters, spurious wake-ups included.
LEMMA CountersStep ==
  ASSUME Counters, [Next]_vars
  PROVE  Counters'
<1> USE DEF Counters
<1>0. waiting_write = Cardinality(Busy) /\ waiting_read \in {0, 1}
  BY DEF WaitCountersExact, Busy
<1>1. CASE Read
  BY <1>1, TakeCounters DEF Read, WaitCountersExact, TypeOK
<1>2. CASE ReadBlocks
  BY <1>2 DEF ReadBlocks, TypeOK, WaitCountersExact, ring, flags
<1>3. CASE ReadResumes
  BY <1>3, TakeCounters DEF ReadResumes, WaitCountersExact
<1>4. CASE Expire
  BY <1>4 DEF Expire, TypeOK, WaitCountersExact, ring, flags
<1>5. CASE ReadTimesOut
  BY <1>5 DEF ReadTimesOut, TypeOK, WaitCountersExact, ring
<1>6. CASE SetDroptail \/ GetTimerExp
  BY <1>6, Zenon DEF SetDroptail, GetTimerExp, TypeOK, WaitCountersExact, ring
<1>7. CASE SpuriousRead
  BY <1>7 DEF SpuriousRead, TypeOK, WaitCountersExact, ring, flags
<1>8. ASSUME NEW w \in Writers, WriteDropped(w)
      PROVE  Counters'
  BY <1>8 DEF WriteDropped, TypeOK, WaitCountersExact, vars, ring, flags
<1>9. ASSUME NEW w \in Writers, WriteResumes(w)
      PROVE  Counters'
  <2>1. CASE nelem # Size
    <3>1. waiting_write' = waiting_write - 1 /\ Store(w, inp[w]) /\ wpc[w] # "idle"
      BY <1>9, <2>1 DEF WriteResumes
    <3>2. inp[w] \in Item \cup {NoItem}
      BY DEF TypeOK
    <3> QED
      BY <3>1, <3>2, StoreCounters
  <2>2. CASE nelem = Size
    <3>1. wpc' = [wpc EXCEPT ![w] = "wait"] /\ wpc[w] # "idle"
          /\ UNCHANGED <<ring, flags, waiting_read, waiting_write, rpc, inp, out>>
      BY <1>9, <2>2 DEF WriteResumes
    <3>2. Busy' = Busy /\ wpc' \in [Writers -> {"idle", "wait", "woken"}]
      BY <3>1, BusyKept, Zenon
    <3> QED
      BY <1>0, <3>1, <3>2, Zenon DEF TypeOK, WaitCountersExact, ring, flags, Busy
  <2> QED
    BY <2>1, <2>2
<1>10. ASSUME NEW w \in Writers, SpuriousWrite(w)
       PROVE  Counters'
  <2>1. Busy' = Busy /\ wpc' \in [Writers -> {"idle", "wait", "woken"}]
    BY <1>10, BusyKept, Zenon DEF SpuriousWrite
  <2> QED
    BY <1>0, <1>10, <2>1, Zenon DEF SpuriousWrite, TypeOK, WaitCountersExact, ring, flags, Busy
<1>11. ASSUME NEW w \in Writers, NEW x \in Item, Write(w, x)
       PROVE  Counters'
  BY <1>11, StoreCounters DEF Write
<1>12. ASSUME NEW w \in Writers, NEW x \in Item, WriteBlocks(w, x)
       PROVE  Counters'
  <2>1. /\ wpc' \in [Writers -> {"idle", "wait", "woken"}]
        /\ Cardinality(Busy') = Cardinality(Busy) + 1
    BY <1>12, BusyEnters, Zenon DEF WriteBlocks
  <2>2. TypeOK'
    BY <1>12, <2>1 DEF WriteBlocks, TypeOK, ring, flags
  <2>3. WaitCountersExact'
    BY <1>0, <1>12, <2>1 DEF WriteBlocks, WaitCountersExact, ring, flags, Busy
  <2> QED
    BY <2>2, <2>3
<1>13. CASE UNCHANGED vars
  BY <1>13 DEF TypeOK, WaitCountersExact, vars, ring, flags
<1> QED
  BY <1>1, <1>2, <1>3, <1>4, <1>5, <1>6, <1>7, <1>8, <1>9, <1>10, <1>11, <1>12, <1>13, Zenon
     DEF Next

\* The FIFO starts empty, with nobody waiting.
LEMMA InitCounters == Init => Counters
<1> SUFFICES ASSUME Init PROVE Counters
  OBVIOUS
<1>1. Busy = {}
  BY DEF Init, Busy
<1>2. waiting_write = Cardinality(Busy)
  BY <1>1, FS_EmptySet DEF Init
<1>3. TypeOK
  <2>1. droptail \in BOOLEAN /\ rcv_timer_exp \in BOOLEAN
    BY Zenon DEF Init
  <2>2. /\ index_read \in 0 .. Size - 1 /\ index_write \in 0 .. Size - 1
        /\ nelem \in 0 .. UMod - 1
        /\ waiting_read \in Nat /\ waiting_write \in Nat
    BY FifoAssumption DEF Init
  <2>3. /\ fifo \in [0 .. Size - 1 -> Item \cup {NoItem}]
        /\ wpc \in [Writers -> {"idle", "wait", "woken"}]
        /\ inp \in [Writers -> Item \cup {NoItem}]
    BY DEF Init
  <2>4. rpc \in {"idle", "wait", "woken", "expired"} /\ out \in Item \cup {NoItem}
    BY DEF Init
  <2> QED
    BY <2>1, <2>2, <2>3, <2>4 DEF TypeOK
<1> QED
  BY <1>2, <1>3 DEF Init, Counters, WaitCountersExact, Busy

\* fifo_read and fifo_write keep waiting_read and waiting_write equal to the
\* number of threads inside a wait, spurious wake-ups included.
THEOREM WaitCounters == Spec => []WaitCountersExact
<1>1. Counters => WaitCountersExact
  BY DEF Counters
<1> QED
  BY InitCounters, CountersStep, <1>1, PTL DEF Spec
-----------------------------------------------------------------------------
(***************************************************************************)
(* The ring and the wake-ups                                               *)
(***************************************************************************)

\* The slots of a ring whose read position is r: after(r) sees the same slots
\* one place earlier, after follows slot, and Size consecutive slots differ.
LEMMA SlotFacts ==
  ASSUME NEW r \in 0 .. Size - 1
  PROVE  /\ slot(r, 1) = r
         /\ \A k \in 1 .. Size + 1 : slot(r, k) \in 0 .. Size - 1
         /\ \A k \in 1 .. Size : slot(after(r), k) = slot(r, k + 1)
         /\ \A k \in 1 .. Size : after(slot(r, k)) = slot(r, k + 1)
         /\ \A j, k \in 1 .. Size : j # k => slot(r, j) # slot(r, k)
BY FifoAssumption DEF slot, after

\* fifo_read on a ring that is not empty.
LEMMA TakeRing ==
  ASSUME TypeOK, RingConsistent, nelem # 0, Take
  PROVE  RingConsistent' /\ nelem' = nelem - 1
<1>1. nelem \in 1 .. Size /\ nelem' = nelem - 1
  BY FifoAssumption DEF TypeOK, RingConsistent, Take, dec
<1>2. index_read' = after(index_read) /\ index_write' = index_write /\ fifo' = fifo
  BY DEF Take
<1>3. \A k \in 1 .. Size : slot(index_read', k) = slot(index_read, k + 1)
  BY <1>2, SlotFacts DEF TypeOK
<1>4. index_write' = slot(index_read', nelem' + 1)
  BY <1>1, <1>2, <1>3 DEF RingConsistent
<1>5. ASSUME NEW k \in 1 .. nelem' PROVE fifo'[slot(index_read', k)] \in Item
  <2>1. k \in 1 .. Size /\ k + 1 \in 1 .. nelem
    BY <1>1, FifoAssumption
  <2> QED
    BY <1>2, <1>3, <2>1 DEF RingConsistent
<1>6. nelem' <= Size
  BY <1>1, FifoAssumption
<1> QED
  BY <1>1, <1>4, <1>5, <1>6, Zenon DEF RingConsistent

\* fifo_write on a ring that is not full writes a slot that holds no packet.
LEMMA StoreRing ==
  ASSUME TypeOK, RingConsistent, nelem # Size, NEW w \in Writers, NEW x \in Item,
         Store(w, x)
  PROVE  /\ RingConsistent'
         /\ nelem' = nelem + 1
         /\ index_read' = index_read
         /\ \A k \in 1 .. nelem : fifo'[slot(index_read, k)] = fifo[slot(index_read, k)]
         /\ fifo'[slot(index_read, nelem + 1)] = x
<1>1. nelem \in 0 .. Size - 1 /\ nelem' = nelem + 1
  BY FifoAssumption DEF TypeOK, RingConsistent, Store, inc
<1>2. /\ index_read' = index_read /\ index_write' = after(index_write)
      /\ fifo' = [fifo EXCEPT ![index_write] = x]
  BY DEF Store
<1>3. index_write = slot(index_read, nelem + 1) /\ index_write \in 0 .. Size - 1
  BY DEF RingConsistent, TypeOK
<1>4. index_write' = slot(index_read', nelem' + 1)
  <2>1. nelem + 1 \in 1 .. Size
    BY <1>1, FifoAssumption
  <2>2. after(slot(index_read, nelem + 1)) = slot(index_read, (nelem + 1) + 1)
    BY <2>1, SlotFacts DEF TypeOK
  <2> QED
    BY <1>1, <1>2, <1>3, <2>2
<1>5. fifo'[slot(index_read, nelem + 1)] = x
  BY <1>2, <1>3 DEF TypeOK
<1>6. ASSUME NEW k \in 1 .. nelem
      PROVE  fifo'[slot(index_read, k)] = fifo[slot(index_read, k)]
  <2>1. k \in 1 .. Size /\ nelem + 1 \in 1 .. Size /\ k # nelem + 1
    BY <1>1, FifoAssumption
  <2>2. slot(index_read, k) # slot(index_read, nelem + 1)
    BY <2>1, SlotFacts DEF TypeOK
  <2>3. slot(index_read, k) \in 0 .. Size - 1
    <3>1. k \in 1 .. Size + 1
      BY <2>1, FifoAssumption
    <3> QED
      BY <3>1, SlotFacts DEF TypeOK
  <2> QED
    BY <1>2, <1>3, <2>2, <2>3, Zenon DEF TypeOK
<1>7. ASSUME NEW k \in 1 .. nelem' PROVE fifo'[slot(index_read', k)] \in Item
  <2>1. k \in 1 .. nelem \/ k = nelem + 1
    BY <1>1
  <2> QED
    BY <1>2, <1>5, <1>6, <2>1 DEF RingConsistent
<1>8. nelem' <= Size
  BY <1>1, FifoAssumption
<1> QED
  BY <1>1, <1>2, <1>4, <1>5, <1>6, <1>7, <1>8, Zenon DEF RingConsistent

\* fifo_read wakes a blocked writer at the latest when it empties the ring.
LEMMA TakeStep ==
  ASSUME IInv, nelem # 0, Take, waiting_read' = 0
  PROVE  IInv'
<1>1. Counters'
  BY TakeCounters DEF IInv
<1>2. RingConsistent' /\ nelem' = nelem - 1
  BY TakeRing DEF IInv, Counters
<1>3. ReaderNotStranded' /\ SignalledReaderHasItem'
  BY DEF Take, ReaderNotStranded, SignalledReaderHasItem
<1>4. Busy' = Busy
  BY SignalBusy DEF Take, IInv, Counters
<1>5. BlockedWritersHaveItem'
  BY <1>4 DEF BlockedWritersHaveItem, Busy, IInv, Take
<1>6. WritersNotStranded'
  <2> SUFFICES ASSUME Waiting' # {}, nelem' = 0
               PROVE  \E w \in Writers : wpc'[w] = "woken"
    BY DEF WritersNotStranded
  <2>1. Busy # {}
    BY <1>4 DEF Waiting, Busy
  <2>2. waiting_write > 0
    BY <2>1, BusyFinite, FS_EmptySet DEF IInv, Counters, WaitCountersExact, Busy
  <2>3. room(nelem') >= Threshold
    BY FifoAssumption DEF room
  <2>4. SignalWriter
    BY <2>2, <2>3 DEF Take
  <2>5. CASE Waiting = {}
    BY <2>4, <2>5 DEF SignalWriter, Waiting
  <2>6. CASE Waiting # {}
    <3>1. PICK w \in Waiting : wpc' = [wpc EXCEPT ![w] = "woken"]
      BY <2>4, <2>6 DEF SignalWriter
    <3> QED
      BY <3>1 DEF Waiting, IInv, Counters, TypeOK
  <2> QED
    BY <2>5, <2>6
<1> QED
  BY <1>1, <1>2, <1>3, <1>5, <1>6 DEF IInv

\* fifo_write wakes the reader if it waits.
LEMMA StoreStep ==
  ASSUME IInv, nelem # Size, NEW w \in Writers, NEW x \in Item, Store(w, x),
         waiting_write' = IF wpc[w] = "idle" THEN waiting_write ELSE waiting_write - 1
  PROVE  IInv'
<1>1. Counters'
  BY StoreCounters DEF IInv
<1>2. RingConsistent' /\ nelem' = nelem + 1
  BY StoreRing DEF IInv, Counters
<1>3. nelem' # 0
  BY <1>2 DEF IInv, Counters, TypeOK
<1>4. ReaderNotStranded'
  <2>1. rpc = "wait" => waiting_read > 0
    BY DEF IInv, Counters, WaitCountersExact
  <2> QED
    BY <2>1 DEF Store, ReaderNotStranded
<1>5. SignalledReaderHasItem' /\ WritersNotStranded'
  BY <1>3 DEF SignalledReaderHasItem, WritersNotStranded
<1>6. BlockedWritersHaveItem'
  BY DEF BlockedWritersHaveItem, IInv, Counters, TypeOK, Store
<1> QED
  BY <1>1, <1>2, <1>4, <1>5, <1>6, Zenon DEF IInv

\* A step that moves no packet keeps the ring.
LEMMA QuietRing ==
  ASSUME RingConsistent, UNCHANGED ring
  PROVE  RingConsistent'
BY DEF RingConsistent, ring

\* Every step keeps the invariant.
LEMMA NextStep ==
  ASSUME IInv, [Next]_vars, NoSpuriousRead
  PROVE  IInv'
<1>0. Counters'
  BY CountersStep DEF IInv
<1> USE DEF ReaderNotStranded, SignalledReaderHasItem
<1>1. CASE Read
  <2>1. nelem # 0 /\ Take /\ waiting_read' = 0
    BY <1>1 DEF Read, IInv, Counters, WaitCountersExact
  <2> QED
    BY <2>1, TakeStep
<1>2. CASE ReadResumes
  <2>1. nelem # 0 /\ Take /\ waiting_read' = 0
    BY <1>2 DEF ReadResumes, IInv, Counters, WaitCountersExact
  <2> QED
    BY <2>1, TakeStep
<1>3. CASE ReadBlocks \/ Expire \/ ReadTimesOut \/ SetDroptail \/ GetTimerExp
  <2>1. UNCHANGED <<ring, wpc, inp>>
    BY <1>3 DEF ReadBlocks, Expire, ReadTimesOut, SetDroptail, GetTimerExp
  <2>2. RingConsistent'
    BY <2>1, QuietRing DEF IInv
  <2>3. BlockedWritersHaveItem' /\ WritersNotStranded'
    BY <2>1 DEF BlockedWritersHaveItem, WritersNotStranded, Waiting, IInv, ring
  <2>4. ReaderNotStranded' /\ SignalledReaderHasItem'
    BY <1>3 DEF IInv, ReadBlocks, Expire, ReadTimesOut, SetDroptail, GetTimerExp, ring
  <2> QED
    BY <1>0, <2>2, <2>3, <2>4, Zenon DEF IInv
<1>4. CASE SpuriousRead
  BY <1>4 DEF SpuriousRead, NoSpuriousRead
<1>5. CASE (\E w \in Writers : WriteDropped(w)) \/ UNCHANGED vars
  <2>1. UNCHANGED vars
    BY <1>5 DEF WriteDropped
  <2>2. RingConsistent'
    BY <2>1, QuietRing, Zenon DEF IInv, vars
  <2>3. BlockedWritersHaveItem' /\ WritersNotStranded'
    BY <2>1 DEF BlockedWritersHaveItem, WritersNotStranded, Waiting, IInv, ring, vars
  <2> QED
    BY <1>0, <2>1, <2>2, <2>3, Zenon DEF IInv, vars, ring
<1>6. ASSUME NEW w \in Writers, WriteResumes(w), nelem # Size
      PROVE  IInv'
  <2>1. waiting_write' = waiting_write - 1 /\ Store(w, inp[w]) /\ wpc[w] # "idle"
    BY <1>6, Zenon DEF WriteResumes
  <2>2. inp[w] \in Item
    BY <2>1 DEF IInv, BlockedWritersHaveItem
  <2> QED
    BY <1>6, <2>1, <2>2, StoreStep, Zenon
<1>7. ASSUME NEW w \in Writers,
             (WriteResumes(w) /\ nelem = Size) \/ SpuriousWrite(w)
      PROVE  IInv'
  <2>1. /\ UNCHANGED <<ring, rpc, inp>>
        /\ wpc[w] # "idle"
        /\ \/ wpc' = [wpc EXCEPT ![w] = "wait"] /\ nelem = Size
           \/ wpc' = [wpc EXCEPT ![w] = "woken"]
    BY <1>7 DEF WriteResumes, SpuriousWrite
  <2>2. RingConsistent' /\ nelem' = nelem
    BY <2>1, QuietRing, Zenon DEF IInv, ring
  <2>3. BlockedWritersHaveItem'
    BY <2>1 DEF BlockedWritersHaveItem, IInv, Counters, TypeOK
  <2>4. WritersNotStranded'
    <3>1. Size # 0
      BY FifoAssumption
    <3> QED
      BY <2>1, <2>2, <3>1, Zenon DEF WritersNotStranded, IInv, Counters, TypeOK
  <2> QED
    BY <1>0, <2>1, <2>2, <2>3, <2>4, Zenon DEF IInv
<1>8. ASSUME NEW w \in Writers, NEW x \in Item, Write(w, x)
      PROVE  IInv'
  BY <1>8, StoreStep DEF Write
<1>9. ASSUME NEW w \in Writers, NEW x \in Item, WriteBlocks(w, x)
      PROVE  IInv'
  <2>1. RingConsistent' /\ nelem' = nelem /\ rpc' = rpc /\ nelem = Size
    BY <1>9, QuietRing, Zenon DEF IInv, ring, WriteBlocks
  <2>2. BlockedWritersHaveItem'
    BY <1>9 DEF BlockedWritersHaveItem, IInv, Counters, TypeOK, WriteBlocks
  <2>3. WritersNotStranded'
    BY <2>1, FifoAssumption, Zenon DEF WritersNotStranded
  <2> QED
    BY <1>0, <2>1, <2>2, <2>3, Zenon DEF IInv
<1> QED
  BY <1>1, <1>2, <1>3, <1>4, <1>5, <1>6, <1>7, <1>8, <1>9, Zenon DEF Next

\* An empty ring.
LEMMA InitIInv == Init => IInv
<1> SUFFICES ASSUME Init PROVE IInv
  OBVIOUS
<1>1. RingConsistent
  BY FifoAssumption DEF Init, RingConsistent, slot
<1>2. BlockedWritersHaveItem /\ WritersNotStranded
  BY DEF Init, BlockedWritersHaveItem, WritersNotStranded, Waiting
<1> QED
  BY <1>1, <1>2, InitCounters, Zenon DEF Init, IInv, ReaderNotStranded, SignalledReaderHasItem

\* Every reachable state satisfies the inductive invariant.
THEOREM Invariance == NoSpuriousRead => (Spec => []IInv)
<1> SUFFICES ASSUME NoSpuriousRead PROVE Spec => []IInv
  OBVIOUS
<1>1. IInv /\ [Next]_vars => IInv'
  BY NextStep
<1> QED
  BY InitIInv, <1>1, PTL DEF Spec

\* fifo_write never overwrites an unread packet and neither side of the FIFO
\* misses a wake-up.
THEOREM Safety ==
  NoSpuriousRead =>
    (Spec => [](TypeOK /\ RingConsistent /\ ReaderNotStranded /\ WritersNotStranded))
<1> SUFFICES ASSUME NoSpuriousRead
             PROVE  Spec => [](TypeOK /\ RingConsistent /\ ReaderNotStranded
                                /\ WritersNotStranded)
  OBVIOUS
<1>1. IInv => TypeOK /\ RingConsistent /\ ReaderNotStranded /\ WritersNotStranded
  BY DEF IInv, Counters
<1>2. Spec => []IInv
  BY Invariance
<1> QED
  BY <1>1, <1>2, PTL
-----------------------------------------------------------------------------
(***************************************************************************)
(* The FIFO implements a bounded queue                                     *)
(***************************************************************************)

ContentsOK ==
  /\ Contents \in Seq(Item)
  /\ Len(Contents) = nelem
  /\ \A k \in 1 .. nelem : Contents[k] = fifo[slot(index_read, k)]

\* The packets in the ring, oldest first, are a sequence of nelem packets.
LEMMA ContentsType == TypeOK /\ RingConsistent => ContentsOK
<1> SUFFICES ASSUME TypeOK, RingConsistent PROVE ContentsOK
  OBVIOUS
<1>1. nelem \in Nat
  BY FifoAssumption DEF TypeOK
<1>2. Contents \in [1 .. nelem -> Item]
  BY DEF Contents, RingConsistent
<1> QED
  BY <1>1, <1>2 DEF Contents, ContentsOK

\* Two sequences with the same length and the same elements are equal.
LEMMA SameSequence ==
  ASSUME NEW s \in Seq(Item), NEW t \in Seq(Item), Len(s) = Len(t),
         \A k \in 1 .. Len(s) : s[k] = t[k]
  PROVE  s = t
BY SeqEqual

\* A successful fifo_write is a Put of the queue.
LEMMA StorePut ==
  ASSUME TypeOK, TypeOK', RingConsistent, nelem # Size, NEW w \in Writers, NEW x \in Item,
         Store(w, x)
  PROVE  Queue!Put(x)
<1>1. /\ RingConsistent'
      /\ nelem' = nelem + 1
      /\ index_read' = index_read
      /\ \A k \in 1 .. nelem : fifo'[slot(index_read, k)] = fifo[slot(index_read, k)]
      /\ fifo'[slot(index_read, nelem + 1)] = x
  BY StoreRing
<1>2. /\ Contents \in Seq(Item) /\ Len(Contents) = nelem
      /\ \A k \in 1 .. nelem : Contents[k] = fifo[slot(index_read, k)]
  BY ContentsType DEF ContentsOK
<1>3. /\ Contents' \in Seq(Item) /\ Len(Contents') = nelem'
      /\ \A k \in 1 .. nelem' : Contents'[k] = fifo'[slot(index_read', k)]
  <2>1. ContentsOK'
    BY <1>1, ContentsType, PTL
  <2> QED
    BY <2>1 DEF ContentsOK
<1>4. nelem \in Nat /\ nelem < Size
  BY FifoAssumption DEF TypeOK, RingConsistent
<1>5. /\ Append(Contents, x) \in Seq(Item) /\ Len(Append(Contents, x)) = nelem + 1
      /\ \A k \in 1 .. nelem : Append(Contents, x)[k] = Contents[k]
      /\ Append(Contents, x)[nelem + 1] = x
  BY <1>2, AppendProperties
<1>6. ASSUME NEW k \in 1 .. nelem + 1
      PROVE  Contents'[k] = Append(Contents, x)[k]
  <2>1. k \in 1 .. nelem \/ k = nelem + 1
    BY <1>4
  <2> QED
    BY <1>1, <1>2, <1>3, <1>5, <2>1, SMT, SMTT(30)
<1>7. Contents' = Append(Contents, x)
  BY <1>1, <1>3, <1>5, <1>6, SameSequence, Zenon
<1> QED
  BY <1>2, <1>4, <1>7, Zenon DEF Queue!Put, Store

\* A successful fifo_read is a Get of the queue.
LEMMA TakeGet ==
  ASSUME TypeOK, TypeOK', RingConsistent, nelem # 0, Take
  PROVE  Queue!Get
<1>1. RingConsistent' /\ nelem' = nelem - 1
  BY TakeRing
<1>2. /\ Contents \in Seq(Item) /\ Len(Contents) = nelem
      /\ \A k \in 1 .. nelem : Contents[k] = fifo[slot(index_read, k)]
  BY ContentsType DEF ContentsOK
<1>3. /\ Contents' \in Seq(Item) /\ Len(Contents') = nelem'
      /\ \A k \in 1 .. nelem' : Contents'[k] = fifo'[slot(index_read', k)]
  <2>1. ContentsOK'
    BY <1>1, ContentsType, PTL
  <2> QED
    BY <2>1 DEF ContentsOK
<1>4. nelem \in 1 .. Size
  BY FifoAssumption DEF TypeOK, RingConsistent
<1>5. Contents # << >>
  BY <1>2, <1>4
<1>6. out' = Head(Contents)
  <2>1. Contents[1] = fifo[slot(index_read, 1)]
    BY <1>2, <1>4
  <2>2. slot(index_read, 1) = index_read
    BY SlotFacts DEF TypeOK
  <2>3. Head(Contents) = Contents[1]
    BY <1>2, <1>5
  <2> QED
    BY <2>1, <2>2, <2>3, Zenon DEF Take
<1>7. /\ Tail(Contents) \in Seq(Item) /\ Len(Tail(Contents)) = nelem - 1
      /\ \A k \in 1 .. nelem - 1 : Tail(Contents)[k] = Contents[k + 1]
  BY <1>2, <1>5, HeadTailProperties, Zenon
<1>8. ASSUME NEW k \in 1 .. nelem - 1
      PROVE  Contents'[k] = Tail(Contents)[k]
  <2>1. k \in 1 .. Size /\ k + 1 \in 1 .. nelem
    BY <1>4, FifoAssumption
  <2>2. slot(after(index_read), k) = slot(index_read, k + 1)
    BY <2>1, SlotFacts, Zenon DEF TypeOK
  <2>3. Contents'[k] = fifo[slot(index_read, k + 1)]
    BY <1>1, <1>3, <2>2 DEF Take
  <2>4. Contents[k + 1] = fifo[slot(index_read, k + 1)]
    BY <1>2, <2>1, Zenon
  <2> QED
    BY <1>7, <2>3, <2>4, Zenon
<1>9. Contents' = Tail(Contents)
  BY <1>1, <1>3, <1>7, <1>8, SameSequence, Zenon
<1> QED
  BY <1>5, <1>6, <1>9 DEF Queue!Get

\* Every step of the FIFO is a step of the queue or leaves it unchanged.
LEMMA QueueStep ==
  ASSUME IInv, IInv', [Next]_vars, NoSpuriousRead
  PROVE  [Queue!Next]_<<Contents, out>>
<1> USE DEF IInv, Counters
<1>1. CASE Read \/ ReadResumes
  <2>1. nelem # 0 /\ Take
    BY <1>1 DEF Read, ReadResumes, SignalledReaderHasItem
  <2> QED
    BY <2>1, TakeGet DEF Queue!Next
<1>2. ASSUME NEW w \in Writers, NEW x \in Item, Write(w, x)
      PROVE  Queue!Next
  BY <1>2, StorePut DEF Write, Queue!Next
<1>3. ASSUME NEW w \in Writers, WriteResumes(w), nelem # Size
      PROVE  Queue!Next
  <2>1. inp[w] \in Item /\ Store(w, inp[w])
    BY <1>3 DEF WriteResumes, BlockedWritersHaveItem
  <2> QED
    BY <1>3, <2>1, StorePut, Zenon DEF Queue!Next
<1>4. CASE UNCHANGED <<ring, out>>
  BY <1>4, Zenon DEF Contents, ring
<1>5. CASE ReadBlocks \/ Expire \/ ReadTimesOut \/ SetDroptail \/ GetTimerExp \/ SpuriousRead
  BY <1>4, <1>5
     DEF ReadBlocks, Expire, ReadTimesOut, SetDroptail, GetTimerExp, SpuriousRead
<1>6. ASSUME NEW w \in Writers,
             WriteDropped(w) \/ SpuriousWrite(w) \/ (WriteResumes(w) /\ nelem = Size)
      PROVE  UNCHANGED <<ring, out>>
  BY <1>6, Zenon DEF WriteDropped, SpuriousWrite, WriteResumes, vars
<1>7. ASSUME NEW w \in Writers, NEW x \in Item, WriteBlocks(w, x)
      PROVE  UNCHANGED <<ring, out>>
  BY <1>7 DEF WriteBlocks
<1>8. CASE UNCHANGED vars
  BY <1>4, <1>8 DEF vars
<1> QED
  BY <1>1, <1>2, <1>3, <1>4, <1>5, <1>6, <1>7, <1>8, Zenon DEF Next

\* The ring of fifo_read and fifo_write is a bounded first-in first-out queue
\* that loses, repeats and reorders nothing.
THEOREM Refinement == NoSpuriousRead => (Spec => ImplementsQueue)
<1> SUFFICES ASSUME NoSpuriousRead PROVE Spec => ImplementsQueue
  OBVIOUS
<1>1. Init => Queue!Init
  <2> SUFFICES ASSUME Init PROVE Queue!Init
    OBVIOUS
  <2>1. TypeOK /\ RingConsistent
    BY InitIInv DEF IInv, Counters
  <2>2. Contents \in Seq(Item) /\ Len(Contents) = 0
    BY <2>1, ContentsType DEF Init, ContentsOK
  <2>3. Contents = << >>
    BY <2>2
  <2> QED
    BY <2>3 DEF Init, Queue!Init
<1>2. IInv /\ IInv' /\ [Next]_vars => [Queue!Next]_<<Contents, out>>
  BY QueueStep
<1>3. Spec => []IInv
  BY Invariance
<1> QED
  BY <1>1, <1>2, <1>3, PTL DEF Spec, ImplementsQueue, Queue!Spec
=============================================================================
