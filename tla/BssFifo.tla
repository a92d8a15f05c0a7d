------------------------------- MODULE BssFifo -------------------------------
(***************************************************************************)
(* The FIFO BIO of common/bss_fifo.c: a ring buffer with a mutex and two   *)
(* condition variables.  Each FIFO of the client has one reading thread    *)
(* and several writing threads.                                            *)
(*                                                                         *)
(* Everything between taking the mutex and releasing it, or waiting on a   *)
(* condition, is one step.  A thread that waits is "wait" while it is      *)
(* queued on the condition and "woken" from the moment it is signalled     *)
(* until it gets the mutex back; "expired" is the same for a timed wait    *)
(* whose deadline has passed.                                              *)
(***************************************************************************)
EXTENDS Integers, Sequences, FiniteSets

CONSTANTS
  Size,        \* the len argument of fifo_allocate
  Threshold,   \* len / 10
  Writers,     \* the threads that call fifo_write
  Item,        \* packets
  NoItem,      \* the content of a slot before its first use
  UMod,        \* the number of values of an unsigned int
  Timed,       \* TRUE when a receive timeout is set (rbio and the rdv FIFO)
  Spurious     \* the conditions, "read" and "write", whose wait may return
               \* without a signal, as POSIX allows

ASSUME FifoAssumption ==
  /\ Size \in Nat \ {0}
  /\ Threshold \in Nat /\ Threshold <= Size
  /\ UMod \in Nat /\ UMod > Size + 1
  /\ NoItem \notin Item
  /\ IsFiniteSet(Writers)
  /\ Timed \in BOOLEAN /\ Spurious \subseteq {"read", "write"}

VARIABLES
  fifo, index_read, index_write, nelem, waiting_read, waiting_write, droptail,
  rcv_timer_exp,
  rpc,     \* the reader: "idle", "wait", "woken" or "expired"
  wpc,     \* each writer: "idle", "wait" or "woken"
  inp,     \* the packet each blocked writer is writing
  out      \* the packet the last successful fifo_read returned

ring == <<fifo, index_read, index_write, nelem>>
flags == <<droptail, rcv_timer_exp>>
vars == <<ring, flags, waiting_read, waiting_write, rpc, wpc, inp, out>>

\* Unsigned arithmetic and the position after i in the ring.
dec(n) == IF n = 0 THEN UMod - 1 ELSE n - 1

inc(n) == IF n = UMod - 1 THEN 0 ELSE n + 1

room(n) == IF n <= Size THEN Size - n ELSE Size + UMod - n

after(i) == IF i = Size - 1 THEN 0 ELSE i + 1

Init ==
  /\ fifo = [i \in 0 .. Size - 1 |-> NoItem]
  /\ index_read = 0 /\ index_write = 0 /\ nelem = 0
  /\ waiting_read = 0 /\ waiting_write = 0
  /\ droptail \in BOOLEAN
  /\ rcv_timer_exp = FALSE
  /\ rpc = "idle"
  /\ wpc = [w \in Writers |-> "idle"]
  /\ inp = [w \in Writers |-> NoItem]
  /\ out = NoItem

Waiting == {w \in Writers : wpc[w] = "wait"}

\* MUTANT of SignalWriter: the signal of cond_write is missing.
SignalWriter_none == wpc' = wpc

\* conditionSignal(&d->cond_write): wakes one queued writer, if there is one.
SignalWriter ==
  IF Waiting = {} THEN wpc' = wpc
  ELSE \E w \in Waiting : wpc' = [wpc EXCEPT ![w] = "woken"]

\* The end of fifo_read when it did not time out.
Take ==
  /\ out' = fifo[index_read]
  /\ index_read' = after(index_read)
  /\ nelem' = dec(nelem)
  /\ IF waiting_write > 0 /\ room(nelem') >= Threshold
     THEN SignalWriter
     ELSE wpc' = wpc
  /\ rpc' = "idle"
  /\ UNCHANGED <<fifo, index_write, flags, waiting_write, inp>>

Read ==
  /\ rpc = "idle"
  /\ nelem # 0
  /\ Take
  /\ UNCHANGED waiting_read

ReadBlocks ==
  /\ rpc = "idle"
  /\ nelem = 0
  /\ waiting_read' = waiting_read + 1
  /\ rpc' = "wait"
  /\ UNCHANGED <<ring, flags, waiting_write, wpc, inp, out>>

\* The reader is back from its wait; the code does not test nelem again.
ReadResumes ==
  /\ rpc = "woken"
  /\ waiting_read' = waiting_read - 1
  /\ Take

\* The deadline of conditionTimedwait passes.
Expire ==
  /\ Timed
  /\ rpc = "wait"
  /\ rpc' = "expired"
  /\ UNCHANGED <<ring, flags, waiting_read, waiting_write, wpc, inp, out>>

\* MUTANT of ReadTimesOut: waiting_read is not decremented on a time-out.
ReadTimesOut_counted ==
  /\ rpc = "expired"
  /\ rcv_timer_exp' = TRUE
  /\ rpc' = "idle"
  /\ UNCHANGED <<ring, droptail, waiting_read, waiting_write, wpc, inp, out>>

ReadTimesOut ==
  /\ rpc = "expired"
  /\ waiting_read' = waiting_read - 1
  /\ rcv_timer_exp' = TRUE
  /\ rpc' = "idle"
  /\ UNCHANGED <<ring, droptail, waiting_write, wpc, inp, out>>

\* MUTANT of Store: the signal of cond_read is missing.
Store_no_signal(w, x) ==
  /\ fifo' = [fifo EXCEPT ![index_write] = x]
  /\ index_write' = after(index_write)
  /\ nelem' = inc(nelem)
  /\ wpc' = [wpc EXCEPT ![w] = "idle"]
  /\ inp' = [inp EXCEPT ![w] = NoItem]
  /\ UNCHANGED <<index_read, flags, waiting_read, rpc, out>>

\* The end of fifo_write, with the signal to the reader.
Store(w, x) ==
  /\ fifo' = [fifo EXCEPT ![index_write] = x]
  /\ index_write' = after(index_write)
  /\ nelem' = inc(nelem)
  /\ rpc' = IF waiting_read > 0 /\ rpc = "wait" THEN "woken" ELSE rpc
  /\ wpc' = [wpc EXCEPT ![w] = "idle"]
  /\ inp' = [inp EXCEPT ![w] = NoItem]
  /\ UNCHANGED <<index_read, flags, waiting_read, out>>

Write(w, x) ==
  /\ wpc[w] = "idle"
  /\ nelem # Size
  /\ Store(w, x)
  /\ UNCHANGED waiting_write

\* The packet is discarded and the caller is told that it was written.
WriteDropped(w) ==
  /\ wpc[w] = "idle"
  /\ nelem = Size
  /\ droptail
  /\ UNCHANGED vars

WriteBlocks(w, x) ==
  /\ wpc[w] = "idle"
  /\ nelem = Size
  /\ ~droptail
  /\ waiting_write' = waiting_write + 1
  /\ wpc' = [wpc EXCEPT ![w] = "wait"]
  /\ inp' = [inp EXCEPT ![w] = x]
  /\ UNCHANGED <<ring, flags, waiting_read, rpc, out>>

\* MUTANT of WriteResumes: "if" in place of "while".
WriteResumes_once(w) ==
  /\ wpc[w] = "woken"
  /\ waiting_write' = waiting_write - 1
  /\ Store(w, inp[w])

\* The writer is back from its wait: it waits again while the ring is full.
WriteResumes(w) ==
  /\ wpc[w] = "woken"
  /\ \/ /\ nelem # Size
        /\ waiting_write' = waiting_write - 1
        /\ Store(w, inp[w])
     \/ /\ nelem = Size
        /\ wpc' = [wpc EXCEPT ![w] = "wait"]
        /\ UNCHANGED <<ring, flags, waiting_read, waiting_write, rpc, inp, out>>

\* BIO_CTRL_FIFO_SET_DROPTAIL with 0, when the sending thread starts.
SetDroptail ==
  /\ droptail
  /\ droptail' = FALSE
  /\ UNCHANGED <<ring, rcv_timer_exp, waiting_read, waiting_write, rpc, wpc, inp, out>>

\* BIO_CTRL_DGRAM_GET_RECV_TIMER_EXP: reports and clears the flag.
GetTimerExp ==
  /\ rcv_timer_exp
  /\ rcv_timer_exp' = FALSE
  /\ UNCHANGED <<ring, droptail, waiting_read, waiting_write, rpc, wpc, inp, out>>

SpuriousRead ==
  /\ "read" \in Spurious
  /\ rpc = "wait"
  /\ rpc' = "woken"
  /\ UNCHANGED <<ring, flags, waiting_read, waiting_write, wpc, inp, out>>

SpuriousWrite(w) ==
  /\ "write" \in Spurious
  /\ wpc[w] = "wait"
  /\ wpc' = [wpc EXCEPT ![w] = "woken"]
  /\ UNCHANGED <<ring, flags, waiting_read, waiting_write, rpc, inp, out>>

Next ==
  \/ Read \/ ReadBlocks \/ ReadResumes \/ Expire \/ ReadTimesOut
  \/ SetDroptail \/ GetTimerExp \/ SpuriousRead
  \/ \E w \in Writers : WriteDropped(w) \/ WriteResumes(w) \/ SpuriousWrite(w)
  \/ \E w \in Writers, x \in Item : Write(w, x) \/ WriteBlocks(w, x)

Spec == Init /\ [][Next]_vars

\* The reading thread loops on fifo_read and a thread that was signalled gets
\* the mutex back; nothing obliges a thread to write.
Fairness ==
  /\ WF_vars(Read \/ ReadBlocks \/ ReadResumes \/ ReadTimesOut)
  /\ \A w \in Writers : WF_vars(WriteResumes(w))

FairSpec == Spec /\ Fairness
-----------------------------------------------------------------------------
(***************************************************************************)
(* Properties                                                              *)
(***************************************************************************)
\* Type invariant of the ring, of its counters and of the threads' positions.
TypeOK ==
  /\ fifo \in [0 .. Size - 1 -> Item \cup {NoItem}]
  /\ index_read \in 0 .. Size - 1
  /\ index_write \in 0 .. Size - 1
  /\ nelem \in 0 .. UMod - 1
  /\ waiting_read \in Nat
  /\ waiting_write \in Nat
  /\ droptail \in BOOLEAN
  /\ rcv_timer_exp \in BOOLEAN
  /\ rpc \in {"idle", "wait", "woken", "expired"}
  /\ wpc \in [Writers -> {"idle", "wait", "woken"}]
  /\ inp \in [Writers -> Item \cup {NoItem}]
  /\ out \in Item \cup {NoItem}

\* The slot of the k-th oldest item when the read position is r.
slot(r, k) == IF r + k - 1 < Size THEN r + k - 1 ELSE r + k - 1 - Size

\* The write position is nelem slots after the read position, so that fifo_write
\* never overwrites an unread packet, and every unread slot holds a packet.
RingConsistent ==
  /\ nelem <= Size
  /\ index_write = slot(index_read, nelem + 1)
  /\ \A k \in 1 .. nelem : fifo[slot(index_read, k)] \in Item

\* waiting_read and waiting_write count the threads that are inside a wait
\* (bss_fifo.h:68), through time-outs, repeated and spurious wake-ups: a count
\* that drifted to zero would suppress a signal for ever.
WaitCountersExact ==
  /\ waiting_read = IF rpc = "idle" THEN 0 ELSE 1
  /\ waiting_write = Cardinality({w \in Writers : wpc[w] # "idle"})

\* No lost wake-up of the reader: it is not left waiting on cond_read while a
\* packet is in the ring, even when its deadline races the writer's signal.
ReaderNotStranded == rpc = "wait" => nelem = 0

\* No lost wake-up of the writers: while one of them waits on cond_write there
\* is still a packet whose reading will signal it, or another writer has been
\* signalled, although signals are withheld below the threshold.
WritersNotStranded ==
  Waiting # {} => nelem # 0 \/ \E w \in Writers : wpc[w] = "woken"

Contents == [k \in 1 .. nelem |-> fifo[slot(index_read, k)]]

Queue == INSTANCE BoundedQueue WITH q <- Contents

\* The FIFO implements a bounded queue: packets come out in the order in which
\* they were accepted, none is lost or read twice.
ImplementsQueue == Queue!Spec

\* When every writer waits on cond_write one of them completes its fifo_write,
\* although fifo_read signals only one writer and only past the threshold.
BlockedWritersProgress ==
  (\A w \in Writers : wpc[w] = "wait") ~> (\E w \in Writers : wpc[w] = "idle")
=============================================================================
