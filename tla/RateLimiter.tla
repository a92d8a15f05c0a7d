---------------------------- MODULE RateLimiter ----------------------------
(***************************************************************************)
(* The token buckets of client/rate_limiter.c and the filter of            *)
(* client/bf_rate_limiter.c that sends every datagram of a session through *)
(* the bucket of its peer and then through the bucket of the process.      *)
(*                                                                         *)
(* A tick is the nanosecond of the monotonic clock.  A bucket gets         *)
(* Num / Den tokens per tick.  A thread that waits for tokens sleeps with  *)
(* the mutex of the bucket, so a call of tb_count is one or two steps.     *)
(***************************************************************************)
EXTENDS Integers, Sequences

CONSTANTS
  Writers,     \* the threads that write datagrams
  NoOne,       \* none of them
  Buckets,     \* one per peer, and that of the process
  Path,        \* the buckets each writer passes (a NULL limiter is left out)
  Lengths,     \* the lengths of the datagrams, with packet_overhead
  Size, Num, Den,  \* bucket_size and bucket_rate of each bucket
  MaxClock,    \* bound: no datagram is written later
  MaxFailures  \* bound on the number of failing nanosleep calls

\* No datagram exceeds a bucket (ASSERT in tb_count), and a rate is at most
\* half a byte per nanosecond.
ASSUME ConstantsAssumption ==
  /\ Size \in [Buckets -> Nat]
  /\ Num \in [Buckets -> Nat \ {0}] /\ Den \in [Buckets -> Nat \ {0}]
  /\ \A b \in Buckets : 2 * Num[b] <= Den[b]
  /\ NoOne \notin Writers
  /\ Path \in [Writers -> Seq(Buckets)]
  /\ Lengths \subseteq Nat
  /\ \A b \in Buckets, l \in Lengths : l <= Size[b]
  /\ MaxClock \in Nat /\ MaxFailures \in Nat

VARIABLES
  clock,
  available,   \* bucket_available
  last,        \* last_arrival_time
  asleep,      \* per bucket: the thread that sleeps with its mutex, or NoOne
  stage,       \* per writer: its bucket on its path, 0 outside ratef_write
  packet,      \* per writer: the length of its datagram
  counted,     \* history: the tokens taken from each bucket
  refills,     \* history: how often each bucket was refilled
  failures     \* history: how often a sleep with its mutex failed

buckets == <<available, last, asleep, counted, refills>>
vars == <<clock, buckets, stage, packet, failures>>

\* tb_init: a full bucket.
Init ==
  /\ clock = 0
  /\ available = Size
  /\ last = [b \in Buckets |-> 0]
  /\ asleep = [b \in Buckets |-> NoOne]
  /\ stage = [w \in Writers |-> 0]
  /\ packet = [w \in Writers |-> 0]
  /\ counted = [b \in Buckets |-> 0]
  /\ refills = [b \in Buckets |-> 0]
  /\ failures = [b \in Buckets |-> 0]

\* round(elapsed_ms * bucket_rate)
Tokens(b, elapsed) == (2 * elapsed * Num[b] + Den[b]) \div (2 * Den[b])

AtMost(n, max) == IF n > max THEN max ELSE n

\* The bucket with the tokens since the last call.
Filled(b) == available[b] + Tokens(b, clock - last[b])

\* The length of the sleep for the missing tokens, cut to nanoseconds.
Sleep(b, missing) == (missing * Den[b]) \div Num[b]

\* ratef_write with a datagram.
Write(w) ==
  /\ stage[w] = 0 /\ Path[w] # <<>> /\ clock < MaxClock
  /\ stage' = [stage EXCEPT ![w] = 1]
  /\ \E l \in Lengths : packet' = [packet EXCEPT ![w] = l]
  /\ UNCHANGED <<clock, buckets, failures>>

Waits(w, b) == stage[w] # 0 /\ Path[w][stage[w]] = b

\* The datagram passed the bucket: on to the next one, or out.
Passed(w) ==
  LET out == stage[w] = Len(Path[w])
  IN /\ stage' = [stage EXCEPT ![w] = IF out THEN 0 ELSE @ + 1]
     /\ packet' = IF out THEN [packet EXCEPT ![w] = 0] ELSE packet

\* MUTANT of Refill: the arrival time is not updated.
Refill_unstamped(b, left) ==
  /\ available' = [available EXCEPT ![b] = left]
  /\ UNCHANGED last
  /\ refills' = [refills EXCEPT ![b] = @ + 1]

\* The arrival time is updated and left tokens stay in the bucket.
Refill(b, left) ==
  /\ available' = [available EXCEPT ![b] = left]
  /\ last' = [last EXCEPT ![b] = clock]
  /\ refills' = [refills EXCEPT ![b] = @ + 1]

\* tb_count up to the sleep, or to its end when the tokens suffice.
TbCount(w, b) ==
  /\ Waits(w, b) /\ asleep[b] = NoOne
  /\ LET filled == AtMost(Filled(b), Size[b])
     IN IF packet[w] <= filled
        THEN /\ Refill(b, filled - packet[w]) /\ Passed(w)
             /\ counted' = [counted EXCEPT ![b] = @ + packet[w]]
             /\ UNCHANGED asleep
        ELSE /\ Refill(b, filled) /\ asleep' = [asleep EXCEPT ![b] = w]
             /\ UNCHANGED <<stage, packet, counted>>
  /\ UNCHANGED <<clock, failures>>

\* The sleep is over.
SleptEnough(b) == clock - last[b] >= Sleep(b, packet[asleep[b]] - available[b])

\* MUTANT of Awake: the mutex is not unlocked.
Awake_locked(w, b) ==
  LET left == IF Filled(b) < packet[w] THEN 0 ELSE Filled(b) - packet[w]
  IN /\ Refill(b, AtMost(left, Size[b])) /\ Passed(w)
     /\ counted' = [counted EXCEPT ![b] = @ + packet[w]]
     /\ UNCHANGED asleep

\* The rest of tb_count: the datagram is counted whether the tokens suffice or
\* not.
Awake(w, b) ==
  LET left == IF Filled(b) < packet[w] THEN 0 ELSE Filled(b) - packet[w]
  IN /\ Refill(b, AtMost(left, Size[b])) /\ Passed(w)
     /\ counted' = [counted EXCEPT ![b] = @ + packet[w]]
     /\ asleep' = [asleep EXCEPT ![b] = NoOne]

\* nanosleep returns when the time is over, ...
WakeUp(w, b) ==
  /\ Waits(w, b) /\ asleep[b] = w /\ SleptEnough(b)
  /\ Awake(w, b)
  /\ UNCHANGED <<clock, failures>>

\* ... or fails, which is logged only.
SleepFails(w, b) ==
  /\ Waits(w, b) /\ asleep[b] = w /\ failures[b] < MaxFailures
  /\ Awake(w, b)
  /\ failures' = [failures EXCEPT ![b] = @ + 1]
  /\ UNCHANGED clock

\* Time passes; after MaxClock only while somebody needs it.
Tick ==
  /\ clock < MaxClock \/ \E b \in Buckets : asleep[b] # NoOne /\ ~SleptEnough(b)
  /\ clock' = clock + 1
  /\ UNCHANGED <<buckets, stage, packet, failures>>

Next ==
  \/ \E w \in Writers : Write(w)
  \/ \E w \in Writers, b \in Buckets : TbCount(w, b) \/ WakeUp(w, b) \/ SleepFails(w, b)
  \/ Tick

Spec == Init /\ [][Next]_vars

\* Time passes; a thread wakes up after its sleep, and gets a mutex that is
\* released again and again.
FairSpec ==
  /\ Spec /\ WF_vars(Tick)
  /\ \A w \in Writers : /\ WF_vars(\E b \in Buckets : WakeUp(w, b))
                        /\ SF_vars(\E b \in Buckets : TbCount(w, b))
-----------------------------------------------------------------------------
TypeOK ==
  /\ clock \in Nat
  /\ available \in [Buckets -> Nat] /\ \A b \in Buckets : available[b] <= Size[b]
  /\ last \in [Buckets -> Nat] /\ \A b \in Buckets : last[b] <= clock
  /\ asleep \in [Buckets -> Writers \cup {NoOne}]
  /\ stage \in [Writers -> Nat]
  /\ \A w \in Writers : stage[w] <= Len(Path[w])
  /\ packet \in [Writers -> Lengths \cup {0}]
  /\ counted \in [Buckets -> Nat] /\ refills \in [Buckets -> Nat]
  /\ failures \in [Buckets -> Nat]

\* What the limit promises: however many threads share a bucket, the bytes that
\* passed it since tb_init are at most its size and its rate times the time,
\* but for half a byte that every refill may round up and for a full bucket
\* per failing sleep.
RateConformance ==
  \A b \in Buckets :
    2 * Den[b] * (counted[b] + available[b]) <=
      2 * Den[b] * Size[b] * (1 + failures[b]) + 2 * Num[b] * last[b] + Den[b] * refills[b]

\* Every datagram passes its buckets, though threads sleep with their mutexes:
\* all take the bucket of the peer first and give it back before the other.
WritesReturn == \A w \in Writers : (stage[w] # 0) ~> (stage[w] = 0)
=============================================================================
