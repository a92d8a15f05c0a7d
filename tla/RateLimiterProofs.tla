------------------------- MODULE RateLimiterProofs -------------------------
(***************************************************************************)
(* Proof that the token buckets keep their rate, for every number of       *)
(* threads and buckets, all rates, sizes and lengths, and without the      *)
(* bounds of the runs.  The type invariant and the property are inductive  *)
(* together; the arithmetic of one refill is in the lemmas.                *)
(***************************************************************************)
EXTENDS RateLimiter, TLAPS

\* Integer division rounds down.
LEMMA Division ==
  ASSUME NEW a \in Int, NEW k \in Nat \ {0}
  PROVE  /\ a \div k \in Int
         /\ k * (a \div k) <= a
         /\ a < k * (a \div k) + k
  BY SMT

\* What round() adds is at most half a token more than the time allows.
LEMMA Rounding ==
  ASSUME NEW e \in Nat, NEW n \in Nat \ {0}, NEW d \in Nat \ {0}
  PROVE  /\ (2 * e * n + d) \div (2 * d) \in Nat
         /\ 2 * d * ((2 * e * n + d) \div (2 * d)) <= 2 * e * n + d
<1> DEFINE a == 2 * e * n + d
<1> DEFINE k == 2 * d
<1> DEFINE q == a \div k
<1>1. a \in Nat /\ k \in Nat \ {0}
  BY SMT
<1> HIDE DEF a, k
<1>2. q \in Int /\ k * q <= a /\ a < k * q + k
  BY <1>1, Division
<1>3. q >= 0
  <2> SUFFICES ASSUME q < 0 PROVE FALSE
    BY <1>2
  <2>1. q + 1 <= 0
    BY <1>2
  <2> HIDE DEF q
  <2>2. k * (q + 1) <= 0
    BY <1>1, <1>2, <2>1, SMT
  <2>3. k * (q + 1) = k * q + k
    BY <1>1, <1>2, SMT
  <2> QED BY <1>1, <1>2, <2>2, <2>3, SMT
<1> QED BY <1>1, <1>2, <1>3 DEF a, k

\* After the sleep that tb_count computes for m missing tokens, though it is
\* cut to nanoseconds, round() yields them.
LEMMA Waiting ==
  ASSUME NEW e \in Nat, NEW n \in Nat \ {0}, NEW d \in Nat \ {0}, NEW m \in Int,
         2 * n <= d, e >= (m * d) \div n
  PROVE  (2 * e * n + d) \div (2 * d) >= m
<1> DEFINE t == (2 * e * n + d) \div (2 * d)
<1> DEFINE s == (m * d) \div n
<1>1. s \in Int /\ m * d < n * s + n
  BY Division
<1>2. n * s <= n * e
  BY <1>1, SMT
<1>3. 2 * d * m <= 2 * e * n + d
  BY <1>1, <1>2, SMT
<1>4. t \in Int /\ 2 * e * n + d < 2 * d * t + 2 * d
  <2>1. 2 * e * n + d \in Int /\ 2 * d \in Nat \ {0}
    BY SMT
  <2> QED BY <2>1, Division, Zenon
<1>5. 2 * d * m < 2 * d * (t + 1)
  BY <1>3, <1>4, SMT
<1>6. m < t + 1
  BY <1>4, <1>5, SMT
<1> QED BY <1>4, <1>6

\* The formula that RateConformance states of every bucket.
Balanced(c, a, size, f, l, r, n, d) ==
  2 * d * (c + a) <= 2 * d * size * (1 + f) + 2 * n * l + d * r

\* One refill of a bucket keeps the balance: t tokens came in the time from l
\* to k, and at most as many more left it, or a bucket more when g sleeps failed.
LEMMA Balance ==
  ASSUME NEW c \in Nat, NEW a \in Nat, NEW size \in Nat, NEW f \in Nat, NEW l \in Nat,
         NEW k \in Nat, NEW r \in Nat, NEW n \in Nat \ {0}, NEW d \in Nat \ {0},
         NEW c2 \in Nat, NEW a2 \in Nat, NEW t \in Nat, NEW g \in Nat,
         l <= k, 2 * d * t <= 2 * (k - l) * n + d,
         c2 + a2 <= c + a + t + g * size,
         Balanced(c, a, size, f, l, r, n, d)
  PROVE  Balanced(c2, a2, size, f + g, k, r + 1, n, d)
<1> USE DEF Balanced
<1>1. 2 * d * (c2 + a2) <= 2 * d * (c + a + t + g * size)
  <2> DEFINE x == c2 + a2
  <2> DEFINE y == c + a + t + g * size
  <2>1. x \in Nat /\ y \in Nat /\ x <= y
    BY SMT
  <2> HIDE DEF x, y
  <2>2. 2 * d * x <= 2 * d * y
    BY <2>1, SMT
  <2> QED BY <2>2 DEF x, y
<1>2. 2 * d * (c + a + t + g * size) = 2 * d * (c + a) + 2 * d * t + 2 * d * size * g
  BY SMT
<1>3. 2 * (k - l) * n = 2 * n * k - 2 * n * l
  BY SMT
<1>4. 2 * d * size * (1 + (f + g)) = 2 * d * size * (1 + f) + 2 * d * size * g
  BY SMT
<1>5. d * (r + 1) = d * r + d
  BY SMT
<1> DEFINE p1 == 2 * d * (c2 + a2)
<1> DEFINE p2 == 2 * d * (c + a)
<1> DEFINE p3 == 2 * d * t
<1> DEFINE p4 == 2 * d * size * g
<1> DEFINE p5 == 2 * d * size * (1 + f)
<1> DEFINE p6 == 2 * n * l
<1> DEFINE p7 == 2 * n * k
<1> DEFINE p8 == d * r
<1>6. /\ p1 \in Nat /\ p2 \in Nat /\ p3 \in Nat /\ p4 \in Nat
      /\ p5 \in Nat /\ p6 \in Nat /\ p7 \in Nat /\ p8 \in Nat
  BY SMT
<1>7. p1 <= p2 + p3 + p4 /\ p2 <= p5 + p6 + p8 /\ p3 <= p7 - p6 + d
  BY <1>1, <1>2, <1>3
<1> HIDE DEF p1, p2, p3, p4, p5, p6, p7, p8
<1>8. p1 <= p5 + p4 + p7 + (p8 + d)
  BY <1>6, <1>7
<1> QED BY <1>4, <1>5, <1>8 DEF p1, p4, p5, p7, p8
-----------------------------------------------------------------------------
\* RateConformance of one bucket.
Kept(b) ==
  Balanced(counted[b], available[b], Size[b], failures[b], last[b], refills[b], Num[b], Den[b])

\* The invariant that is inductive.
IInv == TypeOK /\ \A b \in Buckets : Kept(b)

\* The tokens that a bucket gets since the last call.
LEMMA RefillTokens ==
  ASSUME TypeOK, NEW b \in Buckets
  PROVE  /\ clock - last[b] \in Nat
         /\ Tokens(b, clock - last[b]) \in Nat
         /\ 2 * Den[b] * Tokens(b, clock - last[b]) <= 2 * (clock - last[b]) * Num[b] + Den[b]
         /\ Filled(b) = available[b] + Tokens(b, clock - last[b])
         /\ Filled(b) \in Nat
<1>1. Num[b] \in Nat \ {0} /\ Den[b] \in Nat \ {0}
  BY ConstantsAssumption
<1>2. clock - last[b] \in Nat /\ available[b] \in Nat
  BY DEF TypeOK
<1>3. /\ Tokens(b, clock - last[b]) \in Nat
      /\ 2 * Den[b] * Tokens(b, clock - last[b]) <= 2 * (clock - last[b]) * Num[b] + Den[b]
  BY <1>1, <1>2, Rounding, Zenon DEF Tokens
<1> QED BY <1>2, <1>3 DEF Filled

\* A step that refills b, takes p tokens from it and fails g sleeps.
LEMMA RefillKeeps ==
  ASSUME IInv, NEW b \in Buckets, NEW p \in Nat, NEW left \in Nat, NEW g \in {0, 1},
         Refill(b, left), counted' = [counted EXCEPT ![b] = @ + p],
         failures' = [failures EXCEPT ![b] = @ + g],
         p + left <= Filled(b) + g * Size[b]
  PROVE  \A x \in Buckets : Kept(x)'
<1> USE DEF IInv
<1> TAKE x \in Buckets
<1>1. CASE x # b
  BY <1>1 DEF TypeOK, Kept, Refill
<1>2. CASE x = b
  <2> DEFINE t == Tokens(b, clock - last[b])
  <2>1. /\ counted[b] \in Nat /\ available[b] \in Nat /\ Size[b] \in Nat
        /\ failures[b] \in Nat /\ last[b] \in Nat /\ clock \in Nat /\ refills[b] \in Nat
        /\ Num[b] \in Nat \ {0} /\ Den[b] \in Nat \ {0} /\ last[b] <= clock
    BY ConstantsAssumption, Zenon DEF TypeOK
  <2>2. t \in Nat /\ 2 * Den[b] * t <= 2 * (clock - last[b]) * Num[b] + Den[b]
        /\ Filled(b) = available[b] + t
    BY RefillTokens
  <2>3. /\ counted'[b] = counted[b] + p /\ available'[b] = left /\ last'[b] = clock
        /\ refills'[b] = refills[b] + 1 /\ failures'[b] = failures[b] + g
    BY DEF TypeOK, Refill
  <2> HIDE DEF t
  <2>4. counted[b] + p \in Nat /\ g \in Nat
    BY <2>1
  <2>5. (counted[b] + p) + left <= counted[b] + available[b] + t + g * Size[b]
    <3> DEFINE h == g * Size[b]
    <3>1. h \in Nat
      BY <2>1
    <3> HIDE DEF h
    <3>2. p + left <= available[b] + t + h
      BY <2>2 DEF h
    <3> QED BY <2>1, <2>2, <3>1, <3>2 DEF h
  <2>6. Kept(b)
    OBVIOUS
  <2>7. Balanced(counted[b] + p, left, Size[b], failures[b] + g, clock, refills[b] + 1,
                 Num[b], Den[b])
    BY <2>1, <2>2, <2>4, <2>5, <2>6, Balance, ZenonT(30) DEF Kept
  <2> QED BY <1>2, <2>3, <2>7 DEF Kept
<1> QED BY <1>1, <1>2
-----------------------------------------------------------------------------
\* A thread is at a bucket of its path.
LEMMA WaitsAt ==
  ASSUME TypeOK, NEW w \in Writers, NEW b, Waits(w, b)
  PROVE  b \in Buckets /\ stage[w] \in 1 .. Len(Path[w]) /\ packet[w] \in Nat
         /\ packet[w] <= Size[b]
<1>1. Path[w] \in Seq(Buckets) /\ stage[w] \in Nat /\ stage[w] <= Len(Path[w]) /\ stage[w] # 0
  BY ConstantsAssumption DEF TypeOK, Waits
<1>2. stage[w] \in 1 .. Len(Path[w])
  BY <1>1
<1>3. Path[w][stage[w]] \in Buckets
  BY <1>1, <1>2
<1>4. b \in Buckets
  BY <1>3 DEF Waits
<1>5. packet[w] \in Lengths \cup {0}
  BY DEF TypeOK
<1>6. packet[w] \in Nat /\ packet[w] <= Size[b]
  <2>1. Size[b] \in Nat /\ Lengths \subseteq Nat /\ \A l \in Lengths : l <= Size[b]
    BY <1>4, ConstantsAssumption
  <2>2. CASE packet[w] \in Lengths
    BY <2>1, <2>2, Zenon
  <2>3. CASE packet[w] = 0
    BY <2>1, <2>3
  <2> QED BY <1>5, <2>2, <2>3
<1> QED BY <1>2, <1>4, <1>6

\* Passing a bucket keeps the types of stage and packet.
LEMMA PassedType ==
  ASSUME TypeOK, NEW w \in Writers, stage[w] \in 1 .. Len(Path[w]), Passed(w)
  PROVE  /\ stage' \in [Writers -> Nat] /\ \A x \in Writers : stage'[x] <= Len(Path[x])
         /\ packet' \in [Writers -> Lengths \cup {0}]
<1>1. Len(Path[w]) \in Nat /\ \A x \in Writers : Len(Path[x]) \in Nat
  <2>1. ASSUME NEW x \in Writers PROVE Path[x] \in Seq(Buckets)
    BY ConstantsAssumption, Zenon
  <2>2. ASSUME NEW x \in Writers PROVE Len(Path[x]) \in Nat
    BY <2>1
  <2> QED BY <2>2, Zenon
<1>2. packet' \in [Writers -> Lengths \cup {0}]
  BY DEF TypeOK, Passed
<1>3. stage' \in [Writers -> Nat] /\ \A x \in Writers : stage'[x] <= Len(Path[x])
  BY <1>1 DEF TypeOK, Passed
<1> QED BY <1>2, <1>3

\* A refill keeps the types of the buckets.
LEMMA RefillType ==
  ASSUME TypeOK, NEW b \in Buckets, NEW left \in Nat, left <= Size[b], Refill(b, left)
  PROVE  /\ available' \in [Buckets -> Nat] /\ \A x \in Buckets : available'[x] <= Size[x]
         /\ last' \in [Buckets -> Nat] /\ \A x \in Buckets : last'[x] <= clock
         /\ refills' \in [Buckets -> Nat]
<1>1. available' = [available EXCEPT ![b] = left] /\ last' = [last EXCEPT ![b] = clock]
      /\ refills' = [refills EXCEPT ![b] = @ + 1]
  BY DEF Refill
<1>2. available' \in [Buckets -> Nat] /\ \A x \in Buckets : available'[x] <= Size[x]
  BY <1>1 DEF TypeOK
<1>3. last' \in [Buckets -> Nat] /\ \A x \in Buckets : last'[x] <= clock
  BY <1>1 DEF TypeOK
<1>4. refills' \in [Buckets -> Nat]
  BY <1>1 DEF TypeOK
<1> QED BY <1>2, <1>3, <1>4

\* The rest of tb_count keeps the invariant: g = 0 when the sleep was long
\* enough, g = 1 when it failed.
LEMMA AwakeKeeps ==
  ASSUME IInv, NEW w \in Writers, NEW b \in Buckets, NEW g \in {0, 1},
         Waits(w, b), Awake(w, b), UNCHANGED clock,
         failures' = [failures EXCEPT ![b] = @ + g],
         g = 0 => packet[w] <= Filled(b)
  PROVE  IInv'
<1> DEFINE left == IF Filled(b) < packet[w] THEN 0 ELSE Filled(b) - packet[w]
<1> DEFINE rest == AtMost(left, Size[b])
<1>1. Size[b] \in Nat /\ Filled(b) \in Nat /\ packet[w] \in Nat /\ packet[w] <= Size[b]
      /\ stage[w] \in 1 .. Len(Path[w])
  BY WaitsAt, RefillTokens, ConstantsAssumption, Zenon DEF IInv
<1>2. left \in Nat /\ rest \in Nat /\ rest <= Size[b] /\ rest <= left
  BY <1>1 DEF AtMost
<1>3. packet[w] + rest <= Filled(b) + g * Size[b]
  <2>1. CASE g = 0
    <3>1. left = Filled(b) - packet[w]
      BY <1>1, <2>1
    <3>2. g * Size[b] = 0
      BY <1>1, <2>1
    <3> HIDE DEF rest, left
    <3>3. packet[w] + rest <= Filled(b)
      BY <1>1, <1>2, <3>1
    <3>4. Filled(b) = Filled(b) + g * Size[b]
      BY <1>1, <3>2
    <3> QED BY <3>3, <3>4
  <2>2. CASE g = 1
    <3>1. g * Size[b] = Size[b]
      BY <1>1, <2>2
    <3>2. packet[w] + left <= Filled(b) + Size[b]
      BY <1>1
    <3> HIDE DEF rest, left
    <3>3. packet[w] + rest <= Filled(b) + Size[b]
      BY <1>1, <1>2, <3>2
    <3> QED BY <3>1, <3>3
  <2> QED BY <2>1, <2>2
<1>4. /\ Refill(b, rest) /\ Passed(w)
      /\ counted' = [counted EXCEPT ![b] = @ + packet[w]]
      /\ asleep' = [asleep EXCEPT ![b] = NoOne]
  BY DEF Awake
<1> HIDE DEF rest, left
<1>5. \A x \in Buckets : Kept(x)'
  BY <1>1, <1>2, <1>3, <1>4, RefillKeeps, Zenon
<1>6. TypeOK'
  <2>1. counted' \in [Buckets -> Nat]
    <3>1. counted \in [Buckets -> Nat]
      BY Zenon DEF IInv, TypeOK
    <3>2. counted[b] + packet[w] \in Nat
      BY <1>1, <3>1
    <3> QED BY <1>4, <3>1, <3>2, Zenon
  <2>2. failures' \in [Buckets -> Nat] /\ clock' \in Nat
    BY DEF IInv, TypeOK
  <2>3. asleep' \in [Buckets -> Writers \cup {NoOne}]
    BY <1>4 DEF IInv, TypeOK
  <2>4. TypeOK
    BY DEF IInv
  <2> QED BY <1>1, <1>2, <1>4, <2>1, <2>2, <2>3, <2>4, RefillType, PassedType, Zenon DEF TypeOK
<1> QED BY <1>5, <1>6 DEF IInv

\* The full buckets of tb_init have the invariant.
LEMMA InitIInv == Init => IInv
<1> SUFFICES ASSUME Init PROVE IInv
  OBVIOUS
<1> USE ConstantsAssumption DEF Init
<1>1. TypeOK
  <2>1. ASSUME NEW w \in Writers PROVE Len(Path[w]) \in Nat /\ 0 <= Len(Path[w])
    <3>1. Path[w] \in Seq(Buckets)
      OBVIOUS
    <3> QED BY <3>1
  <2> QED BY <2>1 DEF TypeOK
<1>2. ASSUME NEW b \in Buckets PROVE Kept(b)
  <2>1. Size[b] \in Nat /\ Num[b] \in Nat /\ Den[b] \in Nat
    OBVIOUS
  <2>2. available[b] = Size[b] /\ counted[b] = 0 /\ failures[b] = 0 /\ last[b] = 0 /\ refills[b] = 0
    OBVIOUS
  <2>3. Balanced(0, Size[b], Size[b], 0, 0, 0, Num[b], Den[b])
    BY <2>1 DEF Balanced
  <2> QED BY <2>2, <2>3 DEF Kept
<1> QED BY <1>1, <1>2 DEF IInv

\* Every step keeps the invariant.
LEMMA NextIInv == IInv /\ [Next]_vars => IInv'
<1> SUFFICES ASSUME IInv, [Next]_vars PROVE IInv'
  OBVIOUS
<1>0. TypeOK
  BY DEF IInv
<1>1. ASSUME NEW w \in Writers, Write(w) PROVE IInv'
  <2>1. \A b \in Buckets : Kept(b)'
    BY <1>1 DEF IInv, Kept, Write, buckets
  <2>2. Len(Path[w]) \in Nat /\ Len(Path[w]) >= 1
    BY <1>1, ConstantsAssumption DEF Write
  <2>3. stage' \in [Writers -> Nat] /\ \A x \in Writers : stage'[x] <= Len(Path[x])
    BY <1>0, <1>1, <2>2 DEF TypeOK, Write
  <2>4. packet' \in [Writers -> Lengths \cup {0}]
    BY <1>0, <1>1 DEF TypeOK, Write
  <2>5. TypeOK'
    BY <1>0, <1>1, <2>3, <2>4 DEF TypeOK, Write, buckets
  <2> QED BY <2>1, <2>5 DEF IInv
<1>2. ASSUME NEW w \in Writers, NEW b \in Buckets, TbCount(w, b) PROVE IInv'
  <2> DEFINE filled == AtMost(Filled(b), Size[b])
  <2>1. Size[b] \in Nat /\ Filled(b) \in Nat /\ packet[w] \in Nat
        /\ stage[w] \in 1 .. Len(Path[w])
    BY <1>0, <1>2, WaitsAt, RefillTokens, ConstantsAssumption DEF TbCount
  <2>2. filled \in Nat /\ filled <= Size[b] /\ filled <= Filled(b)
    BY <2>1 DEF AtMost
  <2>3. UNCHANGED <<clock, failures>>
    BY <1>2 DEF TbCount
  <2>4. failures' = [failures EXCEPT ![b] = @ + 0]
    BY <1>0, <2>3 DEF TypeOK
  <2>5. CASE packet[w] <= filled
    <3>1. /\ Refill(b, filled - packet[w]) /\ Passed(w)
          /\ counted' = [counted EXCEPT ![b] = @ + packet[w]] /\ UNCHANGED asleep
      BY <1>2, <2>5 DEF TbCount
    <3> HIDE DEF filled
    <3>2. filled - packet[w] \in Nat /\ filled - packet[w] <= Size[b]
          /\ packet[w] + (filled - packet[w]) <= Filled(b) + 0 * Size[b]
      BY <2>1, <2>2, <2>5
    <3>3. \A x \in Buckets : Kept(x)'
      BY <2>1, <2>4, <3>1, <3>2, RefillKeeps, Zenon
    <3>4. counted' \in [Buckets -> Nat]
      BY <1>0, <2>1, <3>1 DEF TypeOK
    <3>5. TypeOK'
      BY <1>0, <2>1, <2>3, <3>1, <3>2, <3>4, RefillType, PassedType, Zenon DEF TypeOK
    <3> QED BY <3>3, <3>5 DEF IInv
  <2>6. CASE ~(packet[w] <= filled)
    <3>1. Refill(b, filled) /\ asleep' = [asleep EXCEPT ![b] = w]
          /\ UNCHANGED <<stage, packet, counted>>
      BY <1>2, <2>6 DEF TbCount
    <3> HIDE DEF filled
    <3>2. counted' = [counted EXCEPT ![b] = @ + 0]
      BY <1>0, <3>1 DEF TypeOK
    <3>3. 0 + filled <= Filled(b) + 0 * Size[b]
      BY <2>1, <2>2
    <3>4. \A x \in Buckets : Kept(x)'
      BY <2>2, <2>4, <3>1, <3>2, <3>3, RefillKeeps, Zenon
    <3>5. asleep' \in [Buckets -> Writers \cup {NoOne}]
      BY <1>0, <3>1 DEF TypeOK
    <3>6. TypeOK'
      BY <1>0, <2>2, <2>3, <3>1, <3>5, RefillType, Zenon DEF TypeOK
    <3> QED BY <3>4, <3>6 DEF IInv
  <2> QED BY <2>5, <2>6
<1>3. ASSUME NEW w \in Writers, NEW b \in Buckets, WakeUp(w, b) PROVE IInv'
  <2>1. Waits(w, b) /\ Awake(w, b) /\ UNCHANGED clock /\ asleep[b] = w /\ SleptEnough(b)
    BY <1>3 DEF WakeUp
  <2>2. failures' = [failures EXCEPT ![b] = @ + 0]
    BY <1>0, <1>3 DEF TypeOK, WakeUp
  <2>3. packet[w] <= Filled(b)
    <3> DEFINE m == packet[w] - available[b]
    <3>1. Num[b] \in Nat \ {0} /\ Den[b] \in Nat \ {0} /\ 2 * Num[b] <= Den[b]
          /\ available[b] \in Nat /\ packet[w] \in Nat
      BY <1>0, <2>1, WaitsAt, ConstantsAssumption, Zenon DEF TypeOK
    <3>2. m \in Int /\ clock - last[b] \in Nat
      BY <1>0, <3>1, RefillTokens
    <3>3. clock - last[b] >= (m * Den[b]) \div Num[b]
      BY <2>1 DEF SleptEnough, Sleep
    <3> HIDE DEF m
    <3>4. Tokens(b, clock - last[b]) >= m
      BY <3>1, <3>2, <3>3, Waiting, Zenon DEF Tokens
    <3>5. Filled(b) = available[b] + Tokens(b, clock - last[b])
          /\ Tokens(b, clock - last[b]) \in Nat
      BY <1>0, RefillTokens
    <3> QED BY <3>1, <3>4, <3>5 DEF m
  <2> QED BY <2>1, <2>2, <2>3, AwakeKeeps, Zenon
<1>4. ASSUME NEW w \in Writers, NEW b \in Buckets, SleepFails(w, b) PROVE IInv'
  <2>1. /\ Waits(w, b) /\ Awake(w, b) /\ UNCHANGED clock
        /\ failures' = [failures EXCEPT ![b] = @ + 1]
    BY <1>4 DEF SleepFails
  <2>2. 1 \in {0, 1} /\ (1 = 0 => packet[w] <= Filled(b))
    OBVIOUS
  <2> QED BY <2>1, <2>2, AwakeKeeps, Zenon
<1>5. CASE Tick
  <2>1. \A b \in Buckets : Kept(b)'
    BY <1>5 DEF IInv, Kept, Tick, buckets
  <2>2. TypeOK'
    BY <1>0, <1>5 DEF TypeOK, Tick, buckets
  <2> QED BY <2>1, <2>2 DEF IInv
<1>6. CASE UNCHANGED vars
  <2>1. TypeOK'
    BY <1>0, <1>6 DEF TypeOK, vars, buckets
  <2>2. \A b \in Buckets : Kept(b)'
    BY <1>6 DEF IInv, Kept, vars, buckets
  <2> QED BY <2>1, <2>2 DEF IInv
<1> QED BY <1>1, <1>2, <1>3, <1>4, <1>5, <1>6 DEF Next

\* What passes a bucket of tb_count keeps the configured rate.
THEOREM Conformance == Spec => []RateConformance
<1>1. IInv => RateConformance
  BY DEF IInv, Kept, Balanced, RateConformance
<1> QED BY <1>1, InitIInv, NextIInv, PTL DEF Spec

\* The variables of the buckets and of the threads keep their types; no
\* bucket overflows.
THEOREM TypeCorrect == Spec => []TypeOK
<1>1. IInv => TypeOK
  BY DEF IInv
<1> QED BY <1>1, InitIInv, NextIInv, PTL DEF Spec
=============================================================================
