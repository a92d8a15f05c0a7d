--------------------------- MODULE ConfigIOProofs ---------------------------
(***************************************************************************)
(* Proofs about ConfigIO, for every file, all flags and every order of the *)
(* calls: the store that parser_read builds is well formed, and            *)
(* parser_value_expand returns what a value means.  WritesBackProofs adds  *)
(* that parser_read builds the store again from what parser_write writes.  *)
(*                                                                         *)
(* The first part is induction over the natural numbers: a statement that  *)
(* should hold of every number fails, if it fails at all, for a least one, *)
(* and the least element is a matter of sets, so that no predicate has to  *)
(* be passed to a lemma.  The second says what the lexers and parser_set   *)
(* keep.  The third is about what a value means, the fourth about what a   *)
(* stack of activations has done so far, and the last puts the invariant   *)
(* together.                                                               *)
(***************************************************************************)
EXTENDS ConfigIO, WellFoundedInduction, TLAPS

\* A set of natural numbers that is not empty has a least element.
LEMMA Least ==
  ASSUME NEW T, T \subseteq Nat, T # {}
  PROVE  \E n \in T : \A m \in T : n <= m
<1>1. IsWellFoundedOn(OpToRel(<, Nat), Nat)
  BY NatLessThanWellFounded, Zenon
<1>2. PICK n \in T : \A m \in T : ~(<<m, n>> \in OpToRel(<, Nat))
  BY <1>1, WFMin, Zenon
<1>3. \A m \in T : ~(m < n)
  BY <1>2, Zenon DEF OpToRel
<1> QED BY <1>3

\* A set of numbers up to n that is not empty has a greatest element.
LEMMA Greatest ==
  ASSUME NEW n \in Nat, NEW T, T \subseteq 0 .. n, T # {}
  PROVE  \E i \in T : \A j \in T : j <= i
<1> DEFINE D == {n - i : i \in T}
<1>1. D \subseteq Nat /\ D # {}
  <2>1. \A i \in T : n - i \in Nat
    OBVIOUS
  <2> QED BY <2>1, Zenon
<1>2. PICK d \in D : \A e \in D : d <= e
  <2> HIDE DEF D
  <2> QED BY <1>1, Least, Zenon
<1>3. PICK i \in T : d = n - i
  OBVIOUS
<1>4. ASSUME NEW j \in T PROVE j <= i
  <2>1. n - j \in D
    OBVIOUS
  <2>2. n - i <= n - j
    BY <1>2, <1>3, <2>1
  <2>3. i \in 0 .. n /\ j \in 0 .. n
    BY Zenon
  <2> QED BY <2>2, <2>3
<1> QED BY <1>4

\* A set that has 0, and with every number the next one, has all of them.
LEMMA SetInduction ==
  ASSUME NEW T, 0 \in T, \A n \in Nat : n \in T => n + 1 \in T
  PROVE  Nat \subseteq T
<1> DEFINE F == {n \in Nat : n \notin T}
<1>1. SUFFICES ASSUME F # {} PROVE FALSE
  OBVIOUS
<1>2. PICK n \in F : \A m \in F : n <= m
  <2>1. F \subseteq Nat
    OBVIOUS
  <2> HIDE DEF F
  <2> QED BY <1>1, <2>1, Least, Zenon
<1>3. n - 1 \in Nat /\ n - 1 \notin F
  BY <1>2
<1> QED BY <1>3

\* f is the sequence of states that the steps reach from s0.
Iterates(f, S, s0, step) ==
  f \in [Nat -> S] /\ f[0] = s0 /\ \A n \in Nat : f[n + 1] = step[n][f[n]]

\* A first state and one step per number determine such a sequence: the initial
\* segments exist by induction, they agree, and f is their union.
LEMMA Iteration ==
  ASSUME NEW S, NEW s0 \in S, NEW step \in [Nat -> [S -> S]]
  PROVE  \E f : Iterates(f, S, s0, step)
<1> DEFINE Starts(g, k) == /\ g \in [0 .. k -> S] /\ g[0] = s0
                           /\ \A n \in 0 .. k - 1 : g[n + 1] = step[n][g[n]]
           T == {k \in Nat : \A g : ~Starts(g, k)}
<1>1. \A k \in Nat : \E g : Starts(g, k)
  <2> HIDE DEF Starts
  <2>1. SUFFICES ASSUME T # {} PROVE FALSE
    BY Zenon
  <2> HIDE DEF T
  <2>2. T \subseteq Nat /\ \A k \in Nat : k \in T <=> \A g : ~Starts(g, k)
    BY DEF T
  <2>3. PICK k \in T : \A m \in T : k <= m
    BY <2>1, <2>2, Least, Zenon
  <2>4. k \in Nat /\ k # 0
    <3>1. Starts([n \in 0 .. 0 |-> s0], 0)
      BY DEF Starts
    <3> QED BY <2>2, <2>3, <3>1
  <2>5. k - 1 \in Nat /\ k - 1 \notin T
    BY <2>2, <2>3, <2>4
  <2>6. PICK g : Starts(g, k - 1)
    BY <2>2, <2>5
  <2> DEFINE h == [n \in 0 .. k |-> IF n = k THEN step[k - 1][g[k - 1]] ELSE g[n]]
  <2>7. g[k - 1] \in S /\ step[k - 1] \in [S -> S]
    BY <2>5, <2>6 DEF Starts
  <2>8. h \in [0 .. k -> S]
    <3>1. \A n \in 0 .. k : n # k => n \in 0 .. k - 1
      BY <2>4
    <3>2. \A n \in 0 .. k : n # k => g[n] \in S
      BY <2>6, <3>1, Zenon DEF Starts
    <3> QED BY <2>7, <3>2
  <2>9. h[0] = s0
    BY <2>4, <2>6 DEF Starts
  <2>10. ASSUME NEW n \in 0 .. k - 1 PROVE h[n + 1] = step[n][h[n]]
    <3>1. h[n] = g[n]
      BY <2>4
    <3>2. CASE n = k - 1
      BY <2>4, <3>1, <3>2
    <3>3. CASE n # k - 1
      BY <2>4, <2>6, <3>1, <3>3 DEF Starts
    <3> QED BY <3>2, <3>3
  <2>11. Starts(h, k)
    BY <2>8, <2>9, <2>10 DEF Starts
  <2> QED BY <2>2, <2>3, <2>11
<1>2. ASSUME NEW k \in Nat, NEW g, NEW h, Starts(g, k), Starts(h, k + 1)
      PROVE  g[k] = h[k]
  <2> DEFINE D == {n \in Nat : n <= k /\ g[n] # h[n]}
  <2>1. SUFFICES ASSUME D # {} PROVE FALSE
    OBVIOUS
  <2>2. PICK n \in D : \A m \in D : n <= m
    <3>1. D \subseteq Nat
      OBVIOUS
    <3> HIDE DEF D
    <3> QED BY <2>1, <3>1, Least, Zenon
  <2>3. n # 0 /\ n \in Nat /\ n <= k
    BY <1>2
  <2>4. n - 1 \in Nat /\ n - 1 \in 0 .. k - 1 /\ n - 1 \in 0 .. k /\ n - 1 \notin D
    BY <2>2, <2>3
  <2>5. g[n - 1] = h[n - 1]
    BY <2>3, <2>4
  <2>6. g[(n - 1) + 1] = step[n - 1][g[n - 1]] /\ h[(n - 1) + 1] = step[n - 1][h[n - 1]]
    BY <1>2, <2>4
  <2> QED BY <2>3, <2>5, <2>6
<1> HIDE DEF Starts
<1> DEFINE start == [k \in Nat |-> CHOOSE g : Starts(g, k)]
           f == [n \in Nat |-> start[n][n]]
<1>3. \A k \in Nat : Starts(start[k], k)
  BY <1>1
<1> HIDE DEF start
<1>4. f \in [Nat -> S] /\ f[0] = s0
  BY <1>3 DEF Starts
<1>5. ASSUME NEW n \in Nat PROVE f[n + 1] = step[n][f[n]]
  <2>1. start[n + 1][n + 1] = step[n][start[n + 1][n]]
    BY <1>3 DEF Starts
  <2>2. start[n][n] = start[n + 1][n]
    BY <1>2, <1>3
  <2> QED BY <2>1, <2>2
<1> QED BY <1>4, <1>5, Zenon DEF Iterates

-----------------------------------------------------------------------------
\* Joined grows by one part at a time.
LEMMA JoinedGrows ==
  ASSUME NEW S, NEW parts \in Seq(Seq(S))
  PROVE  /\ Joined(parts, 0) = <<>>
         /\ \A n \in 0 .. Len(parts) : Joined(parts, n) \in Seq(S)
         /\ \A n \in 1 .. Len(parts) : Joined(parts, n) = Joined(parts, n - 1) \o parts[n]
         /\ Flatten(parts) = Joined(parts, Len(parts))
<1> DEFINE Q == Seq(S)
           N == Len(parts)
           step == [n \in Nat |-> [x \in Q |-> IF n + 1 \in 1 .. N THEN x \o parts[n + 1] ELSE x]]
<1>1. N \in Nat /\ <<>> \in Q /\ step \in [Nat -> [Q -> Q]]
  OBVIOUS
<1>2. PICK f : Iterates(f, Q, <<>>, step)
  <2> HIDE DEF Q, step
  <2> QED BY <1>1, Iteration
<1>3. f \in [Nat -> Q] /\ f[0] = <<>> /\ \A n \in Nat : f[n + 1] = step[n][f[n]]
  BY <1>2, Zenon DEF Iterates
<1>4. \A n \in 1 .. N : f[n] = f[n - 1] \o parts[n]
  <2> SUFFICES ASSUME NEW n \in 1 .. N PROVE f[n] = f[n - 1] \o parts[n]
    BY Zenon
  <2>1. n - 1 \in Nat /\ (n - 1) + 1 = n /\ f[n - 1] \in Q
    BY <1>1, <1>3
  <2> QED BY <1>3, <2>1, Zenon
<1> HIDE DEF step
<1>5. ASSUME NEW n \in 0 .. N PROVE Joined(parts, n) = f[n]
  <2> DEFINE Eq(g) == g = [i \in 0 .. n |-> IF i = 0 THEN <<>> ELSE g[i - 1] \o parts[i]]
             upTo == CHOOSE g : Eq(g)
  <2>1. Eq([i \in 0 .. n |-> f[i]])
    <3>1. \A i \in 0 .. n : i # 0 => i - 1 \in 0 .. n /\ i \in 1 .. N
      BY <1>1
    <3> QED BY <1>3, <1>4, <3>1, Zenon
  <2>2. Eq(upTo)
    BY <2>1, Zenon
  <2>3. Joined(parts, n) = upTo[n]
    BY DEF Joined
  <2> HIDE DEF upTo
  <2> DEFINE T == {i \in Nat : i <= n => upTo[i] = f[i]}
  <2>4. 0 \in T
    BY <1>3, <2>2
  <2>5. \A i \in Nat : i \in T => i + 1 \in T
    <3> SUFFICES ASSUME NEW i \in Nat, i \in T, i + 1 <= n
                 PROVE  upTo[i + 1] = f[i + 1]
      OBVIOUS
    <3>1. i + 1 \in 0 .. n /\ i + 1 # 0 /\ i + 1 \in 1 .. N /\ (i + 1) - 1 = i /\ upTo[i] = f[i]
      BY <1>1
    <3>2. upTo[i + 1] = upTo[i] \o parts[i + 1]
      BY <2>2, <3>1, Zenon
    <3> QED BY <1>4, <3>1, <3>2, Zenon
  <2>6. Nat \subseteq T
    <3> HIDE DEF T
    <3> QED BY <2>4, <2>5, SetInduction, Zenon
  <2>7. n \in Nat /\ n <= n
    BY <1>1
  <2> QED BY <2>3, <2>6, <2>7
<1>6. \A n \in 1 .. N : n \in 0 .. N /\ n - 1 \in 0 .. N
  BY <1>1
<1>7. Joined(parts, 0) = <<>>
  BY <1>1, <1>3, <1>5
<1>8. \A n \in 0 .. N : Joined(parts, n) \in Seq(S)
  BY <1>1, <1>3, <1>5
<1>9. \A n \in 1 .. N : Joined(parts, n) = Joined(parts, n - 1) \o parts[n]
  BY <1>4, <1>5, <1>6, Zenon
<1> QED BY <1>7, <1>8, <1>9, Zenon DEF Flatten

\* An element of a list.
LEMMA Element ==
  ASSUME NEW S, NEW q \in Seq(S), NEW i \in DOMAIN q
  PROVE  q[i] \in S
OBVIOUS

\* A list is typed by its elements.
LEMMA ListOf ==
  ASSUME NEW R, NEW S, NEW q \in Seq(R), \A i \in DOMAIN q : q[i] \in S
  PROVE  q \in Seq(S)
<1>1. q = [i \in 1 .. Len(q) |-> q[i]] /\ Len(q) \in Nat /\ DOMAIN q = 1 .. Len(q)
  OBVIOUS
<1> QED BY <1>1

\* Find returns a position of the list or 0.
LEMMA FindFacts ==
  ASSUME NEW S, NEW items \in Seq(S), NEW name
  PROVE  /\ Find(items, name) \in 0 .. Len(items)
         /\ Find(items, name) # 0 => items[Find(items, name)].name = name
         /\ Find(items, name) = 0 => \A i \in 1 .. Len(items) : items[i].name # name
<1> DEFINE I == {i \in 1 .. Len(items) : items[i].name = name}
<1>1. Find(items, name) = IF I = {} THEN 0 ELSE Min(I)
  <2>1. DOMAIN items = 1 .. Len(items)
    OBVIOUS
  <2> QED BY <2>1, Zenon DEF Find
<1>2. CASE I = {}
  BY <1>1, <1>2
<1>3. CASE I # {}
  <2>1. \E n \in I : \A m \in I : n <= m
    <3>1. I \subseteq Nat
      OBVIOUS
    <3> HIDE DEF I
    <3> QED BY <1>3, <3>1, Least, Zenon
  <2>2. Min(I) \in I
    <3> HIDE DEF I
    <3> QED BY <2>1 DEF Min
  <2> QED BY <1>1, <1>3, <2>2
<1> QED BY <1>2, <1>3

\* The symbols of a file and those that the code writes by itself.
Symbols ==
  STRING \cup {"$", RecursionError, "DEFAULT", "\\", "n", "r", "t", "x", "[", "]", "=", "\"", "#",
              "NUL", "LF", "CR", "SP", "TAB", "EOF"}

\* What a lexer puts into its buffer, and what is left of it in the store.
Buffers == Seq(Symbols \ {"EOF"})
Texts == Seq(Symbols \ {"EOF", "NUL"})

\* No name begins with a blank.
Idents == {b \in Buffers : b # <<>> => b[1] \notin Blank}
Names == {t \in Texts : t # <<>> => t[1] \notin Blank}

\* An empty value is stored only where the parser allows it.
Values(flags) == {t \in Texts : t = <<>> => flags.empty}

Distinct(items) == \A i, j \in DOMAIN items : items[i].name = items[j].name => i = j

\* What parser_set builds: no two sections, and no two keys of a section, have
\* the same name, every section has a key and every key a value.
KeysOf(flags) == [name : Names, values : Seq(Values(flags)) \ {<<>>}]
KeyLists(flags) == {ks \in Seq(KeysOf(flags)) : ks # <<>> /\ Distinct(ks)}
SectionsOf(flags) == [name : Names, keys : KeyLists(flags)]
StoresOf(flags) == {p \in Seq(SectionsOf(flags)) : Distinct(p)}

LexerStates ==
  {"START", "END", "COMMENT", "SKIP", "BEGIN_SECTION", "READ_SECTION", "READ_SECTION_ESC",
   "AFTER_SECTION", "AFTER_COMMENT", "READ_NAME", "READ_NAME_ESC", "IN_QUOTE",
   "IN_QUOTE_ESC", "IN_UNQUOTED", "IN_UNQUOTED_ESC"}

\* The states of nparser_get_next_idt behind the first character of a name.
InName == {"READ_SECTION", "READ_SECTION_ESC", "READ_NAME", "READ_NAME_ESC"}

LexerRecords ==
  [fn : {"idt", "value"}, state : LexerStates, sb : Buffers, mark : Nat, r : -1 .. 2,
   digits : {"none", "x", "0", "x0", "00"}]

Lexers ==
  {s \in LexerRecords : s.fn = "idt" => s.sb \in Idents /\ (s.state \in InName => s.sb # <<>>)}

Flags == [default : BOOLEAN, empty : BOOLEAN]

\* A buffer with one more symbol.
LEMMA BufferGrows ==
  ASSUME NEW b \in Buffers, NEW x \in Symbols \ {"EOF"}
  PROVE  /\ Append(b, x) \in Buffers /\ Append(b, x) # <<>> /\ Len(b) \in Nat
         /\ b \in Idents /\ (b # <<>> \/ x \notin Blank) => Append(b, x) \in Idents
<1>1. b \in Seq(Symbols \ {"EOF"})
  BY DEF Buffers
<1>2. Append(b, x) \in Seq(Symbols \ {"EOF"}) /\ Append(b, x) # <<>> /\ Len(b) \in Nat
      /\ Append(b, x)[1] = IF b = <<>> THEN x ELSE b[1]
  BY <1>1
<1> QED BY <1>2, Zenon DEF Buffers, Idents

\* The steps that the lexers are made of.
LEMMA LexerParts ==
  ASSUME NEW s \in Lexers, NEW state \in LexerStates
  PROVE  /\ s.fn = "value" \/ s.sb # <<>> \/ state \notin InName =>
              /\ To(s, state) \in Lexers /\ Fail(s, state) \in Lexers
              /\ \A r \in {1, 2} : [To(s, state) EXCEPT !.r = r] \in Lexers
              /\ [To(s, state) EXCEPT !.mark = Len(s.sb)] \in Lexers
         /\ \A x \in Symbols \ {"EOF"} :
              s.fn = "value" \/ s.sb # <<>> \/ x \notin Blank => Push(s, x, state) \in Lexers
<1>1. s \in LexerRecords /\ (s.fn = "idt" => s.sb \in Idents /\ (s.state \in InName => s.sb # <<>>))
  BY DEF Lexers
<1>2. s.sb \in Buffers /\ s.fn \in {"idt", "value"}
  BY <1>1 DEF LexerRecords
<1>3. ASSUME s.fn = "value" \/ s.sb # <<>> \/ state \notin InName
      PROVE  /\ To(s, state) \in Lexers /\ Fail(s, state) \in Lexers
             /\ \A r \in {1, 2} : [To(s, state) EXCEPT !.r = r] \in Lexers
             /\ [To(s, state) EXCEPT !.mark = Len(s.sb)] \in Lexers
  <2>1. Len(s.sb) \in Nat
    BY <1>2 DEF Buffers
  <2>2. To(s, state) \in Lexers
    BY <1>1, <1>3 DEF To, Lexers, LexerRecords
  <2>3. Fail(s, state) \in Lexers
    BY <1>1, <1>3 DEF Fail, Lexers, LexerRecords
  <2>4. \A r \in {1, 2} : [To(s, state) EXCEPT !.r = r] \in Lexers
    BY <2>2 DEF Lexers, LexerRecords
  <2>5. [To(s, state) EXCEPT !.mark = Len(s.sb)] \in Lexers
    BY <2>1, <2>2 DEF Lexers, LexerRecords
  <2> QED BY <2>2, <2>3, <2>4, <2>5
<1>4. ASSUME NEW x \in Symbols \ {"EOF"}, s.fn = "value" \/ s.sb # <<>> \/ x \notin Blank
      PROVE  Push(s, x, state) \in Lexers
  <2>1. Append(s.sb, x) \in Buffers /\ Append(s.sb, x) # <<>>
        /\ (s.fn = "idt" => Append(s.sb, x) \in Idents)
    BY <1>1, <1>2, <1>4, BufferGrows
  <2> QED BY <1>1, <2>1 DEF Push, Lexers, LexerRecords
<1> QED BY <1>3, <1>4

\* A position that strlib_rstrip can keep.
LEMMA Kept ==
  ASSUME NEW S, NEW sb \in Seq(S), NEW mark \in Nat
  PROVE  LET kept == {i \in 0 .. Len(sb) : i = 0 \/ i <= mark \/ sb[i] \notin Blank}
             n == CHOOSE i \in kept : \A j \in kept : j <= i
         IN n \in kept /\ \A j \in kept : j <= n
<1> DEFINE kept == {i \in 0 .. Len(sb) : i = 0 \/ i <= mark \/ sb[i] \notin Blank}
<1>1. kept \subseteq 0 .. Len(sb) /\ 0 \in kept /\ Len(sb) \in Nat
  OBVIOUS
<1> HIDE DEF kept
<1>2. \E i \in kept : \A j \in kept : j <= i
  BY <1>1, Greatest, Zenon
<1>3. LET n == CHOOSE i \in kept : \A j \in kept : j <= i
      IN n \in kept /\ \A j \in kept : j <= n
  BY <1>2, Zenon
<1> QED BY <1>3 DEF kept

\* strlib_rstrip keeps a prefix of the buffer.
LEMMA RstripType ==
  ASSUME NEW s \in Lexers, s.fn = "value" \/ s.state \notin InName
  PROVE  rstrip(s) \in Lexers /\ rstrip(s).fn = s.fn /\ rstrip(s).state = s.state
<1> DEFINE kept == {i \in 0 .. Len(s.sb) : i = 0 \/ i <= s.mark \/ s.sb[i] \notin Blank}
           n == CHOOSE i \in kept : \A j \in kept : j <= i
<1>1. s \in LexerRecords /\ (s.fn = "idt" => s.sb \in Idents)
  BY DEF Lexers
<1>2. s.sb \in Seq(Symbols \ {"EOF"}) /\ s.mark \in Nat /\ Len(s.sb) \in Nat
  BY <1>1 DEF LexerRecords, Buffers
<1>3. n \in 0 .. Len(s.sb)
  <2>1. n \in kept
    BY <1>2, Kept, Zenon
  <2> HIDE DEF n
  <2> QED BY <2>1
<1>4. rstrip(s) = [s EXCEPT !.sb = SubSeq(@, 1, n)]
  BY DEF rstrip
<1> HIDE DEF n
<1>5. /\ SubSeq(s.sb, 1, n) \in Seq(Symbols \ {"EOF"})
      /\ SubSeq(s.sb, 1, n) # <<>> => s.sb # <<>> /\ SubSeq(s.sb, 1, n)[1] = s.sb[1]
  BY <1>2, <1>3
<1>6. SubSeq(s.sb, 1, n) \in Buffers /\ (s.fn = "idt" => SubSeq(s.sb, 1, n) \in Idents)
  BY <1>1, <1>5, Zenon DEF Buffers, Idents
<1> QED BY <1>1, <1>4, <1>6 DEF Lexers, LexerRecords

\* char_unescape keeps the lexer typed, ...
LEMMA UnescapeType ==
  ASSUME NEW s \in Lexers, s.fn = "value" \/ s.sb # <<>>,
         NEW state \in LexerStates, NEW x \in Symbols \ {"EOF"}
  PROVE  char_unescape(s, x, state) \in Lexers
<1>1. \A y \in Symbols \ {"EOF"} : Push(s, y, state) \in Lexers
  BY LexerParts, Zenon
<1>2. CASE x \in DOMAIN Control
  <2>1. Control[x] \in Symbols \ {"EOF"}
    <3>1. Control[x] \in {"LF", "CR", "TAB"}
      BY <1>2 DEF Control
    <3>2. \A y \in {"LF", "CR", "TAB"} : y \in Symbols \ {"EOF"}
      BY Zenon DEF Symbols
    <3> QED BY <3>1, <3>2
  <2> QED BY <1>1, <1>2, <2>1, Zenon DEF char_unescape, Control, Protected
<1>3. CASE x \notin DOMAIN Control /\ x \in Protected
  BY <1>1, <1>3, Zenon DEF char_unescape, Protected
<1>4. CASE x \notin DOMAIN Control /\ x \notin Protected /\ x \in {"x", "0"}
  <2>1. To(s, state) \in Lexers
    BY LexerParts, Zenon
  <2>2. [To(s, state) EXCEPT !.digits = x] \in Lexers
    BY <1>4, <2>1 DEF Lexers, LexerRecords
  <2> QED BY <1>4, <2>2 DEF char_unescape
<1>5. CASE x \notin DOMAIN Control /\ x \notin Protected /\ x \notin {"x", "0"}
  <2> DEFINE t == Push(s, "\\", state)
  <2>1. "\\" \in Symbols \ {"EOF"}
    BY Zenon DEF Symbols
  <2>2. t \in Lexers
    BY <1>1, <2>1
  <2>3. s.sb \in Buffers /\ s \in LexerRecords
    BY DEF Lexers, LexerRecords
  <2>4. t.sb # <<>>
    BY <2>1, <2>3, BufferGrows DEF Push, LexerRecords
  <2> HIDE DEF t
  <2>5. Push(t, x, state) \in Lexers
    BY <2>2, <2>4, LexerParts, Zenon
  <2> QED BY <1>5, <2>5 DEF char_unescape, t
<1> QED BY <1>2, <1>3, <1>4, <1>5

\* ... and so do the digits of an escaped number.
LEMMA DigitsType ==
  ASSUME NEW s \in Lexers, NEW x \in Symbols
  PROVE  Digits(s, x)[2] \in Lexers
<1> DEFINE zero == [s EXCEPT !.digits = "none", !.sb = Append(@, "NUL")]
           none == [s EXCEPT !.digits = "none", !.sb = @ \o <<"\\", "x">>]
           more == [s EXCEPT !.digits = IF @ = "x" THEN "x0" ELSE "00"]
<1>1. s \in LexerRecords /\ (s.fn = "idt" => s.sb \in Idents)
  BY DEF Lexers
<1>2. s.sb \in Seq(Symbols \ {"EOF"})
  BY <1>1 DEF LexerRecords, Buffers
<1>3. zero \in Lexers
  <2>1. "NUL" \in Symbols \ {"EOF"} /\ "NUL" \notin Blank /\ s.sb \in Buffers
    BY <1>2, Zenon DEF Symbols, Blank, Buffers
  <2>2. Append(s.sb, "NUL") \in Buffers /\ Append(s.sb, "NUL") # <<>>
        /\ (s.fn = "idt" => Append(s.sb, "NUL") \in Idents)
    BY <1>1, <2>1, BufferGrows
  <2> QED BY <1>1, <2>2 DEF Lexers, LexerRecords
<1>4. none \in Lexers
  <2> DEFINE two == s.sb \o <<"\\", "x">>
  <2>1. <<"\\", "x">> \in Seq(Symbols \ {"EOF"}) /\ "\\" \notin Blank
    <3>1. "\\" \in Symbols \ {"EOF"} /\ "x" \in Symbols \ {"EOF"} /\ "\\" \notin Blank
      BY Zenon DEF Symbols, Blank
    <3> QED BY <3>1
  <2>2. two \in Seq(Symbols \ {"EOF"}) /\ two # <<>>
        /\ two[1] = IF s.sb = <<>> THEN "\\" ELSE s.sb[1]
    BY <1>2, <2>1
  <2> HIDE DEF two
  <2>3. two \in Buffers /\ (s.fn = "idt" => two \in Idents)
    BY <1>1, <2>1, <2>2 DEF Buffers, Idents
  <2> QED BY <1>1, <2>2, <2>3 DEF Lexers, LexerRecords, two
<1>5. more \in Lexers
  BY DEF Lexers, LexerRecords
<1> HIDE DEF zero, none, more
<1>6. Digits(s, x) \in
        {<<FALSE, s>>, <<FALSE, none>>, <<TRUE, more>>, <<TRUE, zero>>, <<FALSE, zero>>}
  BY DEF Digits, zero, none, more
<1>7. \A b \in BOOLEAN, t \in Lexers : <<b, t>>[2] = t
  OBVIOUS
<1>8. \/ Digits(s, x) = <<FALSE, s>> \/ Digits(s, x) = <<FALSE, none>>
      \/ Digits(s, x) = <<TRUE, more>> \/ Digits(s, x) = <<TRUE, zero>>
      \/ Digits(s, x) = <<FALSE, zero>>
  BY <1>6, Zenon
<1> QED BY <1>3, <1>4, <1>5, <1>7, <1>8, Zenon

\* One turn of nparser_get_next_idt leaves a lexer.
LEMMA IdtType ==
  ASSUME NEW s \in Lexers, NEW x \in Symbols
  PROVE  IdtStep(s, x) \in Lexers
<1> DEFINE t == CASE s.state = "START" -> IdtStart(s, x)
                  [] s.state \in {"BEGIN_SECTION", "READ_SECTION", "READ_SECTION_ESC"} ->
                       IdtSection(s, x)
                  [] s.state \in {"READ_NAME", "READ_NAME_ESC"} -> IdtName(s, x)
                  [] OTHER -> IdtEndOfLine(s, x)
<1>1. \A state \in LexerStates \ InName :
        /\ To(s, state) \in Lexers /\ Fail(s, state) \in Lexers
        /\ \A r \in {1, 2} : [To(s, state) EXCEPT !.r = r] \in Lexers
  BY LexerParts, Zenon
<1>2. ASSUME s.state \in InName
      PROVE  /\ To(s, "READ_SECTION_ESC") \in Lexers /\ To(s, "READ_NAME_ESC") \in Lexers
             /\ x # "EOF" => \A state \in InName :
                               Push(s, x, state) \in Lexers /\ char_unescape(s, x, state) \in Lexers
  <2>1. s.fn = "value" \/ s.sb # <<>>
    BY <1>2 DEF Lexers, LexerRecords
  <2>2. InName \subseteq LexerStates /\ {"READ_SECTION_ESC", "READ_NAME_ESC"} \subseteq InName
    BY DEF InName, LexerStates
  <2> QED BY <2>1, <2>2, LexerParts, UnescapeType, Zenon
<1>3. ASSUME x # "EOF", x \notin Blank
      PROVE  Push(s, x, "READ_NAME") \in Lexers /\ Push(s, x, "READ_SECTION") \in Lexers
  BY <1>3, LexerParts, Zenon DEF LexerStates
<1>4. IdtStart(s, x) \in Lexers
  <2>1. \/ IdtStart(s, x) \in {s, To(s, "END"), To(s, "BEGIN_SECTION"), To(s, "COMMENT"),
                               Fail(s, "SKIP")}
        \/ x # "EOF" /\ x \notin Blank /\ IdtStart(s, x) = Push(s, x, "READ_NAME")
    BY DEF IdtStart
  <2> QED BY <1>1, <1>3, <2>1, Zenon DEF LexerStates, InName
<1>5. ASSUME s.state \in {"BEGIN_SECTION", "READ_SECTION", "READ_SECTION_ESC"}
      PROVE  IdtSection(s, x) \in Lexers
  <2>1. \/ IdtSection(s, x) \in {s, Fail(s, "END"), Fail(s, "SKIP"),
                                 [To(s, "AFTER_SECTION") EXCEPT !.r = 1]}
        \/ s.state \in InName /\ IdtSection(s, x) = To(s, "READ_SECTION_ESC")
        \/ s.state \in InName /\ x # "EOF" /\ IdtSection(s, x) = char_unescape(s, x, "READ_SECTION")
        \/ /\ x # "EOF" /\ (s.state \in InName \/ x \notin Blank)
           /\ IdtSection(s, x) = Push(s, x, "READ_SECTION")
    BY <1>5 DEF IdtSection, InName, EndOfLine
  <2> QED BY <1>1, <1>2, <1>3, <2>1, Zenon DEF LexerStates, InName
<1>6. ASSUME s.state \in {"READ_NAME", "READ_NAME_ESC"}
      PROVE  IdtName(s, x) \in Lexers
  <2>1. \/ IdtName(s, x) \in {Fail(s, "END"), Fail(s, "SKIP"), [To(s, "END") EXCEPT !.r = 2],
                              To(s, "READ_NAME_ESC")}
        \/ x # "EOF" /\ IdtName(s, x) = char_unescape(s, x, "READ_NAME")
        \/ x # "EOF" /\ IdtName(s, x) = Push(s, x, "READ_NAME")
    BY DEF IdtName, EndOfLine
  <2> QED BY <1>1, <1>2, <1>6, <2>1, Zenon DEF LexerStates, InName
<1>7. IdtEndOfLine(s, x) \in Lexers
  <2>1. IdtEndOfLine(s, x) \in {s, To(s, "START"), To(s, "END"), To(s, "AFTER_COMMENT"),
                                To(s, "SKIP")}
    BY DEF IdtEndOfLine
  <2> QED BY <1>1, <2>1, Zenon DEF LexerStates, InName
<1>8. t \in Lexers
  BY <1>4, <1>5, <1>6, <1>7
<1>9. IdtStep(s, x) = IF t.state = "END" /\ t.r \in {1, 2} THEN rstrip(t) ELSE t
  BY DEF IdtStep
<1> HIDE DEF t
<1> QED BY <1>8, <1>9, RstripType DEF InName

\* One turn of nparser_get_next_value leaves a lexer.
LEMMA ValType ==
  ASSUME NEW s \in Lexers, s.fn = "value", NEW x \in Symbols
  PROVE  ValStep(s, x) \in Lexers
<1>1. \A state \in LexerStates :
        /\ To(s, state) \in Lexers /\ Fail(s, state) \in Lexers
        /\ [To(s, state) EXCEPT !.mark = Len(s.sb)] \in Lexers
        /\ To(rstrip(s), state) \in Lexers
        /\ x # "EOF" => Push(s, x, state) \in Lexers /\ char_unescape(s, x, state) \in Lexers
  BY LexerParts, UnescapeType, RstripType, Zenon
<1>2. ASSUME s.state \in {"START", "IN_UNQUOTED"} PROVE ValPlain(s, x) \in Lexers
  <2>1. \/ ValPlain(s, x) \in {s, To(s, "END"), To(s, "COMMENT"), To(s, "IN_QUOTE"),
                               To(rstrip(s), "END"), To(rstrip(s), "IN_QUOTE"),
                               To(s, "IN_UNQUOTED_ESC")}
        \/ x # "EOF" /\ ValPlain(s, x) = Push(s, x, "IN_UNQUOTED")
    BY <1>2, Zenon DEF ValPlain, EndOfLine
  <2> QED BY <1>1, <2>1 DEF LexerStates
<1>3. ValQuoted(s, x) \in Lexers
  <2>1. \/ ValQuoted(s, x) \in {Fail(s, "END"), [To(s, "START") EXCEPT !.mark = Len(s.sb)],
                                To(s, "IN_QUOTE_ESC")}
        \/ x # "EOF" /\ ValQuoted(s, x) = Push(s, x, "IN_QUOTE")
    BY Zenon DEF ValQuoted
  <2> QED BY <1>1, <2>1 DEF LexerStates
<1>4. ValEscaped(s, x) \in Lexers
  <2>1. \/ ValEscaped(s, x) \in {Fail(s, "END"), To(s, "IN_QUOTE"), To(rstrip(s), "START")}
        \/ x # "EOF" /\ ValEscaped(s, x) \in {char_unescape(s, x, "IN_QUOTE"),
                                              char_unescape(s, x, "IN_UNQUOTED")}
    BY DEF ValEscaped, EndOfLine
  <2> QED BY <1>1, <2>1 DEF LexerStates
<1>5. \/ s.state \in {"START", "IN_UNQUOTED"} /\ ValStep(s, x) = ValPlain(s, x)
      \/ ValStep(s, x) \in {ValQuoted(s, x), ValEscaped(s, x), To(s, "END"), s}
  BY DEF ValStep
<1> QED BY <1>1, <1>2, <1>3, <1>4, <1>5 DEF LexerStates

\* The functions that a lexer runs in do not change while it reads.
LEMMA FnKept ==
  ASSUME NEW s \in Lexers, NEW x
  PROVE  Digits(s, x)[2].fn = s.fn
<1>1. \A f \in {Digits(s, x)[2]} : f.fn = s.fn
  BY DEF Digits, Lexers, LexerRecords
<1> QED BY <1>1

\* The C string of a buffer is a prefix of it without the character 0; it is the
\* whole buffer where there is none.
LEMMA CStrType ==
  ASSUME NEW b \in Buffers
  PROVE  /\ CStr(b) \in Texts
         /\ b \in Idents => CStr(b) \in Names
         /\ b \in Texts => CStr(b) = b
<1> DEFINE I == {i \in 1 .. Len(b) + 1 : i \in DOMAIN b => b[i] = "NUL"}
           n == Min(I)
<1>1. b \in Seq(Symbols \ {"EOF"}) /\ Len(b) \in Nat /\ DOMAIN b = 1 .. Len(b)
  BY DEF Buffers
<1>2. Len(b) + 1 \in I /\ I \subseteq Nat
  BY <1>1
<1>3. n \in I /\ \A i \in I : n <= i
  <2> HIDE DEF I
  <2>1. \E i \in I : \A j \in I : i <= j
    BY <1>2, Least, Zenon
  <2> QED BY <2>1 DEF Min
<1>4. CStr(b) = SubSeq(b, 1, n - 1)
  BY DEF CStr
<1> HIDE DEF n
<1>5. n \in 1 .. Len(b) + 1 /\ \A i \in 1 .. n - 1 : b[i] \in Symbols \ {"EOF", "NUL"}
  <2>1. n \in 1 .. Len(b) + 1
    BY <1>3
  <2>2. ASSUME NEW i \in 1 .. n - 1 PROVE b[i] \in Symbols \ {"EOF", "NUL"}
    <3>1. i \in DOMAIN b /\ i \in 1 .. Len(b) + 1 /\ ~(n <= i)
      BY <1>1, <2>1
    <3>2. b[i] # "NUL"
      BY <1>3, <3>1
    <3>3. b[i] \in Symbols \ {"EOF"}
      BY <1>1, <3>1, Element
    <3> QED BY <3>2, <3>3
  <2> QED BY <2>1, <2>2
<1>6. CStr(b) = [i \in 1 .. n - 1 |-> b[i]]
  BY <1>1, <1>4, <1>5
<1>7. CStr(b) \in Texts
  BY <1>5, <1>6 DEF Texts
<1>8. ASSUME b \in Idents PROVE CStr(b) \in Names
  <2>1. CStr(b) # <<>> => b # <<>> /\ CStr(b)[1] = b[1]
    BY <1>1, <1>4, <1>5
  <2> QED BY <1>7, <1>8, <2>1 DEF Names, Idents
<1>9. ASSUME b \in Texts PROVE CStr(b) = b
  <2>1. \A i \in 1 .. Len(b) : b[i] # "NUL"
    <3>1. b \in Seq(Symbols \ {"EOF", "NUL"})
      BY <1>9 DEF Texts
    <3> QED BY <3>1
  <2>2. n = Len(b) + 1
    BY <1>1, <1>3, <2>1
  <2> QED BY <1>1, <1>4, <2>2
<1> QED BY <1>7, <1>8, <1>9

\* An item is added behind the others unless there is one of its name: new is
\* the list and i the position of the item.
AddedItem(S, items, name, item, new, i) ==
  /\ new \in Seq(S) /\ Distinct(new)
  /\ i \in DOMAIN new /\ new[i].name = name
  /\ new[i] = item \/ (i \in DOMAIN items /\ new[i] = items[i])
  /\ \A j \in DOMAIN new : j # i => j \in DOMAIN items /\ new[j] = items[j]

CanAdd(S, items, name, item) ==
  items \in Seq(S) /\ Distinct(items) /\ item \in S /\ item.name = name

\* Adding keeps the names of a list distinct, for the sections and for the keys.
LEMMA AddedFacts ==
  ASSUME NEW S, NEW items, NEW name, NEW item, CanAdd(S, items, name, item)
  PROVE  AddedItem(S, items, name, item, Added(items, name, item),
                   Find(Added(items, name, item), name))
<1> USE DEF CanAdd
<1> DEFINE new == Added(items, name, item)
           i == Find(new, name)
<1>1. CASE Find(items, name) # 0
  <2>1. new = items
    BY <1>1 DEF Added
  <2>2. i \in DOMAIN items /\ items[i].name = name
    BY <1>1, <2>1, FindFacts
  <2> QED BY <2>1, <2>2 DEF AddedItem
<1>2. CASE Find(items, name) = 0
  <2>1. new = Append(items, item)
    BY <1>2 DEF Added
  <2>2. \A j \in 1 .. Len(items) : items[j].name # name
    BY <1>2, FindFacts
  <2>3. /\ new \in Seq(S) /\ Len(items) \in Nat /\ DOMAIN items = 1 .. Len(items)
        /\ DOMAIN new = 1 .. Len(items) + 1 /\ Len(new) = Len(items) + 1
        /\ new[Len(items) + 1] = item
        /\ \A j \in 1 .. Len(items) : new[j] = items[j]
    BY <2>1
  <2> HIDE DEF new
  <2>4. i = Len(items) + 1
    <3>1. /\ i \in 0 .. Len(new) /\ (i # 0 => new[i].name = name)
          /\ (i = 0 => \A j \in 1 .. Len(new) : new[j].name # name)
      BY <2>3, FindFacts
    <3> HIDE DEF i
    <3> QED BY <2>2, <2>3, <3>1
  <2> HIDE DEF i
  <2>5. Distinct(new)
    BY <2>2, <2>3 DEF Distinct
  <2>6. \A j \in DOMAIN new : j # i => j \in DOMAIN items /\ new[j] = items[j]
    BY <2>3, <2>4
  <2> QED BY <2>3, <2>4, <2>5, <2>6 DEF new, i, AddedItem
<1> QED BY <1>1, <1>2

\* A list with one item replaced by another of the same name.
CanReplace(R, S, q, k, x) ==
  /\ q \in Seq(R) /\ Distinct(q) /\ k \in DOMAIN q /\ x \in S /\ x.name = q[k].name
  /\ \A i \in DOMAIN q : i # k => q[i] \in S

\* Replacing an element by one of the same name keeps the names distinct.
LEMMA Replaced ==
  ASSUME NEW R, NEW S, NEW q, NEW k, NEW x, CanReplace(R, S, q, k, x)
  PROVE  /\ [q EXCEPT ![k] = x] \in Seq(S) /\ [q EXCEPT ![k] = x] # <<>>
         /\ Distinct([q EXCEPT ![k] = x])
<1> USE DEF CanReplace
<1> DEFINE new == [q EXCEPT ![k] = x]
<1>1. q = [i \in 1 .. Len(q) |-> q[i]] /\ Len(q) \in Nat /\ DOMAIN q = 1 .. Len(q)
  OBVIOUS
<1>2. new \in Seq(R \cup {x})
  BY <1>1
<1>3. DOMAIN new = DOMAIN q /\ new[k] = x /\ \A i \in DOMAIN q : i # k => new[i] = q[i]
  BY <1>1
<1> HIDE DEF new
<1>4. new \in Seq(S)
  BY <1>2, <1>3, ListOf
<1>5. new # <<>>
  BY <1>3
<1>6. Distinct(new)
  <2>1. \A i \in DOMAIN q : new[i].name = q[i].name
    BY <1>3
  <2> QED BY <1>3, <2>1 DEF Distinct
<1> QED BY <1>4, <1>5, <1>6 DEF new

\* parser_set adds a value to the store.
LEMMA SetType ==
  ASSUME NEW flags, NEW p \in StoresOf(flags), NEW sec \in Names, NEW name \in Names,
         NEW value \in Values(flags)
  PROVE  parser_set(p, sec, name, value) \in StoresOf(flags)
<1> DEFINE V == Seq(Values(flags))
           AnyKeys == [name : Names, values : V]
           AnyKeyLists == {ks \in Seq(KeysOf(flags)) : Distinct(ks)}
           AnySections == [name : Names, keys : AnyKeyLists]
           newsec == [name |-> sec, keys |-> <<>>]
           sections == Added(p, sec, newsec)
           s == Find(sections, sec)
           newkey == [name |-> name, values |-> <<>>]
           keys == Added(sections[s].keys, name, newkey)
           k == Find(keys, name)
           withvalue == [keys[k] EXCEPT !.values = Append(@, value)]
           newkeys == [keys EXCEPT ![k].values = Append(@, value)]
<1>1. p \in Seq(SectionsOf(flags)) /\ Distinct(p)
  BY DEF StoresOf
<1>2. p \in Seq(AnySections) /\ newsec \in AnySections /\ newsec.name = sec
  <2>1. SectionsOf(flags) \subseteq AnySections
    BY DEF SectionsOf, KeyLists
  <2>2. newsec \in AnySections
    BY DEF Distinct
  <2> HIDE DEF AnySections
  <2>3. \A i \in DOMAIN p : p[i] \in AnySections
    BY <1>1, <2>1, Element
  <2> QED BY <1>1, <2>2, <2>3, ListOf
<1>3. /\ sections \in Seq(AnySections) /\ Distinct(sections)
      /\ s \in DOMAIN sections /\ sections[s].name = sec
      /\ sections[s] = newsec \/ (s \in DOMAIN p /\ sections[s] = p[s])
      /\ \A j \in DOMAIN sections : j # s => j \in DOMAIN p /\ sections[j] = p[j]
  <2>1. CanAdd(AnySections, p, sec, newsec)
    BY <1>1, <1>2 DEF CanAdd
  <2>2. AddedItem(AnySections, p, sec, newsec, sections, s)
    <3> HIDE DEF AnySections, newsec
    <3> QED BY <2>1, AddedFacts, Zenon
  <2> QED BY <2>2, Zenon DEF AddedItem
<1>4. sections[s].keys \in Seq(KeysOf(flags)) /\ Distinct(sections[s].keys)
  <2>1. sections[s] \in AnySections
    <3> HIDE DEF AnySections, s, sections
    <3> QED BY <1>3, Element
  <2> QED BY <2>1
<1> HIDE DEF AnySections, sections, s
<1>5. sections[s].keys \in Seq(AnyKeys) /\ newkey \in AnyKeys /\ newkey.name = name
  <2>1. KeysOf(flags) \subseteq AnyKeys
    BY DEF KeysOf
  <2>2. newkey \in AnyKeys
    OBVIOUS
  <2> HIDE DEF AnyKeys
  <2>3. \A i \in DOMAIN sections[s].keys : sections[s].keys[i] \in AnyKeys
    BY <1>4, <2>1, Element
  <2> QED BY <1>4, <2>2, <2>3, ListOf
<1>6. /\ keys \in Seq(AnyKeys) /\ Distinct(keys) /\ k \in DOMAIN keys /\ keys[k].name = name
      /\ \A j \in DOMAIN keys :
           j # k => j \in DOMAIN sections[s].keys /\ keys[j] = sections[s].keys[j]
  <2>1. CanAdd(AnyKeys, sections[s].keys, name, newkey)
    BY <1>4, <1>5 DEF CanAdd
  <2>2. AddedItem(AnyKeys, sections[s].keys, name, newkey, keys, k)
    <3> HIDE DEF AnyKeys, newkey
    <3> QED BY <2>1, AddedFacts, Zenon
  <2> QED BY <2>2, Zenon DEF AddedItem
<1> HIDE DEF keys, k
<1>7. withvalue \in KeysOf(flags) /\ withvalue.name = keys[k].name
  <2>1. keys[k] \in AnyKeys
    <3> HIDE DEF AnyKeys
    <3> QED BY <1>6, Element
  <2>2. Append(keys[k].values, value) \in Seq(Values(flags)) \ {<<>>}
    <3>1. keys[k].values \in Seq(Values(flags))
      BY <2>1
    <3> QED BY <3>1
  <2> QED BY <2>1, <2>2, Zenon DEF KeysOf
<1> HIDE DEF withvalue
<1>8. newkeys \in KeyLists(flags)
  <2>1. newkeys = [keys EXCEPT ![k] = withvalue]
    BY <1>6 DEF withvalue
  <2>2. \A i \in DOMAIN keys : i # k => keys[i] \in KeysOf(flags)
    BY <1>4, <1>6, Element
  <2>3. newkeys \in Seq(KeysOf(flags)) /\ newkeys # <<>> /\ Distinct(newkeys)
    <3>1. CanReplace(AnyKeys, KeysOf(flags), keys, k, withvalue)
      BY <1>6, <1>7, <2>2, Zenon DEF CanReplace
    <3> DEFINE q == [keys EXCEPT ![k] = withvalue]
    <3>2. q \in Seq(KeysOf(flags)) /\ q # <<>> /\ Distinct(q)
      <4> HIDE DEF AnyKeys
      <4> QED BY <3>1, Replaced, Zenon
    <3> HIDE DEF q
    <3>3. newkeys = q
      BY <2>1 DEF q
    <3> QED BY <3>2, <3>3, Zenon
  <2> HIDE DEF newkeys
  <2> QED BY <2>3 DEF KeyLists
<1> HIDE DEF newkeys, AnyKeys
<1> DEFINE withkeys == [sections[s] EXCEPT !.keys = newkeys]
<1>9. withkeys \in SectionsOf(flags) /\ withkeys.name = sections[s].name
  <2>1. sections[s] \in AnySections
    BY <1>3, Element
  <2> QED BY <1>8, <2>1 DEF SectionsOf, AnySections
<1> HIDE DEF withkeys
<1>10. [sections EXCEPT ![s].keys = newkeys] \in StoresOf(flags)
  <2>1. [sections EXCEPT ![s].keys = newkeys] = [sections EXCEPT ![s] = withkeys]
    BY <1>3 DEF withkeys
  <2>2. \A i \in DOMAIN sections : i # s => sections[i] \in SectionsOf(flags)
    BY <1>1, <1>3, Element
  <2>3. [sections EXCEPT ![s] = withkeys] \in Seq(SectionsOf(flags))
        /\ Distinct([sections EXCEPT ![s] = withkeys])
    <3>1. CanReplace(AnySections, SectionsOf(flags), sections, s, withkeys)
      BY <1>3, <1>9, <2>2, Zenon DEF CanReplace
    <3> QED BY <3>1, Replaced, Zenon
  <2> QED BY <2>1, <2>3, Zenon DEF StoresOf
<1> QED BY <1>10, Zenon DEF parser_set, sections, s, keys, k, newkeys

-----------------------------------------------------------------------------
\* The state of parser_read.
Readers(flags) ==
  [lx : Lexers, section : Idents, key : Idents, cr : BOOLEAN, allow : {flags},
   parser : StoresOf(flags), atEnd : BOOLEAN]

\* A lexer starts typed.
LEMMA LexStartType ==
  ASSUME NEW fn \in {"idt", "value"}
  PROVE  LexStart(fn) \in Lexers /\ <<>> \in Idents
<1>1. <<>> \in Buffers /\ <<>> \in Idents
  BY DEF Buffers, Idents
<1> QED BY <1>1 DEF LexStart, Lexers, LexerRecords, LexerStates, InName

\* The fields that parser_read changes.
LEMMA ReaderParts ==
  ASSUME NEW flags, NEW rd \in Readers(flags)
  PROVE  /\ \A x \in Lexers : [rd EXCEPT !.lx = x] \in Readers(flags)
         /\ \A x \in Idents : [rd EXCEPT !.section = x] \in Readers(flags)
         /\ \A x \in Idents : [rd EXCEPT !.key = x] \in Readers(flags)
         /\ \A x \in BOOLEAN : [rd EXCEPT !.cr = x] \in Readers(flags)
         /\ \A x \in Idents, p \in StoresOf(flags) :
              [rd EXCEPT !.section = x, !.parser = p] \in Readers(flags)
<1>1. \A x \in Lexers : [rd EXCEPT !.lx = x] \in Readers(flags)
  BY DEF Readers
<1>2. \A x \in Idents : [rd EXCEPT !.section = x] \in Readers(flags)
  BY DEF Readers
<1>3. \A x \in Idents : [rd EXCEPT !.key = x] \in Readers(flags)
  BY DEF Readers
<1>4. \A x \in BOOLEAN : [rd EXCEPT !.cr = x] \in Readers(flags)
  BY DEF Readers
<1>5. \A x \in Idents, p \in StoresOf(flags) :
        [rd EXCEPT !.section = x, !.parser = p] \in Readers(flags)
  BY Zenon DEF Readers
<1> QED BY <1>1, <1>2, <1>3, <1>4, <1>5, Zenon

\* parser_read keeps its state typed when a value has been read, ...
LEMMA ValueType ==
  ASSUME NEW flags \in Flags, NEW rd \in Readers(flags), NEW s \in Lexers
  PROVE  Value(rd, s) \in Readers(flags)
<1> DEFINE in == IF rd.section = <<>> /\ rd.allow.default THEN <<"DEFAULT">> ELSE rd.section
           refused == \/ s.r = -1
                      \/ ~rd.allow.empty /\ CStr(s.sb) = <<>>
                      \/ ~rd.allow.default /\ rd.section = <<>>
           p == parser_set(rd.parser, CStr(in), CStr(rd.key), CStr(s.sb))
<1>1. /\ rd.section \in Idents /\ rd.key \in Idents /\ rd.parser \in StoresOf(flags)
      /\ rd.allow = flags /\ s.sb \in Buffers
  BY DEF Readers, Lexers, LexerRecords
<1>2. in \in Idents
  <2>1. <<"DEFAULT">> \in Idents
    <3>1. <<"DEFAULT">> \in Seq(Symbols \ {"EOF"}) /\ <<"DEFAULT">>[1] \notin Blank
      BY DEF Symbols, Blank
    <3> QED BY <3>1 DEF Idents, Buffers
  <2> QED BY <1>1, <2>1
<1> HIDE DEF in
<1>3. Idents \subseteq Buffers
  BY DEF Idents
<1>4. CStr(in) \in Names /\ CStr(rd.key) \in Names /\ CStr(s.sb) \in Texts
  BY <1>1, <1>2, <1>3, CStrType
<1>5. Value(rd, s) = IF refused THEN rd ELSE [rd EXCEPT !.section = in, !.parser = p]
  BY DEF Value, in
<1>6. ASSUME ~refused PROVE [rd EXCEPT !.section = in, !.parser = p] \in Readers(flags)
  <2>1. CStr(s.sb) \in Values(flags)
    BY <1>1, <1>4, <1>6 DEF Values
  <2>2. p \in StoresOf(flags)
    BY <1>1, <1>4, <2>1, SetType
  <2> HIDE DEF p
  <2> QED BY <1>2, <2>2, ReaderParts, Zenon
<1> HIDE DEF refused, p
<1> QED BY <1>5, <1>6

\* ... when either lexer has returned, ...
LEMMA ReturnedType ==
  ASSUME NEW flags \in Flags, NEW rd \in Readers(flags), NEW s \in Lexers, NEW x \in Symbols,
         s.fn = "idt" => s.sb \in Idents
  PROVE  Returned(rd, s, x) \in Readers(flags)
<1> DEFINE n == CASE s.fn = "value" -> Value(rd, s)
                  [] s.fn = "idt" /\ s.r = 1 -> [rd EXCEPT !.section = s.sb]
                  [] s.fn = "idt" /\ s.r = 2 -> [rd EXCEPT !.key = s.sb]
                  [] OTHER -> rd
           lexer == LexStart(IF s.fn = "idt" /\ s.r = 2 THEN "value" ELSE "idt")
           sec == IF x = "EOF" THEN <<>> ELSE n.section
           name == IF n.lx.fn = "value" THEN <<>> ELSE n.key
           end == x = "EOF"
<1>1. <<>> \in Idents
  BY LexStartType
<1>2. n \in Readers(flags)
  <2>1. \/ n \in {Value(rd, s), rd}
        \/ s.sb \in Idents /\ n \in {[rd EXCEPT !.section = s.sb], [rd EXCEPT !.key = s.sb]}
    OBVIOUS
  <2>2. Value(rd, s) \in Readers(flags)
    BY ValueType
  <2>3. s.sb \in Idents => /\ [rd EXCEPT !.section = s.sb] \in Readers(flags)
                           /\ [rd EXCEPT !.key = s.sb] \in Readers(flags)
    BY ReaderParts, Zenon
  <2> HIDE DEF n
  <2> QED BY <2>1, <2>2, <2>3
<1>3. Returned(rd, s, x) = [n EXCEPT !.lx = lexer, !.atEnd = end, !.section = sec, !.key = name]
  BY DEF Returned
<1> HIDE DEF n
<1>4. lexer \in Lexers
  <2>1. (IF s.fn = "idt" /\ s.r = 2 THEN "value" ELSE "idt") \in {"idt", "value"}
    OBVIOUS
  <2> QED BY <2>1, LexStartType
<1>5. sec \in Idents /\ name \in Idents
  BY <1>1, <1>2 DEF Readers
<1>6. end \in BOOLEAN
  OBVIOUS
<1> HIDE DEF lexer, sec, name, end
<1>7. [n EXCEPT !.lx = lexer, !.atEnd = end] \in Readers(flags)
  BY <1>2, <1>4, <1>6, Zenon DEF Readers
<1>8. [n EXCEPT !.lx = lexer, !.atEnd = end, !.section = sec, !.key = name] =
        [[n EXCEPT !.lx = lexer, !.atEnd = end] EXCEPT !.section = sec, !.key = name]
  OBVIOUS
<1>9. \A m \in Readers(flags) : [m EXCEPT !.section = sec, !.key = name] \in Readers(flags)
  BY <1>5, Zenon DEF Readers
<1> QED BY <1>3, <1>7, <1>8, <1>9, Zenon

\* ... for every symbol that a lexer is given ...
LEMMA FeedType ==
  ASSUME NEW flags \in Flags, NEW rd \in Readers(flags), NEW x \in Symbols
  PROVE  Feed(rd, x) \in Readers(flags)
<1> DEFINE d == Digits(rd.lx, x)
           s == IF rd.lx.fn = "idt" THEN IdtStep(d[2], x) ELSE ValStep(d[2], x)
<1>1. rd.lx \in Lexers /\ rd.lx.fn \in {"idt", "value"}
  BY DEF Readers, Lexers, LexerRecords
<1>2. d[2] \in Lexers /\ d[2].fn = rd.lx.fn
  BY <1>1, DigitsType, FnKept
<1> HIDE DEF d
<1>3. s \in Lexers
  BY <1>1, <1>2, IdtType, ValType
<1>4. Feed(rd, x) \in {[rd EXCEPT !.lx = d[2]], Returned(rd, s, x), [rd EXCEPT !.lx = s]}
  BY DEF Feed, d
<1> HIDE DEF s
<1>5. s.fn = "idt" => s.sb \in Idents
  BY <1>3 DEF Lexers
<1>6. Returned(rd, s, x) \in Readers(flags)
  BY <1>3, <1>5, ReturnedType
<1>7. \A t \in Lexers : [rd EXCEPT !.lx = t] \in Readers(flags)
  BY ReaderParts, Zenon
<1>8. [rd EXCEPT !.lx = d[2]] \in Readers(flags) /\ [rd EXCEPT !.lx = s] \in Readers(flags)
  BY <1>2, <1>3, <1>7
<1> QED BY <1>4, <1>6, <1>8

\* ... and for every symbol of the file.
LEMMA ReadType ==
  ASSUME NEW flags \in Flags, NEW rd \in Readers(flags), NEW x \in Symbols
  PROVE  Read(rd, x) \in Readers(flags)
<1> DEFINE n == [rd EXCEPT !.cr = x = "CR"]
<1>1. n \in Readers(flags) /\ "CR" \in Symbols
  BY ReaderParts, Zenon DEF Symbols
<1>2. Read(rd, x) \in {n, Feed(n, "CR"), Feed(Feed(n, "CR"), x), Feed(n, x)}
  BY DEF Read
<1> HIDE DEF n
<1> QED BY <1>1, <1>2, FeedType

\* parser_read in the state a takes the symbols w and is then in the state b.
Reads(a, w, b) ==
  \E g : /\ g[0] = a /\ g[Len(w)] = b
         /\ \A i \in 1 .. Len(w) : g[i] = Read(g[i - 1], w[i])

\* No symbol, one symbol, and one string behind another.
LEMMA ReadsNone ==
  ASSUME NEW a PROVE Reads(a, <<>>, a)
<1> DEFINE g == [i \in {0} |-> a]
<1>1. g[0] = a /\ g[Len(<<>>)] = a /\ \A i \in 1 .. Len(<<>>) : g[i] = Read(g[i - 1], <<>>[i])
  OBVIOUS
<1> QED BY <1>1, Zenon DEF Reads

\* One symbol is one step of parser_read.
LEMMA ReadsOne ==
  ASSUME NEW a, NEW x, NEW b, Read(a, x) = b PROVE Reads(a, <<x>>, b)
<1> DEFINE g == [i \in {0, 1} |-> IF i = 0 THEN a ELSE b]
<1>1. Len(<<x>>) = 1 /\ <<x>>[1] = x /\ g[0] = a /\ g[1] = b
  OBVIOUS
<1>2. \A i \in 1 .. 1 : g[i] = Read(g[i - 1], <<x>>[i])
  <2> SUFFICES ASSUME NEW i \in 1 .. 1 PROVE g[i] = Read(g[i - 1], <<x>>[i])
    OBVIOUS
  <2>1. i = 1 /\ i - 1 = 0
    OBVIOUS
  <2> HIDE DEF g
  <2> QED BY <1>1, <2>1
<1> HIDE DEF g
<1> QED BY <1>1, <1>2 DEF Reads

\* parser_read reads two pieces of a file one after the other.
LEMMA ReadsBoth ==
  ASSUME NEW S, NEW u \in Seq(S), NEW w \in Seq(S), NEW a, NEW b, NEW c,
         Reads(a, u, b), Reads(b, w, c)
  PROVE  Reads(a, u \o w, c)
<1>1. PICK g : /\ g[0] = a /\ g[Len(u)] = b
               /\ \A i \in 1 .. Len(u) : g[i] = Read(g[i - 1], u[i])
  BY Zenon DEF Reads
<1>2. PICK h : /\ h[0] = b /\ h[Len(w)] = c
               /\ \A i \in 1 .. Len(w) : h[i] = Read(h[i - 1], w[i])
  BY Zenon DEF Reads
<1> DEFINE m == Len(u)
           n == Len(w)
           f == [i \in 0 .. m + n |-> IF i <= m THEN g[i] ELSE h[i - m]]
<1>3. /\ m \in Nat /\ n \in Nat /\ Len(u \o w) = m + n
      /\ \A i \in 1 .. m : (u \o w)[i] = u[i]
      /\ \A i \in m + 1 .. m + n : (u \o w)[i] = w[i - m]
  OBVIOUS
<1> HIDE DEF m, n
<1>4. f[0] = a /\ f[m + n] = c
  <2>1. f[0] = g[0] /\ f[m + n] = IF n = 0 THEN g[m] ELSE h[n]
    BY <1>3
  <2> QED BY <1>1, <1>2, <2>1 DEF m, n
<1>5. ASSUME NEW i \in 1 .. m + n PROVE f[i] = Read(f[i - 1], (u \o w)[i])
  <2>1. CASE i <= m
    <3>1. i \in 1 .. m /\ f[i] = g[i] /\ f[i - 1] = g[i - 1]
      BY <1>3, <2>1
    <3> HIDE DEF f
    <3> QED BY <1>1, <1>3, <3>1 DEF m
  <2>2. CASE i > m
    <3>1. i \in m + 1 .. m + n /\ i - m \in 1 .. n /\ i - 1 - m = i - m - 1
      BY <1>3, <2>2
    <3>2. f[i] = h[i - m]
      BY <1>3, <2>2
    <3>3. f[i - 1] = h[i - m - 1]
      <4>1. CASE i - 1 = m
        <5>1. f[i - 1] = g[m] /\ i - m - 1 = 0
          BY <1>3, <4>1
        <5> QED BY <1>1, <1>2, <5>1 DEF m
      <4>2. CASE i - 1 # m
        <5>1. i - 1 \in 0 .. m + n /\ ~(i - 1 <= m)
          BY <1>3, <2>2, <4>2
        <5> QED BY <3>1, <5>1
      <4> QED BY <4>1, <4>2
    <3>4. h[i - m] = Read(h[i - m - 1], w[i - m])
      BY <1>2, <3>1 DEF n
    <3> HIDE DEF f
    <3> QED BY <1>3, <3>1, <3>2, <3>3, <3>4, Zenon
  <2> QED BY <1>3, <2>1, <2>2
<1> HIDE DEF f
<1>6. \A i \in 1 .. Len(u \o w) : f[i] = Read(f[i - 1], (u \o w)[i])
  BY <1>3, <1>5, Zenon
<1> QED BY <1>3, <1>4, <1>6, Zenon DEF Reads

\* parser_read on a file is Reads from the state in which it is opened.
LEMMA ReadsFile ==
  ASSUME NEW S, NEW file \in Seq(S), NEW flags, NEW b, Reads(Opened(flags), file, b)
  PROVE  parser_read(file, flags) = b
<1> DEFINE N == Len(file)
           Eq(g) == g = [i \in 0 .. N |->
                           IF i = 0 THEN Opened(flags) ELSE Read(g[i - 1], file[i])]
           after == CHOOSE g : Eq(g)
<1>1. PICK F : /\ F[0] = Opened(flags) /\ F[N] = b
               /\ \A i \in 1 .. N : F[i] = Read(F[i - 1], file[i])
  BY Zenon DEF Reads
<1>2. N \in Nat
  OBVIOUS
<1> HIDE DEF N
<1>3. Eq([i \in 0 .. N |-> F[i]])
  <2>1. \A i \in 0 .. N : i # 0 => i \in 1 .. N /\ i - 1 \in 0 .. N
    BY <1>2
  <2> QED BY <1>1, <2>1
<1>4. Eq(after)
  BY <1>3, Zenon
<1>5. parser_read(file, flags) = after[N]
  BY DEF parser_read, N
<1> HIDE DEF after
<1> DEFINE T == {n \in Nat : n \in 0 .. N => after[n] = F[n]}
<1>6. 0 \in T
  BY <1>1, <1>2, <1>4
<1>7. \A n \in Nat : n \in T => n + 1 \in T
  <2> SUFFICES ASSUME NEW n \in Nat, n \in T, n + 1 \in 0 .. N
               PROVE  after[n + 1] = F[n + 1]
    OBVIOUS
  <2>1. n + 1 \in 1 .. N /\ n + 1 # 0 /\ (n + 1) - 1 = n /\ after[n] = F[n]
    BY <1>2
  <2>2. after[n + 1] = Read(after[n], file[n + 1])
    BY <1>4, <2>1, Zenon
  <2>3. F[n + 1] = Read(F[n], file[n + 1])
    BY <1>1, <2>1
  <2> QED BY <2>1, <2>2, <2>3
<1>8. Nat \subseteq T
  <2> HIDE DEF T
  <2> QED BY <1>6, <1>7, SetInduction
<1>9. after[N] = F[N]
  BY <1>2, <1>8
<1> QED BY <1>1, <1>5, <1>9

\* parser_read on a file keeps its state typed.
LEMMA FileType ==
  ASSUME NEW file \in Seq(Symbols), NEW flags \in Flags
  PROVE  parser_read(file, flags) \in Readers(flags)
<1> DEFINE N == Len(file)
           R == Readers(flags)
           step == [n \in Nat |-> [rd \in R |->
                      IF n + 1 \in 1 .. N THEN Read(rd, file[n + 1]) ELSE rd]]
<1>1. N \in Nat /\ \A i \in 1 .. N : file[i] \in Symbols
  BY Element
<1>2. Opened(flags) \in R
  <2>1. LexStart("idt") \in Lexers /\ <<>> \in Idents
    BY LexStartType
  <2>2. <<>> \in StoresOf(flags)
    BY DEF StoresOf, Distinct
  <2> QED BY <2>1, <2>2 DEF Opened, Readers
<1>3. step \in [Nat -> [R -> R]]
  <2>1. ASSUME NEW n \in Nat, NEW rd \in R
        PROVE  (IF n + 1 \in 1 .. N THEN Read(rd, file[n + 1]) ELSE rd) \in R
    BY <1>1, ReadType
  <2> QED BY <2>1
<1>4. PICK F : Iterates(F, R, Opened(flags), step)
  <2> HIDE DEF step, R
  <2> QED BY <1>2, <1>3, Iteration
<1>5. F \in [Nat -> R] /\ F[0] = Opened(flags) /\ \A n \in Nat : F[n + 1] = step[n][F[n]]
  BY <1>4, Zenon DEF Iterates
<1>6. \A i \in 1 .. N : F[i] = Read(F[i - 1], file[i])
  <2> TAKE i \in 1 .. N
  <2>1. i - 1 \in Nat /\ (i - 1) + 1 = i /\ F[i - 1] \in R
    BY <1>1, <1>5
  <2>2. F[i] = step[i - 1][F[i - 1]]
    BY <1>5, <2>1, Zenon
  <2> QED BY <2>1, <2>2
<1> HIDE DEF step
<1>7. Reads(Opened(flags), file, F[N])
  BY <1>5, <1>6, Zenon DEF Reads
<1>8. parser_read(file, flags) = F[N]
  BY <1>7, ReadsFile
<1> QED BY <1>1, <1>5, <1>8

-----------------------------------------------------------------------------
(* What a value means.  Meanings is defined by induction on the number of   *)
(* values that are not open.                                                *)

\* Whether a symbol is escaped depends on the one before it, as in the loop of
\* parser_value_expand.
LEMMA EscapedNext ==
  ASSUME NEW s, NEW i \in Nat \ {0}
  PROVE  /\ Escaped(s, 1) = FALSE
         /\ Escaped(s, i) \in BOOLEAN
         /\ Escaped(s, i + 1) <=> s[i] = "$" /\ ~Escaped(s, i)
<1> DEFINE O(n) == {j \in 0 .. n - 1 : j = 0 \/ s[j] # "$"}
           IsLast(n, j) == j \in O(n) /\ \A k \in O(n) : k <= j
           L(n) == CHOOSE j \in O(n) : \A k \in O(n) : k <= j
<1>1. ASSUME NEW n \in Nat \ {0} PROVE \E j : IsLast(n, j)
  <2> DEFINE T == {n - 1 - j : j \in O(n)}
  <2>1. T \subseteq Nat /\ T # {}
    <3>1. 0 \in O(n)
      OBVIOUS
    <3>2. \A j \in O(n) : n - 1 - j \in Nat
      OBVIOUS
    <3> QED BY <3>1, <3>2
  <2>2. PICK d \in T : \A e \in T : d <= e
    <3> HIDE DEF T
    <3> QED BY <2>1, Least, Zenon
  <2>3. PICK j \in O(n) : d = n - 1 - j
    OBVIOUS
  <2>4. ASSUME NEW k \in O(n) PROVE k <= j
    <3>1. n - 1 - k \in T
      OBVIOUS
    <3>2. n - 1 - j <= n - 1 - k
      BY <2>2, <2>3, <3>1, Zenon
    <3> QED BY <3>2
  <2> QED BY <2>3, <2>4
<1>2. ASSUME NEW n \in Nat \ {0} PROVE IsLast(n, L(n)) /\ (Escaped(s, n) <=> (n - 1 - L(n)) % 2 = 1)
  <2>1. IsLast(n, L(n))
    BY <1>1
  <2> QED BY <2>1 DEF Escaped
<1>3. \A n \in Nat \ {0} : Escaped(s, n) \in BOOLEAN
  BY DEF Escaped
<1> HIDE DEF L
<1>4. Escaped(s, 1) = FALSE
  <2>1. L(1) = 0
    BY <1>2
  <2> QED BY <1>2, <1>3, <2>1
<1>5. CASE s[i] # "$"
  <2>1. IsLast(i + 1, L(i + 1)) /\ (Escaped(s, i + 1) <=> (i + 1 - 1 - L(i + 1)) % 2 = 1)
    BY <1>2
  <2>2. i \in O(i + 1)
    BY <1>5
  <2>3. L(i + 1) = i
    BY <2>1, <2>2
  <2>4. ~Escaped(s, i + 1)
    BY <2>1, <2>3
  <2> QED BY <1>3, <1>4, <1>5, <2>4
<1>6. CASE s[i] = "$"
  <2>1. O(i + 1) = O(i)
    BY <1>6
  <2>2. IsLast(i + 1, L(i + 1)) /\ (Escaped(s, i + 1) <=> (i + 1 - 1 - L(i + 1)) % 2 = 1)
    BY <1>2
  <2>3. IsLast(i, L(i)) /\ (Escaped(s, i) <=> (i - 1 - L(i)) % 2 = 1)
    BY <1>2
  <2>4. L(i + 1) = L(i) /\ L(i) \in 0 .. i - 1
    BY <2>1, <2>2, <2>3
  <2>5. (i + 1 - 1 - L(i)) % 2 = 1 <=> (i - 1 - L(i)) % 2 # 1
    BY <2>4
  <2>6. Escaped(s, i + 1) <=> ~Escaped(s, i)
    BY <2>2, <2>3, <2>4, <2>5
  <2> QED BY <1>3, <1>4, <1>6, <2>6
<1> QED BY <1>5, <1>6, Zenon

\* What the expansion needs of a store: it is made of strings, and every key has
\* a value.
Str == Seq(Symbols)

Keys == [name : Str, values : Seq(Str) \ {<<>>}]

Sections == [name : Str, keys : Seq(Keys)]

Stores == Seq(Sections)

\* The stores that parser_read builds are of this kind.
LEMMA StoresTyped ==
  ASSUME NEW flags \in Flags, NEW p \in StoresOf(flags)
  PROVE  p \in Stores
<1>1. \A t \in Texts : t \in Str
  <2> SUFFICES ASSUME NEW t \in Texts PROVE t \in Str
    OBVIOUS
  <2> DEFINE R == Symbols \ {"EOF", "NUL"}
  <2>1. t \in Seq(R) /\ R \subseteq Symbols
    BY DEF Texts
  <2> HIDE DEF R
  <2>2. \A i \in DOMAIN t : t[i] \in Symbols
    BY <2>1, Element
  <2> QED BY <2>1, <2>2, ListOf DEF Str
<1>2. \A t \in Names : t \in Str
  BY <1>1 DEF Names
<1>3. \A t \in Values(flags) : t \in Str
  BY <1>1 DEF Values
<1>4. ASSUME NEW key0 \in KeysOf(flags) PROVE key0 \in Keys
  <2> DEFINE q == key0.values
  <2>1. /\ key0 = [name |-> key0.name, values |-> q]
        /\ key0.name \in Names /\ q \in Seq(Values(flags)) /\ q # <<>>
    BY DEF KeysOf
  <2> HIDE DEF q
  <2>2. q \in Seq(Str)
    <3>1. \A i \in DOMAIN q : q[i] \in Str
      BY <1>3, <2>1, Element
    <3> QED BY <2>1, <3>1, ListOf
  <2>3. key0.name \in Str
    BY <1>2, <2>1
  <2> HIDE DEF Str
  <2> QED BY <2>1, <2>2, <2>3 DEF Keys
<1>5. ASSUME NEW sect \in SectionsOf(flags) PROVE sect \in Sections
  <2> DEFINE q == sect.keys
  <2>1. /\ sect = [name |-> sect.name, keys |-> q]
        /\ sect.name \in Names /\ q \in Seq(KeysOf(flags))
    BY DEF SectionsOf, KeyLists
  <2> HIDE DEF q
  <2>2. q \in Seq(Keys)
    <3>1. \A i \in DOMAIN q : q[i] \in Keys
      BY <1>4, <2>1, Element
    <3> QED BY <2>1, <3>1, ListOf
  <2>3. sect.name \in Str
    BY <1>2, <2>1
  <2> QED BY <2>1, <2>2, <2>3 DEF Sections
<1>6. p \in Seq(SectionsOf(flags))
  BY DEF StoresOf
<1>7. \A i \in DOMAIN p : p[i] \in Sections
  BY <1>5, <1>6, Element, Zenon
<1> QED BY <1>6, <1>7, ListOf DEF Stores

\* A place leads to a value of the store.
LEMMA PlaceFacts ==
  ASSUME NEW p \in Stores, NEW at \in Places(p)
  PROVE  /\ at # <<>>
         /\ at[1] \in DOMAIN p /\ at[2] \in DOMAIN p[at[1]].keys
         /\ Raw(p, at) \in Str
<1>1. PICK s \in DOMAIN p :
        at \in UNION {{<<s, k, v>> : v \in DOMAIN p[s].keys[k].values} : k \in DOMAIN p[s].keys}
  BY DEF Places
<1>2. PICK k \in DOMAIN p[s].keys : at \in {<<s, k, v>> : v \in DOMAIN p[s].keys[k].values}
  BY <1>1
<1>3. PICK v \in DOMAIN p[s].keys[k].values : at = <<s, k, v>>
  BY <1>2
<1>4. p[s] \in Sections
  BY Element DEF Stores
<1>5. p[s].keys \in Seq(Keys)
  BY <1>4 DEF Sections
<1>6. p[s].keys[k] \in Keys
  BY <1>5, Element
<1>7. p[s].keys[k].values \in Seq(Str)
  BY <1>6 DEF Keys
<1>8. p[s].keys[k].values[v] \in Str
  BY <1>7, Element
<1> QED BY <1>3, <1>8 DEF Raw

\* The last value of a key of the same section is at a place.
LEMMA LastValueFacts ==
  ASSUME NEW p \in Stores, NEW at \in Places(p), NEW name
  PROVE  LastValue(p, at, name) = <<>> \/ LastValue(p, at, name) \in Places(p)
<1> DEFINE s == at[1]
           k == Find(p[s].keys, name)
<1>1. s \in DOMAIN p
  BY PlaceFacts
<1>2. p[s].keys \in Seq(Keys)
  <2>1. p[s] \in Sections
    BY <1>1, Element DEF Stores
  <2> QED BY <2>1 DEF Sections
<1>3. k \in 0 .. Len(p[s].keys)
  BY <1>2, FindFacts
<1>4. CASE k = 0
  BY <1>4, SMT, SMTT(30) DEF LastValue
<1>5. CASE k # 0
  <2>1. k \in DOMAIN p[s].keys
    BY <1>2, <1>3, <1>5
  <2>2. p[s].keys[k].values \in Seq(Str) /\ p[s].keys[k].values # <<>>
    <3>1. p[s].keys[k] \in Keys
      BY <1>2, <2>1, Element, Zenon
    <3> QED BY <3>1 DEF Keys
  <2>3. Len(p[s].keys[k].values) \in DOMAIN p[s].keys[k].values
    BY <2>2, SMT, SMTT(30)
  <2>4. LastValue(p, at, name) = <<s, k, Len(p[s].keys[k].values)>>
    BY <1>5 DEF LastValue
  <2> QED BY <1>1, <2>1, <2>3, <2>4, SMT, SMTT(30) DEF Places
<1> QED BY <1>4, <1>5

\* c bounds how many elements of P are not in a subset of it: it is at most n, and
\* smaller for the subset with one more element.  Such a count is all that the
\* inductions below need of a finite set.
Counts(c, n, P) ==
  /\ c \in [SUBSET P -> 0 .. n]
  /\ \A open \in SUBSET P : \A at \in P \ open : c[open \cup {at}] < c[open]

Counted(P) == \E n \in Nat : \E c : Counts(c, n, P)

\* The set with no element, and a set with one.
LEMMA CountedSmall ==
  ASSUME NEW x
  PROVE  Counted({}) /\ Counted({x})
<1>1. Counts([open \in SUBSET {} |-> 0], 0, {})
  BY DEF Counts
<1> DEFINE c == [open \in SUBSET {x} |-> IF x \in open THEN 0 ELSE 1]
<1>2. Counts(c, 1, {x})
  BY DEF Counts
<1> QED BY <1>1, <1>2 DEF Counted

\* Two sets are counted together.
LEMMA CountedBoth ==
  ASSUME NEW A, NEW B, Counted(A), Counted(B)
  PROVE  Counted(A \cup B)
<1>1. PICK a \in Nat : \E c : Counts(c, a, A)
  BY DEF Counted
<1>2. PICK ca : Counts(ca, a, A)
  BY <1>1
<1>3. PICK b \in Nat : \E c : Counts(c, b, B)
  BY DEF Counted
<1>4. PICK cb : Counts(cb, b, B)
  BY <1>3
<1> DEFINE P == A \cup B
           c == [open \in SUBSET P |-> ca[open \cap A] + cb[open \cap B]]
<1>5. \A open : ca[open \cap A] \in 0 .. a /\ cb[open \cap B] \in 0 .. b
  BY <1>2, <1>4 DEF Counts
<1>6. c \in [SUBSET P -> 0 .. (a + b)]
  <2>1. \A x \in 0 .. a, y \in 0 .. b : x + y \in 0 .. (a + b)
    OBVIOUS
  <2>2. \A open \in SUBSET P : ca[open \cap A] + cb[open \cap B] \in 0 .. (a + b)
    BY <1>5, <2>1, Zenon
  <2> QED BY <2>2, Zenon
<1>7. ASSUME NEW open \in SUBSET P, NEW at \in P \ open
      PROVE  c[open \cup {at}] < c[open]
  <2>1. /\ at \in A => ca[(open \cup {at}) \cap A] < ca[open \cap A]
        /\ at \notin A => ca[(open \cup {at}) \cap A] = ca[open \cap A]
    <3>1. CASE at \in A
      <4>1. (open \cup {at}) \cap A = (open \cap A) \cup {at} /\ at \in A \ (open \cap A)
            /\ open \cap A \in SUBSET A
        BY <3>1
      <4> QED BY <1>2, <3>1, <4>1 DEF Counts
    <3>2. CASE at \notin A
      <4>1. (open \cup {at}) \cap A = open \cap A
        BY <3>2
      <4> QED BY <3>2, <4>1
    <3> QED BY <3>1, <3>2
  <2>2. /\ at \in B => cb[(open \cup {at}) \cap B] < cb[open \cap B]
        /\ at \notin B => cb[(open \cup {at}) \cap B] = cb[open \cap B]
    <3>1. CASE at \in B
      <4>1. (open \cup {at}) \cap B = (open \cap B) \cup {at} /\ at \in B \ (open \cap B)
            /\ open \cap B \in SUBSET B
        BY <3>1
      <4> QED BY <1>4, <3>1, <4>1 DEF Counts
    <3>2. CASE at \notin B
      <4>1. (open \cup {at}) \cap B = open \cap B
        BY <3>2
      <4> QED BY <3>2, <4>1
    <3> QED BY <3>1, <3>2
  <2>3. /\ c[open] = ca[open \cap A] + cb[open \cap B]
        /\ c[open \cup {at}] = ca[(open \cup {at}) \cap A] + cb[(open \cup {at}) \cap B]
    OBVIOUS
  <2>4. at \in A \/ at \in B
    OBVIOUS
  <2> HIDE DEF c
  <2> DEFINE a1 == ca[open \cap A]
             a2 == ca[(open \cup {at}) \cap A]
             b1 == cb[open \cap B]
             b2 == cb[(open \cup {at}) \cap B]
  <2>5. a1 \in Int /\ a2 \in Int /\ b1 \in Int /\ b2 \in Int
    <3>1. a1 \in 0 .. a /\ a2 \in 0 .. a /\ b1 \in 0 .. b /\ b2 \in 0 .. b
      BY <1>5, Zenon
    <3> HIDE DEF a1, a2, b1, b2
    <3> QED BY <3>1
  <2>6. (a2 < a1 /\ b2 < b1) \/ (a2 < a1 /\ b2 = b1) \/ (a2 = a1 /\ b2 < b1)
    BY <2>1, <2>2, <2>4
  <2>7. c[open] = a1 + b1 /\ c[open \cup {at}] = a2 + b2
    BY <2>3
  <2> HIDE DEF a1, a2, b1, b2
  <2> QED BY <2>5, <2>6, <2>7
<1>8. Counts(c, a + b, P)
  BY <1>6, <1>7, Zenon DEF Counts
<1> HIDE DEF c
<1> QED BY <1>8 DEF Counted

\* The sets of a list are counted together.
LEMMA CountedAll ==
  ASSUME NEW N \in Nat, NEW f, \A i \in 1 .. N : Counted(f[i])
  PROVE  Counted(UNION {f[i] : i \in 1 .. N})
<1> DEFINE U(n) == UNION {f[i] : i \in 1 .. n}
           T == {n \in Nat : n <= N => Counted(U(n))}
<1>1. 0 \in T
  <2>1. U(0) = {}
    OBVIOUS
  <2> QED BY <2>1, CountedSmall, Zenon
<1>2. \A n \in Nat : n \in T => n + 1 \in T
  <2> SUFFICES ASSUME NEW n \in Nat, n \in T, n + 1 <= N PROVE Counted(U(n + 1))
    OBVIOUS
  <2>1. Counted(U(n)) /\ Counted(f[n + 1])
    OBVIOUS
  <2>2. U(n + 1) = U(n) \cup f[n + 1]
    <3>1. 1 .. n + 1 = (1 .. n) \cup {n + 1}
      OBVIOUS
    <3> QED BY <3>1
  <2> HIDE DEF U
  <2> QED BY <2>1, <2>2, CountedBoth
<1>3. Nat \subseteq T
  <2> HIDE DEF T
  <2> QED BY <1>1, <1>2, SetInduction
<1> QED BY <1>3

\* The values of a store are counted.
LEMMA PlacesCounted ==
  ASSUME NEW p \in Stores
  PROVE  Counted(Places(p))
<1> DEFINE Of(s, k) == {<<s, k, v>> : v \in DOMAIN p[s].keys[k].values}
           In(s) == UNION {Of(s, k) : k \in DOMAIN p[s].keys}
<1>1. ASSUME NEW S, NEW q \in Seq(S) PROVE DOMAIN q = 1 .. Len(q) /\ Len(q) \in Nat
  OBVIOUS
<1>2. ASSUME NEW s \in DOMAIN p, NEW k \in DOMAIN p[s].keys PROVE Counted(Of(s, k))
  <2>1. p[s] \in Sections
    BY Element DEF Stores
  <2>2. p[s].keys[k] \in Keys
    BY <2>1, Element DEF Sections
  <2> DEFINE q == p[s].keys[k].values
             N == Len(q)
             f == [v \in 1 .. N |-> {<<s, k, v>>}]
  <2>3. q \in Seq(Str)
    BY <2>2 DEF Keys
  <2>4. DOMAIN q = 1 .. N /\ N \in Nat
    <3> HIDE DEF q
    <3> QED BY <1>1, <2>3
  <2>5. Of(s, k) = UNION {f[v] : v \in 1 .. N}
    <3>1. Of(s, k) = {<<s, k, v>> : v \in 1 .. N}
      BY <2>4
    <3> HIDE DEF N, Of
    <3> QED BY <3>1
  <2>6. \A v \in 1 .. N : Counted(f[v])
    <3> HIDE DEF N
    <3> QED BY CountedSmall, Zenon
  <2> HIDE DEF N, f, Of
  <2> QED BY <2>4, <2>5, <2>6, CountedAll, SMT, SMTT(30)
<1>3. ASSUME NEW s \in DOMAIN p PROVE Counted(In(s))
  <2>1. p[s] \in Sections
    BY Element DEF Stores
  <2> DEFINE N == Len(p[s].keys)
             f == [k \in 1 .. N |-> Of(s, k)]
  <2>2. p[s].keys \in Seq(Keys)
    BY <2>1 DEF Sections
  <2>3. DOMAIN p[s].keys = 1 .. N /\ N \in Nat
    BY <1>1, <2>2
  <2> HIDE DEF Of
  <2>4. In(s) = UNION {f[k] : k \in 1 .. N}
    BY <2>3, Zenon
  <2>5. \A k \in 1 .. N : Counted(f[k])
    BY <1>2, <2>3
  <2> HIDE DEF N, f, In
  <2> QED BY <2>3, <2>4, <2>5, CountedAll, SMT, SMTT(30)
<1> DEFINE N == Len(p)
           f == [s \in 1 .. N |-> In(s)]
<1>4. DOMAIN p = 1 .. N /\ N \in Nat
  BY <1>1 DEF Stores
<1>5. Places(p) = UNION {In(s) : s \in DOMAIN p}
  BY DEF Places
<1> HIDE DEF In
<1>6. Places(p) = UNION {f[s] : s \in 1 .. N}
  BY <1>4, <1>5
<1>7. \A s \in 1 .. N : Counted(f[s])
  BY <1>3, <1>4, Zenon
<1> HIDE DEF N, f
<1> QED BY <1>4, <1>6, <1>7, CountedAll

\* The parts of a value are strings.
LEMMA PartsType ==
  ASSUME NEW p \in Stores, NEW at \in Places(p), NEW m \in [Places(p) -> Str]
  PROVE  /\ Parts(p, at, m) \in Seq(Str)
         /\ Len(Parts(p, at, m)) = Len(Raw(p, at))
         /\ \A i \in 1 .. Len(Raw(p, at)) : Parts(p, at, m)[i] = Part(p, at, i, m)
<1> DEFINE s == Raw(p, at)
<1>1. s \in Str /\ Len(s) \in Nat
  BY PlaceFacts DEF Str
<1>2. ASSUME NEW i \in 1 .. Len(s) PROVE Part(p, at, i, m) \in Str
  <2> DEFINE next == LastValue(p, at, KeyOf[s[i]])
  <2>1. s[i] \in Symbols /\ "$" \in Symbols
    <3>1. i \in DOMAIN s
      BY <1>1 DEF Str
    <3>2. s[i] \in Symbols
      BY <1>1, <3>1, Element, Zenon DEF Str
    <3> QED BY <3>2, Zenon DEF Symbols
  <2>2. next = <<>> \/ next \in Places(p)
    BY LastValueFacts
  <2>3. <<"$", s[i]>> \in Str /\ <<s[i]>> \in Str /\ <<"$">> \in Str /\ <<>> \in Str
    BY <2>1 DEF Str
  <2>4. next # <<>> => m[next] \in Str
    BY <2>2, Zenon
  <2> HIDE DEF s, next
  <2>5. Part(p, at, i, m) \in {<<"$", s[i]>>, <<s[i]>>, <<"$">>, <<>>, m[next]}
        /\ (Part(p, at, i, m) = m[next] => next # <<>> \/ Part(p, at, i, m) \in Str)
    BY <2>3 DEF Part, s, next
  <2> QED BY <2>3, <2>4, <2>5
<1> QED BY <1>1, <1>2 DEF Parts

\* Induction from the sets of values that are all open to the smaller ones.
LEMMA OpenInduction ==
  ASSUME NEW P, Counted(P), NEW T,
         \A open \in SUBSET P : (\A at \in P \ open : open \cup {at} \in T) => open \in T
  PROVE  SUBSET P \subseteq T
<1>1. PICK N \in Nat : \E c : Counts(c, N, P)
  BY DEF Counted
<1>2. PICK c : Counts(c, N, P)
  BY <1>1
<1> DEFINE U == {n \in Nat : \A open \in SUBSET P : c[open] < n => open \in T}
<1>3. \A open \in SUBSET P : c[open] \in Nat /\ c[open] <= N
  BY <1>2 DEF Counts
<1>4. 0 \in U
  BY <1>3
<1>5. \A n \in Nat : n \in U => n + 1 \in U
  <2> SUFFICES ASSUME NEW n \in Nat, n \in U,
                      NEW open \in SUBSET P, c[open] < n + 1,
                      NEW at \in P \ open
               PROVE  open \cup {at} \in T
    OBVIOUS
  <2>1. c[open \cup {at}] < c[open] /\ open \cup {at} \in SUBSET P
    BY <1>2 DEF Counts
  <2>2. c[open \cup {at}] < n
    BY <1>3, <2>1
  <2> QED BY <2>1, <2>2
<1>6. Nat \subseteq U
  <2> HIDE DEF U
  <2> QED BY <1>4, <1>5, SetInduction
<1>7. ASSUME NEW open \in SUBSET P PROVE open \in T
  <2>1. N + 1 \in U /\ c[open] < N + 1
    BY <1>3, <1>6
  <2> QED BY <2>1
<1> QED BY <1>7

\* The equation of Meanings, with f for the meanings.
Means(p, f) ==
  [open \in SUBSET Places(p) |->
     [at \in Places(p) |->
        IF at \in open THEN <<RecursionError>>
        ELSE Flatten(Parts(p, at, f[open \cup {at}]))]]

\* What a value means is a string when what it refers to is.
LEMMA MeansType ==
  ASSUME NEW p \in Stores, NEW at \in Places(p), NEW m \in [Places(p) -> Str]
  PROVE  Flatten(Parts(p, at, m)) \in Str
<1> DEFINE parts == Parts(p, at, m)
<1>1. parts \in Seq(Seq(Symbols))
  BY PartsType DEF Str
<1> HIDE DEF parts
<1>2. Len(parts) \in 0 .. Len(parts)
  BY <1>1
<1>3. \A n \in 0 .. Len(parts) : Joined(parts, n) \in Seq(Symbols)
  BY <1>1, JoinedGrows, Zenon
<1>4. Flatten(parts) = Joined(parts, Len(parts))
  BY <1>1, JoinedGrows, Zenon
<1> QED BY <1>2, <1>3, <1>4 DEF Str, parts

\* The equation has a solution.  The meanings of depth n are those with at most

\* n values inside each other, a deeper one being an error; where at most n
\* values are not open, the next depth adds nothing.
LEMMA MeaningsExist ==
  ASSUME NEW p \in Stores
  PROVE  \E f : f = Means(p, f)
<1> DEFINE P == Places(p)
           M == [SUBSET P -> [P -> Str]]
           none == [open \in SUBSET P |-> [at \in P |-> <<RecursionError>>]]
           step == [n \in Nat |-> [f \in M |-> Means(p, f)]]
<1>1. <<RecursionError>> \in Str
  BY DEF Str, Symbols
<1>2. ASSUME NEW f \in M PROVE Means(p, f) \in M
  <2>1. ASSUME NEW open \in SUBSET P, NEW at \in P
        PROVE  Flatten(Parts(p, at, f[open \cup {at}])) \in Str
    <3>1. f[open \cup {at}] \in [P -> Str]
      OBVIOUS
    <3> QED BY <3>1, MeansType
  <2> QED BY <1>1, <2>1 DEF Means
<1>3. none \in M /\ step \in [Nat -> [M -> M]]
  BY <1>1, <1>2, Zenon
<1>4. PICK F : Iterates(F, M, none, step)
  <2> HIDE DEF M, none, step
  <2> QED BY <1>3, Iteration
<1>5. F \in [Nat -> M] /\ F[0] = none /\ \A n \in Nat : F[n + 1] = Means(p, F[n])
  <2>1. F \in [Nat -> M] /\ F[0] = none /\ \A n \in Nat : F[n + 1] = step[n][F[n]]
    BY <1>4, Zenon DEF Iterates
  <2> HIDE DEF M, none
  <2> QED BY <2>1, Zenon
<1>6. Counted(P)
  BY PlacesCounted
<1>7. PICK N \in Nat : \E c : Counts(c, N, P)
  BY <1>6 DEF Counted
<1>8. PICK c : Counts(c, N, P)
  BY <1>7
<1>9. \A open \in SUBSET P : c[open] \in Nat /\ c[open] <= N
  BY <1>8 DEF Counts
<1> DEFINE T == {open \in SUBSET P : \A n \in Nat : c[open] <= n => F[n + 1][open] = F[n][open]}
<1>10. ASSUME NEW open \in SUBSET P, \A at \in P \ open : open \cup {at} \in T
      PROVE  open \in T
  <2> SUFFICES ASSUME NEW n \in Nat, c[open] <= n
               PROVE  F[n + 1][open] = F[n][open]
    OBVIOUS
  <2>0. ASSUME NEW at \in P \ open
        PROVE  c[open \cup {at}] < c[open] /\ c[open \cup {at}] \in Nat /\ c[open] \in Nat
    <3>1. open \cup {at} \in SUBSET P
      OBVIOUS
    <3>2. c[open \cup {at}] < c[open]
      BY <1>8, Zenon DEF Counts
    <3> QED BY <1>9, <3>1, <3>2, Zenon
  <2>1. CASE n = 0
    <3>1. P \ open = {}
      <4> SUFFICES ASSUME NEW at \in P \ open PROVE FALSE
        OBVIOUS
      <4>1. c[open \cup {at}] < c[open] /\ c[open \cup {at}] \in Nat /\ c[open] \in Nat
        BY <2>0, Zenon
      <4> QED BY <2>1, <4>1
    <3>2. F[n + 1] = Means(p, none) /\ F[n] = none
      BY <1>5, <2>1, Zenon
    <3>3. Means(p, none)[open] = none[open]
      BY <3>1 DEF Means
    <3> QED BY <3>2, <3>3, Zenon
  <2>2. CASE n # 0
    <3>1. n - 1 \in Nat /\ (n - 1) + 1 = n
      BY <2>2
    <3>2. F[n + 1] = Means(p, F[n]) /\ F[n] = Means(p, F[n - 1])
      BY <1>5, <3>1
    <3>3. ASSUME NEW at \in P \ open
          PROVE  F[n][open \cup {at}] = F[n - 1][open \cup {at}]
      <4>1. open \cup {at} \in T
        BY <1>10, Zenon
      <4>2. c[open \cup {at}] <= n - 1
        BY <2>0, SMT, SMTT(30)
      <4> QED BY <3>1, <4>1, <4>2, Zenon
    <3>4. Means(p, F[n])[open] = Means(p, F[n - 1])[open]
      BY <3>3 DEF Means
    <3> QED BY <3>2, <3>4, Zenon
  <2> QED BY <2>1, <2>2, Zenon
<1>11. SUBSET P \subseteq T
  <2> HIDE DEF T, P
  <2>1. \A open \in SUBSET P : (\A at \in P \ open : open \cup {at} \in T) => open \in T
    BY <1>10, Zenon
  <2> QED BY <1>6, <2>1, OpenInduction, Zenon
<1>12. F[N] = Means(p, F[N])
  <2>1. F[N] \in M /\ F[N + 1] \in M
    BY <1>5, SMT, SMTT(30)
  <2>2. \A open \in SUBSET P : F[N + 1][open] = F[N][open]
    BY <1>9, <1>11, Zenon
  <2>3. F[N + 1] = F[N]
    <3> HIDE DEF P
    <3> QED BY <2>1, <2>2, SMT, SMTT(30)
  <2> QED BY <1>5, <2>3, Zenon
<1> QED BY <1>12

\* Meanings is a solution, and its values are strings.
LEMMA MeaningsDefined ==
  ASSUME NEW p \in Stores
  PROVE  /\ Meanings(p) = Means(p, Meanings(p))
         /\ Meanings(p) \in [SUBSET Places(p) -> [Places(p) -> Str]]
<1> DEFINE P == Places(p)
           g == Meanings(p)
<1>1. g = CHOOSE f : f = Means(p, f)
  BY DEF Meanings, Means
<1>2. g = Means(p, g)
  <2> HIDE DEF g
  <2> QED BY <1>1, MeaningsExist, Zenon
<1> HIDE DEF g
<1> DEFINE T == {open \in SUBSET P : g[open] \in [P -> Str]}
<1>3. ASSUME NEW open \in SUBSET P, \A at \in P \ open : open \cup {at} \in T
      PROVE  open \in T
  <2>1. <<RecursionError>> \in Str
    BY DEF Str, Symbols
  <2>2. \A at \in P \ open : Flatten(Parts(p, at, g[open \cup {at}])) \in Str
    BY <1>3, MeansType, Zenon
  <2>3. Means(p, g)[open] \in [P -> Str]
    BY <2>1, <2>2 DEF Means
  <2> QED BY <1>2, <2>3, Zenon
<1>4. SUBSET P \subseteq T
  <2>1. Counted(P)
    BY PlacesCounted
  <2> HIDE DEF T, P
  <2>2. \A open \in SUBSET P : (\A at \in P \ open : open \cup {at} \in T) => open \in T
    BY <1>3, Zenon
  <2> QED BY <2>1, <2>2, OpenInduction, Zenon
<1>5. g = [open \in SUBSET P |-> Means(p, g)[open]]
  BY <1>2, Zenon DEF Means
<1>6. g \in [SUBSET P -> [P -> Str]]
  <2>1. \A open \in SUBSET P : g[open] \in [P -> Str]
    BY <1>4
  <2>2. \A open \in SUBSET P : Means(p, g)[open] \in [P -> Str]
    BY <1>2, <2>1, Zenon
  <2> QED BY <1>5, <2>2, Zenon
<1> QED BY <1>2, <1>6 DEF g

-----------------------------------------------------------------------------
(* The activations of parser_value_expand, as a sequence fs; bufs stands    *)
(* for the buffers, flagged for the values whose flag is set and t for the  *)
(* value that was asked for.                                                *)

Activations(p) == [at : Places(p), src : Nat \ {0}, escaped : BOOLEAN]

\* The values of the first k activations.
Open(fs, k) == {fs[j].at : j \in 1 .. k}

\* What the symbols of the value of activation k contribute.
PartsOf(p, fs, k) == Parts(p, fs[k].at, Meanings(p)[Open(fs, k)])

\* Activation k has appended what all symbols before src contribute, or, when
\* it has called the next one, all but the last, which the callee will return.
Progress(p, fs, bufs, k) ==
  LET f == fs[k]
      s == Raw(p, f.at)
  IN /\ f.src \in 1 .. Len(s) + 1
     /\ f.escaped <=> Escaped(s, f.src)
     /\ k = Len(fs) => bufs[f.at] = Joined(PartsOf(p, fs, k), f.src - 1)
     /\ k # Len(fs) =>
          /\ f.src # 1
          /\ bufs[f.at] = Joined(PartsOf(p, fs, k), f.src - 2)
          /\ PartsOf(p, fs, k)[f.src - 1] = Meanings(p)[Open(fs, k)][fs[k + 1].at]

Expansion(p, fs, bufs, flagged, t) ==
  /\ fs \in Seq(Activations(p))
  /\ \A i, j \in 1 .. Len(fs) : fs[i].at = fs[j].at => i = j
  /\ flagged = Open(fs, Len(fs))
  /\ flagged \subseteq DOMAIN bufs
  /\ fs # <<>> => t = fs[1].at
  /\ \A k \in 1 .. Len(fs) : Progress(p, fs, bufs, k)
  /\ fs = <<>> /\ t # <<>> => bufs[t] = Meaning(p, t)

\* The next activation opens its value.
LEMMA OpenGrows ==
  ASSUME NEW fs, NEW k \in Nat
  PROVE  Open(fs, k + 1) = Open(fs, k) \cup {fs[k + 1].at}
<1>1. 1 .. k + 1 = (1 .. k) \cup {k + 1}
  OBVIOUS
<1> QED BY <1>1 DEF Open

\* What PartsOf and Joined give for an activation.
LEMMA ActivationFacts ==
  ASSUME NEW p \in Stores, NEW fs \in Seq(Activations(p)), NEW k \in 1 .. Len(fs)
  PROVE  /\ fs[k] \in Activations(p) /\ fs[k].at \in Places(p)
         /\ Open(fs, k) \in SUBSET Places(p) /\ Open(fs, k - 1) \in SUBSET Places(p)
         /\ Open(fs, k) = Open(fs, k - 1) \cup {fs[k].at}
         /\ Len(Raw(p, fs[k].at)) \in Nat
         /\ \A i \in 1 .. Len(Raw(p, fs[k].at)) :
              /\ PartsOf(p, fs, k)[i] = Part(p, fs[k].at, i, Meanings(p)[Open(fs, k)])
              /\ Joined(PartsOf(p, fs, k), i) =
                   Joined(PartsOf(p, fs, k), i - 1) \o PartsOf(p, fs, k)[i]
         /\ Joined(PartsOf(p, fs, k), 0) = <<>>
         /\ Joined(PartsOf(p, fs, k), Len(Raw(p, fs[k].at))) =
              Flatten(PartsOf(p, fs, k))
<1> DEFINE at == fs[k].at
           m == Meanings(p)[Open(fs, k)]
           parts == PartsOf(p, fs, k)
           n == Len(Raw(p, at))
<1>1. \A j \in 1 .. Len(fs) : fs[j] \in Activations(p) /\ fs[j].at \in Places(p)
  <2>1. \A j \in 1 .. Len(fs) : fs[j] \in Activations(p)
    BY Element
  <2> QED BY <2>1, Zenon DEF Activations
<1>2. Open(fs, k) \in SUBSET Places(p) /\ Open(fs, k - 1) \in SUBSET Places(p)
  <2>1. \A j \in 1 .. k : j \in 1 .. Len(fs)
    OBVIOUS
  <2>2. \A j \in 1 .. k - 1 : j \in 1 .. Len(fs)
    OBVIOUS
  <2> QED BY <1>1, <2>1, <2>2 DEF Open
<1>3. Open(fs, k) = Open(fs, k - 1) \cup {at}
  <2>1. 1 .. k = (1 .. k - 1) \cup {k}
    OBVIOUS
  <2> QED BY <2>1 DEF Open
<1>4. m \in [Places(p) -> Str]
  BY <1>2, MeaningsDefined, Zenon
<1>5. at \in Places(p)
  BY <1>1
<1> HIDE DEF at, m
<1>6. n \in Nat
  <2>1. Raw(p, at) \in Str
    BY <1>5, PlaceFacts, Zenon
  <2> QED BY <2>1 DEF Str
<1>7. parts = Parts(p, at, m)
  BY Zenon DEF PartsOf, at, m
<1> HIDE DEF parts, n
<1>8. /\ parts \in Seq(Seq(Symbols)) /\ Len(parts) = n
      /\ \A i \in 1 .. n : parts[i] = Part(p, at, i, m)
  BY <1>4, <1>5, <1>7, PartsType DEF n, Str
<1>9. Joined(parts, 0) = <<>> /\ Joined(parts, n) = Flatten(parts)
      /\ \A i \in 1 .. n : Joined(parts, i) = Joined(parts, i - 1) \o parts[i]
  BY <1>8, JoinedGrows, Zenon
<1> QED BY <1>1, <1>2, <1>3, <1>6, <1>8, <1>9, Zenon DEF at, m, parts, n

\* The running activation with its fields changed.
LEMMA TopReplaced ==
  ASSUME NEW S, NEW fs \in Seq(S), fs # <<>>, NEW g \in S
  PROVE  /\ Len(fs) \in Nat \ {0}
         /\ Append(Below(fs), g) \in Seq(S)
         /\ Len(Append(Below(fs), g)) = Len(fs)
         /\ Append(Below(fs), g)[Len(fs)] = g
         /\ \A j \in 1 .. Len(fs) - 1 : Append(Below(fs), g)[j] = fs[j]
         /\ Below(fs) \in Seq(S) /\ Len(Below(fs)) = Len(fs) - 1
         /\ \A j \in 1 .. Len(fs) - 1 : Below(fs)[j] = fs[j]
<1>1. Len(fs) \in Nat \ {0}
  OBVIOUS
<1>2. Below(fs) = SubSeq(fs, 1, Len(fs) - 1)
  BY DEF Below
<1>3. Below(fs) \in Seq(S) /\ Len(Below(fs)) = Len(fs) - 1
      /\ \A j \in 1 .. Len(fs) - 1 : Below(fs)[j] = fs[j]
  <2> DEFINE n == Len(fs) - 1
  <2>1. 1 \in 1 .. Len(fs) + 1 /\ n \in 1 - 1 .. Len(fs) /\ n - 1 + 1 = n
    BY <1>1
  <2>2. SubSeq(fs, 1, n) \in Seq(S) /\ Len(SubSeq(fs, 1, n)) = n
    BY <2>1
  <2>3. \A j \in 1 .. n : SubSeq(fs, 1, n)[j] = fs[1 + j - 1]
    BY <2>1
  <2>4. \A j \in 1 .. n : 1 + j - 1 = j
    OBVIOUS
  <2> QED BY <1>2, <2>2, <2>3, <2>4, Zenon
<1> HIDE DEF Below
<1> QED BY <1>1, <1>3

\* Activations that only differ in their top, and there not in the value, have
\* the same values open and the same parts.
LEMMA SameOpen ==
  ASSUME NEW p, NEW fs, NEW gs, NEW n \in Nat,
         \A j \in 1 .. n : fs[j].at = gs[j].at
  PROVE  \A k \in 1 .. n : Open(gs, k) = Open(fs, k) /\ PartsOf(p, gs, k) = PartsOf(p, fs, k)
<1> TAKE k \in 1 .. n
<1>1. \A j \in 1 .. k : fs[j].at = gs[j].at
  OBVIOUS
<1>2. Open(gs, k) = Open(fs, k)
  BY <1>1 DEF Open
<1>3. gs[k].at = fs[k].at
  OBVIOUS
<1> QED BY <1>2, <1>3, Zenon DEF PartsOf

\* An activation below the top, whose buffer stays, keeps its progress.
LEMMA LowerStays ==
  ASSUME NEW p, NEW fs, NEW gs, NEW bufs, NEW bufs2, NEW n \in Nat,
         \A j \in 1 .. n : fs[j].at = gs[j].at,
         NEW k \in 1 .. n - 1, gs[k] = fs[k], k # Len(fs), k # Len(gs),
         bufs2[fs[k].at] = bufs[fs[k].at],
         Progress(p, fs, bufs, k)
  PROVE  Progress(p, gs, bufs2, k)
<1>1. Open(gs, k) = Open(fs, k) /\ PartsOf(p, gs, k) = PartsOf(p, fs, k)
  <2>1. k \in 1 .. n
    OBVIOUS
  <2> QED BY <2>1, SameOpen, Zenon
<1>2. gs[k + 1].at = fs[k + 1].at
  OBVIOUS
<1> DEFINE f == fs[k]
           s == Raw(p, f.at)
<1>3. /\ f.src \in 1 .. Len(s) + 1
      /\ f.escaped <=> Escaped(s, f.src)
      /\ f.src # 1
      /\ bufs[f.at] = Joined(PartsOf(p, fs, k), f.src - 2)
      /\ PartsOf(p, fs, k)[f.src - 1] = Meanings(p)[Open(fs, k)][fs[k + 1].at]
  BY Zenon DEF Progress
<1> QED BY <1>1, <1>2, <1>3, Zenon DEF Progress

\* The activation that a call starts, and the running one behind its symbol.
Callee(at) == [at |-> at, src |-> 1, escaped |-> FALSE]

NextTop(top, esc) == [top EXCEPT !.src = @ + 1, !.escaped = esc]

\* The running activation stays one, and its fields are those given.
LEMMA NextTopFacts ==
  ASSUME NEW p, NEW top \in Activations(p), NEW esc \in BOOLEAN
  PROVE  /\ NextTop(top, esc) \in Activations(p)
         /\ NextTop(top, esc).at = top.at
         /\ NextTop(top, esc).src = top.src + 1
         /\ NextTop(top, esc).escaped = esc
<1> DEFINE mid == [top EXCEPT !.src = @ + 1]
           new == NextTop(top, esc)
<1>1. mid \in Activations(p) /\ mid.at = top.at /\ mid.src = top.src + 1
  BY DEF Activations
<1> HIDE DEF mid
<1>2. new = [mid EXCEPT !.escaped = esc]
  BY DEF mid, NextTop
<1> HIDE DEF new
<1>3. new \in Activations(p)
  BY <1>1, <1>2 DEF Activations
<1>4. new.at = mid.at /\ new.src = mid.src
  BY <1>1, <1>2 DEF Activations
<1>5. new.escaped = esc
  BY <1>1, <1>2 DEF Activations
<1> QED BY <1>1, <1>3, <1>4, <1>5, Zenon DEF new

\* The running activation appends what its symbol contributes and goes on.
Emitting(p, fs, top, symbols, esc, gs) ==
  /\ fs # <<>> /\ top = fs[Len(fs)] /\ top.src <= Len(Raw(p, top.at))
  /\ symbols = Part(p, top.at, top.src, Meanings(p)[Open(fs, Len(fs))])
  /\ esc \in BOOLEAN /\ (esc <=> Escaped(Raw(p, top.at), top.src + 1))
  /\ gs = Append(Below(fs), NextTop(top, esc))

\* Then it has appended what the symbols before its new position contribute.
LEMMA EmitStep ==
  ASSUME NEW p, NEW fs, NEW bufs, NEW flagged, NEW t, NEW top, NEW symbols, NEW esc, NEW gs,
         p \in Stores, Expansion(p, fs, bufs, flagged, t), Emitting(p, fs, top, symbols, esc, gs)
  PROVE  Expansion(p, gs, [bufs EXCEPT ![top.at] = @ \o symbols], flagged, t)
<1> DEFINE n == Len(fs)
           new == NextTop(top, esc)
           bufs2 == [bufs EXCEPT ![top.at] = @ \o symbols]
<1>a. fs # <<>> /\ fs \in Seq(Activations(p)) /\ top = fs[n]
  BY Zenon DEF Emitting, Expansion
<1>b. esc \in BOOLEAN /\ gs = Append(Below(fs), new)
  BY Zenon DEF Emitting
<1>1. n \in Nat /\ n # 0 /\ n \in 1 .. n /\ 1 \in 1 .. n
      /\ \A k \in 1 .. n : k = n \/ k \in 1 .. n - 1
  <2>1. n \in Nat /\ n # 0
    BY <1>a
  <2> HIDE DEF n
  <2> QED BY <2>1
<1>2. top \in Activations(p) /\ new \in Activations(p)
      /\ new.at = top.at /\ new.src = top.src + 1 /\ new.escaped = esc
  <2>1. DOMAIN fs = 1 .. n
    BY <1>a
  <2>2. top \in Activations(p)
    BY <1>a, <1>1, <2>1, Element, Zenon
  <2> QED BY <1>b, <2>2, NextTopFacts, Zenon
<1> HIDE DEF new
<1>3. gs \in Seq(Activations(p)) /\ Len(gs) = n /\ gs[n] = new
      /\ \A j \in 1 .. n - 1 : gs[j] = fs[j]
  <2> DEFINE g == Append(Below(fs), new)
  <2>1. g \in Seq(Activations(p)) /\ Len(g) = n /\ g[n] = new
        /\ \A j \in 1 .. n - 1 : g[j] = fs[j]
    <3>1. fs \in Seq(Activations(p)) /\ fs # <<>> /\ new \in Activations(p)
      BY <1>a, <1>2, Zenon
    <3> QED BY <3>1, TopReplaced
  <2> QED BY <1>b, <2>1, Zenon
<1>4. \A j \in 1 .. n : fs[j].at = gs[j].at
  BY <1>a, <1>1, <1>2, <1>3, Zenon
<1>5. Open(gs, n) = Open(fs, n) /\ PartsOf(p, gs, n) = PartsOf(p, fs, n)
  BY <1>1, <1>4, SameOpen, ZenonT(30)
<1>6. flagged = Open(fs, n) /\ flagged \subseteq DOMAIN bufs
      /\ \A i, j \in 1 .. n : fs[i].at = fs[j].at => i = j
  BY Zenon DEF Expansion
<1>7. top.at \in flagged
  BY <1>a, <1>1, <1>6, Zenon DEF Open
<1>8. Progress(p, gs, bufs2, n)
  <2> DEFINE s == Raw(p, top.at)
             parts == PartsOf(p, fs, n)
  <2>1. Progress(p, fs, bufs, n)
    BY <1>1, Zenon DEF Expansion
  <2>2. top.src \in 1 .. Len(s) + 1 /\ bufs[top.at] = Joined(parts, top.src - 1)
    BY <1>a, <2>1, Zenon DEF Progress
  <2>3. Len(s) \in Nat /\ top.src <= Len(s)
    BY <1>a, <1>1, ActivationFacts, Zenon DEF Emitting
  <2>4. top.src \in 1 .. Len(s) /\ top.src + 1 \in 1 .. Len(s) + 1 /\ (top.src + 1) - 1 = top.src
    <3> DEFINE c == top.src
               l == Len(s)
    <3>1. c \in 1 .. l + 1 /\ l \in Nat /\ c <= l
      BY <2>2, <2>3, Zenon
    <3> HIDE DEF c, l
    <3>2. c \in 1 .. l /\ c + 1 \in 1 .. l + 1 /\ (c + 1) - 1 = c
      BY <3>1
    <3> QED BY <3>2, Zenon DEF c, l
  <2>5. /\ parts[top.src] = symbols
        /\ Joined(parts, top.src) = Joined(parts, top.src - 1) \o parts[top.src]
    <3>1. \A i \in 1 .. Len(Raw(p, fs[n].at)) :
            /\ parts[i] = Part(p, fs[n].at, i, Meanings(p)[Open(fs, n)])
            /\ Joined(parts, i) = Joined(parts, i - 1) \o parts[i]
      BY <1>a, <1>1, ActivationFacts, Zenon
    <3> HIDE DEF parts
    <3> QED BY <1>a, <2>4, <3>1, Zenon DEF Emitting
  <2>6. bufs2[top.at] = Joined(parts, top.src)
    BY <1>6, <1>7, <2>2, <2>5, ZenonT(30)
  <2>7. new.escaped <=> Escaped(s, new.src)
    BY <1>2, Zenon DEF Emitting
  <2> HIDE DEF bufs2, s
  <2>8. s = Raw(p, gs[n].at) /\ gs[n].at = top.at
    BY <1>2, <1>3, Zenon DEF s
  <2> QED BY <1>2, <1>3, <1>5, <2>4, <2>6, <2>7, <2>8, Zenon DEF Progress
<1>9. ASSUME NEW k \in 1 .. n - 1 PROVE Progress(p, gs, bufs2, k)
  <2>1. k \in 1 .. n /\ k # n
    <3> HIDE DEF n
    <3> QED BY <1>1
  <2>2. gs[k] = fs[k]
    BY <1>3, Zenon
  <2>3. fs[k].at # top.at
    BY <1>a, <1>1, <1>6, <2>1, Zenon
  <2>4. fs[k].at \in DOMAIN bufs
    BY <1>6, <2>1, Zenon DEF Open
  <2>5. bufs2[fs[k].at] = bufs[fs[k].at]
    BY <2>3, <2>4, Zenon
  <2>6. Progress(p, fs, bufs, k)
    BY <2>1, Zenon DEF Expansion
  <2> HIDE DEF bufs2
  <2> QED BY <1>1, <1>3, <1>4, <2>1, <2>2, <2>5, <2>6, LowerStays, Zenon
<1>10. \A k \in 1 .. Len(gs) : Progress(p, gs, bufs2, k)
  <2> HIDE DEF bufs2
  <2> QED BY <1>1, <1>3, <1>8, <1>9, Zenon
<1>11. gs # <<>> /\ t = gs[1].at
  <2>1. gs # <<>>
    <3> HIDE DEF n
    <3> QED BY <1>1, <1>3
  <2>2. t = fs[1].at
    BY <1>a, Zenon DEF Expansion
  <2> QED BY <1>1, <1>4, <2>1, <2>2, Zenon
<1>12. \A i, j \in 1 .. Len(gs) : gs[i].at = gs[j].at => i = j
  BY <1>3, <1>4, <1>6, Zenon
<1>13. flagged = Open(gs, Len(gs)) /\ flagged \subseteq DOMAIN bufs2
  BY <1>3, <1>5, <1>6, Zenon
<1> HIDE DEF bufs2
<1>14. Expansion(p, gs, bufs2, flagged, t)
  BY <1>3, <1>10, <1>11, <1>12, <1>13, Zenon DEF Expansion
<1> QED BY <1>14, Zenon DEF bufs2

\* Stacks that differ by a call: the activation g replaces the top of fs and h
\* is pushed.
CanCall(S, fs, g, h) == fs \in Seq(S) /\ fs # <<>> /\ g \in S /\ h \in S

Called(S, fs, g, h, hs) ==
  /\ hs \in Seq(S) /\ Len(hs) = Len(fs) + 1
  /\ hs[Len(fs) + 1] = h /\ hs[Len(fs)] = g
  /\ \A j \in 1 .. Len(fs) - 1 : hs[j] = fs[j]

\* The activations and buffers after a call.
LEMMA CallShape ==
  ASSUME NEW S, NEW fs, NEW g, NEW h, CanCall(S, fs, g, h)
  PROVE  Called(S, fs, g, h, Append(Append(Below(fs), g), h))
<1> SUFFICES ASSUME NEW hs, hs = Append(Append(Below(fs), g), h),
                    fs \in Seq(S), fs # <<>>, g \in S, h \in S
             PROVE  /\ hs \in Seq(S) /\ Len(hs) = Len(fs) + 1
                    /\ hs[Len(fs) + 1] = h /\ hs[Len(fs)] = g
                    /\ \A j \in 1 .. Len(fs) - 1 : hs[j] = fs[j]
  BY Zenon DEF CanCall, Called
<1> DEFINE gs == Append(Below(fs), g)
<1>1. Len(fs) \in Nat \ {0} /\ gs \in Seq(S) /\ Len(gs) = Len(fs) /\ gs[Len(fs)] = g
      /\ \A j \in 1 .. Len(fs) - 1 : gs[j] = fs[j]
  BY TopReplaced
<1>2. hs = Append(gs, h)
  OBVIOUS
<1> HIDE DEF gs
<1>3. hs \in Seq(S) /\ Len(hs) = Len(gs) + 1 /\ hs[Len(gs) + 1] = h
      /\ \A j \in 1 .. Len(gs) : hs[j] = gs[j]
  BY <1>1, <1>2
<1> QED BY <1>1, <1>3

\* The stack hs and the buffers bufs2 behind a call, from fs and bufs.
Calling(p, fs, bufs, flagged, next, hs, bufs2) ==
  LET n == Len(fs)
      top == fs[n]
      m == Meanings(p)[Open(fs, n)]
  IN /\ n \in Nat \ {0} /\ top.src <= Len(Raw(p, top.at))
     /\ next \in Places(p) /\ next \notin flagged
     /\ Part(p, top.at, top.src, m) = m[next]
     /\ ~Escaped(Raw(p, top.at), top.src + 1)
     /\ hs \in Seq(Activations(p)) /\ Len(hs) = n + 1
     /\ \A j \in 1 .. n - 1 : hs[j] = fs[j]
     /\ hs[n] = NextTop(top, FALSE) /\ hs[n + 1] = Callee(next)
     /\ DOMAIN bufs2 = DOMAIN bufs \cup {next} /\ bufs2[next] = <<>>
     /\ \A a \in DOMAIN bufs : a # next => bufs2[a] = bufs[a]

\* The running activation calls parser_value_expand for the value next, whose
\* meaning is what its symbol contributes.
LEMMA CallStep ==
  ASSUME NEW p, NEW fs, NEW bufs, NEW flagged, NEW t, NEW next, NEW hs, NEW bufs2,
         p \in Stores, Expansion(p, fs, bufs, flagged, t),
         Calling(p, fs, bufs, flagged, next, hs, bufs2)
  PROVE  Expansion(p, hs, bufs2, flagged \cup {next}, t)
<1>0. SUFFICES ASSUME NEW n \in Nat \ {0}, n = Len(fs), NEW top, top = fs[n]
             PROVE  Expansion(p, hs, bufs2, flagged \cup {next}, t)
  BY Zenon DEF Calling
<1>a. /\ top.src <= Len(Raw(p, top.at)) /\ next \in Places(p) /\ next \notin flagged
      /\ Part(p, top.at, top.src, Meanings(p)[Open(fs, n)]) = Meanings(p)[Open(fs, n)][next]
      /\ ~Escaped(Raw(p, top.at), top.src + 1)
      /\ hs \in Seq(Activations(p)) /\ Len(hs) = n + 1
      /\ \A j \in 1 .. n - 1 : hs[j] = fs[j]
      /\ hs[n] = NextTop(top, FALSE) /\ hs[n + 1] = Callee(next)
      /\ DOMAIN bufs2 = DOMAIN bufs \cup {next} /\ bufs2[next] = <<>>
      /\ \A a \in DOMAIN bufs : a # next => bufs2[a] = bufs[a]
  BY <1>0, Zenon DEF Calling
<1>b. top = fs[n] /\ n = Len(fs)
  BY <1>0, Zenon
<1>c. Len(hs) = n + 1 /\ \A j \in 1 .. n - 1 : hs[j] = fs[j]
  BY <1>a, Zenon
<1>d. next \in Places(p) /\ next \notin flagged
  BY <1>a, Zenon
<1> DEFINE new == hs[n]
           callee == hs[n + 1]
<1>1. fs \in Seq(Activations(p)) /\ n \in 1 .. n /\ n \in 1 .. Len(fs) /\ n \in Nat
  BY <1>b DEF Expansion
<1>2. new.at = top.at /\ new.src = top.src + 1 /\ new.escaped = FALSE
  <2>1. top \in Activations(p)
    <3>1. fs[n] \in Activations(p)
      BY <1>1, Element
    <3> QED BY <1>b, <3>1, Zenon
  <2>2. FALSE \in BOOLEAN
    OBVIOUS
  <2>3. /\ NextTop(top, FALSE).at = top.at
        /\ NextTop(top, FALSE).src = top.src + 1
        /\ NextTop(top, FALSE).escaped = FALSE
    BY <2>1, <2>2, NextTopFacts, Zenon
  <2> QED BY <1>a, <2>3, Zenon
<1>3. callee.at = next /\ callee.src = 1 /\ ~callee.escaped
  <2>1. Callee(next).at = next /\ Callee(next).src = 1 /\ ~Callee(next).escaped
    BY DEF Callee
  <2> QED BY <1>a, <2>1, Zenon
<1> HIDE DEF new, callee
<1>4. hs[n].at = new.at /\ hs[n].src = new.src /\ hs[n].escaped = new.escaped
  BY SMT, SMTT(30) DEF new
<1>5. hs[n + 1].at = next /\ hs[n + 1].src = 1 /\ ~hs[n + 1].escaped
  BY <1>3, Zenon DEF callee
<1>6. \A j \in 1 .. n : j = n \/ j \in 1 .. n - 1
  OBVIOUS
<1>7. \A j \in 1 .. n : fs[j].at = hs[j].at
  BY <1>b, <1>c, <1>2, <1>4, <1>6, Zenon
<1>8. \A k \in 1 .. n : Open(hs, k) = Open(fs, k) /\ PartsOf(p, hs, k) = PartsOf(p, fs, k)
  BY <1>1, <1>7, SameOpen, ZenonT(30)
<1>9. flagged = Open(fs, n) /\ flagged \subseteq DOMAIN bufs
      /\ \A i, j \in 1 .. n : fs[i].at = fs[j].at => i = j
  BY <1>b, Zenon DEF Expansion
<1>10. Open(hs, n + 1) = flagged \cup {next}
  <2>1. Open(hs, n + 1) = Open(hs, n) \cup {hs[n + 1].at}
    BY <1>1, OpenGrows, Zenon
  <2> QED BY <1>1, <1>5, <1>8, <1>9, <2>1, Zenon
<1>11. \A j \in 1 .. n : fs[j].at \in flagged /\ fs[j].at # next /\ bufs2[fs[j].at] = bufs[fs[j].at]
  <2>1. \A j \in 1 .. n : fs[j].at \in flagged
    BY <1>9, Zenon DEF Open
  <2>2. \A x \in DOMAIN bufs : x # next => bufs2[x] = bufs[x]
    BY <1>a, Zenon
  <2> QED BY <1>9, <1>d, <2>1, <2>2, Zenon
<1>12. Progress(p, hs, bufs2, n + 1)
  <2>0. hs \in Seq(Activations(p)) /\ bufs2[next] = <<>>
    BY <1>a, Zenon
  <2>1. n + 1 \in 1 .. Len(hs) /\ n + 1 = Len(hs) /\ 1 - 1 = 0
    BY <1>c
  <2>2. Joined(PartsOf(p, hs, n + 1), 0) = <<>> /\ Len(Raw(p, hs[n + 1].at)) \in Nat
    BY <2>0, <2>1, ActivationFacts, Zenon
  <2>3. 1 \in 1 .. Len(Raw(p, hs[n + 1].at)) + 1
    <3>1. \A k \in Nat : 1 \in 1 .. k + 1
      OBVIOUS
    <3> QED BY <2>2, <3>1, Zenon
  <2>4. ~Escaped(Raw(p, next), 1)
    <3>1. 1 \in Nat \ {0}
      OBVIOUS
    <3> QED BY <3>1, EscapedNext, Zenon
  <2> QED BY <1>5, <2>0, <2>1, <2>2, <2>3, <2>4, Zenon DEF Progress
<1>13. Progress(p, hs, bufs2, n)
  <2> DEFINE s == Raw(p, top.at)
             parts == PartsOf(p, fs, n)
             open == Open(fs, n)
  <2>1. Progress(p, fs, bufs, n)
    BY <1>1, Zenon DEF Expansion
  <2>2. top.src \in 1 .. Len(s) + 1 /\ bufs[top.at] = Joined(parts, top.src - 1)
    BY <1>b, <2>1, Zenon DEF Progress
  <2>3. Len(s) \in Nat /\ top.src \in 1 .. Len(s)
    <3>1. Len(s) \in Nat
      BY <1>1, <1>b, ActivationFacts, Zenon
    <3>2. top.src <= Len(s)
      BY <1>a, Zenon
    <3> HIDE DEF s, parts
    <3> QED BY <2>2, <3>1, <3>2, SMT, SMTT(30)
  <2>4. parts[top.src] = Meanings(p)[open][next]
    <3>1. \A i \in 1 .. Len(Raw(p, fs[n].at)) :
            /\ parts[i] = Part(p, fs[n].at, i, Meanings(p)[open])
            /\ Joined(parts, i) = Joined(parts, i - 1) \o parts[i]
      BY <1>1, ActivationFacts, Zenon
    <3>2. Part(p, top.at, top.src, Meanings(p)[open]) = Meanings(p)[open][next]
      BY <1>a, Zenon
    <3> HIDE DEF parts
    <3> QED BY <1>b, <2>3, <3>1, <3>2, Zenon
  <2>5. new.src \in 1 .. Len(s) + 1 /\ new.src - 1 = top.src /\ new.src - 2 = top.src - 1
        /\ new.src # 1 /\ n # n + 1
    <3> HIDE DEF s, parts
    <3> QED BY <1>1, <1>2, <2>3, SMT, SMTT(30)
  <2>6. new.escaped <=> Escaped(s, new.src)
    BY <1>a, <1>2, Zenon
  <2>7. bufs2[top.at] = Joined(parts, new.src - 2)
    BY <1>1, <1>b, <1>11, <2>2, <2>5, Zenon
  <2>8. hs[n].at = top.at /\ Open(hs, n) = open /\ PartsOf(p, hs, n) = parts
    BY <1>1, <1>2, <1>4, <1>8, Zenon
  <2>9. parts[new.src - 1] = Meanings(p)[open][hs[n + 1].at]
    BY <1>5, <2>4, <2>5, Zenon
  <2>10. s = Raw(p, hs[n].at) /\ hs[n].src = new.src /\ hs[n].escaped = new.escaped
    BY <1>4, <2>8, Zenon
  <2> HIDE DEF s, parts, open
  <2> QED BY <1>c, <2>5, <2>6, <2>7, <2>8, <2>9, <2>10, Zenon DEF Progress
<1>14. ASSUME NEW k \in 1 .. n - 1 PROVE Progress(p, hs, bufs2, k)
  <2>1. k \in 1 .. n /\ k # n /\ k # n + 1
    BY SMT, SMTT(30)
  <2>2. hs[k] = fs[k]
    BY <1>c, Zenon
  <2>3. bufs2[fs[k].at] = bufs[fs[k].at]
    BY <1>11, <2>1, Zenon
  <2>4. Progress(p, fs, bufs, k)
    BY <1>b, <2>1, Zenon DEF Expansion
  <2> QED BY <1>1, <1>b, <1>c, <1>7, <2>1, <2>2, <2>3, <2>4, LowerStays, ZenonT(30)
<1>15. \A k \in 1 .. Len(hs) : Progress(p, hs, bufs2, k)
  <2>1. \A k \in 1 .. n + 1 : k = n + 1 \/ k = n \/ k \in 1 .. n - 1
    BY SMT, SMTT(30)
  <2> QED BY <1>c, <1>12, <1>13, <1>14, <2>1, Zenon
<1>16. hs # <<>> /\ t = hs[1].at
  <2>1. 1 \in 1 .. n /\ fs # <<>>
    BY <1>1, <1>b
  <2>2. t = fs[1].at
    BY <2>1, Zenon DEF Expansion
  <2>3. hs # <<>>
    BY <1>c
  <2> QED BY <1>7, <2>1, <2>2, <2>3, Zenon
<1>17. \A i, j \in 1 .. Len(hs) : hs[i].at = hs[j].at => i = j
  <2>1. \A i \in 1 .. n + 1 : i = n + 1 \/ i \in 1 .. n
    BY <1>1, SMT, SMTT(30)
  <2>2. hs[n + 1].at = next
    BY <1>5
  <2>3. \A i \in 1 .. n : hs[i].at = fs[i].at /\ hs[i].at # next
    BY <1>7, <1>11, Zenon
  <2>4. \A i, j \in 1 .. n : hs[i].at = hs[j].at => i = j
    BY <1>9, <2>3, Zenon
  <2>5. ASSUME NEW i \in 1 .. n + 1, NEW j \in 1 .. n + 1, hs[i].at = hs[j].at
        PROVE  i = j
    <3>1. (i = n + 1 \/ i \in 1 .. n) /\ (j = n + 1 \/ j \in 1 .. n)
      BY <2>1, Zenon
    <3>2. CASE i = n + 1 /\ j \in 1 .. n
      BY <2>2, <2>3, <2>5, <3>2, Zenon
    <3>3. CASE j = n + 1 /\ i \in 1 .. n
      BY <2>2, <2>3, <2>5, <3>3, Zenon
    <3>4. CASE i \in 1 .. n /\ j \in 1 .. n
      BY <2>4, <2>5, <3>4, Zenon
    <3> QED BY <3>1, <3>2, <3>3, <3>4, Zenon
  <2> QED BY <1>c, <2>5, Zenon
<1>18. flagged \cup {next} = Open(hs, Len(hs)) /\ flagged \cup {next} \subseteq DOMAIN bufs2
  <2>1. DOMAIN bufs2 = DOMAIN bufs \cup {next}
    BY <1>a, Zenon
  <2> QED BY <1>c, <1>9, <1>10, <2>1, Zenon
<1>19. hs \in Seq(Activations(p))
  BY <1>a, Zenon
<1> QED BY <1>15, <1>16, <1>17, <1>18, <1>19, Zenon DEF Expansion

\* The stack gs and the buffers bufs2 behind a return, from fs and bufs.
Returning(p, fs, bufs, gs, bufs2) ==
  LET n == Len(fs)
      top == fs[n]
  IN /\ n \in Nat \ {0} /\ ~(top.src <= Len(Raw(p, top.at)))
     /\ gs \in Seq(Activations(p)) /\ Len(gs) = n - 1
     /\ \A j \in 1 .. n - 1 : gs[j] = fs[j]
     /\ n = 1 => bufs2 = bufs
     /\ n # 1 => bufs2 = [bufs EXCEPT ![fs[n - 1].at] = @ \o bufs[top.at]]

\* The position before one that is not the first.
LEMMA PositionBefore ==
  ASSUME NEW k \in Nat, NEW i \in 1 .. k + 1, i # 1
  PROVE  i - 1 \in 1 .. k /\ (i - 1) - 1 = i - 2
OBVIOUS

\* The running activation has read its value to the end and returns.
LEMMA ReturnStep ==
  ASSUME NEW p, NEW fs, NEW bufs, NEW flagged, NEW t, NEW gs, NEW bufs2,
         p \in Stores, Expansion(p, fs, bufs, flagged, t), Returning(p, fs, bufs, gs, bufs2)
  PROVE  Expansion(p, gs, bufs2, flagged \ {fs[Len(fs)].at}, t)
<1>0. \A k \in 1 .. Len(fs) : \A i \in 1 .. Len(Raw(p, fs[k].at)) :
        Joined(PartsOf(p, fs, k), i) = Joined(PartsOf(p, fs, k), i - 1) \o PartsOf(p, fs, k)[i]
  <2>1. fs \in Seq(Activations(p))
    BY Zenon DEF Expansion
  <2> QED BY <2>1, ActivationFacts, Zenon
<1>x. SUFFICES ASSUME NEW n \in Nat \ {0}, n = Len(fs), NEW top, top = fs[n]
             PROVE  Expansion(p, gs, bufs2, flagged \ {top.at}, t)
  BY Zenon DEF Returning
<1>a. /\ ~(top.src <= Len(Raw(p, top.at)))
      /\ gs \in Seq(Activations(p)) /\ Len(gs) = n - 1
      /\ \A j \in 1 .. n - 1 : gs[j] = fs[j]
      /\ n = 1 => bufs2 = bufs
      /\ n # 1 => bufs2 = [bufs EXCEPT ![fs[n - 1].at] = @ \o bufs[top.at]]
  BY <1>x, Zenon DEF Returning
<1>b. top = fs[n] /\ n = Len(fs)
  BY <1>x, Zenon
<1>c. Len(gs) = n - 1 /\ \A j \in 1 .. n - 1 : gs[j] = fs[j]
  BY <1>a, Zenon
<1> DEFINE s == Raw(p, top.at)
           open == Open(fs, n - 1)
           m == Meanings(p)[open][top.at]
<1>1. fs \in Seq(Activations(p)) /\ n \in 1 .. n /\ n \in 1 .. Len(fs) /\ n \in Nat
  <2>1. fs \in Seq(Activations(p))
    BY Zenon DEF Expansion
  <2>2. n \in 1 .. n /\ n \in Nat
    OBVIOUS
  <2> QED BY <1>b, <2>1, <2>2, Zenon
<1>2. \A j \in 1 .. n - 1 : fs[j].at = gs[j].at
  BY <1>c, Zenon
<1>3. flagged = Open(fs, n) /\ flagged \subseteq DOMAIN bufs
      /\ \A i, j \in 1 .. n : fs[i].at = fs[j].at => i = j
  BY <1>b, Zenon DEF Expansion
<1>4. Open(fs, n) = open \cup {top.at} /\ open \in SUBSET Places(p) /\ top.at \in Places(p)
  <2>1. Open(fs, n - 1) \in SUBSET Places(p)
    BY <1>1, ActivationFacts, Zenon
  <2>2. fs[n].at \in Places(p)
    BY <1>1, ActivationFacts, Zenon
  <2>3. Open(fs, n) = Open(fs, n - 1) \cup {fs[n].at}
    <3>1. n - 1 \in Nat /\ (n - 1) + 1 = n
      OBVIOUS
    <3>2. Open(fs, (n - 1) + 1) = Open(fs, n - 1) \cup {fs[(n - 1) + 1].at}
      BY <3>1, OpenGrows, Zenon
    <3> QED BY <3>1, <3>2, Zenon
  <2> QED BY <1>b, <2>1, <2>2, <2>3, Zenon
<1>5. top.at \notin open
  <2>1. \A j \in 1 .. n - 1 : fs[j].at # top.at
    <3>1. \A j \in 1 .. n - 1 : j \in 1 .. n /\ j # n
      OBVIOUS
    <3> QED BY <1>1, <1>3, <1>b, <3>1, Zenon
  <2> QED BY <2>1, Zenon DEF Open
<1>6. bufs[top.at] = m
  <2> DEFINE parts == PartsOf(p, fs, n)
  <2>1. Progress(p, fs, bufs, n)
    BY <1>1, Zenon DEF Expansion
  <2>2. top.src \in 1 .. Len(s) + 1 /\ bufs[top.at] = Joined(parts, top.src - 1)
    BY <1>b, <2>1, Zenon DEF Progress
  <2>3. Len(s) \in Nat /\ Joined(parts, Len(s)) = Flatten(parts)
    BY <1>1, <1>b, ActivationFacts, ZenonT(30)
  <2>4. top.src - 1 = Len(s)
    <3>1. ~(top.src <= Len(s))
      BY <1>a, Zenon
    <3> HIDE DEF s, parts
    <3> QED BY <2>2, <2>3, <3>1, SMT, SMTT(30)
  <2>5. bufs[top.at] = Flatten(parts)
    BY <2>2, <2>3, <2>4, Zenon
  <2>6. parts = Parts(p, top.at, Meanings(p)[open \cup {top.at}])
    BY <1>b, <1>4, Zenon DEF PartsOf
  <2>7. Meanings(p) = Means(p, Meanings(p))
    BY MeaningsDefined, ZenonT(30)
  <2>8. Means(p, Meanings(p))[open][top.at] =
          Flatten(Parts(p, top.at, Meanings(p)[open \cup {top.at}]))
    BY <1>4, <1>5, Zenon DEF Means
  <2> QED BY <2>5, <2>6, <2>7, <2>8, Zenon
<1>7. flagged \ {top.at} = open
  <2> HIDE DEF open
  <2>1. flagged = open \cup {top.at}
    BY <1>3, <1>4, Zenon
  <2> QED BY <1>5, <2>1, Zenon
<1>8. CASE n = 1
  <2>1. gs = <<>> /\ bufs2 = bufs /\ Len(gs) = 0
    <3>1. Len(gs) = 0
      BY <1>8, <1>c, SMT, SMTT(30)
    <3>2. gs \in Seq(Activations(p)) /\ bufs2 = bufs
      BY <1>8, <1>a, Zenon
    <3> QED BY <3>1, <3>2, SMT, SMTT(30)
  <2>2. open = {} /\ Open(gs, 0) = {}
    <3>1. 1 .. n - 1 = {} /\ 1 .. 0 = {}
      BY <1>8
    <3> QED BY <3>1 DEF Open
  <2>3. t = top.at
    <3>1. fs # <<>> /\ n = 1
      BY <1>1, <1>b, <1>8, Zenon
    <3>2. t = fs[1].at
      BY <3>1, Zenon DEF Expansion
    <3> QED BY <1>b, <3>1, <3>2, Zenon
  <2>4. bufs[t] = Meaning(p, t)
    BY <1>6, <2>2, <2>3, Zenon DEF Meaning
  <2>5. flagged \ {top.at} = Open(gs, Len(gs)) /\ flagged \ {top.at} \subseteq DOMAIN bufs2
    BY <1>7, <2>1, <2>2, ZenonT(30)
  <2>6. 1 .. Len(gs) = {}
    <3>1. 1 .. 0 = {}
      OBVIOUS
    <3> QED BY <2>1, <3>1, Zenon
  <2>7. gs \in Seq(Activations(p))
    BY <1>a, Zenon
  <2> QED BY <2>1, <2>4, <2>5, <2>6, <2>7, ZenonT(30) DEF Expansion
<1>9. CASE n # 1
  <2> DEFINE c == n - 1
             caller == fs[c]
             parts == PartsOf(p, fs, c)
  <2>1. c \in Nat /\ c \in Nat \ {0} /\ c \in 1 .. n /\ c \in 1 .. c /\ c # n /\ c + 1 = n
    BY <1>9
  <2>2. Len(gs) = c /\ gs[c] = caller
    BY <1>c, <2>1, Zenon
  <2>3. bufs2 = [bufs EXCEPT ![caller.at] = @ \o m]
    BY <1>6, <1>9, <1>a, Zenon
  <2>4. \A k \in 1 .. c : Open(gs, k) = Open(fs, k) /\ PartsOf(p, gs, k) = PartsOf(p, fs, k)
    <3> TAKE k \in 1 .. c
    <3>1. k \in 1 .. k /\ \A j \in 1 .. k : j \in 1 .. n - 1
      BY <2>1
    <3>2. Open(gs, k) = Open(fs, k)
      BY <1>2, <3>1 DEF Open
    <3>3. gs[k].at = fs[k].at
      BY <1>2, <3>1, Zenon
    <3> QED BY <3>2, <3>3, Zenon DEF PartsOf
  <2>5. caller.at \in DOMAIN bufs
    BY <1>3, <2>1, Zenon DEF Open
  <2>6. Progress(p, gs, bufs2, c)
    <3> DEFINE q == Raw(p, caller.at)
    <3>1. Progress(p, fs, bufs, c)
      BY <1>b, <2>1, Zenon DEF Expansion
    <3>2. /\ caller.src \in 1 .. Len(q) + 1 /\ (caller.escaped <=> Escaped(q, caller.src))
          /\ caller.src # 1 /\ bufs[caller.at] = Joined(parts, caller.src - 2)
          /\ parts[caller.src - 1] = Meanings(p)[Open(fs, c)][fs[c + 1].at]
      BY <1>b, <2>1, <3>1, Zenon DEF Progress
    <3>3. parts[caller.src - 1] = m
      BY <1>b, <2>1, <3>2, Zenon
    <3>4. Len(q) \in Nat /\ caller.src - 1 \in 1 .. Len(q) /\ (caller.src - 1) - 1 = caller.src - 2
      <4>1. Len(q) \in Nat
        BY <1>1, <1>b, <2>1, ActivationFacts, Zenon
      <4> HIDE DEF q, caller
      <4> QED BY <3>2, <4>1, PositionBefore, Zenon
    <3>5. Joined(parts, caller.src - 1) = Joined(parts, caller.src - 2) \o m
      <4>1. \A i \in 1 .. Len(q) : Joined(parts, i) = Joined(parts, i - 1) \o parts[i]
        <5>1. c \in 1 .. Len(fs)
          BY <1>b, <2>1, Zenon
        <5> QED BY <5>1, <1>0, Zenon
      <4> HIDE DEF q, caller, parts, m
      <4> QED BY <3>3, <3>4, <4>1, Zenon
    <3>6. bufs2[caller.at] = Joined(parts, caller.src - 1)
      <4> HIDE DEF caller, parts, m
      <4> QED BY <2>3, <2>5, <3>2, <3>5, Zenon
    <3>7. PartsOf(p, gs, c) = parts
      BY <2>1, <2>4, Zenon
    <3> HIDE DEF caller, parts
    <3> QED BY <2>2, <3>2, <3>6, <3>7, Zenon DEF Progress
  <2>7. ASSUME NEW k \in 1 .. c - 1 PROVE Progress(p, gs, bufs2, k)
    <3>0. k \in 1 .. c /\ k \in 1 .. n /\ k # n /\ k # c
      BY <2>1
    <3>1. k \in 1 .. c /\ k \in 1 .. n /\ k # n /\ k # c /\ gs[k] = fs[k]
      BY <1>c, <3>0, Zenon
    <3>2. fs[k].at # caller.at /\ fs[k].at \in DOMAIN bufs
      <4>1. fs[k].at \in Open(fs, n)
        BY <3>1, ZenonT(30) DEF Open
      <4> QED BY <1>3, <2>1, <3>1, <4>1, ZenonT(30)
    <3>3. bufs2[fs[k].at] = bufs[fs[k].at]
      <4> HIDE DEF caller, m
      <4> QED BY <2>3, <3>2, ZenonT(30)
    <3>4. Progress(p, fs, bufs, k)
      BY <1>b, <3>1, Zenon DEF Expansion
    <3> QED BY <1>1, <1>2, <1>b, <2>1, <2>2, <3>1, <3>3, <3>4, LowerStays, Zenon
  <2>8. \A k \in 1 .. Len(gs) : Progress(p, gs, bufs2, k)
    <3>1. \A k \in 1 .. c : k = c \/ k \in 1 .. c - 1
      BY <2>1
    <3> QED BY <2>2, <2>6, <2>7, <3>1, Zenon
  <2>9. gs # <<>> /\ t = gs[1].at
    <3>1. gs # <<>> /\ 1 \in 1 .. c
      BY <2>1, <2>2
    <3>2. t = fs[1].at
      <4>1. fs # <<>>
        BY <1>b
      <4> QED BY <4>1, Zenon DEF Expansion
    <3> QED BY <1>2, <3>1, <3>2, ZenonT(30)
  <2>10. \A i, j \in 1 .. Len(gs) : gs[i].at = gs[j].at => i = j
    <3>1. \A i \in 1 .. c : i \in 1 .. n
      BY <2>1
    <3> QED BY <1>2, <1>3, <2>2, <3>1, Zenon
  <2>11. flagged \ {top.at} = Open(gs, Len(gs)) /\ flagged \ {top.at} \subseteq DOMAIN bufs2
    <3>1. Open(gs, Len(gs)) = open
      BY <2>1, <2>2, <2>4, Zenon
    <3>2. DOMAIN bufs2 = DOMAIN bufs
      BY <2>3, ZenonT(30)
    <3> QED BY <1>3, <1>7, <3>1, <3>2, Zenon
  <2>12. gs \in Seq(Activations(p))
    BY <1>a
  <2> QED BY <2>8, <2>9, <2>10, <2>11, <2>12, Zenon DEF Expansion
<1> QED BY <1>8, <1>9

\* What symbol i contributes, and whether the next one is escaped.
SymbolMeans(p, at, i, m, s, next) ==
  /\ ~Escaped(s, i) /\ s[i] = "$" =>
       Part(p, at, i, m) = <<>> /\ Escaped(s, i + 1)
  /\ ~Escaped(s, i) /\ s[i] # "$" =>
       Part(p, at, i, m) = <<s[i]>> /\ ~Escaped(s, i + 1)
  /\ Escaped(s, i) =>
       /\ ~Escaped(s, i + 1)
       /\ s[i] = "$" => Part(p, at, i, m) = <<"$">>
       /\ s[i] # "$" /\ s[i] \notin DOMAIN KeyOf => Part(p, at, i, m) = <<"$", s[i]>>
       /\ s[i] \in DOMAIN KeyOf =>
            Part(p, at, i, m) = IF next = <<>> THEN <<"$", s[i]>> ELSE m[next]

\* The four kinds of symbols a value is made of.
LEMMA SymbolFacts ==
  ASSUME NEW p, NEW at, NEW i \in Nat \ {0}, NEW m
  PROVE  SymbolMeans(p, at, i, m, Raw(p, at), LastValue(p, at, KeyOf[Raw(p, at)[i]]))
<1> DEFINE s == Raw(p, at)
           next == LastValue(p, at, KeyOf[s[i]])
<1>1. Escaped(s, i + 1) <=> s[i] = "$" /\ ~Escaped(s, i)
  BY EscapedNext, Zenon
<1>2. s[i] = "$" => Part(p, at, i, m) = IF Escaped(s, i) THEN <<"$">> ELSE <<>>
  BY DEF Part
<1>3. s[i] # "$" /\ ~Escaped(s, i) => Part(p, at, i, m) = <<s[i]>>
  BY DEF Part
<1>4. s[i] # "$" /\ Escaped(s, i) /\ s[i] \notin DOMAIN KeyOf => Part(p, at, i, m) = <<"$", s[i]>>
  BY DEF Part
<1>5. s[i] # "$" /\ Escaped(s, i) /\ s[i] \in DOMAIN KeyOf =>
        Part(p, at, i, m) = IF next = <<>> THEN <<"$", s[i]>> ELSE m[next]
  BY DEF Part
<1>6. s[i] \in DOMAIN KeyOf => s[i] # "$"
  BY FilesAssumption
<1> HIDE DEF s, next
<1>7. SymbolMeans(p, at, i, m, s, next)
  BY <1>1, <1>2, <1>3, <1>4, <1>5, <1>6, Zenon DEF SymbolMeans
<1> QED BY <1>7, Zenon DEF s, next

ExpansionState == Expansion(parser, frames, expanded, expanding, target)

\* The running activation stands at a symbol or at the end of its value.
LEMMA TopFacts ==
  ASSUME parser \in Stores, ExpansionState, frames # <<>>
  PROVE  /\ frames \in Seq(Activations(parser)) /\ Top \in Activations(parser)
         /\ Len(frames) \in Nat \ {0} /\ Top = frames[Len(frames)]
         /\ Top.at \in Places(parser) /\ Top.src \in Nat \ {0}
         /\ Top.escaped <=> Escaped(Raw(parser, Top.at), Top.src)
<1> DEFINE n == Len(frames)
<1>1. frames \in Seq(Activations(parser))
  BY DEF ExpansionState, Expansion
<1>2. n \in Nat \ {0} /\ n \in 1 .. n /\ n \in DOMAIN frames
  BY <1>1
<1>3. Top = frames[n]
  BY DEF Top
<1>4. frames[n] \in Activations(parser)
  BY <1>1, <1>2, Element, Zenon
<1>5. frames[n].at \in Places(parser) /\ frames[n].src \in Nat \ {0}
  BY <1>4 DEF Activations
<1>6. Progress(parser, frames, expanded, n)
  BY <1>2, Zenon DEF ExpansionState, Expansion
<1>7. frames[n].escaped <=> Escaped(Raw(parser, frames[n].at), frames[n].src)
  BY <1>6, Zenon DEF Progress
<1> QED BY <1>1, <1>2, <1>3, <1>4, <1>5, <1>7, Zenon

\* Emit with what the symbol contributes.
LEMMA EmitKeeps ==
  ASSUME parser \in Stores, ExpansionState, Running,
         NEW symbols, NEW esc \in BOOLEAN,
         symbols = Part(parser, Top.at, Top.src, Meanings(parser)[Open(frames, Len(frames))]),
         esc <=> Escaped(Raw(parser, Top.at), Top.src + 1),
         Emit(symbols, esc)
  PROVE  ExpansionState'
<1>1. frames # <<>> /\ Top.src <= Len(Raw(parser, Top.at)) /\ Top = frames[Len(frames)]
  BY Zenon DEF Running, Top
<1>2. frames' = Append(Below(frames), NextTop(Top, esc))
  BY DEF Emit, Onward, NextTop
<1>3. /\ expanded' = [expanded EXCEPT ![Top.at] = @ \o symbols]
      /\ parser' = parser /\ expanding' = expanding /\ target' = target
  BY Zenon DEF Emit
<1> DEFINE top == Top
           gs == Append(Below(frames), NextTop(top, esc))
<1>4. top = frames[Len(frames)] /\ gs = Append(Below(frames), NextTop(top, esc))
  BY <1>1, Zenon
<1>5. Expansion(parser, frames, expanded, expanding, target)
  BY DEF ExpansionState
<1>6. Expansion(parser, gs, [expanded EXCEPT ![top.at] = @ \o symbols], expanding, target)
  <2> HIDE DEF top, gs
  <2>1. Emitting(parser, frames, top, symbols, esc, gs)
    BY <1>1, <1>4, Zenon DEF Emitting, top
  <2> QED BY <1>5, <2>1, EmitStep, Zenon
<1> QED BY <1>2, <1>3, <1>6, Zenon DEF ExpansionState

\* Each turn of the loop, the call and the return keep the invariant of the
\* expansion.
LEMMA ExpandKeeps ==
  ASSUME parser \in Stores, ExpansionState, Expand
  PROVE  ExpansionState'
<1> DEFINE n == Len(frames)
           s == Raw(parser, Top.at)
           i == Top.src
           m == Meanings(parser)[Open(frames, n)]
           next == LastValue(parser, Top.at, KeyOf[s[i]])
<1>1. frames # <<>>
  BY Zenon DEF Expand, ExpandPlain, ExpandReference, ExpandEscaped, ExpandReturns, Running
<1>2. /\ frames \in Seq(Activations(parser)) /\ Top \in Activations(parser)
      /\ n \in Nat \ {0} /\ Top = frames[n] /\ Top.at \in Places(parser)
      /\ i \in Nat \ {0} /\ (Top.escaped <=> Escaped(s, i))
  BY <1>1, TopFacts
<1>3. /\ ~Escaped(s, i) /\ s[i] = "$" =>
           Part(parser, Top.at, i, m) = <<>> /\ Escaped(s, i + 1)
      /\ ~Escaped(s, i) /\ s[i] # "$" =>
           Part(parser, Top.at, i, m) = <<s[i]>> /\ ~Escaped(s, i + 1)
      /\ Escaped(s, i) =>
           /\ ~Escaped(s, i + 1)
           /\ s[i] = "$" => Part(parser, Top.at, i, m) = <<"$">>
           /\ s[i] # "$" /\ s[i] \notin DOMAIN KeyOf => Part(parser, Top.at, i, m) = <<"$", s[i]>>
           /\ s[i] \in DOMAIN KeyOf =>
                Part(parser, Top.at, i, m) = IF next = <<>> THEN <<"$", s[i]>> ELSE m[next]
  <2>1. SymbolMeans(parser, Top.at, i, m, s, next)
    BY <1>2, SymbolFacts, Zenon
  <2> HIDE DEF m, next, s, i
  <2> QED BY <2>1, Zenon DEF SymbolMeans
<1>4. Symbol = s[i]
  BY DEF Symbol
<1>5. ASSUME Running, NEW symbols, NEW esc \in BOOLEAN, Emit(symbols, esc),
             symbols = Part(parser, Top.at, i, m), esc <=> Escaped(s, i + 1)
      PROVE  ExpansionState'
  BY <1>5, EmitKeeps, Zenon
<1> HIDE DEF s, i, m, next
<1>6. CASE ExpandPlain
  <2>1. Running /\ ~Escaped(s, i)
    BY <1>2, <1>6, Zenon DEF ExpandPlain
  <2>2. CASE s[i] = "$"
    <3>1. Emit(<<>>, TRUE)
      BY <1>4, <1>6, <2>2, Zenon DEF ExpandPlain
    <3> QED BY <1>3, <1>5, <2>1, <2>2, <3>1, Zenon
  <2>3. CASE s[i] # "$"
    <3>1. Emit(<<s[i]>>, FALSE)
      BY <1>4, <1>6, <2>3, Zenon DEF ExpandPlain
    <3> QED BY <1>3, <1>5, <2>1, <2>3, <3>1, Zenon
  <2> QED BY <2>2, <2>3
<1>7. CASE ExpandEscaped
  <2>1. Running /\ Escaped(s, i) /\ s[i] \notin DOMAIN KeyOf
    BY <1>2, <1>4, <1>7, Zenon DEF ExpandEscaped
  <2>2. CASE s[i] = "$"
    <3>1. Emit(<<"$">>, FALSE)
      BY <1>4, <1>7, <2>2, Zenon DEF ExpandEscaped
    <3> QED BY <1>3, <1>5, <2>1, <2>2, <3>1, Zenon
  <2>3. CASE s[i] # "$"
    <3>1. Emit(<<"$", s[i]>>, FALSE)
      BY <1>4, <1>7, <2>3, Zenon DEF ExpandEscaped
    <3> QED BY <1>3, <1>5, <2>1, <2>3, <3>1, Zenon
  <2> QED BY <2>2, <2>3
<1>8. expanding = Open(frames, n)
  BY DEF ExpansionState, Expansion
<1>9. CASE ExpandReference
  <2>1. Running /\ Escaped(s, i) /\ s[i] \in DOMAIN KeyOf
    BY <1>2, <1>4, <1>9, Zenon DEF ExpandReference
  <2>2. /\ next = <<>> => Emit(<<"$", s[i]>>, FALSE)
        /\ next # <<>> /\ next \in expanding => Emit(<<RecursionError>>, FALSE)
        /\ next # <<>> /\ next \notin expanding =>
             Call(Onward(FALSE), next, expanded) /\ UNCHANGED <<parser, target>>
    BY <1>4, <1>9, Zenon DEF ExpandReference, next, s, i
  <2>3. next # <<>> => next \in Places(parser)
    BY <1>2, LastValueFacts DEF next
  <2>4. CASE next = <<>>
    BY <1>3, <1>5, <2>1, <2>2, <2>4, Zenon
  <2>5. CASE next # <<>> /\ next \in expanding
    <3>1. m[next] = <<RecursionError>>
      <4>1. Meanings(parser) = Means(parser, Meanings(parser))
        BY MeaningsDefined, Zenon
      <4>2. Open(frames, n) \in SUBSET Places(parser)
        <5>1. n \in 1 .. Len(frames)
          BY <1>2, SMT, SMTT(30)
        <5> QED BY <1>2, <5>1, ActivationFacts, Zenon
      <4>3. Means(parser, Meanings(parser))[Open(frames, n)][next] = <<RecursionError>>
        BY <1>8, <2>3, <2>5, <4>2, Zenon DEF Means
      <4> QED BY <4>1, <4>3, Zenon DEF m
    <3> QED BY <1>3, <1>5, <2>1, <2>2, <2>5, <3>1, Zenon
  <2>6. CASE next # <<>> /\ next \notin expanding
    <3> DEFINE hs == Append(Append(Below(frames), NextTop(Top, FALSE)), Callee(next))
               bufs2 == [a \in DOMAIN expanded \cup {next} |->
                           IF a = next THEN <<>> ELSE expanded[a]]
    <3>1. /\ frames' = hs /\ expanded' = bufs2 /\ expanding' = expanding \cup {next}
          /\ parser' = parser /\ target' = target
      BY <2>2, <2>6 DEF Call, Onward, NextTop, Callee
    <3>2. NextTop(Top, FALSE) \in Activations(parser) /\ Callee(next) \in Activations(parser)
      <4>1. FALSE \in BOOLEAN
        OBVIOUS
      <4>2. NextTop(Top, FALSE) \in Activations(parser)
        BY <1>2, <4>1, NextTopFacts, Zenon
      <4>3. Callee(next) \in Activations(parser)
        BY <2>3, <2>6 DEF Callee, Activations
      <4> QED BY <4>2, <4>3, Zenon
    <3>3. /\ hs \in Seq(Activations(parser)) /\ Len(hs) = n + 1
          /\ hs[n + 1] = Callee(next) /\ hs[n] = NextTop(Top, FALSE)
          /\ \A j \in 1 .. n - 1 : hs[j] = frames[j]
      <4>1. CanCall(Activations(parser), frames, NextTop(Top, FALSE), Callee(next))
        BY <1>1, <1>2, <3>2, Zenon DEF CanCall
      <4>2. Called(Activations(parser), frames, NextTop(Top, FALSE), Callee(next), hs)
        BY <4>1, CallShape, Zenon
      <4> HIDE DEF hs
      <4> QED BY <4>2, Zenon DEF Called
    <3>4. DOMAIN bufs2 = DOMAIN expanded \cup {next} /\ bufs2[next] = <<>>
          /\ \A a \in DOMAIN expanded : a # next => bufs2[a] = expanded[a]
      OBVIOUS
    <3>5. Part(parser, Top.at, i, m) = m[next] /\ ~Escaped(s, i + 1)
      BY <1>3, <2>1, <2>6, Zenon
    <3>6. i <= Len(s)
      BY <2>1 DEF Running, i, s
    <3>7. Expansion(parser, frames, expanded, expanding, target)
      BY DEF ExpansionState
    <3>8. next \in Places(parser)
      BY <2>3, <2>6, Zenon
    <3> HIDE DEF hs, bufs2
    <3>9. /\ Top.src <= Len(Raw(parser, Top.at)) /\ ~Escaped(Raw(parser, Top.at), Top.src + 1)
          /\ Part(parser, Top.at, Top.src, Meanings(parser)[Open(frames, n)])
             = Meanings(parser)[Open(frames, n)][next]
      BY <3>5, <3>6 DEF i, s, m
    <3>10. Calling(parser, frames, expanded, expanding, next, hs, bufs2)
      BY <1>2, <2>6, <3>3, <3>4, <3>8, <3>9, Zenon DEF Calling
    <3>11. Expansion(parser, hs, bufs2, expanding \cup {next}, target)
      BY <3>7, <3>10, CallStep, Zenon
    <3> QED BY <3>1, <3>11, Zenon DEF ExpansionState
  <2> QED BY <2>4, <2>5, <2>6, Zenon
<1>10. CASE ExpandReturns
  <2> DEFINE gs == Below(frames)
  <2>1. /\ frames' = gs /\ expanding' = expanding \ {Top.at}
        /\ parser' = parser /\ target' = target
        /\ expanded' = IF n = 1 THEN expanded
                       ELSE [expanded EXCEPT ![frames[n - 1].at] = @ \o expanded[Top.at]]
    BY <1>10, Zenon DEF ExpandReturns
  <2>2. ~(Top.src <= Len(Raw(parser, Top.at)))
    BY <1>10, Zenon DEF ExpandReturns, Running
  <2>3. /\ gs \in Seq(Activations(parser)) /\ Len(gs) = n - 1
        /\ \A j \in 1 .. n - 1 : gs[j] = frames[j]
    BY <1>1, <1>2, TopReplaced
  <2> HIDE DEF gs
  <2>5. n = 1 => expanded' = expanded
    BY <2>1, Zenon
  <2>6. n # 1 => expanded' = [expanded EXCEPT ![frames[n - 1].at] = @ \o expanded[Top.at]]
    BY <2>1
  <2>7. Expansion(parser, frames, expanded, expanding, target)
    BY DEF ExpansionState
  <2>8. Returning(parser, frames, expanded, gs, expanded')
    BY <1>2, <2>2, <2>3, <2>5, <2>6, Zenon DEF Returning
  <2>9. Expansion(parser, gs, expanded', expanding \ {Top.at}, target)
    BY <1>2, <2>7, <2>8, ReturnStep, Zenon
  <2> QED BY <2>1, <2>9, Zenon DEF ExpansionState
<1> QED BY <1>6, <1>7, <1>9, <1>10, Zenon DEF Expand

\* parser_get calls parser_value_expand for the value at with an empty stack.
LEMMA GetKeeps ==
  ASSUME parser \in Stores, ExpansionState, NEW at \in Places(parser), parser_get(at)
  PROVE  ExpansionState'
<1> DEFINE fs == <<Callee(at)>>
           bufs == [a \in DOMAIN expanded \cup {at} |->
                      IF a = at THEN <<>> ELSE expanded[a]]
<1>1. /\ frames' = fs /\ expanded' = bufs /\ expanding' = expanding \cup {at}
      /\ target' = at /\ parser' = parser /\ frames = <<>>
  <2>1. Append(<<>>, Callee(at)) = <<Callee(at)>>
    OBVIOUS
  <2> QED BY <2>1 DEF parser_get, Call, Callee
<1>2. Callee(at) \in Activations(parser) /\ at # <<>>
  <2>1. at # <<>>
    BY PlaceFacts, Zenon
  <2>2. Callee(at) \in Activations(parser)
    BY DEF Callee, Activations
  <2> QED BY <2>1, <2>2, Zenon
<1>3. /\ fs \in Seq(Activations(parser)) /\ Len(fs) = 1 /\ fs[1] = Callee(at)
      /\ fs[1].at = at /\ fs[1].src = 1 /\ fs[1].escaped = FALSE
  BY <1>2 DEF Callee
<1>4. expanding = {}
  <2>1. expanding = Open(frames, Len(frames))
    BY Zenon DEF ExpansionState, Expansion
  <2>2. Open(<<>>, 0) = {} /\ Len(<<>>) = 0
    BY DEF Open
  <2> QED BY <1>1, <2>1, <2>2, Zenon
<1> HIDE DEF fs
<1>5. Open(fs, Len(fs)) = {at}
  BY <1>3 DEF Open
<1>6. Progress(parser, fs, bufs, 1)
  <2>1. 1 \in 1 .. Len(fs)
    BY <1>3
  <2>2. /\ Len(Raw(parser, fs[1].at)) \in Nat
        /\ Joined(PartsOf(parser, fs, 1), 0) = <<>>
    BY <1>3, <2>1, ActivationFacts, Zenon
  <2>3. 1 \in 1 .. Len(Raw(parser, fs[1].at)) + 1 /\ 1 - 1 = 0
    BY <2>2
  <2>4. ~Escaped(Raw(parser, at), 1)
    <3>1. 1 \in Nat \ {0}
      OBVIOUS
    <3> QED BY <3>1, EscapedNext, Zenon
  <2>5. bufs[at] = <<>>
    BY SMT, SMTT(30)
  <2> QED BY <1>3, <2>2, <2>3, <2>4, <2>5, Zenon DEF Progress
<1>7. Expansion(parser, fs, bufs, {at}, at)
  <2>1. fs # <<>> /\ \A k \in 1 .. Len(fs) : k = 1
    BY <1>3
  <2>2. {at} \subseteq DOMAIN bufs
    OBVIOUS
  <2> HIDE DEF bufs
  <2> QED BY <1>3, <1>5, <1>6, <2>1, <2>2, Zenon DEF Expansion
<1>8. expanding' = {at}
  BY <1>1, <1>4
<1> HIDE DEF bufs
<1> QED BY <1>1, <1>7, <1>8, Zenon DEF ExpansionState

-----------------------------------------------------------------------------
\* The state of parser_read that the variables hold.
Reader ==
  [lx |-> lx, section |-> section, key |-> key, cr |-> cr, allow |-> allow,
   parser |-> parser, atEnd |-> atEnd]

\* The inductive invariant: the lexer and the store are what Readers says, nothing
\* is expanded before the file has been read, and the stack of activations has
\* done what Expansion says.
ConfigInv ==
  /\ allow \in Flags /\ Reader \in Readers(allow)
  /\ rest \subseteq Symbols
  /\ ~atEnd => frames = <<>> /\ target = <<>>
  /\ ExpansionState

\* The variables are typed when the reader they form is.
LEMMA ReaderFacts ==
  ASSUME ConfigInv
  PROVE  parser \in StoresOf(allow) /\ parser \in Stores
<1>1. allow \in Flags /\ parser \in StoresOf(allow)
  BY Zenon DEF ConfigInv, Reader, Readers
<1> QED BY <1>1, StoresTyped, Zenon

\* With no activation and no value asked for, the store may change.
LEMMA IdleExpansion ==
  ASSUME NEW p, NEW bufs
  PROVE  Expansion(p, <<>>, bufs, {}, <<>>)
<1>1. Open(<<>>, 0) = {}
  BY DEF Open
<1> QED BY <1>1 DEF Expansion

\* parser_read opens the file.
LEMMA ConfigInit ==
  Init => ConfigInv
<1> SUFFICES ASSUME Init PROVE ConfigInv
  BY SMT, SMTT(30)
<1>1. PICK f \in Files : \E flags \in f.flags :
        LET rd == parser_read(f.begin, flags)
        IN /\ lx = rd.lx /\ section = rd.section /\ key = rd.key /\ cr = rd.cr
           /\ parser = rd.parser /\ allow = flags
           /\ rest = f.rest /\ left = f.max
  BY Zenon DEF Init
<1>2. PICK flags \in f.flags :
        LET rd == parser_read(f.begin, flags)
        IN /\ lx = rd.lx /\ section = rd.section /\ key = rd.key /\ cr = rd.cr
           /\ parser = rd.parser /\ allow = flags
           /\ rest = f.rest /\ left = f.max
  BY <1>1
<1>3. f.begin \in Str /\ flags \in Flags /\ f.rest \subseteq Symbols
  <2>1. f.begin \in Seq(STRING) /\ f.rest \subseteq STRING /\ f.flags \subseteq Flags
    BY FilesAssumption, Zenon DEF Flags
  <2>2. STRING \subseteq Symbols
    BY Zenon DEF Symbols
  <2>3. f.begin \in Seq(Symbols)
    <3> HIDE DEF Symbols
    <3> DEFINE b == f.begin
    <3>1. \A i \in DOMAIN b : b[i] \in Symbols
      BY <2>1, <2>2, Element, ZenonT(30)
    <3> HIDE DEF b
    <3>2. b \in Seq(STRING)
      BY <2>1, Zenon DEF b
    <3>3. b \in Seq(Symbols)
      BY <3>1, <3>2, ListOf, Zenon
    <3> QED BY <3>3, Zenon DEF b
  <2> QED BY <1>2, <2>1, <2>2, <2>3, Zenon DEF Str
<1> DEFINE rd == parser_read(f.begin, flags)
<1>4. rd \in Readers(flags)
  BY <1>3, FileType, Zenon DEF Str
<1>5. /\ lx = rd.lx /\ section = rd.section /\ key = rd.key /\ cr = rd.cr
      /\ parser = rd.parser /\ allow = flags /\ rest = f.rest
  BY <1>2, SMT, SMTT(30)
<1>6. atEnd = FALSE /\ expanding = {} /\ frames = <<>> /\ target = <<>>
  BY DEF Init, InitExpansion
<1> HIDE DEF rd
<1>7. allow \in Flags /\ Reader \in Readers(allow)
  BY <1>3, <1>4, <1>5, <1>6, Zenon DEF Reader, Readers
<1>8. ExpansionState
  BY <1>6, IdleExpansion, Zenon DEF ExpansionState
<1> QED BY <1>3, <1>5, <1>6, <1>7, <1>8, Zenon DEF ConfigInv

\* parser_read takes a symbol.
LEMMA ReadKeeps ==
  ASSUME ConfigInv, NEW x \in Symbols, ReadSymbol(x), rest' \subseteq Symbols
  PROVE  ConfigInv'
<1> DEFINE rd == Read(Reader, x)
<1>1. allow \in Flags /\ rd \in Readers(allow)
  BY ReadType DEF ConfigInv
<1>2. /\ ~atEnd /\ lx' = rd.lx /\ section' = rd.section /\ key' = rd.key /\ cr' = rd.cr
      /\ parser' = rd.parser /\ atEnd' = rd.atEnd /\ allow' = allow
      /\ expanded' = expanded /\ expanding' = expanding /\ frames' = frames /\ target' = target
  BY Zenon DEF ReadSymbol, Reader, expansion
<1> HIDE DEF rd
<1>3. allow' \in Flags
  BY <1>1, <1>2, Zenon
<1>4. Reader' \in Readers(allow')
  BY <1>1, <1>2 DEF Reader, Readers
<1>5. frames = <<>> /\ target = <<>> /\ expanding = {}
  <2>1. frames = <<>> /\ target = <<>>
    BY <1>2, Zenon DEF ConfigInv
  <2>2. expanding = Open(frames, Len(frames))
    BY Zenon DEF ConfigInv, ExpansionState, Expansion
  <2>3. Open(<<>>, 0) = {} /\ Len(<<>>) = 0
    BY DEF Open
  <2> QED BY <2>1, <2>2, <2>3, Zenon
<1>6. ExpansionState'
  BY <1>2, <1>5, IdleExpansion, Zenon DEF ExpansionState
<1> QED BY <1>2, <1>3, <1>4, <1>5, <1>6, Zenon DEF ConfigInv

\* Every step keeps the invariant.
LEMMA ConfigNext ==
  ConfigInv /\ [Next]_vars => ConfigInv'
<1> SUFFICES ASSUME ConfigInv, [Next]_vars PROVE ConfigInv'
  OBVIOUS
<1>1. parser \in Stores /\ ExpansionState
  BY ReaderFacts DEF ConfigInv
<1>2. CASE ReadNext
  <2>1. PICK x \in rest : ReadSymbol(x)
    BY <1>2, Zenon DEF ReadNext
  <2>2. x \in Symbols /\ rest' \subseteq Symbols
    BY <1>2 DEF ReadNext, ConfigInv
  <2> QED BY <2>1, <2>2, ReadKeeps, Zenon
<1>3. CASE ReadEOF
  <2>1. "EOF" \in Symbols /\ ReadSymbol("EOF") /\ rest' \subseteq Symbols
    BY <1>3, SMT, SMTT(30) DEF ReadEOF, Symbols
  <2> QED BY <2>1, ReadKeeps, Zenon
<1>4. ASSUME atEnd, UNCHANGED reading, parser' = parser, ExpansionState'
      PROVE  ConfigInv'
  BY <1>4 DEF ConfigInv, reading, Reader
<1>5. CASE GetValue
  <2>1. PICK at \in Places(parser) : parser_get(at)
    BY <1>5, Zenon DEF GetValue
  <2>2. atEnd /\ UNCHANGED reading /\ parser' = parser
    BY <1>5, <2>1, Zenon DEF GetValue, parser_get
  <2>3. ExpansionState'
    BY <1>1, <2>1, GetKeeps, Zenon
  <2> QED BY <1>4, <2>2, <2>3, Zenon
<1>6. CASE ExpandValue
  <2>1. Expand /\ UNCHANGED reading
    BY <1>6 DEF ExpandValue
  <2>2. atEnd
    BY <2>1, ZenonT(30) DEF ConfigInv, Expand, ExpandPlain, ExpandReference, ExpandEscaped, ExpandReturns,
                Running
  <2>3. parser' = parser
    BY <2>1, Zenon DEF Expand, ExpandPlain, ExpandReference, ExpandEscaped, ExpandReturns, Emit
  <2>4. ExpansionState'
    BY <1>1, <2>1, ExpandKeeps, Zenon
  <2> QED BY <1>4, <2>1, <2>2, <2>3, <2>4, Zenon
<1>7. CASE UNCHANGED vars
  <2>1. /\ UNCHANGED <<lx, section, key, cr, allow, rest, left, atEnd, parser>>
        /\ UNCHANGED <<expanded, expanding, frames, target>>
    BY <1>7 DEF vars, reading, expansion
  <2>2. ExpansionState'
    BY <1>1, <2>1, Zenon DEF ExpansionState
  <2>3. Reader' = Reader
    BY <2>1, Zenon DEF Reader
  <2> QED BY <2>1, <2>2, <2>3, Zenon DEF ConfigInv
<1> QED BY <1>2, <1>3, <1>5, <1>6, <1>7, Zenon DEF Next

\* The invariant of the expansion gives its meaning.
LEMMA InvMeaning ==
  ConfigInv => ExpansionMeaning
<1> SUFFICES ASSUME ConfigInv PROVE ExpansionMeaning
  OBVIOUS
<1>1. /\ frames \in Seq(Activations(parser)) /\ expanding = Open(frames, Len(frames))
      /\ frames = <<>> /\ target # <<>> => expanded[target] = Meaning(parser, target)
  BY Zenon DEF ConfigInv, ExpansionState, Expansion
<1>2. Range(frames) = {frames[j] : j \in 1 .. Len(frames)}
  <2>1. DOMAIN frames = 1 .. Len(frames)
    BY <1>1, SMT, SMTT(30)
  <2> QED BY <2>1, Zenon DEF Range
<1>3. Open(frames, Len(frames)) = {f.at : f \in Range(frames)}
  BY <1>2 DEF Open
<1> QED BY <1>1, <1>3, Zenon DEF ExpansionMeaning

\* Whatever file is read, parser_set and the lexers keep the store what its
\* callers rely on: no two sections and no two keys of a section have the same
\* name, no section is without a key, every key has a value, so that a
\* reference to it finds one, no name begins with a blank, and an empty value is
\* there only when the parser allows it.
THEOREM StoreIsTyped == Spec => [](parser \in StoresOf(allow))
<1>1. ConfigInv => parser \in StoresOf(allow)
  BY ReaderFacts
<1> QED BY <1>1, ConfigInit, ConfigNext, PTL DEF Spec

\* Whatever file is read and whatever values are asked for, in any order, the
\* flags expanding are those of the running activations, and the buffer that
\* parser_value_expand returns holds what the value means.
THEOREM ExpansionIsMeaning == Spec => []ExpansionMeaning
<1> QED BY ConfigInit, ConfigNext, InvMeaning, PTL DEF Spec
=============================================================================
