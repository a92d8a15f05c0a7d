-------------------------- MODULE WritesBackProofs --------------------------
(***************************************************************************)
(* Proof that parser_read builds the store again from what parser_write    *)
(* writes of it, whatever file the store was read from.                    *)
(*                                                                         *)
(* The proof follows parser_read through a file that parser_write has      *)
(* written: a character, a name, a line, a key, a section, the store.  No  *)
(* carriage return is read ahead and no escaped number is open, because    *)
(* none is written.                                                        *)
(***************************************************************************)
EXTENDS ConfigIOProofs

Lex(fn, state, sb, mark, r) ==
  [fn |-> fn, state |-> state, sb |-> sb, mark |-> mark, r |-> r, digits |-> "none"]

Step(s, x) == IF s.fn = "idt" THEN IdtStep(s, x) ELSE ValStep(s, x)

No == FALSE

At(s, sec, name, flags, p) ==
  [lx |-> s, section |-> sec, key |-> name, cr |-> No, allow |-> flags, parser |-> p,
   atEnd |-> No]

\* Pushing a symbol adds it to the buffer of the lexer.
LEMMA LexPush ==
  ASSUME NEW fn, NEW state, NEW sb, NEW next, NEW x
  PROVE  Push(Lex(fn, state, sb, 0, 0), x, next) = Lex(fn, next, Append(sb, x), 0, 0)
<1> DEFINE s == Lex(fn, state, sb, 0, 0)
           b == Append(sb, x)
<1>1. Push(s, x, next) = [[s EXCEPT !.sb = Append(s.sb, x)] EXCEPT !.state = next]
  BY DEF Push
<1>2. s.sb = sb
  BY DEF Lex
<1>3. Push(s, x, next) = [[s EXCEPT !.sb = b] EXCEPT !.state = next]
  BY <1>1, <1>2, Zenon
<1> HIDE DEF b
<1>4. [s EXCEPT !.sb = b] = Lex(fn, state, b, 0, 0)
  BY DEF Lex
<1>5. [Lex(fn, state, b, 0, 0) EXCEPT !.state = next] = Lex(fn, next, b, 0, 0)
  BY DEF Lex
<1>6. Push(s, x, next) = Lex(fn, next, b, 0, 0)
  BY <1>3, <1>4, <1>5, Zenon
<1> QED BY <1>6 DEF b

\* A symbol that parser_read gives to a lexer is a step of that lexer.
LEMMA ReadAt ==
  ASSUME NEW s, s.digits = "none", NEW sec, NEW name, NEW flags, NEW p, NEW x, x # "CR"
  PROVE  Read(At(s, sec, name, flags, p), x) =
           IF Step(s, x).state = "END"
           THEN Returned(At(s, sec, name, flags, p), Step(s, x), x)
           ELSE At(Step(s, x), sec, name, flags, p)
<1> DEFINE rd == At(s, sec, name, flags, p)
           c == x = "CR"
           n == [rd EXCEPT !.cr = c]
           t == Step(s, x)
<1>1. rd.lx = s /\ rd.cr = No /\ [rd EXCEPT !.lx = t] = At(t, sec, name, flags, p)
  <2> HIDE DEF t
  <2> QED BY DEF At
<1>2. n = rd
  <2>1. c = No
    BY DEF No
  <2> HIDE DEF c
  <2> QED BY <2>1 DEF At
<1> HIDE DEF rd, n
<1>3. Read(rd, x) = Feed(n, x)
  BY <1>1 DEF Read, n, No
<1>4. Digits(s, x)[1] = FALSE /\ Digits(s, x)[2] = s
  BY DEF Digits
<1> HIDE DEF t
<1>5. Feed(rd, x) = IF t.state = "END" THEN Returned(rd, t, x) ELSE [rd EXCEPT !.lx = t]
  BY <1>1, <1>4, Zenon DEF Feed, Step, t
<1>6. Feed(rd, x) = IF t.state = "END" THEN Returned(rd, t, x)
                    ELSE At(t, sec, name, flags, p)
  BY <1>1, <1>5, Zenon
<1> QED BY <1>2, <1>3, <1>6, Zenon DEF rd, t

\* A symbol after which the lexer goes on changes nothing but the lexer.
LEMMA ReadsAt ==
  ASSUME NEW s, s.digits = "none", NEW sec, NEW name, NEW flags, NEW p, NEW x, x # "CR",
         NEW t, Step(s, x) = t, t.state # "END"
  PROVE  Read(At(s, sec, name, flags, p), x) = At(t, sec, name, flags, p)
BY ReadAt

\* What char_escape writes.
LEMMA EscapeChar ==
  ASSUME NEW x
  PROVE  char_escape(x) = CASE x \in Protected -> <<"\\", x>>
                            [] x = "LF" -> <<"\\", "n">>
                            [] x = "CR" -> <<"\\", "r">>
                            [] x = "TAB" -> <<"\\", "t">>
                            [] OTHER -> <<x>>
<1> DEFINE letter == {l \in DOMAIN Control : Control[l] = x}
           c == CHOOSE l \in letter : TRUE
<1>1. char_escape(x) = IF x \in Protected THEN <<"\\", x>>
                       ELSE IF letter = {} THEN <<x>> ELSE <<"\\", c>>
  BY DEF char_escape
<1>2. \A l : l \in letter <=> \/ l = "n" /\ x = "LF"
                              \/ l = "r" /\ x = "CR"
                              \/ l = "t" /\ x = "TAB"
  BY DEF Control
<1>3. letter # {} => c \in letter
  BY Zenon
<1> HIDE DEF letter, c
<1>4. letter = {} <=> x \notin {"LF", "CR", "TAB"}
  BY <1>2
<1> QED BY <1>1, <1>2, <1>3, <1>4, Zenon DEF Protected

\* The states in which the symbols of a name or of a value are read, and those
\* behind a backslash.
Reading ==
  {<<"idt", "READ_SECTION", "READ_SECTION_ESC">>, <<"idt", "READ_NAME", "READ_NAME_ESC">>,
   <<"value", "IN_QUOTE", "IN_QUOTE_ESC">>}

\* A symbol that is written as it is.
LEMMA PlainStep ==
  ASSUME NEW c \in Reading, NEW sb, NEW y, y # "EOF", y \notin Protected, y # "LF"
  PROVE  Step(Lex(c[1], c[2], sb, 0, 0), y) = Lex(c[1], c[2], Append(sb, y), 0, 0)
<1> DEFINE s == Lex(c[1], c[2], sb, 0, 0)
           t == Lex(c[1], c[2], Append(sb, y), 0, 0)
<1>1. t = Push(s, y, c[2]) /\ t.state = c[2] /\ s.state = c[2] /\ s.fn = c[1]
  <2>1. t = Push(s, y, c[2])
    BY LexPush
  <2>2. s.state = c[2] /\ s.fn = c[1] /\ t.state = c[2]
    BY Zenon DEF Lex
  <2> QED BY <2>1, <2>2
<1> HIDE DEF s, t
<1>2. CASE c = <<"idt", "READ_SECTION", "READ_SECTION_ESC">>
  <2>1. s.fn = "idt" /\ s.state = "READ_SECTION" /\ t.state = "READ_SECTION"
        /\ t = Push(s, y, "READ_SECTION")
    BY <1>1, <1>2
  <2>2. IdtSection(s, y) = t
    BY <2>1, Zenon DEF IdtSection, EndOfLine, Comment, Protected
  <2> QED BY <2>1, <2>2 DEF Step, IdtStep, s, t
<1>3. CASE c = <<"idt", "READ_NAME", "READ_NAME_ESC">>
  <2>1. s.fn = "idt" /\ s.state = "READ_NAME" /\ t.state = "READ_NAME"
        /\ t = Push(s, y, "READ_NAME")
    BY <1>1, <1>3
  <2>2. IdtName(s, y) = t
    BY <2>1, Zenon DEF IdtName, EndOfLine, Comment, Protected
  <2> QED BY <2>1, <2>2 DEF Step, IdtStep, s, t
<1>4. CASE c = <<"value", "IN_QUOTE", "IN_QUOTE_ESC">>
  <2>1. s.fn = "value" /\ s.state = "IN_QUOTE" /\ t = Push(s, y, "IN_QUOTE")
    BY <1>1, <1>4
  <2>2. ValQuoted(s, y) = t
    BY <2>1, Zenon DEF ValQuoted, Protected
  <2> QED BY <2>1, <2>2 DEF Step, ValStep, s, t
<1> QED BY <1>2, <1>3, <1>4, Zenon DEF Reading

\* A backslash, ...
LEMMA BackslashStep ==
  ASSUME NEW c \in Reading, NEW sb
  PROVE  Step(Lex(c[1], c[2], sb, 0, 0), "\\") = Lex(c[1], c[3], sb, 0, 0)
<1> DEFINE s == Lex(c[1], c[2], sb, 0, 0)
           t == Lex(c[1], c[3], sb, 0, 0)
<1>1. t = To(s, c[3]) /\ t.state = c[3] /\ s.state = c[2] /\ s.fn = c[1]
  <2>1. t = To(s, c[3])
    BY DEF To, Lex
  <2>2. t.state = c[3] /\ s.state = c[2] /\ s.fn = c[1]
    BY DEF Lex
  <2> QED BY <2>1, <2>2
<1> HIDE DEF s, t
<1>2. CASE c = <<"idt", "READ_SECTION", "READ_SECTION_ESC">>
  <2>1. s.fn = "idt" /\ s.state = "READ_SECTION" /\ t.state = "READ_SECTION_ESC"
        /\ t = To(s, "READ_SECTION_ESC")
    BY <1>1, <1>2
  <2>2. IdtSection(s, "\\") = t
    BY <2>1, Zenon DEF IdtSection, EndOfLine, Comment
  <2> QED BY <2>1, <2>2 DEF Step, IdtStep, s, t
<1>3. CASE c = <<"idt", "READ_NAME", "READ_NAME_ESC">>
  <2>1. s.fn = "idt" /\ s.state = "READ_NAME" /\ t.state = "READ_NAME_ESC"
        /\ t = To(s, "READ_NAME_ESC")
    BY <1>1, <1>3
  <2>2. IdtName(s, "\\") = t
    BY <2>1 DEF IdtName, EndOfLine, Comment
  <2> QED BY <2>1, <2>2 DEF Step, IdtStep, s, t
<1>4. CASE c = <<"value", "IN_QUOTE", "IN_QUOTE_ESC">>
  <2>1. s.fn = "value" /\ s.state = "IN_QUOTE" /\ t = To(s, "IN_QUOTE_ESC")
    BY <1>1, <1>4
  <2>2. ValQuoted(s, "\\") = t
    BY <2>1 DEF ValQuoted
  <2> QED BY <2>1, <2>2 DEF Step, ValStep, s, t
<1> QED BY <1>2, <1>3, <1>4, Zenon DEF Reading

\* ... and the symbol behind it, for what it stands for.
Stands(z, y) ==
  \/ z = y /\ y \in Protected
  \/ z = "n" /\ y = "LF"
  \/ z = "r" /\ y = "CR"
  \/ z = "t" /\ y = "TAB"

\* Two symbols, three and four.
LEMMA ReadsTwo ==
  ASSUME NEW a, NEW x, NEW b, NEW y, NEW c, Read(a, x) = b, Read(b, y) = c
  PROVE  Reads(a, <<x, y>>, c)
<1> DEFINE w == <<x, y>>
           f == [i \in 0 .. 2 |-> IF i = 0 THEN a ELSE IF i = 1 THEN b ELSE c]
<1>1. Len(w) = 2 /\ w[1] = x /\ w[2] = y
  OBVIOUS
<1>2. f[0] = a /\ f[1] = b /\ f[2] = c
  OBVIOUS
<1> HIDE DEF w, f
<1>3. \A i \in 1 .. 2 : f[i] = Read(f[i - 1], w[i])
  BY <1>1, <1>2
<1>4. Reads(a, w, c)
  BY <1>1, <1>2, <1>3 DEF Reads
<1> QED BY <1>4 DEF w

\* Three symbols are three steps.
LEMMA ReadsThree ==
  ASSUME NEW a, NEW x, NEW b, NEW y, NEW c, NEW z, NEW d,
         Read(a, x) = b, Read(b, y) = c, Read(c, z) = d
  PROVE  Reads(a, <<x, y, z>>, d)
<1> DEFINE w == <<x, y, z>>
           f == [i \in 0 .. 3 |-> IF i = 0 THEN a ELSE IF i = 1 THEN b ELSE IF i = 2 THEN c ELSE d]
<1>1. Len(w) = 3 /\ w[1] = x /\ w[2] = y /\ w[3] = z
  OBVIOUS
<1>2. f[0] = a /\ f[1] = b /\ f[2] = c /\ f[3] = d
  OBVIOUS
<1> HIDE DEF w, f
<1>3. \A i \in 1 .. 3 : f[i] = Read(f[i - 1], w[i])
  BY <1>1, <1>2
<1>4. Reads(a, w, d)
  BY <1>1, <1>2, <1>3, Zenon DEF Reads
<1> QED BY <1>4 DEF w

\* Four symbols are four steps.
LEMMA ReadsFour ==
  ASSUME NEW a, NEW x, NEW b, NEW y, NEW c, NEW z, NEW d, NEW v, NEW e,
         Read(a, x) = b, Read(b, y) = c, Read(c, z) = d, Read(d, v) = e
  PROVE  Reads(a, <<x, y, z, v>>, e)
<1> DEFINE w == <<x, y, z, v>>
           f == [i \in 0 .. 4 |-> IF i = 0 THEN a ELSE IF i = 1 THEN b ELSE IF i = 2 THEN c
                                  ELSE IF i = 3 THEN d ELSE e]
<1>1. Len(w) = 4 /\ w[1] = x /\ w[2] = y /\ w[3] = z /\ w[4] = v
  OBVIOUS
<1>2. f[0] = a /\ f[1] = b /\ f[2] = c /\ f[3] = d /\ f[4] = e
  OBVIOUS
<1> HIDE DEF w, f
<1>3. \A i \in 1 .. 4 : f[i] = Read(f[i - 1], w[i])
  BY <1>1, <1>2
<1>4. Reads(a, w, e)
  BY <1>1, <1>2, <1>3, Zenon DEF Reads
<1> QED BY <1>4 DEF w

\* char_unescape appends the character that the letter stands for.
LEMMA UnescapePush ==
  ASSUME NEW s, NEW z, NEW y, Stands(z, y), NEW state
  PROVE  char_unescape(s, z, state) = Push(s, y, state)
<1>1. CASE z = y /\ y \in Protected
  BY <1>1, Zenon DEF char_unescape, Protected, Control
<1>2. CASE z = "n" /\ y = "LF"
  BY <1>2 DEF char_unescape, Protected, Control
<1>3. CASE z = "r" /\ y = "CR"
  BY <1>3 DEF char_unescape, Protected, Control
<1>4. CASE z = "t" /\ y = "TAB"
  BY <1>4 DEF char_unescape, Protected, Control
<1> QED BY <1>1, <1>2, <1>3, <1>4, Zenon DEF Stands

\* The letter behind a backslash is taken for the character it stands for.
LEMMA UnescapeStep ==
  ASSUME NEW c \in Reading, NEW sb, NEW y, NEW z, Stands(z, y)
  PROVE  Step(Lex(c[1], c[3], sb, 0, 0), z) = Lex(c[1], c[2], Append(sb, y), 0, 0)
<1> DEFINE s == Lex(c[1], c[3], sb, 0, 0)
           t == Lex(c[1], c[2], Append(sb, y), 0, 0)
<1>1. t = Push(s, y, c[2]) /\ t.state = c[2] /\ s.state = c[3] /\ s.fn = c[1]
  <2>1. t = Push(s, y, c[2])
    BY LexPush
  <2>2. s.state = c[3] /\ s.fn = c[1] /\ t.state = c[2]
    BY DEF Lex
  <2> QED BY <2>1, <2>2
<1> HIDE DEF s, t
<1>2. t = char_unescape(s, z, c[2]) /\ z \notin EndOfLine
  <2>1. t = char_unescape(s, z, c[2])
    BY <1>1, UnescapePush, Zenon
  <2> QED BY <2>1, Zenon DEF Stands, Protected, EndOfLine
<1>3. CASE c = <<"idt", "READ_SECTION", "READ_SECTION_ESC">>
  <2>1. s.fn = "idt" /\ s.state = "READ_SECTION_ESC" /\ t.state = "READ_SECTION"
        /\ t = char_unescape(s, z, "READ_SECTION")
    BY <1>1, <1>2, <1>3, Zenon
  <2>2. IdtSection(s, z) = t
    BY <1>2, <2>1, Zenon DEF IdtSection
  <2> QED BY <2>1, <2>2 DEF Step, IdtStep, s, t
<1>4. CASE c = <<"idt", "READ_NAME", "READ_NAME_ESC">>
  <2>1. s.fn = "idt" /\ s.state = "READ_NAME_ESC" /\ t.state = "READ_NAME"
        /\ t = char_unescape(s, z, "READ_NAME")
    BY <1>1, <1>2, <1>4, Zenon
  <2>2. IdtName(s, z) = t
    BY <1>2, <2>1, Zenon DEF IdtName
  <2> QED BY <2>1, <2>2 DEF Step, IdtStep, s, t
<1>5. CASE c = <<"value", "IN_QUOTE", "IN_QUOTE_ESC">>
  <2>1. s.fn = "value" /\ s.state = "IN_QUOTE_ESC" /\ t = char_unescape(s, z, "IN_QUOTE")
    BY <1>1, <1>2, <1>5
  <2>2. ValEscaped(s, z) = t
    BY <1>2, <2>1 DEF ValEscaped, EndOfLine
  <2> QED BY <2>1, <2>2 DEF Step, ValStep, s, t
<1> QED BY <1>3, <1>4, <1>5, Zenon DEF Reading

\* A symbol of a name or of a value is read back.
LEMMA CharReads ==
  ASSUME NEW c \in Reading, NEW sb, NEW y, y # "EOF",
         NEW sec, NEW name, NEW flags, NEW p
  PROVE  Reads(At(Lex(c[1], c[2], sb, 0, 0), sec, name, flags, p), char_escape(y),
               At(Lex(c[1], c[2], Append(sb, y), 0, 0), sec, name, flags, p))
<1> DEFINE s == Lex(c[1], c[2], sb, 0, 0)
           u == Lex(c[1], c[3], sb, 0, 0)
           t == Lex(c[1], c[2], Append(sb, y), 0, 0)
           A(v) == At(v, sec, name, flags, p)
<1>1. s.digits = "none" /\ u.digits = "none" /\ t.state # "END" /\ u.state # "END"
  BY DEF Lex, Reading
<1>2. Step(s, "\\") = u
  BY BackslashStep
<1>3. y \notin Protected /\ y # "LF" => Step(s, y) = t
  BY PlainStep
<1>4. \A z : Stands(z, y) => Step(u, z) = t
  BY UnescapeStep
<1> HIDE DEF s, u, t
<1>5. ASSUME NEW z, Stands(z, y)
      PROVE  Reads(A(s), <<"\\", z>>, A(t))
  <2>1. Read(A(s), "\\") = A(u)
    BY <1>1, <1>2, ReadsAt
  <2>2. z # "CR"
    BY <1>5, Zenon DEF Stands, Protected
  <2>3. Read(A(u), z) = A(t)
    BY <1>1, <1>4, <1>5, <2>2, ReadsAt
  <2> QED BY <2>1, <2>3, ReadsTwo, Zenon
<1>6. CASE \E z : Stands(z, y) /\ char_escape(y) = <<"\\", z>>
  BY <1>5, <1>6, Zenon DEF s, t
<1>7. CASE char_escape(y) = <<y>> /\ y \notin Protected \cup {"LF", "CR"}
  <2>1. Read(A(s), y) = A(t)
    BY <1>1, <1>3, <1>7, ReadsAt
  <2>2. Reads(A(s), <<y>>, A(t))
    BY <2>1, ReadsOne
  <2> QED BY <1>7, <2>2, Zenon DEF s, t
<1>8. y \in Protected => Stands(y, y) /\ char_escape(y) = <<"\\", y>>
  BY EscapeChar, Zenon DEF Stands, Protected
<1>9. y = "LF" => Stands("n", y) /\ char_escape(y) = <<"\\", "n">>
  BY EscapeChar, Zenon DEF Stands, Protected
<1>10. y = "CR" => Stands("r", y) /\ char_escape(y) = <<"\\", "r">>
  BY EscapeChar, Zenon DEF Stands, Protected
<1>11. y = "TAB" => Stands("t", y) /\ char_escape(y) = <<"\\", "t">>
  BY EscapeChar, Zenon DEF Stands, Protected
<1>12. y \notin Protected \cup {"LF", "CR", "TAB"} => char_escape(y) = <<y>>
  BY EscapeChar
<1> QED BY <1>6, <1>7, <1>8, <1>9, <1>10, <1>11, <1>12

\* A text is written symbol by symbol.
Escapes(text) == [i \in DOMAIN text |-> char_escape(text[i])]

\* A text is escaped character by character.
LEMMA EscapeParts ==
  ASSUME NEW text \in Texts
  PROVE  /\ Len(text) \in Nat /\ DOMAIN text = 1 .. Len(text)
         /\ \A n \in 1 .. Len(text) : text[n] \in Symbols \ {"EOF", "NUL"}
         /\ Joined(Escapes(text), 0) = <<>>
         /\ \A n \in 0 .. Len(text) : Joined(Escapes(text), n) \in Seq(Symbols)
         /\ \A n \in 1 .. Len(text) : /\ char_escape(text[n]) \in Seq(Symbols)
                                      /\ Joined(Escapes(text), n) =
                                           Joined(Escapes(text), n - 1) \o char_escape(text[n])
         /\ Escape(text) = Joined(Escapes(text), Len(text))
<1> DEFINE parts == Escapes(text)
<1>1. text \in Seq(Symbols \ {"EOF", "NUL"})
  BY DEF Texts
<1>2. /\ Len(text) \in Nat /\ DOMAIN text = 1 .. Len(text)
      /\ \A n \in 1 .. Len(text) : text[n] \in Symbols \ {"EOF", "NUL"}
  BY <1>1
<1>3. ASSUME NEW x \in Symbols PROVE char_escape(x) \in Seq(Symbols)
  <2>1. {"\\", "n", "r", "t"} \subseteq Symbols
    BY Zenon DEF Symbols
  <2>2. char_escape(x) \in {<<"\\", x>>, <<"\\", "n">>, <<"\\", "r">>, <<"\\", "t">>, <<x>>}
    BY EscapeChar
  <2>3. \A y \in Symbols : <<"\\", y>> \in Seq(Symbols) /\ <<y>> \in Seq(Symbols)
    BY <2>1
  <2> QED BY <2>1, <2>2, <2>3, Zenon
<1>4. parts = [n \in 1 .. Len(text) |-> char_escape(text[n])]
  BY <1>2, Zenon DEF Escapes
<1>5. \A n \in 1 .. Len(text) : char_escape(text[n]) \in Seq(Symbols)
  BY <1>2, <1>3
<1>6. parts \in Seq(Seq(Symbols)) /\ Len(parts) = Len(text)
      /\ \A n \in 1 .. Len(text) : parts[n] = char_escape(text[n])
  <2> HIDE DEF parts
  <2> QED BY <1>2, <1>4, <1>5
<1>7. /\ Joined(parts, 0) = <<>>
      /\ \A n \in 0 .. Len(parts) : Joined(parts, n) \in Seq(Symbols)
      /\ \A n \in 1 .. Len(parts) : Joined(parts, n) = Joined(parts, n - 1) \o parts[n]
      /\ Flatten(parts) = Joined(parts, Len(parts))
  <2> HIDE DEF parts
  <2> QED BY <1>6, JoinedGrows, Zenon
<1>8. Escape(text) = Flatten(parts)
  BY Zenon DEF Escape, Escapes
<1> HIDE DEF parts
<1> QED BY <1>2, <1>5, <1>6, <1>7, <1>8, Zenon DEF parts

\* So it is read back from the k-th symbol on, ...
Taken(a, c, text, k, sec, name, flags, p) ==
  Reads(a, Joined(Escapes(text), k),
        At(Lex(c[1], c[2], SubSeq(text, 1, k), 0, 0), sec, name, flags, p))

\* When n characters of an escaped text have been taken, so can the next.
LEMMA TakenNext ==
  ASSUME NEW a, NEW c \in Reading, NEW text \in Texts, NEW sec, NEW name, NEW flags, NEW p,
         NEW n \in 0 .. Len(text) - 1, Taken(a, c, text, n, sec, name, flags, p)
  PROVE  Taken(a, c, text, n + 1, sec, name, flags, p)
<1> DEFINE J(i) == Joined(Escapes(text), i)
           B(i) == SubSeq(text, 1, i)
           A(b) == At(Lex(c[1], c[2], b, 0, 0), sec, name, flags, p)
           y == text[n + 1]
<1>1. n + 1 \in 1 .. Len(text) /\ (n + 1) - 1 = n /\ n \in 0 .. Len(text) /\ n \in Nat
  BY EscapeParts
<1>2. /\ y \in Symbols \ {"EOF", "NUL"} /\ char_escape(y) \in Seq(Symbols)
      /\ J(n) \in Seq(Symbols) /\ J(n + 1) = J(n) \o char_escape(y)
  BY <1>1, EscapeParts, Zenon
<1>3. B(n + 1) = Append(B(n), y)
  <2>1. text \in Seq(Symbols)
    BY DEF Texts
  <2> QED BY <1>1, <2>1
<1>4. Reads(a, J(n), A(B(n)))
  BY DEF Taken
<1>5. Reads(A(B(n)), char_escape(y), A(Append(B(n), y)))
  <2> HIDE DEF y, B
  <2> QED BY <1>2, CharReads, Zenon
<1> HIDE DEF y, A, B, J
<1>6. Reads(a, J(n) \o char_escape(y), A(Append(B(n), y)))
  BY <1>2, <1>4, <1>5, ReadsBoth, Zenon
<1>7. Reads(a, J(n + 1), A(B(n + 1)))
  BY <1>2, <1>3, <1>6, Zenon
<1> QED BY <1>7, Zenon DEF Taken, J, A, B

\* A lexer that has taken the first k characters takes the whole escaped text.
LEMMA EscapeReads ==
  ASSUME NEW a, NEW c \in Reading, NEW text \in Texts, NEW sec, NEW name, NEW flags, NEW p,
         NEW k \in 0 .. Len(text), Taken(a, c, text, k, sec, name, flags, p)
  PROVE  Reads(a, Escape(text), At(Lex(c[1], c[2], text, 0, 0), sec, name, flags, p))
<1> DEFINE Good(n) == Taken(a, c, text, n, sec, name, flags, p)
           T == {n \in Nat : k <= n /\ n <= Len(text) => Good(n)}
<1>1. Len(text) \in Nat
  BY EscapeParts
<1>2. \A n \in 0 .. Len(text) - 1 : Good(n) => Good(n + 1)
  BY TakenNext
<1>3. Good(k)
  OBVIOUS
<1> HIDE DEF Good
<1>4. 0 \in T
  BY <1>1, <1>3
<1>5. \A n \in Nat : n \in T => n + 1 \in T
  BY <1>1, <1>2, <1>3
<1>6. Nat \subseteq T
  <2> HIDE DEF T
  <2> QED BY <1>4, <1>5, SetInduction, Zenon
<1>7. Good(Len(text))
  BY <1>1, <1>6
<1>8. SubSeq(text, 1, Len(text)) = text
  <2>1. text \in Seq(Symbols)
    BY DEF Texts
  <2> QED BY <2>1
<1>9. Escape(text) = Joined(Escapes(text), Len(text))
  BY EscapeParts
<1> QED BY <1>7, <1>8, <1>9, Zenon DEF Good, Taken

\* The steps around the names and the values.
LEMMA HeaderSteps ==
  ASSUME NEW b
  PROVE  /\ \A x \in {"SP", "LF"} :
              Step(Lex("idt", "START", <<>>, 0, 0), x) = Lex("idt", "START", <<>>, 0, 0)
         /\ Step(Lex("idt", "START", <<>>, 0, 0), "[") = Lex("idt", "BEGIN_SECTION", <<>>, 0, 0)
         /\ Step(Lex("idt", "BEGIN_SECTION", <<>>, 0, 0), "SP") =
              Lex("idt", "BEGIN_SECTION", <<>>, 0, 0)
         /\ Step(Lex("idt", "READ_SECTION", b, 0, 0), "]") = Lex("idt", "AFTER_SECTION", b, 0, 1)
<1> DEFINE s == Lex("idt", "START", <<>>, 0, 0)
           u == Lex("idt", "BEGIN_SECTION", <<>>, 0, 0)
           v == Lex("idt", "READ_SECTION", b, 0, 0)
           w == Lex("idt", "AFTER_SECTION", b, 0, 1)
<1>1. /\ s.fn = "idt" /\ s.state = "START" /\ u.fn = "idt" /\ u.state = "BEGIN_SECTION"
      /\ v.fn = "idt" /\ v.state = "READ_SECTION" /\ w.state = "AFTER_SECTION"
  BY DEF Lex
<1>2. To(s, "BEGIN_SECTION") = u
  BY DEF To, Lex
<1>3. [To(v, "AFTER_SECTION") EXCEPT !.r = 1] = w
  <2>1. To(v, "AFTER_SECTION") = Lex("idt", "AFTER_SECTION", b, 0, 0)
    BY DEF To, Lex
  <2>2. [Lex("idt", "AFTER_SECTION", b, 0, 0) EXCEPT !.r = 1] = w
    BY DEF Lex
  <2> QED BY <2>1, <2>2, Zenon
<1> HIDE DEF s, u, v, w
<1>4. \A x \in {"SP", "LF"} : IdtStart(s, x) = s
  BY DEF IdtStart, Blank, Comment
<1>5. IdtStart(s, "[") = u
  BY <1>2 DEF IdtStart, Blank, Comment
<1>6. IdtSection(u, "SP") = u
  BY <1>1 DEF IdtSection, Blank, Comment, EndOfLine
<1>7. IdtSection(v, "]") = w
  BY <1>1, <1>3 DEF IdtSection, Comment, EndOfLine
<1>8. \A x \in {"SP", "LF"} : Step(s, x) = s
  BY <1>1, <1>4, Zenon DEF Step, IdtStep
<1>9. Step(s, "[") = u /\ Step(u, "SP") = u /\ Step(v, "]") = w
  BY <1>1, <1>5, <1>6, <1>7, Zenon DEF Step, IdtStep
<1> QED BY <1>8, <1>9, Zenon DEF s, u, v, w

\* The steps of nparser_get_next_value in front of and behind a quoted value.
LEMMA QuoteSteps ==
  ASSUME NEW b, NEW m
  PROVE  /\ Step(Lex("value", "START", <<>>, 0, 0), "SP") = Lex("value", "START", <<>>, 0, 0)
         /\ Step(Lex("value", "START", <<>>, 0, 0), "\"") = Lex("value", "IN_QUOTE", <<>>, 0, 0)
         /\ Step(Lex("value", "IN_QUOTE", b, 0, 0), "\"") = Lex("value", "START", b, Len(b), 0)
         /\ Step(Lex("value", "START", b, m, 0), "LF") = Lex("value", "END", b, m, 0)
<1> DEFINE s == Lex("value", "START", <<>>, 0, 0)
           u == Lex("value", "IN_QUOTE", <<>>, 0, 0)
           v == Lex("value", "IN_QUOTE", b, 0, 0)
           w == Lex("value", "START", b, Len(b), 0)
           y == Lex("value", "START", b, m, 0)
           z == Lex("value", "END", b, m, 0)
<1>1. /\ s.fn = "value" /\ s.state = "START" /\ v.fn = "value" /\ v.state = "IN_QUOTE"
      /\ y.fn = "value" /\ y.state = "START" /\ v.sb = b
  BY DEF Lex
<1>2. To(s, "IN_QUOTE") = u /\ To(y, "END") = z
  BY DEF To, Lex
<1>3. [To(v, "START") EXCEPT !.mark = Len(b)] = w
  <2>1. To(v, "START") = Lex("value", "START", b, 0, 0)
    BY DEF To, Lex
  <2>2. \A n : [Lex("value", "START", b, 0, 0) EXCEPT !.mark = n] = Lex("value", "START", b, n, 0)
    BY DEF Lex
  <2> QED BY <2>1, <2>2, Zenon
<1> HIDE DEF s, u, v, w, y, z
<1>4. ValPlain(s, "SP") = s
  BY <1>1 DEF ValPlain, Blank, Comment, EndOfLine
<1>5. ValPlain(s, "\"") = u
  BY <1>1, <1>2 DEF ValPlain, Blank, Comment, EndOfLine
<1>6. ValQuoted(v, "\"") = w
  BY <1>1, <1>3, Zenon DEF ValQuoted
<1>7. ValPlain(y, "LF") = z
  BY <1>1, <1>2 DEF ValPlain, Blank, Comment, EndOfLine
<1>8. Step(s, "SP") = s /\ Step(s, "\"") = u /\ Step(v, "\"") = w /\ Step(y, "LF") = z
  BY <1>1, <1>4, <1>5, <1>6, <1>7, Zenon DEF Step, ValStep
<1> QED BY <1>8, Zenon DEF s, u, v, w, y, z

\* The first symbol of a name is taken as it is.
LEMMA FirstStep ==
  ASSUME NEW c \in {<<"START", "READ_NAME">>, <<"BEGIN_SECTION", "READ_SECTION">>},
         NEW sb, NEW y, y \notin Protected \cup EndOfLine \cup Blank
  PROVE  Step(Lex("idt", c[1], sb, 0, 0), y) = Lex("idt", c[2], Append(sb, y), 0, 0)
<1> DEFINE s == Lex("idt", c[1], sb, 0, 0)
           t == Lex("idt", c[2], Append(sb, y), 0, 0)
<1>1. t = Push(s, y, c[2])
  BY LexPush
<1>2. s.fn = "idt" /\ s.state = c[1] /\ t.state = c[2]
  BY Zenon DEF Lex
<1> HIDE DEF s, t
<1>3. CASE c = <<"START", "READ_NAME">>
  <2>1. s.state = "START" /\ t.state = "READ_NAME" /\ t = Push(s, y, "READ_NAME")
    BY <1>1, <1>2, <1>3, Zenon
  <2>2. IdtStart(s, y) = t
    BY <2>1, Zenon DEF IdtStart, Protected, EndOfLine, Blank, Comment
  <2> QED BY <1>2, <2>1, <2>2, Zenon DEF Step, IdtStep, s, t
<1>4. CASE c = <<"BEGIN_SECTION", "READ_SECTION">>
  <2>1. s.state = "BEGIN_SECTION" /\ t.state = "READ_SECTION" /\ t = Push(s, y, "READ_SECTION")
    BY <1>1, <1>2, <1>4, Zenon
  <2>2. IdtSection(s, y) = t
    BY <2>1, Zenon DEF IdtSection, Protected, EndOfLine, Blank, Comment
  <2> QED BY <1>2, <2>1, <2>2, Zenon DEF Step, IdtStep, s, t
<1> QED BY <1>3, <1>4, Zenon

\* The names that parser_write can write.
Writable == {name \in Names : ~Unwritable(name)}

\* rstrip removes the blank behind a name, and nothing of the name.
LEMMA Stripped ==
  ASSUME NEW name \in Writable, NEW state, NEW r
  PROVE  rstrip(Lex("idt", state, Append(name, "SP"), 0, r)) = Lex("idt", state, name, 0, r)
<1> DEFINE b == Append(name, "SP")
           s == Lex("idt", state, b, 0, r)
           kept == {i \in 0 .. Len(b) : i = 0 \/ i <= 0 \/ b[i] \notin Blank}
           n == CHOOSE i \in kept : \A j \in kept : j <= i
<1>1. name \in Seq(Symbols) /\ name # <<>> /\ name[Len(name)] \notin Blank /\ "SP" \in Symbols
  <2>1. name \in Names /\ ~Unwritable(name)
    BY DEF Writable
  <2>2. name # <<>> /\ name[Len(name)] \notin Blank
    BY <2>1, Zenon DEF Unwritable
  <2>3. name \in Seq(Symbols)
    BY <2>1 DEF Names, Texts
  <2> QED BY <2>2, <2>3, Zenon DEF Symbols
<1>2. /\ b \in Seq(Symbols) /\ Len(b) = Len(name) + 1 /\ Len(name) \in Nat /\ Len(name) > 0
      /\ b[Len(name)] = name[Len(name)] /\ b[Len(b)] = "SP" /\ SubSeq(b, 1, Len(name)) = name
  BY <1>1
<1>3. Len(name) \in kept /\ \A j \in kept : j <= Len(name)
  <2> HIDE DEF b
  <2> QED BY <1>1, <1>2 DEF Blank
<1>4. n = Len(name)
  <2>1. n \in kept /\ \A j \in kept : j <= n
    <3> HIDE DEF kept
    <3> QED BY <1>3
  <2>2. n <= Len(name) /\ Len(name) <= n
    <3> HIDE DEF n, kept
    <3> QED BY <1>3, <2>1, Zenon
  <2>3. n \in Int
    <3> HIDE DEF n
    <3> QED BY <2>1
  <2>4. Len(name) \in Int
    BY <1>1
  <2> DEFINE l == Len(name)
  <2> HIDE DEF n, l
  <2>5. l \in Int /\ n <= l /\ l <= n
    BY <2>2, <2>4, Zenon DEF l
  <2>6. n = l
    BY <2>3, <2>5
  <2> QED BY <2>6 DEF l
<1>5. s.sb = b /\ s.mark = 0
  BY DEF Lex
<1>6. rstrip(s) = [s EXCEPT !.sb = SubSeq(b, 1, n)]
  <2> HIDE DEF s, b
  <2> QED BY <1>5, Zenon DEF rstrip, n, kept
<1>7. \A q : [s EXCEPT !.sb = q] = Lex("idt", state, q, 0, r)
  <2> HIDE DEF b
  <2> QED BY DEF Lex
<1>8. SubSeq(b, 1, n) = name
  BY <1>2, <1>4, Zenon
<1> HIDE DEF n, b, s
<1>9. rstrip(s) = Lex("idt", state, name, 0, r)
  BY <1>6, <1>7, <1>8, Zenon
<1> QED BY <1>9 DEF s, b

\* A name is read back, ...
Begins(from, c) ==
  \/ from = "START" /\ c = <<"idt", "READ_NAME", "READ_NAME_ESC">>
  \/ from = "BEGIN_SECTION" /\ c = <<"idt", "READ_SECTION", "READ_SECTION_ESC">>

\* nparser_get_next_idt takes an escaped name.
LEMMA NameReads ==
  ASSUME NEW from, NEW c, Begins(from, c), NEW name \in Writable,
         NEW sec, NEW k, NEW flags, NEW p
  PROVE  Reads(At(Lex("idt", from, <<>>, 0, 0), sec, k, flags, p), Escape(name),
               At(Lex("idt", c[2], name, 0, 0), sec, k, flags, p))
<1> DEFINE A(v) == At(v, sec, k, flags, p)
           y == name[1]
           s == Lex("idt", from, <<>>, 0, 0)
           b == Append(<<>>, y)
           t == Lex("idt", c[2], b, 0, 0)
<1>1. name \in Names /\ ~Unwritable(name)
  BY DEF Writable
<1>2. name \in Texts /\ name \in Seq(Symbols) /\ (name # <<>> => y \notin Blank)
  BY <1>1 DEF Names, Texts
<1>3. name # <<>> /\ Len(char_escape(Head(name))) # 2
  BY <1>1, Zenon DEF Unwritable
<1>4. Head(name) = y /\ 1 \in 1 .. Len(name) /\ Len(name) \in Nat /\ SubSeq(name, 1, 1) = b
  <2>1. Head(name) = y /\ 1 \in 1 .. Len(name) /\ Len(name) \in Nat
    BY <1>2, <1>3
  <2>2. \A n \in 0 .. Len(name) - 1 : SubSeq(name, 1, n + 1) = Append(SubSeq(name, 1, n), name[n + 1])
    BY <1>2
  <2>3. 0 \in 0 .. Len(name) - 1 /\ 0 + 1 = 1 /\ SubSeq(name, 1, 0) = <<>>
    BY <1>2, <2>1
  <2> QED BY <2>1, <2>2, <2>3, Zenon
<1>5. Len(char_escape(y)) # 2
  BY <1>3, <1>4, Zenon
<1>6. y \in Symbols \ {"EOF", "NUL"} /\ char_escape(y) \in Seq(Symbols)
  BY <1>2, <1>4, EscapeParts, Zenon
<1> HIDE DEF y
<1>7. y \notin Protected \cup {"LF", "CR", "TAB"} /\ char_escape(y) = <<y>>
  <2>1. \A x : Len(<<"\\", x>>) = 2
    OBVIOUS
  <2> QED BY <1>5, <2>1, EscapeChar, Zenon
<1>8. c \in Reading /\ <<from, c[2]>> \in {<<"START", "READ_NAME">>, <<"BEGIN_SECTION", "READ_SECTION">>}
      /\ c[1] = "idt" /\ c[2] # "END"
  BY DEF Begins, Reading
<1>9. y \notin Protected \cup EndOfLine \cup Blank
  BY <1>2, <1>3, <1>6, <1>7, Zenon DEF EndOfLine
<1>10. Step(s, y) = t
  <2> DEFINE e == <<from, c[2]>>
             z == <<>>
  <2>1. e[1] = from /\ e[2] = c[2] /\ e \in {<<"START", "READ_NAME">>, <<"BEGIN_SECTION", "READ_SECTION">>}
    BY <1>8, Zenon
  <2> HIDE DEF e, z
  <2>2. Step(Lex("idt", e[1], z, 0, 0), y) = Lex("idt", e[2], Append(z, y), 0, 0)
    BY <1>9, <2>1, FirstStep
  <2> QED BY <2>1, <2>2, Zenon DEF z
<1>11. s.digits = "none" /\ t.state # "END"
  BY <1>8, Zenon DEF Lex
<1> HIDE DEF s, t, b
<1>12. Read(A(s), y) = A(t)
  BY <1>7, <1>10, <1>11, ReadsAt
<1>13. Reads(A(s), <<y>>, A(t))
  BY <1>12, ReadsOne, Zenon
<1>14. Joined(Escapes(name), 1) = <<y>>
  <2>1. Joined(Escapes(name), 0) = <<>> /\ 1 - 1 = 0
    BY <1>2, EscapeParts
  <2>2. Joined(Escapes(name), 1) = Joined(Escapes(name), 1 - 1) \o char_escape(name[1])
    BY <1>2, <1>4, EscapeParts, Zenon
  <2>3. <<>> \o char_escape(y) = char_escape(y)
    BY <1>6
  <2> QED BY <1>7, <2>1, <2>2, <2>3, Zenon DEF y
<1>15. Taken(A(s), c, name, 1, sec, k, flags, p)
  BY <1>4, <1>8, <1>13, <1>14, Zenon DEF Taken, t
<1> HIDE DEF A
<1>16. Reads(A(s), Escape(name), At(Lex(c[1], c[2], name, 0, 0), sec, k, flags, p))
  <2>1. 1 \in 0 .. Len(name)
    BY <1>4
  <2> QED BY <1>2, <1>8, <1>15, <2>1, EscapeReads, Zenon
<1> QED BY <1>8, <1>16, Zenon DEF A, s

\* ... and then parser_read goes on.
Changed(rd, l, e, sec, k) == [rd EXCEPT !.lx = l, !.atEnd = e, !.section = sec, !.key = k]

\* What such a change makes of a reader.
LEMMA ChangedAt ==
  ASSUME NEW s, NEW sec, NEW k, NEW flags, NEW p, NEW l, NEW sec2, NEW k2
  PROVE  Changed(At(s, sec, k, flags, p), l, No, sec2, k2) = At(l, sec2, k2, flags, p)
<1>1. [At(s, sec, k, flags, p) EXCEPT !.lx = l] = At(l, sec, k, flags, p)
  BY DEF At
<1>2. [At(l, sec, k, flags, p) EXCEPT !.atEnd = No] = At(l, sec, k, flags, p)
  BY DEF At
<1>3. [At(l, sec, k, flags, p) EXCEPT !.section = sec2] = At(l, sec2, k, flags, p)
  BY DEF At
<1>4. [At(l, sec2, k, flags, p) EXCEPT !.key = k2] = At(l, sec2, k2, flags, p)
  BY DEF At
<1>5. Changed(At(s, sec, k, flags, p), l, No, sec2, k2) =
      [[[[At(s, sec, k, flags, p) EXCEPT !.lx = l] EXCEPT !.atEnd = No] EXCEPT !.section = sec2]
         EXCEPT !.key = k2]
  BY DEF Changed
<1> QED BY <1>1, <1>2, <1>3, <1>4, <1>5, Zenon

\* The fields of a reader and the changes of one of them.
LEMMA AtParts ==
  ASSUME NEW s, NEW sec, NEW k, NEW flags, NEW p
  PROVE  /\ At(s, sec, k, flags, p).lx = s /\ At(s, sec, k, flags, p).section = sec
         /\ At(s, sec, k, flags, p).key = k /\ At(s, sec, k, flags, p).allow = flags
         /\ At(s, sec, k, flags, p).parser = p
         /\ \A v : [At(s, sec, k, flags, p) EXCEPT !.section = v] = At(s, v, k, flags, p)
         /\ \A v : [At(s, sec, k, flags, p) EXCEPT !.key = v] = At(s, sec, v, flags, p)
         /\ \A v : [At(s, sec, k, flags, p) EXCEPT !.parser = v] = At(s, sec, k, flags, v)
BY DEF At

\* What parser_read has taken from a lexer.
Result(rd, s) ==
  CASE s.fn = "value" -> Value(rd, s)
    [] s.fn = "idt" /\ s.r = 1 -> [rd EXCEPT !.section = s.sb]
    [] s.fn = "idt" /\ s.r = 2 -> [rd EXCEPT !.key = s.sb]
    [] OTHER -> rd

\* Returned is a change of this result.
LEMMA ReturnedIs ==
  ASSUME NEW rd, NEW s, NEW x
  PROVE  Returned(rd, s, x) =
           Changed(Result(rd, s), LexStart(IF s.fn = "idt" /\ s.r = 2 THEN "value" ELSE "idt"),
                   x = "EOF", IF x = "EOF" THEN <<>> ELSE Result(rd, s).section,
                   IF Result(rd, s).lx.fn = "value" THEN <<>> ELSE Result(rd, s).key)
BY Zenon DEF Returned, Changed, Result

\* What Returned makes of a reader, the file going on.
LEMMA ReturnedAt ==
  ASSUME NEW rd, NEW t, NEW x, x # "EOF", NEW s, NEW sec, NEW k, NEW flags, NEW p,
         Result(rd, t) = At(s, sec, k, flags, p)
  PROVE  Returned(rd, t, x) =
           At(LexStart(IF t.fn = "idt" /\ t.r = 2 THEN "value" ELSE "idt"), sec,
              IF s.fn = "value" THEN <<>> ELSE k, flags, p)
<1> DEFINE n == Result(rd, t)
           e == x = "EOF"
           l == LexStart(IF t.fn = "idt" /\ t.r = 2 THEN "value" ELSE "idt")
           a == IF x = "EOF" THEN <<>> ELSE n.section
           b == IF n.lx.fn = "value" THEN <<>> ELSE n.key
           b2 == IF s.fn = "value" THEN <<>> ELSE k
<1>1. e = No
  BY DEF No
<1>2. n = At(s, sec, k, flags, p)
  OBVIOUS
<1>3. n.lx = s /\ n.section = sec /\ n.key = k
  BY <1>2, AtParts
<1>4. a = sec /\ b = b2
  <2> HIDE DEF n
  <2> QED BY <1>3, Zenon
<1>5. Returned(rd, t, x) = Changed(n, l, e, a, b)
  BY ReturnedIs, Zenon
<1> HIDE DEF n, e, l, a, b, b2
<1>6. Returned(rd, t, x) = At(l, sec, b2, flags, p)
  BY <1>1, <1>2, <1>4, <1>5, ChangedAt
<1> QED BY <1>6 DEF l, b2

\* parser_read takes over the name of a section or of a key.
LEMMA ReturnedName ==
  ASSUME NEW s, s.fn = "idt", NEW sec, NEW k, NEW flags, NEW p, NEW name
  PROVE  /\ Returned(At(s, sec, k, flags, p), Lex("idt", "END", name, 0, 1), "LF") =
              At(LexStart("idt"), name, k, flags, p)
         /\ Returned(At(s, sec, k, flags, p), Lex("idt", "END", name, 0, 2), "=") =
              At(LexStart("value"), sec, name, flags, p)
<1> DEFINE rd == At(s, sec, k, flags, p)
           t == Lex("idt", "END", name, 0, 1)
           u == Lex("idt", "END", name, 0, 2)
<1>1. t.fn = "idt" /\ t.r = 1 /\ t.sb = name /\ u.fn = "idt" /\ u.r = 2 /\ u.sb = name
  BY DEF Lex
<1>2. [rd EXCEPT !.section = name] = At(s, name, k, flags, p)
      /\ [rd EXCEPT !.key = name] = At(s, sec, name, flags, p)
  BY AtParts
<1> HIDE DEF rd, t, u
<1>3. Result(rd, t) = At(s, name, k, flags, p) /\ Result(rd, u) = At(s, sec, name, flags, p)
  BY <1>1, <1>2 DEF Result
<1>4. Returned(rd, t, "LF") = At(LexStart("idt"), name, k, flags, p)
  BY <1>1, <1>3, ReturnedAt
<1>5. Returned(rd, u, "=") = At(LexStart("value"), sec, name, flags, p)
  BY <1>1, <1>3, ReturnedAt
<1> QED BY <1>4, <1>5, Zenon DEF rd, t, u

\* parser_read stores a value.
LEMMA ReturnedValue ==
  ASSUME NEW s, s.fn = "value", NEW flags \in Flags, NEW sec \in Names, sec # <<>>,
         NEW k \in Names, NEW p, NEW v \in Values(flags), NEW m
  PROVE  Returned(At(s, sec, k, flags, p), Lex("value", "END", v, m, 0), "LF") =
           At(LexStart("idt"), sec, <<>>, flags, parser_set(p, sec, k, v))
<1> DEFINE rd == At(s, sec, k, flags, p)
           t == Lex("value", "END", v, m, 0)
           q == parser_set(p, sec, k, v)
<1>1. t.fn = "value" /\ t.r = 0 /\ t.sb = v
  BY DEF Lex
<1>2. sec \in Texts /\ k \in Texts /\ v \in Texts /\ (v = <<>> => flags.empty)
  BY DEF Names, Values
<1>3. CStr(sec) = sec /\ CStr(k) = k /\ CStr(v) = v
  <2>1. \A text \in Texts : text \in Buffers
    BY ListOf DEF Texts, Buffers
  <2> QED BY <1>2, <2>1, CStrType, Zenon
<1>4. rd.section = sec /\ rd.key = k /\ rd.allow = flags /\ rd.parser = p
      /\ [rd EXCEPT !.section = sec] = rd
      /\ \A z : [rd EXCEPT !.parser = z] = At(s, sec, k, flags, z)
  BY AtParts
<1> HIDE DEF rd, t
<1>5. Value(rd, t) = [rd EXCEPT !.section = sec, !.parser = q]
  BY <1>1, <1>2, <1>3, <1>4 DEF Value
<1> HIDE DEF q
<1>6. [rd EXCEPT !.section = sec, !.parser = q] = [[rd EXCEPT !.section = sec] EXCEPT !.parser = q]
  OBVIOUS
<1>7. Result(rd, t) = At(s, sec, k, flags, q)
  BY <1>1, <1>4, <1>5, <1>6, Zenon DEF Result
<1>8. Returned(rd, t, "LF") = At(LexStart("idt"), sec, <<>>, flags, q)
  BY <1>1, <1>7, ReturnedAt
<1> QED BY <1>8, Zenon DEF rd, t, q

\* Between two lines.
Idle(sec, flags, p) == At(LexStart("idt"), sec, <<>>, flags, p)

\* A lexer begins with an empty buffer.
LEMMA Started ==
  ASSUME NEW fn PROVE LexStart(fn) = Lex(fn, "START", <<>>, 0, 0)
BY Zenon DEF LexStart, Lex

\* The last step of a lexer.
LEMMA ReadsEnd ==
  ASSUME NEW s, s.digits = "none", NEW sec, NEW k, NEW flags, NEW p, NEW x, x # "CR",
         NEW t, Step(s, x) = t, t.state = "END"
  PROVE  Read(At(s, sec, k, flags, p), x) = Returned(At(s, sec, k, flags, p), t, x)
BY ReadAt

\* A blank behind a name, and the end of the name.
LEMMA NameEnds ==
  ASSUME NEW name \in Writable
  PROVE  /\ \A c \in Reading : Step(Lex(c[1], c[2], name, 0, 0), "SP") =
                                 Lex(c[1], c[2], Append(name, "SP"), 0, 0)
         /\ Step(Lex("idt", "AFTER_SECTION", Append(name, "SP"), 0, 1), "LF") =
              Lex("idt", "END", name, 0, 1)
         /\ Step(Lex("idt", "READ_NAME", Append(name, "SP"), 0, 0), "=") =
              Lex("idt", "END", name, 0, 2)
<1> DEFINE b == Append(name, "SP")
           s == Lex("idt", "AFTER_SECTION", b, 0, 1)
           t == Lex("idt", "END", b, 0, 1)
           u == Lex("idt", "READ_NAME", b, 0, 0)
           v == Lex("idt", "END", b, 0, 2)
<1>1. \A c \in Reading : Step(Lex(c[1], c[2], name, 0, 0), "SP") =
                           Lex(c[1], c[2], Append(name, "SP"), 0, 0)
  BY PlainStep, Zenon DEF Protected
<1>2. rstrip(t) = Lex("idt", "END", name, 0, 1) /\ rstrip(v) = Lex("idt", "END", name, 0, 2)
  BY Stripped, Zenon
<1> HIDE DEF b
<1>3. /\ s.fn = "idt" /\ s.state = "AFTER_SECTION" /\ u.fn = "idt" /\ u.state = "READ_NAME"
      /\ t.state = "END" /\ t.r = 1 /\ v.state = "END" /\ v.r = 2
  BY DEF Lex
<1>4. To(s, "END") = t
  BY DEF To, Lex
<1>5. [To(u, "END") EXCEPT !.r = 2] = v
  <2>1. To(u, "END") = Lex("idt", "END", b, 0, 0)
    BY DEF To, Lex
  <2>2. [Lex("idt", "END", b, 0, 0) EXCEPT !.r = 2] = v
    BY DEF Lex
  <2> QED BY <2>1, <2>2, Zenon
<1> HIDE DEF s, t, u, v
<1>6. IdtEndOfLine(s, "LF") = t
  BY <1>3, <1>4, Zenon DEF IdtEndOfLine, Blank, Comment, EndOfLine
<1>7. IdtName(u, "=") = v
  BY <1>3, <1>5, Zenon DEF IdtName, EndOfLine, Comment
<1>8. Step(s, "LF") = rstrip(t) /\ Step(u, "=") = rstrip(v)
  BY <1>3, <1>6, <1>7, Zenon DEF Step, IdtStep
<1>9. Step(s, "LF") = Lex("idt", "END", name, 0, 1) /\ Step(u, "=") = Lex("idt", "END", name, 0, 2)
  BY <1>2, <1>8, Zenon
<1> QED BY <1>1, <1>9, Zenon DEF b, s, u

\* The line of a section.
Header(name) == <<"[", "SP">> \o Escape(name) \o <<"SP", "]", "LF">>

\* The line of a section, as parser_write writes it, sets the current section.
LEMMA HeaderReads ==
  ASSUME NEW name \in Writable, NEW sec, NEW flags, NEW p
  PROVE  Header(name) \in Seq(Symbols) /\ Reads(Idle(sec, flags, p), Header(name), Idle(name, flags, p))
<1> DEFINE A(v) == At(v, sec, <<>>, flags, p)
           b == Append(name, "SP")
           s1 == Lex("idt", "START", <<>>, 0, 0)
           s2 == Lex("idt", "BEGIN_SECTION", <<>>, 0, 0)
           s3 == Lex("idt", "READ_SECTION", name, 0, 0)
           s4 == Lex("idt", "READ_SECTION", b, 0, 0)
           s5 == Lex("idt", "AFTER_SECTION", b, 0, 1)
           s6 == Lex("idt", "END", name, 0, 1)
<1>1. Step(s1, "[") = s2 /\ Step(s2, "SP") = s2 /\ Step(s4, "]") = s5
  BY HeaderSteps, Zenon
<1>2. Reads(A(s2), Escape(name), A(s3))
  <2> DEFINE c == <<"idt", "READ_SECTION", "READ_SECTION_ESC">>
             k == <<>>
  <2>1. Begins("BEGIN_SECTION", c) /\ c[2] = "READ_SECTION"
    BY DEF Begins
  <2> HIDE DEF c, k
  <2>2. Reads(At(Lex("idt", "BEGIN_SECTION", <<>>, 0, 0), sec, k, flags, p), Escape(name),
              At(Lex("idt", c[2], name, 0, 0), sec, k, flags, p))
    BY <2>1, NameReads, Zenon
  <2> QED BY <2>1, <2>2, Zenon DEF k
<1>3. Step(s3, "SP") = s4
  <2>1. <<"idt", "READ_SECTION", "READ_SECTION_ESC">> \in Reading
    BY DEF Reading
  <2> QED BY <2>1, NameEnds, Zenon
<1>4. Step(s5, "LF") = s6
  BY NameEnds, Zenon
<1> HIDE DEF b
<1>5. /\ s1.digits = "none" /\ s2.digits = "none" /\ s3.digits = "none" /\ s4.digits = "none"
      /\ s5.digits = "none" /\ s2.state # "END" /\ s4.state # "END" /\ s5.state # "END"
      /\ s6.state = "END" /\ s5.fn = "idt"
  BY Zenon DEF Lex
<1>6. Returned(A(s5), s6, "LF") = Idle(name, flags, p)
  <2> HIDE DEF s5
  <2> QED BY <1>5, ReturnedName DEF Idle
<1>7. A(s1) = Idle(sec, flags, p)
  BY Started, Zenon DEF Idle
<1> HIDE DEF s1, s2, s3, s4, s5, s6
<1>8. Read(A(s1), "[") = A(s2) /\ Read(A(s2), "SP") = A(s2)
  BY <1>1, <1>5, ReadsAt
<1>9. Read(A(s3), "SP") = A(s4) /\ Read(A(s4), "]") = A(s5)
  BY <1>1, <1>3, <1>5, ReadsAt
<1>10. Read(A(s5), "LF") = Returned(A(s5), s6, "LF")
  BY <1>4, <1>5, ReadsEnd
<1> HIDE DEF A
<1> DEFINE u == <<"[", "SP">>
           w == <<"SP", "]", "LF">>
<1>11. Reads(A(s1), u, A(s2))
  BY <1>8, ReadsTwo, Zenon
<1>12. Reads(A(s3), w, Idle(name, flags, p))
  BY <1>6, <1>9, <1>10, ReadsThree, Zenon
<1>13. u \in Seq(Symbols) /\ w \in Seq(Symbols)
  BY DEF Symbols
<1>14. Escape(name) \in Seq(Symbols)
  <2>1. name \in Texts
    BY Zenon DEF Writable, Names
  <2>2. Len(name) \in Nat /\ Len(name) \in 0 .. Len(name)
    BY <2>1, EscapeParts
  <2> QED BY <2>1, <2>2, EscapeParts, Zenon
<1> HIDE DEF u, w
<1>15. u \o Escape(name) \in Seq(Symbols) /\ (u \o Escape(name)) \o w \in Seq(Symbols)
  BY <1>13, <1>14
<1>16. Reads(A(s1), u \o Escape(name), A(s3))
  BY <1>2, <1>11, <1>13, <1>14, ReadsBoth, Zenon
<1>17. Reads(A(s1), (u \o Escape(name)) \o w, Idle(name, flags, p))
  BY <1>12, <1>13, <1>15, <1>16, ReadsBoth, Zenon
<1> QED BY <1>7, <1>15, <1>17, Zenon DEF Header, u, w

\* A value in quotes.
LEMMA QuotedReads ==
  ASSUME NEW v \in Texts, NEW sec, NEW k, NEW flags, NEW p
  PROVE  Reads(At(Lex("value", "IN_QUOTE", <<>>, 0, 0), sec, k, flags, p), Escape(v),
               At(Lex("value", "IN_QUOTE", v, 0, 0), sec, k, flags, p))
<1> DEFINE c == <<"value", "IN_QUOTE", "IN_QUOTE_ESC">>
           a == At(Lex("value", "IN_QUOTE", <<>>, 0, 0), sec, k, flags, p)
<1>1. c \in Reading /\ c[1] = "value" /\ c[2] = "IN_QUOTE"
  BY DEF Reading
<1>2. Joined(Escapes(v), 0) = <<>> /\ Len(v) \in Nat
  BY EscapeParts, Zenon
<1>3. SubSeq(v, 1, 0) = <<>>
  BY DEF Texts
<1>4. Reads(a, <<>>, a)
  BY ReadsNone, Zenon
<1> HIDE DEF c
<1>5. At(Lex(c[1], c[2], SubSeq(v, 1, 0), 0, 0), sec, k, flags, p) = a
  BY <1>1, <1>3, Zenon
<1> HIDE DEF a
<1>6. Taken(a, c, v, 0, sec, k, flags, p)
  BY <1>2, <1>4, <1>5, Zenon DEF Taken
<1>7. 0 \in 0 .. Len(v)
  BY <1>2
<1>8. Reads(a, Escape(v), At(Lex(c[1], c[2], v, 0, 0), sec, k, flags, p))
  BY <1>1, <1>6, <1>7, EscapeReads, Zenon
<1> QED BY <1>1, <1>8, Zenon DEF a

\* The line of a value.
Line(name, v) ==
  <<"SP", "SP">> \o Escape(name) \o <<"SP", "=", "SP", "\"">> \o Escape(v) \o <<"\"", "LF">>

\* The line of a value, as parser_write writes it, sets the value.
LEMMA LineReads ==
  ASSUME NEW flags \in Flags, NEW sec \in Names, sec # <<>>, NEW name \in Writable,
         NEW v \in Values(flags), NEW p
  PROVE  /\ Line(name, v) \in Seq(Symbols)
         /\ Reads(Idle(sec, flags, p), Line(name, v), Idle(sec, flags, parser_set(p, sec, name, v)))
<1> DEFINE A(s) == At(s, sec, <<>>, flags, p)
           B(s) == At(s, sec, name, flags, p)
           b == Append(name, "SP")
           s1 == Lex("idt", "START", <<>>, 0, 0)
           s2 == Lex("idt", "READ_NAME", name, 0, 0)
           s3 == Lex("idt", "READ_NAME", b, 0, 0)
           s4 == Lex("idt", "END", name, 0, 2)
           v1 == Lex("value", "START", <<>>, 0, 0)
           v2 == Lex("value", "IN_QUOTE", <<>>, 0, 0)
           v3 == Lex("value", "IN_QUOTE", v, 0, 0)
           v4 == Lex("value", "START", v, Len(v), 0)
           v5 == Lex("value", "END", v, Len(v), 0)
           Z == Idle(sec, flags, parser_set(p, sec, name, v))
<1>1. v \in Texts /\ name \in Texts /\ name \in Names
  BY Zenon DEF Values, Writable, Names
<1>2. Step(s1, "SP") = s1
  BY HeaderSteps, Zenon
<1>3. Reads(A(s1), Escape(name), A(s2))
  <2> DEFINE c == <<"idt", "READ_NAME", "READ_NAME_ESC">>
             k == <<>>
  <2>1. Begins("START", c) /\ c[2] = "READ_NAME"
    BY Zenon DEF Begins
  <2> HIDE DEF c, k
  <2>2. Reads(At(Lex("idt", "START", <<>>, 0, 0), sec, k, flags, p), Escape(name),
              At(Lex("idt", c[2], name, 0, 0), sec, k, flags, p))
    BY <2>1, NameReads, Zenon
  <2> QED BY <2>1, <2>2, Zenon DEF k
<1>4. Step(s2, "SP") = s3 /\ Step(s3, "=") = s4
  <2>1. <<"idt", "READ_NAME", "READ_NAME_ESC">> \in Reading
    BY DEF Reading
  <2> QED BY <2>1, NameEnds, Zenon
<1>5. Step(v1, "SP") = v1 /\ Step(v1, "\"") = v2 /\ Step(v3, "\"") = v4 /\ Step(v4, "LF") = v5
  BY QuoteSteps, Zenon
<1>6. Reads(B(v2), Escape(v), B(v3))
  BY <1>1, QuotedReads, Zenon
<1> HIDE DEF b
<1>7. /\ s1.digits = "none" /\ s2.digits = "none" /\ s3.digits = "none" /\ s3.fn = "idt"
      /\ s1.state # "END" /\ s3.state # "END" /\ s4.state = "END"
  BY Zenon DEF Lex
<1>8. /\ v1.digits = "none" /\ v2.digits = "none" /\ v3.digits = "none" /\ v4.digits = "none"
      /\ v4.fn = "value" /\ v1.state # "END" /\ v2.state # "END" /\ v4.state # "END"
      /\ v5.state = "END"
  BY Zenon DEF Lex
<1>9. Returned(A(s3), s4, "=") = B(v1)
  <2>1. LexStart("value") = v1
    BY Started, Zenon
  <2> HIDE DEF s3, v1
  <2> QED BY <1>7, <2>1, ReturnedName
<1>10. Returned(B(v4), v5, "LF") = Z
  <2> HIDE DEF v4
  <2> QED BY <1>1, <1>8, ReturnedValue DEF Idle
<1>11. A(s1) = Idle(sec, flags, p)
  BY Started, Zenon DEF Idle
<1> HIDE DEF s1, s2, s3, s4, v1, v2, v3, v4, v5, Z
<1>12. Read(A(s1), "SP") = A(s1) /\ Read(A(s2), "SP") = A(s3)
  BY <1>2, <1>4, <1>7, ReadsAt
<1>13. Read(A(s3), "=") = B(v1)
  BY <1>4, <1>7, <1>9, ReadsEnd
<1> DEFINE quote == "\""
<1>14. Step(v1, quote) = v2 /\ Step(v3, quote) = v4 /\ quote # "CR"
  BY <1>5, Zenon
<1> HIDE DEF quote
<1>15. Read(B(v1), "SP") = B(v1) /\ Read(B(v1), quote) = B(v2)
  <2>1. Read(B(v1), "SP") = B(v1)
    <3>1. Step(v1, "SP") = v1
      BY <1>5, Zenon
    <3> QED BY <1>8, <3>1, ReadsAt
  <2>2. Read(B(v1), quote) = B(v2)
    BY <1>8, <1>14, ReadsAt
  <2> QED BY <2>1, <2>2, Zenon
<1>16. Read(B(v3), quote) = B(v4)
  BY <1>8, <1>14, ReadsAt
<1>17. Read(B(v4), "LF") = Z
  <2>1. Step(v4, "LF") = v5
    BY <1>5, Zenon
  <2>2. Read(B(v4), "LF") = Returned(B(v4), v5, "LF")
    BY <1>8, <2>1, ReadsEnd
  <2> QED BY <1>10, <2>2, Zenon
<1> HIDE DEF A, B
<1> DEFINE w1 == <<"SP", "SP">>
           w2 == <<"SP", "=", "SP", quote>>
           w3 == <<quote, "LF">>
<1>18. Reads(A(s1), w1, A(s1)) /\ Reads(B(v3), w3, Z)
  BY <1>12, <1>16, <1>17, ReadsTwo, Zenon
<1>19. Reads(A(s2), w2, B(v2))
  BY <1>12, <1>13, <1>15, ReadsFour, Zenon
<1>20. w1 \in Seq(Symbols) /\ w2 \in Seq(Symbols) /\ w3 \in Seq(Symbols)
  BY DEF Symbols, quote
<1>21. Escape(name) \in Seq(Symbols) /\ Escape(v) \in Seq(Symbols)
  <2>1. \A text \in Texts : Len(text) \in Nat /\ Len(text) \in 0 .. Len(text)
    BY EscapeParts
  <2> QED BY <1>1, <2>1, EscapeParts, Zenon
<1> HIDE DEF w1, w2, w3
<1> DEFINE t1 == w1 \o Escape(name)
           t2 == t1 \o w2
           t3 == t2 \o Escape(v)
<1>22. t1 \in Seq(Symbols) /\ Reads(A(s1), t1, A(s2))
  BY <1>3, <1>18, <1>20, <1>21, ReadsBoth
<1> HIDE DEF t1
<1>23. t2 \in Seq(Symbols) /\ Reads(A(s1), t2, B(v2))
  BY <1>19, <1>20, <1>22, ReadsBoth
<1> HIDE DEF t2
<1>24. t3 \in Seq(Symbols) /\ Reads(A(s1), t3, B(v3))
  BY <1>6, <1>21, <1>23, ReadsBoth
<1> HIDE DEF t3
<1>25. t3 \o w3 \in Seq(Symbols) /\ Reads(A(s1), t3 \o w3, Z)
  BY <1>18, <1>20, <1>24, ReadsBoth
<1>26. Line(name, v) = t3 \o w3
  BY DEF Line, t1, t2, t3, w1, w2, w3, quote
<1> QED BY <1>11, <1>25, <1>26, Zenon DEF Z

-----------------------------------------------------------------------------
(* What parser_set builds from the lines of a section.                      *)

\* The last item of a list.
LEMMA LastItem ==
  ASSUME NEW S, NEW items \in Seq(S), NEW x
  PROVE  /\ Append(items, x)[Len(items) + 1] = x
         /\ \A y : [Append(items, x) EXCEPT ![Len(items) + 1] = y] = Append(items, y)
<1> DEFINE n == Len(items) + 1
<1>1. n \in Nat /\ \A y : /\ DOMAIN Append(items, y) = 1 .. n
                          /\ Append(items, y) = [i \in 1 .. n |-> IF i = n THEN y ELSE items[i]]
  <2>1. n \in Nat
    OBVIOUS
  <2>2. ASSUME NEW y
        PROVE  /\ DOMAIN Append(items, y) = 1 .. n
               /\ Append(items, y) = [i \in 1 .. n |-> IF i = n THEN y ELSE items[i]]
    <3> DEFINE q == Append(items, y)
    <3>1. q \in Seq(S \cup {y}) /\ Len(q) = n
          /\ \A i \in 1 .. n : q[i] = IF i = n THEN y ELSE items[i]
      OBVIOUS
    <3> HIDE DEF q, n
    <3>2. q = [i \in 1 .. n |-> q[i]] /\ DOMAIN q = 1 .. n
      BY <3>1
    <3>3. q = [i \in 1 .. n |-> IF i = n THEN y ELSE items[i]]
      BY <3>1, <3>2, Zenon
    <3> QED BY <3>2, <3>3, Zenon DEF q
  <2> QED BY <2>1, <2>2, Zenon
<1> HIDE DEF n
<1>2. \A y : [[i \in 1 .. n |-> IF i = n THEN x ELSE items[i]] EXCEPT ![n] = y] =
             [i \in 1 .. n |-> IF i = n THEN y ELSE items[i]]
  BY <1>1, Zenon
<1>3. Append(items, x)[n] = x
  BY <1>1
<1>4. \A y : [Append(items, x) EXCEPT ![n] = y] = Append(items, y)
  BY <1>1, <1>2, Zenon
<1> QED BY <1>3, <1>4, Zenon DEF n

\* No item has the name.
New(items, name) == \A i \in 1 .. Len(items) : items[i].name # name

\* A new name is not found, and once added it is the last.
LEMMA FindLast ==
  ASSUME NEW S, NEW items \in Seq(S), NEW x, New(items, x.name)
  PROVE  Find(items, x.name) = 0 /\ Find(Append(items, x), x.name) = Len(items) + 1
<1> DEFINE q == Append(items, x)
           n == Len(items) + 1
           k == Find(q, x.name)
<1>1. Find(items, x.name) = 0
  BY FindFacts DEF New
<1>2. q \in Seq(S \cup {x}) /\ Len(q) = n /\ n \in Nat /\ n \in 1 .. n /\ q[n] = x
      /\ \A i \in 1 .. n : i # n => i \in 1 .. Len(items) /\ q[i] = items[i]
  OBVIOUS
<1> HIDE DEF q
<1>3. /\ k \in 0 .. Len(q) /\ (k # 0 => q[k].name = x.name)
      /\ (k = 0 => \A i \in 1 .. Len(q) : q[i].name # x.name)
  BY <1>2, FindFacts, Zenon
<1> HIDE DEF n, k
<1>4. k = n
  BY <1>2, <1>3 DEF New
<1> QED BY <1>1, <1>4, Zenon DEF k, n, q

\* A key without values and a section without keys are not in the store yet.
Put(items, item, list) == IF list = <<>> THEN items ELSE Append(items, item)
PutKey(ks, name, vs) == Put(ks, [name |-> name, values |-> vs], vs)
PutSection(f, sec, ks) == Put(f, [name |-> sec, keys |-> ks], ks)

\* A new name is added behind the others, and then it is found there.
LEMMA AddedLast ==
  ASSUME NEW S, NEW items \in Seq(S), NEW item, NEW fresh, NEW list, NEW name,
         item.name = name, New(items, name), list = <<>> => fresh = item
  PROVE  /\ Added(Put(items, item, list), name, fresh) = Append(items, item)
         /\ Find(Append(items, item), name) = Len(items) + 1
<1>1. Find(items, name) = 0 /\ Find(Append(items, item), name) = Len(items) + 1 /\ Len(items) + 1 # 0
  <2>1. Len(items) + 1 # 0
    OBVIOUS
  <2> QED BY <2>1, FindLast, Zenon
<1> QED BY <1>1, Zenon DEF Added, Put

\* A list with an element added is not empty.
LEMMA NotEmpty ==
  ASSUME NEW S, NEW q \in Seq(S), NEW x
  PROVE  Append(q, x) # <<>>
<1>1. Len(Append(q, x)) = Len(q) + 1 /\ Len(q) \in Nat /\ Len(<<>>) = 0
  OBVIOUS
<1> QED BY <1>1

\* A value is added to the last key of the last section.
LEMMA SetLast ==
  ASSUME NEW S, NEW f \in Seq(S), NEW sec, New(f, sec),
         NEW R, NEW ks \in Seq(R), NEW name, New(ks, name),
         NEW Q, NEW vs \in Seq(Q), NEW v \in Q
  PROVE  parser_set(PutSection(f, sec, PutKey(ks, name, vs)), sec, name, v) =
           PutSection(f, sec, PutKey(ks, name, Append(vs, v)))
<1> DEFINE K == PutKey(ks, name, vs)
           P == PutSection(f, sec, K)
           s0 == [name |-> sec, keys |-> K]
           k0 == [name |-> name, values |-> vs]
           k1 == [name |-> name, values |-> Append(vs, v)]
           K1 == Append(ks, k1)
           s1 == [name |-> sec, keys |-> K1]
           sections == Append(f, s0)
           keys == Append(ks, k0)
           s == Len(f) + 1
           k == Len(ks) + 1
<1>1. Added(P, sec, [name |-> sec, keys |-> <<>>]) = sections /\ Find(sections, sec) = s
  <2> DEFINE fresh == [name |-> sec, keys |-> <<>>]
  <2>1. s0.name = sec /\ (K = <<>> => fresh = s0)
    <3> HIDE DEF K
    <3> QED OBVIOUS
  <2>2. P = Put(f, s0, K)
    BY Zenon DEF PutSection
  <2> HIDE DEF K, s0, fresh, P
  <2>3. Added(Put(f, s0, K), sec, fresh) = Append(f, s0) /\ Find(Append(f, s0), sec) = s
    BY <2>1, AddedLast, Zenon
  <2> QED BY <2>2, <2>3, Zenon DEF fresh
<1>2. Added(K, name, [name |-> name, values |-> <<>>]) = keys /\ Find(keys, name) = k
  <2> DEFINE fresh == [name |-> name, values |-> <<>>]
  <2>1. k0.name = name /\ (vs = <<>> => fresh = k0)
    OBVIOUS
  <2>2. K = Put(ks, k0, vs)
    BY Zenon DEF PutKey
  <2> HIDE DEF K, k0, fresh
  <2>3. Added(Put(ks, k0, vs), name, fresh) = Append(ks, k0) /\ Find(Append(ks, k0), name) = k
    BY <2>1, AddedLast, Zenon
  <2> QED BY <2>2, <2>3, Zenon DEF fresh
<1>3. sections[s] = s0 /\ keys[k] = k0
  <2> HIDE DEF s0, k0
  <2> QED BY LastItem, Zenon
<1>4. s0.keys = K /\ k0.values = vs /\ [k0 EXCEPT !.values = Append(vs, v)] = k1
  <2> HIDE DEF K
  <2>1. \A q : [k0 EXCEPT !.values = q] = [name |-> name, values |-> q]
    OBVIOUS
  <2> QED BY <2>1, Zenon
<1>5. [s0 EXCEPT !.keys = K1] = s1
  <2> HIDE DEF K, K1
  <2> QED OBVIOUS
<1>6. [keys EXCEPT ![k] = k1] = K1 /\ [sections EXCEPT ![s] = s1] = Append(f, s1)
  <2> HIDE DEF s0, k0, k1, s1
  <2> QED BY LastItem, Zenon
<1> HIDE DEF P, K, s0, s1, k0, k1, K1, sections, keys, s, k
<1>7. parser_set(P, sec, name, v) =
        [sections EXCEPT ![s].keys = [keys EXCEPT ![k].values = Append(@, v)]]
  <2>1. sections[s].keys = K
    BY <1>3, <1>4, Zenon
  <2> QED BY <1>1, <1>2, <2>1, Zenon DEF parser_set
<1>8. [keys EXCEPT ![k].values = Append(@, v)] = [keys EXCEPT ![k] = [keys[k] EXCEPT !.values = Append(keys[k].values, v)]]
  OBVIOUS
<1>9. [keys EXCEPT ![k].values = Append(@, v)] = K1
  BY <1>3, <1>4, <1>6, <1>8, Zenon
<1>10. parser_set(P, sec, name, v) = [sections EXCEPT ![s].keys = K1]
  BY <1>7, <1>9, Zenon
<1>11. [sections EXCEPT ![s].keys = K1] = [sections EXCEPT ![s] = [sections[s] EXCEPT !.keys = K1]]
  OBVIOUS
<1>12. parser_set(P, sec, name, v) = Append(f, s1)
  BY <1>3, <1>5, <1>6, <1>10, <1>11, Zenon
<1>13. PutKey(ks, name, Append(vs, v)) = K1
  <2>1. Append(vs, v) # <<>>
    OBVIOUS
  <2> QED BY <2>1, Zenon DEF PutKey, Put, K1, k1
<1>14. K1 # <<>>
  BY NotEmpty, Zenon DEF K1
<1>15. PutSection(f, sec, K1) = Append(f, s1)
  BY <1>14, Zenon DEF PutSection, Put, s1
<1> QED BY <1>12, <1>13, <1>15, Zenon DEF P, K

\* Strings that are read one after the other.
LEMMA ReadsParts ==
  ASSUME NEW parts \in Seq(Seq(Symbols)), NEW st,
         \A n \in 1 .. Len(parts) : Reads(st[n - 1], parts[n], st[n])
  PROVE  Flatten(parts) \in Seq(Symbols) /\ Reads(st[0], Flatten(parts), st[Len(parts)])
<1> DEFINE N == Len(parts)
           J(n) == Joined(parts, n)
           T == {n \in Nat : n <= N => Reads(st[0], J(n), st[n])}
<1>1. N \in Nat /\ \A n \in 1 .. N : parts[n] \in Seq(Symbols)
  BY Element
<1>2. /\ J(0) = <<>> /\ \A n \in 0 .. N : J(n) \in Seq(Symbols)
      /\ \A n \in 1 .. N : J(n) = J(n - 1) \o parts[n]
      /\ Flatten(parts) = J(N)
  BY JoinedGrows, Zenon
<1> HIDE DEF J, N
<1>3. 0 \in T
  BY <1>2, ReadsNone, Zenon
<1>4. ASSUME NEW n \in Nat, n \in T, n + 1 <= N PROVE Reads(st[0], J(n + 1), st[n + 1])
  <2>1. n + 1 \in 1 .. N /\ (n + 1) - 1 = n /\ n \in 0 .. N /\ n <= N
    BY <1>1, <1>4
  <2>2. Reads(st[0], J(n), st[n])
    BY <1>4, <2>1, Zenon
  <2>3. Reads(st[n], parts[n + 1], st[n + 1])
    BY <2>1, Zenon DEF N
  <2>4. J(n) \in Seq(Symbols) /\ parts[n + 1] \in Seq(Symbols)
    BY <1>1, <1>2, <2>1, Zenon
  <2>5. Reads(st[0], J(n) \o parts[n + 1], st[n + 1])
    BY <2>2, <2>3, <2>4, ReadsBoth, Zenon
  <2> QED BY <1>2, <2>1, <2>5, Zenon
<1>5. \A n \in Nat : n \in T => n + 1 \in T
  BY <1>4
<1>6. Nat \subseteq T
  <2> HIDE DEF T
  <2> QED BY <1>3, <1>5, SetInduction, Zenon
<1>7. Reads(st[0], J(N), st[N]) /\ J(N) \in Seq(Symbols)
  BY <1>1, <1>2, <1>6
<1> QED BY <1>2, <1>7, Zenon DEF N

\* A list is the sequence of its prefixes.
LEMMA Prefixes ==
  ASSUME NEW S, NEW q \in Seq(S)
  PROVE  /\ Len(q) \in Nat /\ DOMAIN q = 1 .. Len(q) /\ SubSeq(q, 1, 0) = <<>> /\ SubSeq(q, 1, Len(q)) = q
         /\ \A n \in 0 .. Len(q) : SubSeq(q, 1, n) \in Seq(S)
         /\ \A n \in 1 .. Len(q) : /\ q[n] \in S /\ n - 1 \in 0 .. Len(q)
                                   /\ SubSeq(q, 1, n) = Append(SubSeq(q, 1, n - 1), q[n])
<1>1. Len(q) \in Nat /\ DOMAIN q = 1 .. Len(q) /\ SubSeq(q, 1, 0) = <<>> /\ SubSeq(q, 1, Len(q)) = q
  OBVIOUS
<1>2. \A n \in 0 .. Len(q) : SubSeq(q, 1, n) \in Seq(S)
  OBVIOUS
<1>3. \A n \in 1 .. Len(q) : q[n] \in S /\ n - 1 \in 0 .. Len(q)
  OBVIOUS
<1>4. ASSUME NEW n \in 0 .. Len(q) - 1 PROVE SubSeq(q, 1, n + 1) = Append(SubSeq(q, 1, n), q[n + 1])
  OBVIOUS
<1>5. \A n \in 1 .. Len(q) : n - 1 \in 0 .. Len(q) - 1 /\ (n - 1) + 1 = n
  BY <1>1
<1>6. \A n \in 1 .. Len(q) : SubSeq(q, 1, n) = Append(SubSeq(q, 1, n - 1), q[n])
  <2> TAKE n \in 1 .. Len(q)
  <2>1. n - 1 \in 0 .. Len(q) - 1 /\ (n - 1) + 1 = n
    BY <1>5, Zenon
  <2> QED BY <1>4, <2>1, Zenon
<1> QED BY <1>1, <1>2, <1>3, <1>6, Zenon

\* Where names are distinct, each is new to the items before it.
LEMMA NewInPrefix ==
  ASSUME NEW S, NEW q \in Seq(S), Distinct(q), NEW n \in 1 .. Len(q)
  PROVE  New(SubSeq(q, 1, n - 1), q[n].name)
<1> DEFINE r == SubSeq(q, 1, n - 1)
<1>1. n - 1 \in Nat /\ Len(r) = n - 1 /\ DOMAIN q = 1 .. Len(q) /\ Len(q) \in Nat
      /\ \A i \in 1 .. n - 1 : r[i] = q[i] /\ i \in 1 .. Len(q) /\ i # n
  OBVIOUS
<1> HIDE DEF r
<1>2. New(r, q[n].name)
  BY <1>1, Zenon DEF New, Distinct
<1> QED BY <1>2, Zenon DEF r

\* The lines of a key.
KeyText(k) == Flatten([v \in DOMAIN k.values |-> Line(k.name, k.values[v])])

\* The lines of a key add the key with all its values to the current section.
LEMMA KeyReads ==
  ASSUME NEW flags \in Flags, NEW sec \in Names, sec # <<>>,
         NEW S, NEW f \in Seq(S), New(f, sec), NEW R, NEW ks \in Seq(R),
         NEW k \in KeysOf(flags), k.name \in Writable, New(ks, k.name)
  PROVE  /\ KeyText(k) \in Seq(Symbols)
         /\ Reads(Idle(sec, flags, PutSection(f, sec, ks)), KeyText(k),
                  Idle(sec, flags, PutSection(f, sec, Append(ks, k))))
<1> DEFINE V == Values(flags)
           vs == k.values
           N == Len(vs)
           In(n) == PutSection(f, sec, PutKey(ks, k.name, SubSeq(vs, 1, n)))
           st == [n \in 0 .. N |-> Idle(sec, flags, In(n))]
           parts == [v \in DOMAIN vs |-> Line(k.name, vs[v])]
<1>1. vs \in Seq(V) /\ vs # <<>> /\ k = [name |-> k.name, values |-> vs]
  BY Zenon DEF KeysOf
<1>2. /\ N \in Nat /\ DOMAIN vs = 1 .. N /\ SubSeq(vs, 1, 0) = <<>> /\ SubSeq(vs, 1, N) = vs
      /\ \A n \in 0 .. N : SubSeq(vs, 1, n) \in Seq(V)
      /\ \A n \in 1 .. N : /\ vs[n] \in V /\ n - 1 \in 0 .. N
                           /\ SubSeq(vs, 1, n) = Append(SubSeq(vs, 1, n - 1), vs[n])
  BY <1>1, Prefixes, Zenon
<1> HIDE DEF N, V, vs
<1>3. ASSUME NEW n \in 1 .. N
      PROVE  /\ Line(k.name, vs[n]) \in Seq(Symbols)
             /\ Reads(Idle(sec, flags, In(n - 1)), Line(k.name, vs[n]), Idle(sec, flags, In(n)))
  <2>1. vs[n] \in V /\ SubSeq(vs, 1, n - 1) \in Seq(V) /\ SubSeq(vs, 1, n) = Append(SubSeq(vs, 1, n - 1), vs[n])
    BY <1>2, <1>3, Zenon
  <2> DEFINE us == SubSeq(vs, 1, n - 1)
             p == In(n - 1)
             x == vs[n]
             name == k.name
  <2>2. parser_set(PutSection(f, sec, PutKey(ks, name, us)), sec, name, x) =
          PutSection(f, sec, PutKey(ks, name, Append(us, x)))
    <3> HIDE DEF us, x, name
    <3>1. us \in Seq(V) /\ x \in V /\ New(ks, name)
      BY <2>1, Zenon DEF us, x, name
    <3> QED BY <3>1, SetLast, SMT, SMTT(30)
  <2>3. parser_set(p, sec, name, x) = In(n)
    BY <2>1, <2>2, Zenon
  <2> HIDE DEF p, x, name
  <2>4. x \in Values(flags) /\ name \in Writable
    BY <2>1, Zenon DEF x, name, V
  <2>5. Line(name, x) \in Seq(Symbols)
        /\ Reads(Idle(sec, flags, p), Line(name, x), Idle(sec, flags, parser_set(p, sec, name, x)))
    BY <2>4, LineReads, Zenon
  <2> QED BY <2>3, <2>5, Zenon DEF p, x, name
<1>4. parts = [n \in 1 .. N |-> Line(k.name, vs[n])]
  BY <1>2, Zenon
<1> HIDE DEF In
<1>5. parts \in Seq(Seq(Symbols)) /\ Len(parts) = N /\ \A n \in 1 .. N : parts[n] = Line(k.name, vs[n])
  <2> HIDE DEF parts
  <2> QED BY <1>2, <1>3, <1>4, SMT, SMTT(30)
<1>6. \A n \in 0 .. N : st[n] = Idle(sec, flags, In(n))
  BY Zenon
<1> HIDE DEF st, parts
<1>7. \A n \in 1 .. N : Reads(st[n - 1], parts[n], st[n])
  <2> TAKE n \in 1 .. N
  <2>1. n - 1 \in 0 .. N /\ n \in 0 .. N
    BY <1>2
  <2> QED BY <1>3, <1>5, <1>6, <2>1
<1>8. Flatten(parts) \in Seq(Symbols) /\ Reads(st[0], Flatten(parts), st[N])
  BY <1>5, <1>7, ReadsParts, Zenon
<1>9. In(0) = PutSection(f, sec, ks) /\ In(N) = PutSection(f, sec, Append(ks, k))
  BY <1>1, <1>2, Zenon DEF In, PutKey, Put
<1>10. 0 \in 0 .. N /\ N \in 0 .. N
  BY <1>2
<1>11. st[0] = Idle(sec, flags, PutSection(f, sec, ks))
       /\ st[N] = Idle(sec, flags, PutSection(f, sec, Append(ks, k)))
  BY <1>6, <1>9, <1>10, Zenon
<1>12. KeyText(k) = Flatten(parts)
  BY Zenon DEF KeyText, parts, vs
<1> QED BY <1>8, <1>11, <1>12, Zenon

\* The lines of a section.
SectionText(s) == Header(s.name) \o Flatten([k \in DOMAIN s.keys |-> KeyText(s.keys[k])]) \o <<"LF">>

\* A store with such names only.
AllWritable(p) ==
  \A s \in DOMAIN p : /\ ~Unwritable(p[s].name)
                      /\ \A k \in DOMAIN p[s].keys : ~Unwritable(p[s].keys[k].name)

\* The lines of a section add the section with all its keys.
LEMMA SectionReads ==
  ASSUME NEW flags \in Flags, NEW S, NEW f \in Seq(S), NEW s \in SectionsOf(flags),
         s.name \in Writable, \A k \in DOMAIN s.keys : s.keys[k].name \in Writable,
         New(f, s.name), NEW sec
  PROVE  /\ SectionText(s) \in Seq(Symbols)
         /\ Reads(Idle(sec, flags, f), SectionText(s), Idle(s.name, flags, Append(f, s)))
<1> DEFINE K == KeysOf(flags)
           ks == s.keys
           N == Len(ks)
           name == s.name
           In(n) == PutSection(f, name, SubSeq(ks, 1, n))
           st == [n \in 0 .. N |-> Idle(name, flags, In(n))]
           parts == [k \in DOMAIN ks |-> KeyText(ks[k])]
<1>1. ks \in Seq(K) /\ ks # <<>> /\ Distinct(ks) /\ s = [name |-> name, keys |-> ks]
  BY Zenon DEF SectionsOf, KeyLists
<1>2. /\ N \in Nat /\ DOMAIN ks = 1 .. N /\ SubSeq(ks, 1, 0) = <<>> /\ SubSeq(ks, 1, N) = ks
      /\ \A n \in 0 .. N : SubSeq(ks, 1, n) \in Seq(K)
      /\ \A n \in 1 .. N : /\ ks[n] \in K /\ n - 1 \in 0 .. N
                           /\ SubSeq(ks, 1, n) = Append(SubSeq(ks, 1, n - 1), ks[n])
  BY <1>1, Prefixes, Zenon
<1>3. name \in Names /\ name # <<>> /\ name \in Writable
  BY Zenon DEF Writable, Unwritable
<1>4. \A n \in 1 .. N : New(SubSeq(ks, 1, n - 1), ks[n].name) /\ ks[n].name \in Writable
  BY <1>1, <1>2, NewInPrefix, Zenon
<1>5. New(f, name)
  OBVIOUS
<1> HIDE DEF N, K, ks, name
<1>6. ASSUME NEW n \in 1 .. N
      PROVE  /\ KeyText(ks[n]) \in Seq(Symbols)
             /\ Reads(Idle(name, flags, In(n - 1)), KeyText(ks[n]), Idle(name, flags, In(n)))
  <2> DEFINE us == SubSeq(ks, 1, n - 1)
             k == ks[n]
  <2>1. k \in KeysOf(flags) /\ us \in Seq(K) /\ SubSeq(ks, 1, n) = Append(us, k)
        /\ k.name \in Writable /\ New(us, k.name)
    BY <1>2, <1>4, <1>6, Zenon DEF K
  <2> HIDE DEF us, k
  <2>2. KeyText(k) \in Seq(Symbols)
        /\ Reads(Idle(name, flags, PutSection(f, name, us)), KeyText(k),
                 Idle(name, flags, PutSection(f, name, Append(us, k))))
    BY <1>3, <1>5, <2>1, KeyReads, Zenon
  <2> QED BY <2>1, <2>2, Zenon DEF us, k
<1>7. parts = [n \in 1 .. N |-> KeyText(ks[n])]
  BY <1>2, Zenon
<1> HIDE DEF In
<1>8. parts \in Seq(Seq(Symbols)) /\ Len(parts) = N /\ \A n \in 1 .. N : parts[n] = KeyText(ks[n])
  <2> HIDE DEF parts
  <2> QED BY <1>2, <1>6, <1>7, SMT, SMTT(30)
<1>9. \A n \in 0 .. N : st[n] = Idle(name, flags, In(n))
  BY Zenon
<1> HIDE DEF st, parts
<1>10. \A n \in 1 .. N : Reads(st[n - 1], parts[n], st[n])
  <2> TAKE n \in 1 .. N
  <2>1. n - 1 \in 0 .. N /\ n \in 0 .. N
    BY <1>2
  <2> QED BY <1>6, <1>8, <1>9, <2>1
<1>11. Flatten(parts) \in Seq(Symbols) /\ Reads(st[0], Flatten(parts), st[N])
  BY <1>8, <1>10, ReadsParts, Zenon
<1>12. In(0) = f /\ In(N) = Append(f, s)
  BY <1>1, <1>2, Zenon DEF In, PutSection, Put
<1>13. 0 \in 0 .. N /\ N \in 0 .. N
  BY <1>2
<1>14. st[0] = Idle(name, flags, f) /\ st[N] = Idle(name, flags, Append(f, s))
  BY <1>9, <1>12, <1>13, Zenon
<1> DEFINE a == Idle(sec, flags, f)
           b == Idle(name, flags, f)
           c == Idle(name, flags, Append(f, s))
           h == Header(name)
           t == Flatten(parts)
           l == <<"LF">>
<1>15. h \in Seq(Symbols) /\ Reads(a, h, b)
  BY <1>3, HeaderReads
<1>16. l \in Seq(Symbols) /\ Reads(c, l, c)
  <2> DEFINE s0 == LexStart("idt")
             p == Append(f, s)
             e == <<>>
  <2>1. Step(s0, "LF") = s0 /\ s0.digits = "none" /\ s0.state # "END"
    <3>1. s0 = Lex("idt", "START", <<>>, 0, 0)
      BY Started, Zenon
    <3>2. Step(s0, "LF") = s0
      BY <3>1, HeaderSteps, Zenon
    <3> QED BY <3>2, Zenon DEF LexStart
  <2> HIDE DEF s0, p, e
  <2>2. Read(At(s0, name, e, flags, p), "LF") = At(s0, name, e, flags, p)
    BY <2>1, ReadsAt, SMT, SMTT(30)
  <2>3. Read(c, "LF") = c
    BY <2>2 DEF Idle, s0, p, e
  <2>4. l \in Seq(Symbols)
    BY DEF Symbols
  <2> HIDE DEF c
  <2> QED BY <2>3, <2>4, ReadsOne, Zenon
<1> HIDE DEF a, b, c, h, t, l
<1>17. t \in Seq(Symbols) /\ Reads(b, t, c)
  BY <1>11, <1>14, Zenon DEF b, c, t
<1> DEFINE w == h \o t
<1>18. w \in Seq(Symbols) /\ Reads(a, w, c)
  BY <1>15, <1>17, ReadsBoth
<1> HIDE DEF w
<1>19. w \o l \in Seq(Symbols) /\ Reads(a, w \o l, c)
  BY <1>16, <1>18, ReadsBoth
<1>20. SectionText(s) = w \o l
  BY Zenon DEF SectionText, w, h, t, l, parts, ks, name
<1> QED BY <1>19, <1>20, Zenon DEF a, c, name

\* A whole store.
LEMMA StoreReads ==
  ASSUME NEW flags \in Flags, NEW p \in StoresOf(flags), AllWritable(p)
  PROVE  /\ parser_write(p) \in Seq(Symbols)
         /\ \E sec : Reads(Opened(flags), parser_write(p), Idle(sec, flags, p))
<1> DEFINE S == SectionsOf(flags)
           N == Len(p)
           sec(n) == IF n = 0 THEN <<>> ELSE p[n].name
           In(n) == SubSeq(p, 1, n)
           st == [n \in 0 .. N |-> Idle(sec(n), flags, In(n))]
           parts == [s \in DOMAIN p |-> SectionText(p[s])]
<1>1. p \in Seq(S) /\ Distinct(p)
  BY Zenon DEF StoresOf
<1>2. /\ N \in Nat /\ DOMAIN p = 1 .. N /\ In(0) = <<>> /\ In(N) = p
      /\ \A n \in 0 .. N : In(n) \in Seq(S)
      /\ \A n \in 1 .. N : p[n] \in S /\ n - 1 \in 0 .. N /\ In(n) = Append(In(n - 1), p[n])
  BY <1>1, Prefixes, Zenon
<1>3. \A n \in 1 .. N : New(In(n - 1), p[n].name)
  BY <1>1, NewInPrefix, Zenon
<1> HIDE DEF N, S, In
<1>4. ASSUME NEW n \in 1 .. N
      PROVE  /\ SectionText(p[n]) \in Seq(Symbols)
             /\ Reads(Idle(sec(n - 1), flags, In(n - 1)), SectionText(p[n]), Idle(p[n].name, flags, In(n)))
  <2> DEFINE s == p[n]
             f == In(n - 1)
             d == sec(n - 1)
  <2>1. s \in SectionsOf(flags) /\ f \in Seq(S) /\ In(n) = Append(f, s) /\ New(f, s.name)
    BY <1>2, <1>3, <1>4, Zenon DEF S
  <2>2. ~Unwritable(s.name) /\ \A k \in DOMAIN s.keys : ~Unwritable(s.keys[k].name)
    BY <1>2, <1>4, Zenon DEF AllWritable
  <2> HIDE DEF s, f, d
  <2>3. s.name \in Names /\ \A k \in DOMAIN s.keys : s.keys[k].name \in Names
    <3>1. s.name \in Names /\ s.keys \in Seq(KeysOf(flags))
      BY <2>1, Zenon DEF SectionsOf, KeyLists
    <3>2. \A k \in DOMAIN s.keys : s.keys[k] \in KeysOf(flags)
      BY <3>1, Element, Zenon
    <3> QED BY <3>1, <3>2, Zenon DEF KeysOf
  <2>4. s.name \in Writable /\ \A k \in DOMAIN s.keys : s.keys[k].name \in Writable
    BY <2>2, <2>3, Zenon DEF Writable
  <2>5. SectionText(s) \in Seq(Symbols) /\ Reads(Idle(d, flags, f), SectionText(s), Idle(s.name, flags, Append(f, s)))
    BY <2>1, <2>4, SectionReads, Zenon
  <2> QED BY <2>1, <2>5 DEF s, f, d
<1>5. parts = [n \in 1 .. N |-> SectionText(p[n])]
  BY <1>2, Zenon
<1>6. parts \in Seq(Seq(Symbols)) /\ Len(parts) = N /\ \A n \in 1 .. N : parts[n] = SectionText(p[n])
  <2>1. N \in Nat /\ \A n \in 1 .. N : SectionText(p[n]) \in Seq(Symbols)
    BY <1>2, <1>4, Zenon
  <2> HIDE DEF parts
  <2> QED BY <1>5, <2>1
<1>7. \A n \in 0 .. N : st[n] = Idle(sec(n), flags, In(n))
  OBVIOUS
<1>8. \A n \in 1 .. N : sec(n) = p[n].name
  BY <1>2
<1>9. sec(0) = <<>>
  OBVIOUS
<1> HIDE DEF st, parts, sec
<1>10. \A n \in 1 .. N : Reads(st[n - 1], parts[n], st[n])
  <2> TAKE n \in 1 .. N
  <2>1. n - 1 \in 0 .. N /\ n \in 0 .. N
    BY <1>2
  <2> QED BY <1>4, <1>6, <1>7, <1>8, <2>1, Zenon
<1>11. Flatten(parts) \in Seq(Symbols) /\ Reads(st[0], Flatten(parts), st[N])
  BY <1>6, <1>10, ReadsParts, Zenon
<1>12. 0 \in 0 .. N /\ N \in 0 .. N
  BY <1>2
<1>13. st[0] = Opened(flags) /\ st[N] = Idle(sec(N), flags, p)
  <2>1. st[0] = Idle(<<>>, flags, <<>>) /\ st[N] = Idle(sec(N), flags, p)
    BY <1>2, <1>7, <1>9, <1>12, Zenon
  <2>2. Opened(flags) = Idle(<<>>, flags, <<>>)
    BY Zenon DEF Opened, Idle, At, No
  <2> QED BY <2>1, <2>2, Zenon
<1>14. parser_write(p) = Flatten(parts)
  BY Zenon DEF parser_write, parts, SectionText, Header, KeyText, Line
<1>15. parser_write(p) \in Seq(Symbols) /\ Reads(Opened(flags), parser_write(p), Idle(sec(N), flags, p))
  BY <1>11, <1>13, <1>14, Zenon
<1> QED BY <1>15, Zenon

\* parser_read gets from the file that parser_write has written the store that
\* was written.
LEMMA WrittenStore ==
  ASSUME NEW flags \in Flags, NEW p \in StoresOf(flags), AllWritable(p)
  PROVE  parser_read(parser_write(p) \o <<"EOF">>, flags).parser = p
<1> DEFINE w == parser_write(p)
           e == <<"EOF">>
<1>1. w \in Seq(Symbols)
  BY StoreReads, Zenon
<1>2. PICK sec : Reads(Opened(flags), w, Idle(sec, flags, p))
  BY StoreReads, Zenon
<1> DEFINE s == LexStart("idt")
           a == Idle(sec, flags, p)
           t == To(s, "END")
           z == Returned(a, t, "EOF")
<1>3. s.digits = "none" /\ s.fn = "idt" /\ s.state = "START" /\ s.r = 0
  BY DEF LexStart
<1>4. t.state = "END" /\ t.fn = "idt" /\ t.r = 0
  BY DEF To, LexStart
<1> HIDE DEF s, t
<1>5. Step(s, "EOF") = t
  <2>1. IdtStart(s, "EOF") = t
    BY DEF IdtStart, Comment, Blank, t
  <2> QED BY <1>3, <1>4, <2>1 DEF Step, IdtStep
<1>6. a = At(s, sec, <<>>, flags, p)
  BY Zenon DEF Idle, s
<1>7. Read(a, "EOF") = z
  <2> DEFINE k == <<>>
  <2> HIDE DEF k
  <2>1. Read(At(s, sec, k, flags, p), "EOF") = Returned(At(s, sec, k, flags, p), t, "EOF")
    BY <1>3, <1>4, <1>5, ReadsEnd
  <2> QED BY <1>6, <2>1, Zenon DEF k
<1>8. z.parser = p
  <2>1. Result(a, t) = a
    BY <1>4 DEF Result
  <2>2. \A l, x, n, k : Changed(a, l, x, n, k).parser = a.parser
    BY Zenon DEF Changed, Idle, At
  <2>3. z.parser = a.parser
    <3> DEFINE n == Result(a, t)
               l == LexStart(IF t.fn = "idt" /\ t.r = 2 THEN "value" ELSE "idt")
               x == "EOF" = "EOF"
               c == IF "EOF" = "EOF" THEN <<>> ELSE n.section
               k == IF n.lx.fn = "value" THEN <<>> ELSE n.key
    <3>1. z = Changed(n, l, x, c, k)
      <4> HIDE DEF a
      <4> QED BY ReturnedIs, Zenon
    <3> HIDE DEF n, l, x, c, k, a, z
    <3>2. n = a
      BY <2>1, Zenon DEF n
    <3> QED BY <2>2, <3>1, <3>2, Zenon
  <2>4. a.parser = p
    BY <1>6, AtParts
  <2> QED BY <2>3, <2>4, Zenon
<1> HIDE DEF w, a, z
<1>9. Reads(a, e, z) /\ e \in Seq(Symbols)
  BY <1>7, ReadsOne DEF Symbols
<1> HIDE DEF e
<1>10. Reads(Opened(flags), w \o e, z) /\ w \o e \in Seq(Symbols)
  BY <1>1, <1>2, <1>9, ReadsBoth DEF a
<1>11. parser_read(w \o e, flags) = z
  <2> DEFINE file == w \o e
  <2> HIDE DEF file
  <2>1. Reads(Opened(flags), file, z) /\ file \in Seq(Symbols)
    BY <1>10, Zenon DEF file
  <2>2. parser_read(file, flags) = z
    BY <2>1, ReadsFile, Zenon
  <2> QED BY <2>2, Zenon DEF file
<1> QED BY <1>8, <1>11, Zenon DEF w, e

\* What is in the store can be written and read back, unless a name of it is
\* one that parser_write cannot write.
LEMMA InvWritesBack ==
  ConfigInv => WritesBack
<1> SUFFICES ASSUME ConfigInv PROVE WritesBack
  OBVIOUS
<1>1. allow \in Flags /\ parser \in StoresOf(allow)
  BY ReaderFacts, Zenon DEF ConfigInv
<1>2. AllWritable(parser) => parser_read(parser_write(parser) \o <<"EOF">>, allow).parser = parser
  BY <1>1, WrittenStore, Zenon
<1> QED BY <1>2, Zenon DEF WritesBack, AllWritable, Writable

\* Once a file has been read, whatever it was, parser_read builds the same store
\* again from what parser_write writes of it, unless one of its names is
\* Unwritable.
THEOREM WrittenIsReadBack == Spec => []WritesBack
<1> QED BY ConfigInit, ConfigNext, InvWritesBack, PTL DEF Spec
=============================================================================
