------------------------------ MODULE ConfigIO ------------------------------
(***************************************************************************)
(* Reading and writing of configuration files (common/config_io.c), with   *)
(* the store of ConfigParser.                                              *)
(*                                                                         *)
(* The file is read symbol by symbol.  "LF" is a line feed, "CR" a         *)
(* carriage return, "SP" a blank, "NUL" the character 0 and "EOF" the end  *)
(* of the file; the other symbols are the characters themselves: "#" for   *)
(* both comment signs, "n", "r" and "t" for the letters, which behind a    *)
(* backslash stand for "LF", "CR" and "TAB", and "0" for the digits.  The  *)
(* record lx holds the local variables of nparser_get_next_idt or          *)
(* nparser_get_next_value, of which one is always running.                 *)
(***************************************************************************)
EXTENDS ConfigParser

CONSTANTS
  Files,  \* records: how a file begins, the symbols that may follow, the bound
          \* on their number, and the flags of the parser it is read with
  Wanted  \* the keys the program asks for

\* Symbols are strings, and "$" is no reference.
ASSUME FilesAssumption ==
  /\ \A f \in Files :
       /\ f.begin \in Seq(STRING) /\ f.rest \subseteq STRING /\ f.max \in Nat
       /\ f.flags \subseteq [default : BOOLEAN, empty : BOOLEAN]
  /\ "$" \notin DOMAIN KeyOf

VARIABLES
  lx,         \* the running lexer, see LexStart
  section,    \* sb_section
  key,        \* sb_idt while the value is read
  cr,         \* a carriage return has been read ahead
  allow,      \* the flags allow_default and allow_empty_value of the parser
  rest,       \* the symbols that may still come
  left,       \* how many
  atEnd       \* the file has been read

reading == <<lx, section, key, cr, allow, rest, left, atEnd>>
vars == <<parser, expansion, reading>>

Blank == {"SP", "TAB"}

Comment == {"#"}

EndOfLine == {"LF", "EOF"}

\* The letters of the escape sequences, and what they stand for.
Control == [n |-> "LF", r |-> "CR", t |-> "TAB"]

\* The characters a backslash protects.
Protected == {"\\", "\"", "#", "[", "]", "="}

\* A lexer: which function runs (fn), its state, buffer (sb, mark) and result
\* r, and the escape sequence whose digits it is reading (digits).
LexStart(fn) ==
  [fn |-> fn, state |-> "START", sb |-> <<>>, mark |-> 0, r |-> 0,
   digits |-> "none"]

To(s, state) == [s EXCEPT !.state = state]

Fail(s, state) == [s EXCEPT !.state = state, !.r = -1]

Push(s, x, state) == [s EXCEPT !.sb = Append(@, x), !.state = state]

\* strlib_rstrip: remove the trailing blanks behind the mark.
rstrip(s) ==
  LET kept == {i \in 0 .. Len(s.sb) : i = 0 \/ i <= s.mark \/ s.sb[i] \notin Blank}
  IN [s EXCEPT !.sb = SubSeq(@, 1, CHOOSE i \in kept : \A j \in kept : j <= i)]

\* char_unescape: what the symbol behind a backslash stands for.  "x" and "0"
\* begin a number whose digits are still to be read.
char_unescape(s, x, state) ==
  CASE x \in DOMAIN Control -> Push(s, Control[x], state)
    [] x \in Protected -> Push(s, x, state)
    [] x \in {"x", "0"} -> [To(s, state) EXCEPT !.digits = x]
    [] OTHER -> Push(Push(s, "\\", state), x, state)

\* The digits of "\x" (up to two) and of "\0" (up to three): with the digit 0
\* only, the number is 0.  Digits(s, x) is <<taken, s'>>: whether x was taken
\* as a digit, and the lexer after that.
Digits(s, x) ==
  LET zero == [s EXCEPT !.digits = "none", !.sb = Append(@, "NUL")]
      none == [s EXCEPT !.digits = "none", !.sb = @ \o <<"\\", "x">>]
  IN CASE s.digits = "none" -> <<FALSE, s>>
       [] s.digits = "x" /\ x # "0" -> <<FALSE, none>>
       [] s.digits \in {"x", "0"} /\ x = "0" -> <<TRUE, [s EXCEPT !.digits = IF @ = "x" THEN "x0" ELSE "00"]>>
       [] s.digits \in {"x0", "00"} /\ x = "0" -> <<TRUE, zero>>
       [] OTHER -> <<FALSE, zero>>

\* nparser_get_next_idt: one turn of the loop with the symbol x.
IdtStart(s, x) ==
  CASE x = "EOF" -> To(s, "END")
    [] x = "[" -> To(s, "BEGIN_SECTION")
    [] x \in Comment -> To(s, "COMMENT")
    [] x \in {"]", "="} -> Fail(s, "SKIP")
    [] x \in Blank \cup {"LF"} -> s
    [] OTHER -> Push(s, x, "READ_NAME")

IdtSection(s, x) ==
  CASE s.state \in {"BEGIN_SECTION", "READ_SECTION"} /\ x \in EndOfLine -> Fail(s, "END")
    [] s.state \in {"BEGIN_SECTION", "READ_SECTION"} /\ x \in Comment -> Fail(s, "SKIP")
    [] s.state = "BEGIN_SECTION" /\ x = "]" -> Fail(s, "SKIP")
    [] s.state = "BEGIN_SECTION" /\ x \in Blank -> s
    [] s.state = "READ_SECTION" /\ x = "\\" -> To(s, "READ_SECTION_ESC")
    [] s.state = "READ_SECTION" /\ x = "]" -> [To(s, "AFTER_SECTION") EXCEPT !.r = 1]
    [] s.state = "READ_SECTION_ESC" /\ x \in EndOfLine -> Fail(s, "END")
    [] s.state = "READ_SECTION_ESC" /\ x \notin EndOfLine -> char_unescape(s, x, "READ_SECTION")
    [] OTHER -> Push(s, x, "READ_SECTION")

IdtName(s, x) ==
  CASE x \in EndOfLine -> Fail(s, "END")
    [] s.state = "READ_NAME_ESC" /\ x \notin EndOfLine -> char_unescape(s, x, "READ_NAME")
    [] s.state = "READ_NAME" /\ x = "\\" -> To(s, "READ_NAME_ESC")
    [] s.state = "READ_NAME" /\ x \in Comment -> Fail(s, "SKIP")
    [] s.state = "READ_NAME" /\ x = "=" -> [To(s, "END") EXCEPT !.r = 2]
    [] OTHER -> Push(s, x, "READ_NAME")

\* The states that only wait for the end of the line.
IdtEndOfLine(s, x) ==
  CASE s.state = "COMMENT" /\ x = "LF" -> To(s, "START")
    [] x = "EOF" \/ (s.state # "COMMENT" /\ x = "LF") -> To(s, "END")
    [] s.state = "AFTER_SECTION" /\ x \in Comment -> To(s, "AFTER_COMMENT")
    [] s.state = "AFTER_SECTION" /\ x \notin Blank \cup Comment \cup EndOfLine -> To(s, "SKIP")
    [] OTHER -> s

IdtStep(s, x) ==
  LET t == CASE s.state = "START" -> IdtStart(s, x)
             [] s.state \in {"BEGIN_SECTION", "READ_SECTION", "READ_SECTION_ESC"} ->
                  IdtSection(s, x)
             [] s.state \in {"READ_NAME", "READ_NAME_ESC"} -> IdtName(s, x)
             [] OTHER -> IdtEndOfLine(s, x)
  IN IF t.state = "END" /\ t.r \in {1, 2} THEN rstrip(t) ELSE t

\* nparser_get_next_value: outside quotes, ...
ValPlain(s, x) ==
  CASE s.state = "START" /\ x \in EndOfLine -> To(s, "END")
    [] s.state = "START" /\ x \in Comment -> To(s, "COMMENT")
    [] s.state = "START" /\ x \in Blank -> s
    [] s.state = "START" /\ x = "\"" -> To(s, "IN_QUOTE")
    [] s.state = "IN_UNQUOTED" /\ x \in EndOfLine -> To(rstrip(s), "END")
    [] s.state = "IN_UNQUOTED" /\ x = "\"" -> To(rstrip(s), "IN_QUOTE")
    [] x = "\\" -> To(s, "IN_UNQUOTED_ESC")
    [] OTHER -> Push(s, x, "IN_UNQUOTED")

\* ... inside quotes, ...
ValQuoted(s, x) ==
  CASE x = "EOF" -> Fail(s, "END")
    [] x = "\"" -> [To(s, "START") EXCEPT !.mark = Len(s.sb)]
    [] x = "\\" -> To(s, "IN_QUOTE_ESC")
    [] OTHER -> Push(s, x, "IN_QUOTE")

\* ... and behind a backslash, where a line feed continues the line.
ValEscaped(s, x) ==
  CASE x = "EOF" -> Fail(s, "END")
    [] s.state = "IN_QUOTE_ESC" /\ x = "LF" -> To(s, "IN_QUOTE")
    [] s.state = "IN_UNQUOTED_ESC" /\ x = "LF" -> To(rstrip(s), "START")
    [] s.state = "IN_QUOTE_ESC" /\ x \notin EndOfLine -> char_unescape(s, x, "IN_QUOTE")
    [] OTHER -> char_unescape(s, x, "IN_UNQUOTED")

ValStep(s, x) ==
  CASE s.state \in {"START", "IN_UNQUOTED"} -> ValPlain(s, x)
    [] s.state = "IN_QUOTE" -> ValQuoted(s, x)
    [] s.state \in {"IN_QUOTE_ESC", "IN_UNQUOTED_ESC"} -> ValEscaped(s, x)
    [] OTHER -> IF x \in EndOfLine THEN To(s, "END") ELSE s

\* The string that C code sees in a buffer: it ends at the first 0.
CStr(sb) == SubSeq(sb, 1, Min({i \in 1 .. Len(sb) + 1 : i \in DOMAIN sb => sb[i] = "NUL"}) - 1)

\* parser_read when nparser_get_next_value has returned the value in s.
Value(rd, s) ==
  LET in == IF rd.section = <<>> /\ rd.allow.default THEN <<"DEFAULT">> ELSE rd.section
      refused == \/ s.r = -1
                 \/ ~rd.allow.empty /\ CStr(s.sb) = <<>>
                 \/ ~rd.allow.default /\ rd.section = <<>>
  IN IF refused THEN rd
     ELSE [rd EXCEPT !.section = in,
                     !.parser = parser_set(@, CStr(in), CStr(rd.key), CStr(s.sb))]

\* parser_read when a lexer has returned; at the end of the file the next
\* identifier is empty and the loop ends.
Returned(rd, s, x) ==
  LET n == CASE s.fn = "value" -> Value(rd, s)
             [] s.fn = "idt" /\ s.r = 1 -> [rd EXCEPT !.section = s.sb]
             [] s.fn = "idt" /\ s.r = 2 -> [rd EXCEPT !.key = s.sb]
             [] OTHER -> rd
  IN [n EXCEPT !.lx = LexStart(IF s.fn = "idt" /\ s.r = 2 THEN "value" ELSE "idt"),
               !.atEnd = x = "EOF",
               !.section = IF x = "EOF" THEN <<>> ELSE @,
               !.key = IF n.lx.fn = "value" THEN <<>> ELSE @]

\* The next symbol, with \r\n already turned into \n.
Feed(rd, x) ==
  LET d == Digits(rd.lx, x)
      s == IF rd.lx.fn = "idt" THEN IdtStep(d[2], x) ELSE ValStep(d[2], x)
  IN IF d[1] THEN [rd EXCEPT !.lx = d[2]]
     ELSE IF s.state = "END" THEN Returned(rd, s, x)
     ELSE [rd EXCEPT !.lx = s]

\* read_buf_next: \r\n is read as \n, which takes one symbol of look-ahead.
Read(rd, x) ==
  LET n == [rd EXCEPT !.cr = x = "CR"]
  IN CASE ~rd.cr /\ x = "CR" -> n
       [] rd.cr /\ x = "CR" -> Feed(n, "CR")
       [] rd.cr /\ x \notin {"CR", "LF"} -> Feed(Feed(n, "CR"), x)
       [] OTHER -> Feed(n, x)

\* parser_read on a whole file.
Opened(flags) ==
  [lx |-> LexStart("idt"), section |-> <<>>, key |-> <<>>, cr |-> FALSE,
   allow |-> flags, parser |-> <<>>, atEnd |-> FALSE]

parser_read(file, flags) ==
  LET after[i \in 0 .. Len(file)] ==
        IF i = 0 THEN Opened(flags) ELSE Read(after[i - 1], file[i])
  IN after[Len(file)]

\* MUTANT of char_escape: the backslash is written as it is.
char_escape_partly(x) ==
  IF x \in Protected \ {"\\"} THEN <<"\\", x>>
  ELSE LET letter == {l \in DOMAIN Control : Control[l] = x}
       IN IF letter = {} THEN <<x>> ELSE <<"\\", CHOOSE l \in letter : TRUE>>

char_escape(x) ==
  IF x \in Protected THEN <<"\\", x>>
  ELSE LET letter == {l \in DOMAIN Control : Control[l] = x}
       IN IF letter = {} THEN <<x>> ELSE <<"\\", CHOOSE l \in letter : TRUE>>

Escape(s) == Flatten([i \in DOMAIN s |-> char_escape(s[i])])

\* parser_write, without expansion of the values.
parser_write(p) ==
  LET Entry(name, v) ==
        <<"SP", "SP">> \o Escape(name) \o <<"SP", "=", "SP", "\"">> \o Escape(v) \o <<"\"", "LF">>
      Key(k) == Flatten([v \in DOMAIN k.values |-> Entry(k.name, k.values[v])])
      Section(s) == <<"[", "SP">> \o Escape(s.name) \o <<"SP", "]", "LF">>
                    \o Flatten([k \in DOMAIN s.keys |-> Key(s.keys[k])]) \o <<"LF">>
  IN Flatten([s \in DOMAIN p |-> Section(p[s])])
-----------------------------------------------------------------------------
Init ==
  /\ \E f \in Files : \E flags \in f.flags :
       LET rd == parser_read(f.begin, flags)
       IN /\ lx = rd.lx /\ section = rd.section /\ key = rd.key /\ cr = rd.cr
          /\ parser = rd.parser /\ allow = flags
          /\ rest = f.rest /\ left = f.max
  /\ atEnd = FALSE
  /\ InitExpansion

\* parser_read takes the next symbol of the file.
ReadSymbol(x) ==
  LET rd == Read([lx |-> lx, section |-> section, key |-> key, cr |-> cr,
                  allow |-> allow, parser |-> parser, atEnd |-> atEnd], x)
  IN /\ ~atEnd
     /\ lx' = rd.lx /\ section' = rd.section /\ key' = rd.key /\ cr' = rd.cr
     /\ parser' = rd.parser /\ atEnd' = rd.atEnd
     /\ UNCHANGED <<expansion, allow>>

ReadNext ==
  /\ left > 0 /\ left' = left - 1 /\ UNCHANGED rest
  /\ \E x \in rest : ReadSymbol(x)

ReadEOF == ReadSymbol("EOF") /\ rest' = {} /\ left' = 0

\* The caller of parser_read gets the values of the options it knows.
GetValue ==
  /\ atEnd /\ UNCHANGED reading
  /\ \E at \in Places(parser) :
       parser[at[1]].keys[at[2]].name \in Wanted /\ parser_get(at)

ExpandValue == Expand /\ UNCHANGED reading

Next == ReadNext \/ ReadEOF \/ GetValue \/ ExpandValue

Spec == Init /\ [][Next]_vars

\* The call of parser_get is one thread's straight-line code.
FairSpec == Spec /\ WF_vars(ExpandValue)
-----------------------------------------------------------------------------
\* A name that does not survive: nparser_get_next_idt takes the first character
\* of a name as it is, escaped or not, and strips blanks at its end, escaped or
\* not; and it finds no name at all where an empty one is written (a name that
\* begins with the character 0 is stored as one).
Unwritable(name) ==
  name = <<>> \/ Len(char_escape(Head(name))) = 2 \/ name[Len(name)] \in Blank

\* parser_write produces "a valid configuration file with the content of the
\* parser" (config_io.c:685): reading it gives the same sections, keys and
\* values, in order, whatever file was read first and with the same flags, so
\* long as no name is empty, begins with an escaped character or ends with a
\* blank.
WritesBack ==
  atEnd /\ target = <<>> /\ (\A s \in DOMAIN parser :
             /\ ~Unwritable(parser[s].name)
             /\ \A k \in DOMAIN parser[s].keys : ~Unwritable(parser[s].keys[k].name))
  => parser_read(parser_write(parser) \o <<"EOF">>, allow).parser = parser
=============================================================================
