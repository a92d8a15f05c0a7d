---------------------------- MODULE ConfigParser ----------------------------
(***************************************************************************)
(* The store of common/config_parser.c and the expansion of ${key} in a    *)
(* value.                                                                  *)
(*                                                                         *)
(* A string is a sequence of symbols.  The symbols are characters, except  *)
(* that "{key}" is one symbol: the store treats it as an ordinary          *)
(* character unless it follows an unpaired "$".  The three lists of the    *)
(* code (sections, keys of a section, values of a key) are sequences; each *)
(* search tree indexes the list beside it and is left out.                 *)
(*                                                                         *)
(* parser_value_expand calls itself.  Its activations are a stack, and the *)
(* buffer and the flag it keeps in every value are shared by all of them.  *)
(***************************************************************************)
EXTENDS Integers, Sequences, FiniteSetsExt

CONSTANT KeyOf  \* the key that each "{key}" symbol names

VARIABLES
  parser,     \* the sections: a sequence of [name, keys], keys of [name, values]
  expanded,   \* the expanded buffer of each value, by its place in the store
  expanding,  \* the values whose expanding flag is set
  frames,     \* the activations of parser_value_expand, the running one last
  target      \* the value parser_get was last asked for, <<>> at first

expansion == <<expanded, expanding, frames, target>>

RecursionError == "[RECURSION ERROR]"

\* The position of the item called name in a list of named items, 0 if none.
Find(items, name) ==
  LET found == {i \in DOMAIN items : items[i].name = name}
  IN IF found = {} THEN 0 ELSE Min(found)

\* parser_section_add, parser_key_add: add or get an item.
Added(items, name, item) ==
  IF Find(items, name) # 0 THEN items ELSE Append(items, item)

\* parser_set with parser_section_add, parser_key_add and parser_value_add.
parser_set(p, section, key, value) ==
  LET sections == Added(p, section, [name |-> section, keys |-> <<>>])
      s == Find(sections, section)
      keys == Added(sections[s].keys, key, [name |-> key, values |-> <<>>])
      k == Find(keys, key)
  IN [sections EXCEPT ![s].keys = [keys EXCEPT ![k].values = Append(@, value)]]

\* The places <<section, key, value>> of all values.
Places(p) ==
  UNION {UNION {{<<s, k, v>> : v \in DOMAIN p[s].keys[k].values} :
                   k \in DOMAIN p[s].keys} : s \in DOMAIN p}

\* The raw string at a place.
Raw(p, at) == p[at[1]].keys[at[2]].values[at[3]]

\* parser_key_get and parser_value_get(-1, key): the last value of the key in
\* the section of at, or <<>>.
LastValue(p, at, key) ==
  LET keys == p[at[1]].keys
      k == Find(keys, key)
  IN IF k = 0 THEN <<>> ELSE <<at[1], k, Len(keys[k].values)>>

InitExpansion ==
  /\ expanded = [at \in {} |-> <<>>]
  /\ expanding = {} /\ frames = <<>> /\ target = <<>>

\* The activation fs[Len(fs)] calls parser_value_expand for the value at.
Call(fs, at, buffers) ==
  /\ expanded' = [a \in DOMAIN buffers \cup {at} |->
                    IF a = at THEN <<>> ELSE buffers[a]]
  /\ expanding' = expanding \cup {at}
  /\ frames' = Append(fs, [at |-> at, src |-> 1, escaped |-> FALSE])

\* parser_get with expand set: look the value up and expand it.
parser_get(at) ==
  /\ frames = <<>>
  /\ target' = at
  /\ Call(<<>>, at, expanded)
  /\ UNCHANGED parser

Top == frames[Len(frames)]

\* The activations below the running one: its callers.
Below(fs) == SubSeq(fs, 1, Len(fs) - 1)

\* The running activation goes on behind the symbol it is at.
Onward(escaped) ==
  Append(Below(frames), [Top EXCEPT !.src = @ + 1, !.escaped = escaped])

\* It appends to its buffer and goes on.
Emit(symbols, escaped) ==
  /\ expanded' = [expanded EXCEPT ![Top.at] = @ \o symbols]
  /\ frames' = Onward(escaped)
  /\ UNCHANGED <<parser, expanding, target>>

Symbol == Raw(parser, Top.at)[Top.src]

Running == frames # <<>> /\ Top.src <= Len(Raw(parser, Top.at))

\* One turn of the loop at a symbol that no "$" precedes.
ExpandPlain ==
  /\ Running /\ ~Top.escaped
  /\ IF Symbol = "$" THEN Emit(<<>>, TRUE) ELSE Emit(<<Symbol>>, FALSE)

\* MUTANT of ExpandReference: an unknown reference loses its "$".
ExpandReference_unknown ==
  /\ Running /\ Top.escaped /\ Symbol \in DOMAIN KeyOf
  /\ LET at == LastValue(parser, Top.at, KeyOf[Symbol])
     IN CASE at = <<>> -> Emit(<<Symbol>>, FALSE)
          [] at # <<>> /\ at \in expanding -> Emit(<<RecursionError>>, FALSE)
          [] OTHER -> Call(Onward(FALSE), at, expanded) /\ UNCHANGED <<parser, target>>

\* One turn at "{key}" behind a "$": the last value of the key is expanded in
\* a new activation, unless it is being expanded; an unknown key is kept.
ExpandReference ==
  /\ Running /\ Top.escaped /\ Symbol \in DOMAIN KeyOf
  /\ LET at == LastValue(parser, Top.at, KeyOf[Symbol])
     IN CASE at = <<>> -> Emit(<<"$", Symbol>>, FALSE)
          [] at # <<>> /\ at \in expanding -> Emit(<<RecursionError>>, FALSE)
          [] OTHER -> Call(Onward(FALSE), at, expanded) /\ UNCHANGED <<parser, target>>

\* One turn at any other symbol behind a "$".
ExpandEscaped ==
  /\ Running /\ Top.escaped /\ Symbol \notin DOMAIN KeyOf
  /\ Emit(IF Symbol = "$" THEN <<"$">> ELSE <<"$", Symbol>>, FALSE)

\* MUTANT of ExpandReturns: the expanding flag stays set.
ExpandReturns_flagged ==
  /\ frames # <<>> /\ ~Running
  /\ frames' = Below(frames)
  /\ expanded' = IF Len(frames) = 1 THEN expanded
                 ELSE [expanded EXCEPT ![frames[Len(frames) - 1].at] =
                         @ \o expanded[Top.at]]
  /\ UNCHANGED <<parser, expanding, target>>

\* End of the string: the flag is cleared and the caller, if it is itself an
\* activation, appends the buffer of this value to its own.
ExpandReturns ==
  /\ frames # <<>> /\ ~Running
  /\ frames' = Below(frames)
  /\ expanding' = expanding \ {Top.at}
  /\ expanded' = IF Len(frames) = 1 THEN expanded
                 ELSE [expanded EXCEPT ![frames[Len(frames) - 1].at] =
                         @ \o expanded[Top.at]]
  /\ UNCHANGED <<parser, target>>

Expand == ExpandPlain \/ ExpandReference \/ ExpandEscaped \/ ExpandReturns
-----------------------------------------------------------------------------
\* What a value means, independently of the loop: symbol i is escaped when an
\* odd number of "$" stands right before it.
Escaped(s, i) ==
  LET others == {j \in 0 .. i - 1 : j = 0 \/ s[j] # "$"}
      last == CHOOSE j \in others : \A k \in others : k <= j
  IN (i - 1 - last) % 2 = 1

\* What symbol i of the value at a place contributes, given what the values
\* mean that it may refer to.
Part(p, at, i, meanings) ==
  LET s == Raw(p, at)
      next == LastValue(p, at, KeyOf[s[i]])
  IN CASE s[i] = "$" -> IF Escaped(s, i) THEN <<"$">> ELSE <<>>
       [] s[i] # "$" /\ ~Escaped(s, i) -> <<s[i]>>
       [] s[i] # "$" /\ Escaped(s, i) /\ s[i] \notin DOMAIN KeyOf -> <<"$", s[i]>>
       [] s[i] # "$" /\ Escaped(s, i) /\ s[i] \in DOMAIN KeyOf ->
            IF next = <<>> THEN <<"$", s[i]>> ELSE meanings[next]

Parts(p, at, meanings) == [i \in 1 .. Len(Raw(p, at)) |-> Part(p, at, i, meanings)]

\* The first n of a sequence of strings, one behind the other, and all of them.
Joined(parts, n) ==
  LET upTo[i \in 0 .. n] == IF i = 0 THEN <<>> ELSE upTo[i - 1] \o parts[i]
  IN upTo[n]

Flatten(parts) == Joined(parts, Len(parts))

\* The meaning of each value where it is reached through the values open, a
\* function of open; a value that refers to itself is an error.
Meanings(p) ==
  LET meaning[open \in SUBSET Places(p)] ==
        [at \in Places(p) |->
           IF at \in open THEN <<RecursionError>>
           ELSE Flatten(Parts(p, at, meaning[open \cup {at}]))]
  IN meaning

Meaning(p, at) == Meanings(p)[{}][at]

\* parser_value_expand, with one shared buffer and flag per value and a string
\* it edits while it runs, returns what the value means: every reference to a
\* key of the section replaced by the meaning of its last value, "$$" by "$",
\* unknown references kept (config_parser.c:278) and cycles cut once.  Meanwhile
\* the flag is set in exactly the values that are being expanded.
ExpansionMeaning ==
  /\ expanding = {f.at : f \in Range(frames)}
  /\ frames = <<>> /\ target # <<>> => expanded[target] = Meaning(parser, target)

\* However the values of a section refer to each other, parser_value_expand
\* returns: the expanding flags stop every cycle, and are cleared for the
\* next call.
ExpansionReturns == (frames # <<>>) ~> (frames = <<>> /\ expanding = {})
=============================================================================
