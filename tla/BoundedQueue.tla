----------------------------- MODULE BoundedQueue -----------------------------
(***************************************************************************)
(* What a FIFO BIO promises its users: a bounded first-in first-out queue. *)
(* An item is accepted only when there is room, the reader gets the oldest *)
(* item, and every accepted item is delivered once.                        *)
(***************************************************************************)
EXTENDS Naturals, Sequences

CONSTANTS Size, Item, NoItem

VARIABLES
  q,    \* the items accepted and not yet delivered
  out   \* the item delivered last

Init == q = << >> /\ out = NoItem

Put(x) == Len(q) < Size /\ q' = Append(q, x) /\ UNCHANGED out

Get == q # << >> /\ out' = Head(q) /\ q' = Tail(q)

Next == Get \/ \E x \in Item : Put(x)

Spec == Init /\ [][Next]_<<q, out>>
=============================================================================
