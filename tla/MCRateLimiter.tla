--------------------------- MODULE MCRateLimiter ---------------------------
(***************************************************************************)
(* Model checking of RateLimiter: the writing thread of a peer with a      *)
(* limit of its own and a thread that shares one or both of its buckets.   *)
(***************************************************************************)
EXTENDS RateLimiter, TLC

CONSTANTS write1, write2, peer1, process

MCPath == (write1 :> <<peer1, process>>) @@ (write2 :> <<peer1, process>>)

MCSize == [b \in Buckets |-> IF b = process THEN 4 ELSE 3]
MCNum == [b \in Buckets |-> 1]
MCDen == [b \in Buckets |-> IF b = process THEN 2 ELSE 3]
=============================================================================
