---------------------------- MODULE MCRendezvous ----------------------------
(* Values for the constants of Rendezvous. *)
EXTENDS Rendezvous

CONSTANTS c1, c2

\* The two clients are in different networks.
TwoNetworks == [c \in {c1, c2} |-> [ip |-> c, port |-> 1]]
=============================================================================
