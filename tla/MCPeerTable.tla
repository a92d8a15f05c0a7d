---------------------------- MODULE MCPeerTable ----------------------------
(* Values for the constants of PeerTable. *)
EXTENDS PeerTable, TLC

CONSTANTS v1, a1, a2

\* A peer that keeps its endpoint, and one whose endpoint changes.
FixedEndpoint == (v1 :> {a1})

MovingEndpoint == (v1 :> {a1, a2})

ObjSymmetry == Permutations(Obj)
=============================================================================
