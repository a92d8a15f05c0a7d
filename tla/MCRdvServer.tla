---------------------------- MODULE MCRdvServer ----------------------------
(* Values for the constants of RdvServer. *)
EXTENDS RdvServer, TLC

\* Two endpoints behind the same NAT and a third one elsewhere.
ThreeEndpoints ==
  {[ip |-> "nat", port |-> 1], [ip |-> "nat", port |-> 2], [ip |-> "far", port |-> 1]}

ObjSymmetry == Permutations(Obj)
=============================================================================
