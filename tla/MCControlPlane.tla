--------------------------- MODULE MCControlPlane ----------------------------
(***************************************************************************)
(* An instance of ControlPlane: two registrations and two runs of the seed *)
(* script, over one label, which is a host too, and the host it moves to.  *)
(***************************************************************************)
EXTENDS ControlPlane, TLC

CONSTANTS r1, r2, s1, s2

MCRequests == {r1, r2}
MCSeeds == {s1, s2}
MCLabels == {"shared"}
MCHosts == {"shared", "moved"}

Symmetry == Permutations(MCRequests) \cup Permutations(MCSeeds)
============================================================================
