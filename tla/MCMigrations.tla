---------------------------- MODULE MCMigrations -----------------------------
(***************************************************************************)
(* An instance of Migrations: two runners, each started twice, over three  *)
(* files.                                                                  *)
(***************************************************************************)
EXTENDS Migrations, TLC

CONSTANTS m1, m2

MCRunners == {m1, m2}
Symmetry == Permutations(MCRunners)
============================================================================
