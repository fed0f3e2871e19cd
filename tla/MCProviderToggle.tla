-------------------------- MODULE MCProviderToggle ---------------------------
(***************************************************************************)
(* An instance of ProviderToggle: the RLS inspection, which has texts of   *)
(* its own, and one other diagnostic, since the others are narrated alike. *)
(***************************************************************************)
EXTENDS ProviderToggle

MCOrder == <<"rls_debug", "slow_queries">>
============================================================================
