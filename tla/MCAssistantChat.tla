-------------------------- MODULE MCAssistantChat ---------------------------
(***************************************************************************)
(* An instance of AssistantChat.  Requests share nothing but the selection *)
(* of the provider, which SetProvider changes at any time, so one request  *)
(* with the program's own three tool turns shows what any of them does.    *)
(***************************************************************************)
EXTENDS AssistantChat

CONSTANT c1

MCChats == {c1}
============================================================================
