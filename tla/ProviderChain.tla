---------------------------- MODULE ProviderChain -----------------------------
(***************************************************************************)
(* What asking language models for an answer amounts to, whoever asks      *)
(* (providers.py names the chat and the narration of a scan): a walk along *)
(* the providers chosen when it began, the preferred ones first, each of   *)
(* them once, up to the first that answers.  There are no queues here, no  *)
(* tool calls and no selection that changes.  AssistantChat implements     *)
(* this module with a walk per request, Narration with one per diagnostic. *)
(***************************************************************************)
EXTENDS Naturals

CONSTANTS Walks,
          Providers,
          Rank          \* the place of a provider in the order of preference

VARIABLE walk           \* the stage of each walk, who was chosen, who failed,
                        \* and who answered

Is(stage, chosen, failed, by) ==
    [stage |-> stage, chosen |-> chosen, failed |-> failed, by |-> by]

NotBegun == Is("idle", {}, {}, "nobody")
Dropped == Is("dropped", {}, {}, "nobody")

Init == walk = [w \in Walks |-> NotBegun]

(* A walk that has a provider left is asking it; one that has none is over. *)
Going(chosen, failed) ==
    Is(IF failed = chosen THEN "exhausted" ELSE "asking", chosen, failed, "nobody")

Becomes(w, r) == walk' = [walk EXCEPT ![w] = r]

Begin(w) ==
    /\ walk[w].stage = "idle"
    /\ \E P \in SUBSET Providers : Becomes(w, Going(P, {}))

(* Whom a walk is asking. *)
Asked(w, p) ==
    /\ walk[w].stage = "asking"
    /\ p \in walk[w].chosen \ walk[w].failed
    /\ \A q \in walk[w].chosen \ walk[w].failed : Rank[p] <= Rank[q]

Fail(w) ==
    \E p \in Providers :
        /\ Asked(w, p)
        /\ Becomes(w, Going(walk[w].chosen, walk[w].failed \cup {p}))

Answer(w) ==
    \E p \in Providers :
        /\ Asked(w, p)
        /\ Becomes(w, Is("answered", walk[w].chosen, walk[w].failed, p))

(* Whoever asked has no use for the walk, before it begins or after its end. *)
Drop(w) ==
    /\ walk[w].stage # "asking"
    /\ Becomes(w, Dropped)

Next == \E w \in Walks : Begin(w) \/ Fail(w) \/ Answer(w) \/ Drop(w)

Spec == Init /\ [][Next]_walk
============================================================================
