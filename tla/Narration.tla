------------------------------ MODULE Narration ------------------------------
(***************************************************************************)
(* The words around a scan: run_full_scan asks for a narration of each     *)
(* diagnostic that came back, generate_ai_explanation tries the providers  *)
(* of the chain selected at that moment, and PUT /assistant/provider may   *)
(* select others while the scan runs.  The verdicts are Python's; here is  *)
(* who wrote the text beside one, and whose name it is signed with.  What  *)
(* a text says is left out.                                                *)
(***************************************************************************)
EXTENDS Naturals, Sequences

CONSTANTS
    Order,          \* the modules of a scan
    MaxSwitches     \* bound on the changes of the selection

Modules == {"vacuum_wraparound", "rls_debug", "connection_health", "storage_audit",
            "slow_queries"}

ASSUME OrderAssumption ==
    /\ Order \in Seq(Modules)
    /\ \A i, j \in DOMAIN Order : Order[i] = Order[j] => i = j
ASSUME SwitchesAssumption == MaxSwitches \in Nat

Providers == {"gemini", "ollama"}
Selections == Providers \cup {"auto", "none"}

VARIABLES
    configured,     \* settings.llm_provider, any name
    override,       \* _runtime_override, "unset" when it is None
    switches,
    at,             \* "diagnose", or "narrate" while a provider is being asked
    chain,          \* providers left to try; the first one is being asked
    asked,          \* the providers of the chain as it was built
    failed,         \* those that raised or answered nothing
    results,        \* DiagnosticSummary objects, in order
    measured        \* the modules whose diagnostic came back

selection == <<configured, override, switches>>
vars == <<selection, at, chain, asked, failed, results, measured>>

(* by: who wrote ai_explanation, which is None when nobody did.  A text the  *)
(* program wrote itself has no provider.  tried, given_up: the chain and its *)
(* failures.                                                                 *)
Results == [module : Modules, verdict : {"measured", "no_tables", "failed"},
            ai_provider : Providers \cup {"null"}, by : Providers \cup {"program", "nobody"},
            tried : SUBSET Providers, given_up : SUBSET Providers]

(* configured_provider_name, and provider_chain: an unknown name is auto. *)
Selection == IF override # "unset" THEN override ELSE configured
Chain ==
    IF Selection = "none" THEN <<>>
    ELSE IF Selection \in Providers THEN <<Selection>>
    ELSE <<"gemini", "ollama">>

Names(c) == {c[i] : i \in DOMAIN c}

Init ==
    /\ configured \in Selections \cup {"unknown"}
    /\ override = "unset"
    /\ switches = 0
    /\ at = "diagnose"
    /\ chain = <<>>
    /\ asked = {}
    /\ failed = {}
    /\ results = <<>>
    /\ measured = {}

---------------------------------------------------------------------------
Unfinished == Len(results) < Len(Order)
Module == Order[Len(results) + 1]

(* The result of the module under way; at is "diagnose" for the next one. *)
Finish(verdict, by, tried, given_up) ==
    /\ at' = "diagnose"
    /\ chain' = <<>>
    /\ asked' = {}
    /\ failed' = {}
    /\ results' = Append(results,
          [module |-> Module, verdict |-> verdict,
           ai_provider |-> IF by \in Providers THEN by ELSE "null", by |-> by,
           tried |-> tried, given_up |-> given_up])

(* Ask the next provider; without one the module stays without a narration. *)
Ask(left, all, gaveUp) ==
    \/ /\ left # <<>>
       /\ at' = "narrate"
       /\ chain' = left
       /\ asked' = all
       /\ failed' = gaveUp
       /\ UNCHANGED results
    \/ /\ left = <<>>
       /\ Finish("measured", "nobody", all, gaveUp)

(* The diagnostic and its analyzer come back, and the chain is built. *)
Diagnose ==
    /\ at = "diagnose"
    /\ Unfinished
    /\ measured' = measured \cup {Module}
    /\ Ask(Chain, Names(Chain), {})
    /\ UNCHANGED selection

(* The RLS inspection is the one with a text of its own for a failure, and   *)
(* for a schema without tables.                                              *)
DiagnosticRaises ==
    /\ at = "diagnose"
    /\ Unfinished
    /\ IF Module = "rls_debug"
       THEN Finish("failed", "program", {}, {})
       ELSE Finish("failed", "nobody", {}, {})
    /\ UNCHANGED <<selection, measured>>

NoTables ==
    /\ at = "diagnose"
    /\ Unfinished
    /\ Module = "rls_debug"
    /\ Finish("no_tables", "program", {}, {})
    /\ UNCHANGED <<selection, measured>>

(* Fault: the text is signed with the provider that is preferred. *)
AnswerSignedByPreferred ==
    /\ at = "narrate"
    /\ at' = "diagnose" /\ chain' = <<>> /\ asked' = {} /\ failed' = {}
    /\ results' = Append(results,
          [module |-> Module, verdict |-> "measured",
           ai_provider |-> IF "gemini" \in asked THEN "gemini" ELSE "ollama",
           by |-> Head(chain), tried |-> asked, given_up |-> failed])
    /\ UNCHANGED <<selection, measured>>

Answer ==
    /\ at = "narrate"
    /\ Finish("measured", Head(chain), asked, failed)
    /\ UNCHANGED <<selection, measured>>

(* Fault: the chain is built again for every attempt. *)
ProviderFailsAndReselects ==
    /\ at = "narrate"
    /\ LET gaveUp == failed \cup {Head(chain)} IN
       Ask(SelectSeq(Chain, LAMBDA p : p \notin gaveUp), asked, gaveUp)
    /\ UNCHANGED <<selection, measured>>

(* Fault: the exception reaches the handler of the diagnostic. *)
ProviderFailsTheModule ==
    /\ at = "narrate"
    /\ Finish("failed", "nobody", asked, failed \cup {Head(chain)})
    /\ UNCHANGED <<selection, measured>>

(* Fault: a provider that failed is put at the end of the chain. *)
ProviderFailsRotates ==
    /\ at = "narrate"
    /\ Ask(Append(Tail(chain), Head(chain)), asked, failed)
    /\ UNCHANGED <<selection, measured>>

(* It raises, or what it answers is empty. *)
ProviderFails ==
    /\ at = "narrate"
    /\ Ask(Tail(chain), asked, failed \cup {Head(chain)})
    /\ UNCHANGED <<selection, measured>>

SetProvider(o) ==
    /\ switches < MaxSwitches
    /\ override' = o
    /\ switches' = switches + 1
    /\ UNCHANGED <<configured, at, chain, asked, failed, results, measured>>

ScanStep ==
    \/ Diagnose \/ DiagnosticRaises \/ NoTables
    \/ Answer \/ ProviderFails

Next == ScanStep \/ \E o \in Selections : SetProvider(o)

Spec == Init /\ [][Next]_vars

---------------------------------------------------------------------------
(* Every variable has its type. *)
TypeOK ==
    /\ configured \in Selections \cup {"unknown"}
    /\ override \in Selections \cup {"unset"}
    /\ switches \in 0..MaxSwitches
    /\ at \in {"diagnose", "narrate"}
    /\ chain \in Seq(Providers)
    /\ asked \in SUBSET Providers
    /\ failed \in SUBSET Providers
    /\ results \in Seq(Results)
    /\ measured \in SUBSET Modules

(* "Storing the provider makes the label a fact rather than an assumption"   *)
(* (migration 004), with "Gemini returning 401 while Ollama answers" and a   *)
(* selection that changes meanwhile: a text is signed by the provider that   *)
(* wrote it, which is the first of the chain selected when its diagnostic    *)
(* came back that had something to say; there is no text only if every one   *)
(* of that chain was asked and failed.                                       *)
NarrationIsSigned ==
    \A i \in DOMAIN results :
        LET r == results[i] IN
        /\ r.ai_provider = IF r.by \in Providers THEN r.by ELSE "null"
        /\ r.verdict = "measured" =>
              /\ r.given_up \subseteq r.tried
              /\ r.by = "nobody" => r.given_up = r.tried
              /\ r.by \in Providers => r.by \in r.tried \ r.given_up
              /\ r.by = "ollama" /\ "gemini" \in r.tried => "gemini" \in r.given_up

(* "The diagnostic result itself is unaffected -- only narration failed"     *)
(* (runner.py): the verdict of a diagnostic that came back stands whatever   *)
(* the providers do, though both are awaited inside the same try, whose      *)
(* handler would report the diagnostic as failed.                            *)
VerdictStands ==
    \A i \in DOMAIN results :
        results[i].verdict = "measured" <=> results[i].module \in measured

---------------------------------------------------------------------------
(* Narration implements ProviderChain, with a walk for each module: it is    *)
(* dropped for a diagnostic without a narration to ask for.                  *)
Preference == [p \in Providers |-> IF p = "gemini" THEN 1 ELSE 2]

Walk(i) ==
    LET Empty(stage) == [stage |-> stage, chosen |-> {}, failed |-> {}, by |-> "nobody"]
    IN  IF i \in DOMAIN results
        THEN LET r == results[i] IN
             IF r.verdict # "measured" THEN Empty("dropped")
             ELSE [stage |-> IF r.by = "nobody" THEN "exhausted" ELSE "answered",
                   chosen |-> r.tried, failed |-> r.given_up, by |-> r.by]
        ELSE IF i = Len(results) + 1 /\ at = "narrate"
        THEN [stage |-> "asking", chosen |-> asked, failed |-> failed, by |-> "nobody"]
        ELSE Empty("idle")

Session == INSTANCE ProviderChain
              WITH Walks <- DOMAIN Order, Rank <- Preference, walk <- [i \in DOMAIN Order |-> Walk(i)]

(* Every narration walks the chain that was selected when its diagnostic     *)
(* came back, whatever is selected while it does (runner.py), and is final:  *)
(* no later module, and no selection, changes who answered.                  *)
ImplementsProviderChain == Session!Spec

---------------------------------------------------------------------------
(* Only a request to Ollama is sure to end: its httpx client gives up after  *)
(* 120 seconds without a byte.  The Gemini client has no timeout, and no     *)
(* statement of a diagnostic has one.                                        *)
AsksOllama == at = "narrate" /\ Head(chain) = "ollama"

(* Every module of a scan gets its result, unless one diagnostic or one      *)
(* request to Gemini never comes back: a provider that fails, or fails for   *)
(* every module, does not hold the scan.                                     *)
EveryModuleIsNarratedOrHangs ==
    <>(\/ Len(results) = Len(Order)
       \/ [](at = "diagnose")
       \/ [](at = "narrate" /\ Head(chain) = "gemini"))
============================================================================
