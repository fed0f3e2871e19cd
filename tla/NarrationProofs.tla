-------------------------- MODULE NarrationProofs ---------------------------
(***************************************************************************)
(* What is true of narrations whatever the modules of a scan, however      *)
(* often the selection changes, and whatever a page does with it: the      *)
(* toggle only takes steps of Narration, so what is proved there holds     *)
(* with the page as well; and what the page shows, by an invariant about   *)
(* the answer that is on its way.  Each narration walks along its chain as *)
(* ProviderChain says, three steps a module at most.                       *)
(***************************************************************************)
EXTENDS ProviderToggle, TLAPS

(* What a provider that is being asked follows after. *)
Asking ==
    at = "narrate" =>
        /\ Unfinished
        /\ \/ chain = <<"gemini", "ollama">> /\ asked = Providers /\ failed = {}
           \/ chain = <<"ollama">> /\ asked = Providers /\ failed = {"gemini"}
           \/ chain = <<"gemini">> /\ asked = {"gemini"} /\ failed = {}
           \/ chain = <<"ollama">> /\ asked = {"ollama"} /\ failed = {}

(* Results are those of the first modules, and the diagnostics that came     *)
(* back are those with a verdict and the one being narrated.                 *)
InOrder ==
    /\ Len(results) <= Len(Order)
    /\ \A i \in DOMAIN results : results[i].module = Order[i]
    /\ \A i \in DOMAIN Order :
          Order[i] \in measured <=>
             \/ i \in DOMAIN results /\ results[i].verdict = "measured"
             \/ i = Len(results) + 1 /\ at = "narrate"

NarrationInv == TypeOK /\ Asking /\ InOrder /\ NarrationIsSigned

(* The first result that fits what NarrationIsSigned says of each. *)
Signed(r) ==
    /\ r.ai_provider = IF r.by \in Providers THEN r.by ELSE "null"
    /\ r.verdict = "measured" =>
          /\ r.given_up \subseteq r.tried
          /\ r.by = "nobody" => r.given_up = r.tried
          /\ r.by \in Providers => r.by \in r.tried \ r.given_up
          /\ r.by = "ollama" /\ "gemini" \in r.tried => "gemini" \in r.given_up

Result(verdict, by, tried, given_up) ==
    [module |-> Module, verdict |-> verdict,
     ai_provider |-> IF by \in Providers THEN by ELSE "null", by |-> by,
     tried |-> tried, given_up |-> given_up]

---------------------------------------------------------------------------
(* No result, and nothing measured. *)
LEMMA NarrationInitInv == Init => NarrationInv
  <1>. SUFFICES ASSUME Init PROVE NarrationInv
    OBVIOUS
  <1>. USE OrderAssumption, SwitchesAssumption DEF Init
  <1>1. TypeOK
    <2>1. switches \in 0..MaxSwitches
      OBVIOUS
    <2>. QED  BY <2>1 DEF TypeOK
  <1>2. Asking /\ InOrder /\ NarrationIsSigned
    BY DEF Asking, InOrder, NarrationIsSigned
  <1>. QED  BY <1>1, <1>2 DEF NarrationInv

(* The diagnostic that is running is one of the five. *)
LEMMA ModuleIsOne == Unfinished /\ results \in Seq(Results) =>
                        /\ Len(results) + 1 \in DOMAIN Order
                        /\ Module \in Modules
  BY OrderAssumption DEF Unfinished, Module

(* A module that gets its result. *)
LEMMA FinishInv ==
  ASSUME NarrationInv, Unfinished, UNCHANGED selection,
         NEW verdict \in {"measured", "no_tables", "failed"},
         NEW by \in Providers \cup {"program", "nobody"},
         NEW tried \in SUBSET Providers, NEW gaveUp \in SUBSET Providers,
         Finish(verdict, by, tried, gaveUp),
         measured' = IF verdict = "measured" THEN measured \cup {Module} ELSE measured,
         at = "narrate" => verdict = "measured",
         Signed(Result(verdict, by, tried, gaveUp))
  PROVE  NarrationInv'
  <1>. DEFINE r == Result(verdict, by, tried, gaveUp)
              n == Len(results)
  <1>. results \in Seq(Results) /\ n \in Nat /\ n + 1 \in DOMAIN Order /\ Module \in Modules
    BY ModuleIsOne DEF NarrationInv, TypeOK
  <1>1. r \in Results /\ r.module = Module /\ r.verdict = verdict
    BY DEF Result, Results
  <1>2. results' = Append(results, r) /\ at' = "diagnose"
    BY DEF Finish, Result
  <1>3. /\ results' \in Seq(Results) /\ Len(results') = n + 1
        /\ DOMAIN results' = 1..(n + 1) /\ DOMAIN results = 1..n
        /\ results'[n + 1] = r /\ \A i \in 1..n : results'[i] = results[i]
    BY <1>1, <1>2
  <1>4. TypeOK'
    BY <1>3 DEF NarrationInv, TypeOK, Finish, selection
  <1>5. Asking'
    BY <1>2 DEF Asking
  <1>6. InOrder'
    <2>1. Len(results') <= Len(Order)
      BY <1>3, OrderAssumption DEF Unfinished
    <2>2. \A i \in DOMAIN results' : results'[i].module = Order[i]
      BY <1>1, <1>3 DEF NarrationInv, InOrder, Module
    <2>3. ASSUME NEW i \in DOMAIN Order
          PROVE  Order[i] \in measured' <=>
                    \/ i \in DOMAIN results' /\ results'[i].verdict = "measured"
                    \/ i = Len(results') + 1 /\ at' = "narrate"
      <3>1. Order[i] = Module <=> i = n + 1
        BY OrderAssumption DEF Module
      <3>2. CASE i = n + 1
        <4>1. Order[i] \in measured' <=> verdict = "measured"
          BY <3>1, <3>2 DEF NarrationInv, InOrder
        <4>. QED  BY <1>1, <1>2, <1>3, <3>2, <4>1
      <3>3. CASE i # n + 1
        <4>1. Order[i] \in measured' <=> Order[i] \in measured
          BY <3>1, <3>3
        <4>2. i \in DOMAIN results' <=> i \in DOMAIN results
          BY <1>3, <3>3, OrderAssumption
        <4>. QED  BY <1>2, <1>3, <3>3, <4>1, <4>2 DEF NarrationInv, InOrder
      <3>. QED  BY <3>2, <3>3
    <2>. QED  BY <2>1, <2>2, <2>3 DEF InOrder
  <1>7. NarrationIsSigned'
    BY <1>3 DEF NarrationInv, NarrationIsSigned, Signed
  <1>. QED  BY <1>4, <1>5, <1>6, <1>7 DEF NarrationInv

(* A provider that is asked. *)
LEMMA AskedInv ==
  ASSUME NarrationInv, Unfinished, UNCHANGED <<selection, results>>,
         at' = "narrate", Asking', chain' \in Seq(Providers),
         measured' = measured \cup {Module}
  PROVE  NarrationInv'
  <1>. results \in Seq(Results) /\ Len(results) + 1 \in DOMAIN Order /\ Module \in Modules
    BY ModuleIsOne DEF NarrationInv, TypeOK
  <1>1. TypeOK'
    BY DEF NarrationInv, TypeOK, selection, Asking, Providers
  <1>2. InOrder'
    <2>1. \A i \in DOMAIN Order : Order[i] = Module <=> i = Len(results) + 1
      BY OrderAssumption DEF Module
    <2>. QED  BY <2>1, OrderAssumption DEF NarrationInv, InOrder
  <1>. QED  BY <1>1, <1>2 DEF NarrationInv, NarrationIsSigned

(* A diagnostic's verdict. *)
LEMMA DiagnoseInv == NarrationInv /\ Diagnose => NarrationInv'
  <1>. SUFFICES ASSUME NarrationInv, Diagnose PROVE NarrationInv'
    OBVIOUS
  <1>1. Unfinished /\ UNCHANGED selection /\ measured' = measured \cup {Module}
    BY DEF Diagnose
  <1>2. CASE Chain = <<>>
    <2>1. Names(Chain) = {}
      BY <1>2 DEF Names
    <2>2. Finish("measured", "nobody", {}, {})
      BY <1>2, <2>1 DEF Diagnose, Ask
    <2>3. Signed(Result("measured", "nobody", {}, {}))
      BY DEF Signed, Result, Providers
    <2>. QED  BY <1>1, <2>2, <2>3, FinishInv
  <1>3. CASE Chain # <<>>
    <2>1. /\ at' = "narrate" /\ chain' = Chain /\ asked' = Names(Chain) /\ failed' = {}
          /\ UNCHANGED results
      BY <1>3 DEF Diagnose, Ask
    <2>2. Chain \in {<<"gemini">>, <<"ollama">>, <<"gemini", "ollama">>}
      BY <1>3 DEF Chain, Selection, Providers
    <2>3. Names(<<"gemini">>) = {"gemini"} /\ Names(<<"ollama">>) = {"ollama"}
          /\ Names(<<"gemini", "ollama">>) = Providers
      BY DEF Names, Providers
    <2>4. chain' \in Seq(Providers)
      <3>1. /\ <<"gemini">> \in Seq(Providers) /\ <<"ollama">> \in Seq(Providers)
            /\ <<"gemini", "ollama">> \in Seq(Providers)
        BY DEF Providers
      <3>. QED  BY <2>1, <2>2, <3>1
    <2>5. Unfinished'
      BY <1>1, <2>1 DEF Unfinished
    <2>6. Asking'
      BY <2>1, <2>2, <2>3, <2>5 DEF Asking, Providers
    <2>. QED  BY <1>1, <2>1, <2>4, <2>6, AskedInv
  <1>. QED  BY <1>2, <1>3

(* A provider that fails hands on to the next, or to the canned text. *)
LEMMA ProviderFailsInv == NarrationInv /\ ProviderFails => NarrationInv'
  <1>. SUFFICES ASSUME NarrationInv, ProviderFails PROVE NarrationInv'
    OBVIOUS
  <1>1. /\ at = "narrate" /\ Unfinished /\ UNCHANGED <<selection, measured>>
        /\ Ask(Tail(chain), asked, failed \cup {Head(chain)})
    BY DEF ProviderFails, NarrationInv, Asking
  <1>2. measured = measured \cup {Module}
    <2>1. Len(results) + 1 \in DOMAIN Order
      BY <1>1, ModuleIsOne DEF NarrationInv, TypeOK
    <2>. QED  BY <1>1, <2>1 DEF NarrationInv, InOrder, Module
  <1>3. CASE chain = <<"gemini", "ollama">>
    <2>1. Head(chain) = "gemini" /\ Tail(chain) = <<"ollama">> /\ Tail(chain) # <<>>
      BY <1>3
    <2>2. asked = Providers /\ failed = {}
      BY <1>1, <1>3 DEF NarrationInv, Asking
    <2>3. /\ at' = "narrate" /\ chain' = <<"ollama">> /\ asked' = Providers
          /\ failed' = {"gemini"} /\ UNCHANGED results
      BY <1>1, <2>1, <2>2 DEF Ask
    <2>4. Asking' /\ chain' \in Seq(Providers)
      BY <1>1, <2>3 DEF Asking, Unfinished, Providers
    <2>. QED  BY <1>1, <1>2, <2>3, <2>4, AskedInv
  <1>4. CASE chain \in {<<"gemini">>, <<"ollama">>}
    <2>1. Tail(chain) = <<>> /\ failed \cup {Head(chain)} = asked
      <3>1. CASE chain = <<"gemini">>
        <4>1. Head(chain) = "gemini" /\ Tail(chain) = <<>> /\ chain[1] = "gemini"
          BY <3>1
        <4>. QED  BY <1>1, <3>1, <4>1 DEF NarrationInv, Asking, Providers
      <3>2. CASE chain = <<"ollama">>
        <4>1. Head(chain) = "ollama" /\ Tail(chain) = <<>> /\ Len(chain) = 1
          BY <3>2
        <4>. QED  BY <1>1, <3>2, <4>1 DEF NarrationInv, Asking, Providers
      <3>. QED  BY <1>4, <3>1, <3>2
    <2>2. Finish("measured", "nobody", asked, asked)
      BY <1>1, <2>1 DEF Ask
    <2>3. asked \in SUBSET Providers
      BY DEF NarrationInv, TypeOK
    <2>4. Signed(Result("measured", "nobody", asked, asked))
      BY DEF Signed, Result, Providers
    <2>. QED  BY <1>1, <1>2, <2>2, <2>3, <2>4, FinishInv
  <1>. QED  BY <1>1, <1>3, <1>4 DEF NarrationInv, Asking

(* A provider that answers signs. *)
LEMMA AnswerInv == NarrationInv /\ Answer => NarrationInv'
  <1>. SUFFICES ASSUME NarrationInv, Answer PROVE NarrationInv'
    OBVIOUS
  <1>1. /\ at = "narrate" /\ Unfinished /\ UNCHANGED <<selection, measured>>
        /\ Finish("measured", Head(chain), asked, failed)
    BY DEF Answer, NarrationInv, Asking
  <1>2. measured = measured \cup {Module}
    <2>1. Len(results) + 1 \in DOMAIN Order
      BY <1>1, ModuleIsOne DEF NarrationInv, TypeOK
    <2>. QED  BY <1>1, <2>1 DEF NarrationInv, InOrder, Module
  <1>3. /\ Head(chain) \in Providers /\ Head(chain) \in asked \ failed
        /\ Head(chain) = "ollama" /\ "gemini" \in asked => "gemini" \in failed
    BY <1>1 DEF NarrationInv, Asking, Providers
  <1>4. failed \subseteq asked /\ asked \in SUBSET Providers /\ failed \in SUBSET Providers
    BY <1>1 DEF NarrationInv, Asking, TypeOK, Providers
  <1>5. Signed(Result("measured", Head(chain), asked, failed))
    BY <1>3, <1>4 DEF Signed, Result, Providers
  <1>. QED  BY <1>1, <1>2, <1>3, <1>4, <1>5, FinishInv

(* A diagnostic that raised, or had no table to look at, is not narrated. *)
LEMMA UnmeasuredInv == NarrationInv /\ (DiagnosticRaises \/ NoTables) => NarrationInv'
  <1>. SUFFICES ASSUME NarrationInv, DiagnosticRaises \/ NoTables PROVE NarrationInv'
    OBVIOUS
  <1>1. at = "diagnose" /\ Unfinished /\ UNCHANGED <<selection, measured>>
    BY DEF DiagnosticRaises, NoTables
  <1>2. PICK v \in {"failed", "no_tables"}, by \in {"program", "nobody"} : Finish(v, by, {}, {})
    BY DEF DiagnosticRaises, NoTables
  <1>3. Signed(Result(v, by, {}, {}))
    BY DEF Signed, Result, Providers
  <1>. QED  BY <1>1, <1>2, <1>3, FinishInv

(* Changing the selection changes no result. *)
LEMMA SetProviderInv ==
  ASSUME NarrationInv, NEW o \in Selections, SetProvider(o) PROVE NarrationInv'
  <1>1. switches' \in 0..MaxSwitches
    BY SwitchesAssumption DEF NarrationInv, TypeOK, SetProvider
  <1>. QED  BY <1>1 DEF NarrationInv, TypeOK, Asking, InOrder, NarrationIsSigned, SetProvider, Unfinished

---------------------------------------------------------------------------
(* Every step keeps the invariant. *)
LEMMA NarrationStepInv == NarrationInv /\ [Next]_vars => NarrationInv'
  <1>. SUFFICES ASSUME NarrationInv, [Next]_vars PROVE NarrationInv'
    OBVIOUS
  <1>1. CASE ScanStep
    BY <1>1, DiagnoseInv, UnmeasuredInv, AnswerInv, ProviderFailsInv DEF ScanStep
  <1>2. CASE \E o \in Selections : SetProvider(o)
    BY <1>2, SetProviderInv
  <1>3. CASE UNCHANGED vars
    BY <1>3 DEF vars, selection, NarrationInv, TypeOK, Asking, InOrder, NarrationIsSigned, Unfinished
  <1>. QED  BY <1>1, <1>2, <1>3 DEF Next

(* NarrationInv holds of every scan. *)
THEOREM NarrationInvariant == Spec => []NarrationInv
  BY NarrationInitInv, NarrationStepInv, PTL DEF Spec

---------------------------------------------------------------------------
(* What the page shows, and what it will show when an answer comes. *)
PageInv ==
    /\ label = "configuration" => shown = Shown(configured) /\ previous = configured
    /\ load.at \in {"probing", "answered"} /\ load.source = "configuration" =>
          load.selected = configured
    /\ ~excused =>
          /\ load.at # "done" => put.at = "idle"
          /\ load.at \in {"probing", "answered"} =>
                load.selected = Selection /\ load.source = SelectedSource
          /\ load.at = "done" /\ put.at \in {"idle", "sent"} => previous = Selection
          /\ load.at = "done" /\ put.at = "idle" =>
                shown = Shown(Selection) /\ label \in {"none", SelectedSource}
          /\ load.at = "done" /\ put.at = "sent" => put.restore = Selection
          /\ put.at \in {"probing", "answered"} => override = put.value

ToggleInv == NarrationInv /\ PageTypeOK /\ PageInv

(* The page has asked for nothing. *)
LEMMA ToggleInitInv == ToggleInit => ToggleInv
  <1>. SUFFICES ASSUME ToggleInit PROVE ToggleInv
    OBVIOUS
  <1>1. NarrationInv
    BY NarrationInitInv DEF ToggleInit
  <1>2. PageTypeOK
    <2>1. {"auto", "none"} \subseteq Selections /\ Selections \subseteq Named
      BY DEF Selections, Named
    <2>2. load \in Loads
      BY <2>1 DEF ToggleInit, Loads, Sources
    <2>3. put \in Puts
      BY <2>1 DEF ToggleInit, Puts
    <2>4. picks \in 0..MaxPicks
      BY PicksAssumption DEF ToggleInit
    <2>. QED  BY <2>1, <2>2, <2>3, <2>4 DEF ToggleInit, PageTypeOK
  <1>3. PageInv
    BY DEF ToggleInit, PageInv
  <1>. QED  BY <1>1, <1>2, <1>3 DEF ToggleInv

(* Every step of the toggle is one of Narration, or leaves it alone. *)
LEMMA ToggleStepNarrates ==
  ASSUME PageTypeOK, [ToggleNext]_toggleVars PROVE [Next]_vars
  <1>1. CASE ScanStep
    BY <1>1 DEF Next
  <1>2. CASE PageStep
    <2>1. CASE PutArrives
      BY <2>1 DEF PutArrives, Next, PageTypeOK, Puts
    <2>. QED  BY <1>2, <2>1 DEF PageStep, LoadArrives, ProbesEnd, LoadShown, LoadFails, PutProbesEnd,
                                PutShown, PutFails, PutReplyLost, Pick
  <1>3. CASE \E o \in Selections : OtherPicks(o)
    BY <1>3 DEF OtherPicks, Next
  <1>4. CASE UNCHANGED toggleVars
    BY <1>4 DEF toggleVars
  <1>. QED  BY <1>1, <1>2, <1>3, <1>4 DEF ToggleNext

(* Where the selection comes from has the names the page knows. *)
LEMMA SelectionType ==
  TypeOK => Selection \in Named /\ SelectedSource \in Sources
  BY DEF TypeOK, Selection, SelectedSource, Named, Sources

(* What the page does with an answer of the server. *)
LEMMA PageStepInv ==
  ASSUME TypeOK, PageTypeOK, PageInv, [ToggleNext]_toggleVars PROVE PageTypeOK' /\ PageInv'
  <1>. Selection \in Named /\ SelectedSource \in Sources
    BY SelectionType
  <1>. /\ load.at \in {"sent", "probing", "answered", "done"} /\ load.selected \in Named
       /\ load.source \in Sources /\ load \in Loads
       /\ put.at \in {"idle", "sent", "probing", "answered"} /\ put.value \in Selections
       /\ put.restore \in Named /\ put \in Puts /\ excused \in BOOLEAN
    BY DEF PageTypeOK, Loads, Puts
  <1>0. ASSUME UNCHANGED selection
        PROVE  /\ Selection' = Selection /\ SelectedSource' = SelectedSource
               /\ configured' = configured /\ override' = override
    BY <1>0 DEF selection, Selection, SelectedSource
  <1>. UNCHANGED vars => UNCHANGED selection
    BY DEF vars
  <1>1. CASE LoadArrives
    <2>1. PageTypeOK'
      BY <1>1 DEF LoadArrives, PageTypeOK, Loads, Sources
    <2>2. load' = [at |-> "probing", selected |-> Selection, source |-> SelectedSource]
      BY <1>1, <1>0 DEF LoadArrives
    <2>3. PageInv'
      <3>1. SelectedSource = "configuration" => Selection = configured
        BY DEF SelectedSource, Selection
      <3>2. /\ load'.at = "probing" /\ load'.selected = Selection
            /\ load'.source = SelectedSource
        BY <2>2
      <3>. QED  BY <1>1, <1>0, <3>1, <3>2 DEF LoadArrives, PageInv
    <2>. QED  BY <2>1, <2>3
  <1>2. CASE ProbesEnd
    <2>1. PageTypeOK'
      BY <1>2 DEF ProbesEnd, PageTypeOK, Loads, Sources
    <2>2. load'.at = "answered" /\ load'.selected = load.selected /\ load'.source = load.source
      BY <1>2, <1>0 DEF ProbesEnd, Loads
    <2>3. PageInv'
      BY <1>2, <1>0, <2>2 DEF ProbesEnd, PageInv
    <2>. QED  BY <2>1, <2>3
  <1>3. CASE LoadShown
    <2>1. PageTypeOK'
      BY <1>3 DEF LoadShown, PageTypeOK, Loads, Shown, Sources, Named
    <2>2. load'.at = "done"
      BY <1>3, <1>0 DEF LoadShown, Loads
    <2>3. PageInv'
      BY <1>3, <1>0, <2>2 DEF LoadShown, PageInv
    <2>. QED  BY <2>1, <2>3
  <1>4. CASE LoadFails
    <2>1. PageTypeOK'
      BY <1>4 DEF LoadFails, PageTypeOK, Loads, Sources
    <2>2. load'.at = "done"
      BY <1>4, <1>0 DEF LoadFails, Loads
    <2>3. PageInv'
      BY <1>4, <1>0, <2>2 DEF LoadFails, PageInv
    <2>. QED  BY <2>1, <2>3
  <1>5. CASE PutProbesEnd
    <2>1. PageTypeOK'
      BY <1>5 DEF PutProbesEnd, PageTypeOK, Puts
    <2>2. put'.at = "answered" /\ put'.value = put.value /\ put'.restore = put.restore
      BY <1>5, <1>0 DEF PutProbesEnd, Puts
    <2>3. PageInv'
      BY <1>5, <1>0, <2>2 DEF PutProbesEnd, PageInv
    <2>. QED  BY <2>1, <2>3
  <1>6. CASE PutShown
    <2>1. PageTypeOK'
      BY <1>6 DEF PutShown, PageTypeOK, Puts, Sources, Named
    <2>2. put'.at = "idle" /\ put.value # "unset" /\ Shown(put.value) = put.value
      BY <1>6, <1>0 DEF PutShown, Puts, Selections, Providers, Shown
    <2>3. PageInv'
      BY <1>6, <1>0, <2>2 DEF PutShown, PageInv, Selection, SelectedSource
    <2>. QED  BY <2>1, <2>3
  <1>7. CASE PutFails
    <2>1. PageTypeOK'
      BY <1>7 DEF PutFails, PageTypeOK, Puts, Shown, Sources
    <2>2. put'.at = "idle"
      BY <1>7, <1>0 DEF PutFails, Puts
    <2>3. PageInv'
      BY <1>7, <1>0, <2>2 DEF PutFails, PageInv
    <2>. QED  BY <2>1, <2>3
  <1>8. CASE PutReplyLost
    <2>1. PageTypeOK'
      BY <1>8 DEF PutReplyLost, PageTypeOK, Puts, Shown, Sources
    <2>2. put'.at = "idle"
      BY <1>8, <1>0 DEF PutReplyLost, Puts
    <2>3. PageInv'
      BY <1>8, <1>0, <2>2 DEF PutReplyLost, PageInv
    <2>. QED  BY <2>1, <2>3
  <1>9. CASE PutArrives
    <2>1. PageTypeOK'
      BY <1>9 DEF PutArrives, Puts, PageTypeOK
    <2>2. put'.at = "probing" /\ put'.value = put.value /\ override' = put.value
          /\ configured' = configured
      BY <1>9 DEF PutArrives, SetProvider, Puts
    <2>3. PageInv'
      BY <1>9, <2>2 DEF PutArrives, PageInv
    <2>. QED  BY <2>1, <2>3
  <1>10. ASSUME NEW o \in Selections, Pick(o) PROVE PageTypeOK' /\ PageInv'
    <2>1. CASE o = previous
      <3>1. PageTypeOK'
        BY <1>10, <2>1, PicksAssumption DEF Pick, PageTypeOK
      <3>2. Shown(previous) = o
        BY <2>1 DEF Shown
      <3>3. PageInv'
        BY <1>10, <1>0, <2>1, <3>2 DEF Pick, PageInv
      <3>. QED  BY <3>1, <3>3
    <2>2. CASE o # previous
      <3>1. put' \in Puts /\ put'.at = "sent" /\ put'.restore = previous /\ label' = "none"
        BY <1>10, <2>2 DEF Pick, PageTypeOK, Puts
      <3>2. PageTypeOK'
        BY <1>10, <3>1, PicksAssumption DEF Pick, PageTypeOK
      <3>3. PageInv'
        BY <1>10, <1>0, <3>1 DEF Pick, PageInv
      <3>. QED  BY <3>2, <3>3
    <2>. QED  BY <2>1, <2>2
  <1>11. ASSUME NEW o \in Selections, OtherPicks(o) PROVE PageTypeOK' /\ PageInv'
    BY <1>11 DEF OtherPicks, SetProvider, PageTypeOK, PageInv, Shown
  <1>12. CASE ScanStep /\ UNCHANGED page
    <2>1. UNCHANGED page /\ UNCHANGED selection
      BY <1>12 DEF ScanStep, Diagnose, DiagnosticRaises, NoTables, Answer, ProviderFails
    <2>. QED  BY <1>0, <2>1 DEF page, PageTypeOK, PageInv, Shown
  <1>13. CASE UNCHANGED toggleVars
    BY <1>0, <1>13 DEF toggleVars, page, PageTypeOK, PageInv, Shown
  <1>. QED  BY <1>1, <1>2, <1>3, <1>4, <1>5, <1>6, <1>7, <1>8, <1>9, <1>10, <1>11, <1>12, <1>13 DEF ToggleNext, PageStep

(* ToggleInv holds whatever the page, other pages and the scan do. *)
THEOREM ToggleInvariant == ToggleSpec => []ToggleInv
  <1>1. ToggleInv /\ [ToggleNext]_toggleVars => ToggleInv'
    <2>. SUFFICES ASSUME ToggleInv, [ToggleNext]_toggleVars PROVE ToggleInv'
      OBVIOUS
    <2>1. [Next]_vars
      BY ToggleStepNarrates DEF ToggleInv
    <2>2. NarrationInv'
      BY <2>1, NarrationStepInv DEF ToggleInv
    <2>3. PageTypeOK' /\ PageInv'
      BY PageStepInv DEF ToggleInv, NarrationInv
    <2>. QED  BY <2>2, <2>3 DEF ToggleInv
  <1>. QED  BY ToggleInitInv, <1>1, PTL DEF ToggleSpec

(* Type correctness of a scan's narration and of the page. *)
THEOREM ToggleTypeCorrect == ToggleSpec => []ToggleTypeOK
  <1>1. ToggleInv => ToggleTypeOK
    BY DEF ToggleInv, NarrationInv, ToggleTypeOK
  <1>. QED  BY ToggleInvariant, <1>1, PTL

(* Every text is signed by its author, for any modules of a scan and any     *)
(* number of changes of the selection.                                       *)
THEOREM NarrationsAreSigned == ToggleSpec => []NarrationIsSigned
  <1>1. ToggleInv => NarrationIsSigned
    BY DEF ToggleInv, NarrationInv
  <1>. QED  BY ToggleInvariant, <1>1, PTL

(* No provider and no page takes away a verdict. *)
THEOREM VerdictsStand == ToggleSpec => []VerdictStands
  <1>1. ToggleInv => VerdictStands
    <2>. SUFFICES ASSUME ToggleInv, NEW i \in DOMAIN results
                  PROVE  results[i].verdict = "measured" <=> results[i].module \in measured
      BY DEF VerdictStands
    <2>1. i \in DOMAIN Order /\ i # Len(results) + 1 /\ results[i].module = Order[i]
      BY OrderAssumption DEF ToggleInv, NarrationInv, TypeOK, InOrder
    <2>. QED  BY <2>1 DEF ToggleInv, NarrationInv, InOrder
  <1>. QED  BY ToggleInvariant, <1>1, PTL

(* A page that waits for nothing, and has no excuse, shows the selection in  *)
(* force, for any number of picks and switches.                              *)
THEOREM PageIsRight == ToggleSpec => []PageAgrees
  <1>1. ToggleInv => PageAgrees
    BY DEF ToggleInv, PageInv, PageAgrees, Settled
  <1>. QED  BY ToggleInvariant, <1>1, PTL

(* The page and its requests leave a scan to its own steps. *)
THEOREM ToggleImplementsNarration == ToggleSpec => Spec
  <1>1. ToggleInit => Init
    BY DEF ToggleInit
  <1>2. ToggleInv /\ [ToggleNext]_toggleVars => [Next]_vars
    BY ToggleStepNarrates DEF ToggleInv
  <1>. QED  BY ToggleInvariant, <1>1, <1>2, PTL DEF ToggleSpec, Spec
---------------------------------------------------------------------------
(* Narration implements ProviderChain. *)

Moves(n, r) == Walk(n)' = r /\ \A i \in DOMAIN Order \ {n} : Walk(i)' = Walk(i)

(* Only the walk of the module under way moves; *)
LEMMA MovesBecomes ==
  ASSUME NEW n \in DOMAIN Order, NEW r, Moves(n, r) PROVE Session!Becomes(n, r)
  BY DEF Moves, Session!Becomes

(* it shows the result of the module when there is one, *)
LEMMA FinishMoves ==
  ASSUME TypeOK, Unfinished, NEW n, n = Len(results) + 1, NEW verdict, NEW by, NEW tried, NEW gaveUp,
         Finish(verdict, by, tried, gaveUp)
  PROVE  Moves(n, IF verdict # "measured" THEN Session!Dropped
               ELSE Session!Is(IF by = "nobody" THEN "exhausted" ELSE "answered", tried, gaveUp, by))
  <1>. DEFINE r == Result(verdict, by, tried, gaveUp)
  <1>1. results \in Seq(Results) /\ n \in Nat \ {0} /\ DOMAIN results = 1..(n - 1)
    BY DEF TypeOK
  <1>2. results' = Append(results, r) /\ at' = "diagnose"
    BY DEF Finish, Result
  <1>3. /\ Len(results') = n /\ DOMAIN results' = 1..n
        /\ results'[n] = r /\ \A i \in 1..(n - 1) : results'[i] = results[i]
    BY <1>1, <1>2
  <1>4. /\ r.verdict = verdict /\ r.by = by /\ r.tried = tried /\ r.given_up = gaveUp
    BY DEF Result
  <1>. HIDE DEF r
  <1>5. Walk(n)' = IF verdict # "measured" THEN Session!Dropped
                       ELSE Session!Is(IF by = "nobody" THEN "exhausted" ELSE "answered", tried, gaveUp, by)
    <2>1. n \in DOMAIN results'
      BY <1>1, <1>3
    <2>2. CASE verdict # "measured"
      BY <1>3, <1>4, <2>1, <2>2 DEF Walk, Session!Dropped, Session!Is
    <2>3. CASE verdict = "measured"
      BY <1>3, <1>4, <2>1, <2>3 DEF Walk, Session!Is
    <2>. QED  BY <2>2, <2>3
  <1>6. ASSUME NEW i \in DOMAIN Order \ {n} PROVE Walk(i)' = Walk(i)
    <2>1. i \in Nat
      BY OrderAssumption
    <2>2. CASE i < n
      <3>1. i \in DOMAIN results /\ i \in DOMAIN results' /\ results'[i] = results[i]
        BY <1>1, <1>3, <2>1, <2>2, OrderAssumption
      <3>. QED  BY <3>1 DEF Walk
    <2>3. CASE i > n
      <3>1. i \notin DOMAIN results /\ i \notin DOMAIN results'
        BY <1>1, <1>3, <2>1, <2>3
      <3>. QED  BY <1>2, <3>1 DEF Walk
    <2>. QED  BY <1>1, <2>1, <2>2, <2>3
  <1>. QED  BY <1>5, <1>6 DEF Moves

(* and the chain while one is asked. *)
LEMMA AskMoves ==
  ASSUME TypeOK, NEW n, n = Len(results) + 1, at' = "narrate", UNCHANGED results
  PROVE  Moves(n, Session!Is("asking", asked', failed', "nobody"))
  <1>1. results \in Seq(Results) /\ n \in Nat \ {0} /\ DOMAIN results = 1..(n - 1)
    BY DEF TypeOK
  <1>2. n \notin DOMAIN results
    BY <1>1
  <1>3. \A i \in DOMAIN Order \ {n} : Walk(i)' = Walk(i)
    BY DEF Walk
  <1>4. Walk(n)' = Session!Is("asking", asked', failed', "nobody")
    BY <1>2 DEF Walk, Session!Is
  <1>. QED  BY <1>3, <1>4 DEF Moves

(* What the walk of the module under way shows before a step. *)
LEMMA UnderWay ==
  ASSUME TypeOK, NEW n, n = Len(results) + 1
  PROVE  /\ at = "diagnose" => Walk(n) = Session!NotBegun
         /\ at = "narrate" => Walk(n) = Session!Is("asking", asked, failed, "nobody")
  <1>1. n \notin DOMAIN results
    BY DEF TypeOK
  <1>. QED  BY <1>1 DEF Walk, Session!NotBegun, Session!Is

(* The head of the chain is the one to be asked. *)
LEMMA HeadIsNext ==
  ASSUME NarrationInv, at = "narrate", NEW n, n = Len(results) + 1
  PROVE  Head(chain) \in Providers /\ Session!Asked(n, Head(chain))
  <1>1. n \in DOMAIN Order
    BY ModuleIsOne DEF NarrationInv, TypeOK, Asking
  <1>2. Walk(n) = Session!Is("asking", asked, failed, "nobody")
    BY UnderWay DEF NarrationInv
  <1>3. /\ Head(chain) \in Providers /\ Head(chain) \in asked \ failed
        /\ \A q \in asked \ failed : Preference[Head(chain)] <= Preference[q]
    <2>1. CASE chain = <<"gemini", "ollama">> /\ asked = Providers /\ failed = {}
      BY <2>1 DEF Providers, Preference
    <2>2. CASE chain = <<"ollama">> /\ asked = Providers /\ failed = {"gemini"}
      BY <2>2 DEF Providers, Preference
    <2>3. CASE chain = <<"gemini">> /\ asked = {"gemini"} /\ failed = {}
      BY <2>3 DEF Providers, Preference
    <2>4. CASE chain = <<"ollama">> /\ asked = {"ollama"} /\ failed = {}
      BY <2>4 DEF Providers, Preference
    <2>. QED  BY <2>1, <2>2, <2>3, <2>4 DEF NarrationInv, Asking
  <1>. QED  BY <1>1, <1>2, <1>3 DEF Session!Asked, Session!Is

(* A diagnostic that came back begins a walk, over the chain of the moment. *)
LEMMA DiagnoseBegins == NarrationInv /\ Diagnose => Session!Next
  <1>. SUFFICES ASSUME NarrationInv, Diagnose PROVE Session!Next
    OBVIOUS
  <1>. PICK n : n = Len(results) + 1
    OBVIOUS
  <1>. DEFINE P == Names(Chain)
  <1>1. n \in DOMAIN Order /\ TypeOK /\ Unfinished
    BY ModuleIsOne DEF NarrationInv, TypeOK, Diagnose
  <1>2. Walk(n).stage = "idle"
    BY <1>1, UnderWay DEF Diagnose, Session!NotBegun, Session!Is
  <1>3. P \in SUBSET Providers /\ (P = {} <=> Chain = <<>>)
    <2>1. Chain \in {<<>>, <<"gemini">>, <<"ollama">>, <<"gemini", "ollama">>}
      BY DEF Chain, Providers
    <2>2. CASE Chain = <<>>
      BY <2>2 DEF Names
    <2>3. CASE Chain = <<"gemini">>
      BY <2>3 DEF Names, Providers
    <2>4. CASE Chain = <<"ollama">>
      BY <2>4 DEF Names, Providers
    <2>5. CASE Chain = <<"gemini", "ollama">>
      BY <2>5 DEF Names, Providers
    <2>. QED  BY <2>1, <2>2, <2>3, <2>4, <2>5
  <1>4. Moves(n, Session!Going(P, {}))
    <2>1. CASE Chain = <<>>
      <3>1. Finish("measured", "nobody", P, {})
        BY <2>1 DEF Diagnose, Ask
      <3>. QED  BY <1>1, <1>3, <2>1, <3>1, FinishMoves DEF Session!Going, Session!Is
    <2>2. CASE Chain # <<>>
      <3>1. at' = "narrate" /\ asked' = P /\ failed' = {} /\ UNCHANGED results
        BY <2>2 DEF Diagnose, Ask
      <3>. QED  BY <1>1, <1>3, <2>2, <3>1, AskMoves DEF Session!Going, Session!Is
    <2>. QED  BY <2>1, <2>2
  <1>. HIDE DEF P
  <1>5. Session!Becomes(n, Session!Going(P, {}))
    BY <1>1, <1>4, MovesBecomes
  <1>. QED  BY <1>1, <1>2, <1>3, <1>5 DEF Session!Begin, Session!Next

(* A provider that answers ends the walk. *)
LEMMA AnswerEnds == NarrationInv /\ Answer => Session!Next
  <1>. SUFFICES ASSUME NarrationInv, Answer PROVE Session!Next
    OBVIOUS
  <1>. PICK n : n = Len(results) + 1
    OBVIOUS
  <1>. DEFINE p == Head(chain)
  <1>1. n \in DOMAIN Order /\ TypeOK /\ Unfinished /\ at = "narrate"
    BY ModuleIsOne DEF NarrationInv, TypeOK, Asking, Answer
  <1>2. p \in Providers /\ Session!Asked(n, p)
    BY <1>1, HeadIsNext
  <1>3. p # "nobody"
    BY <1>2 DEF Providers
  <1>4. Finish("measured", p, asked, failed)
    BY DEF Answer
  <1>. HIDE DEF p
  <1>5. Moves(n, Session!Is("answered", asked, failed, p))
    BY <1>1, <1>3, <1>4, FinishMoves
  <1>6. Walk(n).chosen = asked /\ Walk(n).failed = failed
    BY <1>1, UnderWay DEF Session!Is
  <1>7. Session!Becomes(n, Session!Is("answered", Walk(n).chosen, Walk(n).failed, p))
    BY <1>1, <1>5, <1>6, MovesBecomes
  <1>. QED  BY <1>1, <1>2, <1>7 DEF Session!Answer, Session!Next

(* One that fails hands on to the next of the same chain. *)
LEMMA FailHandsOn == NarrationInv /\ ProviderFails => Session!Next
  <1>. SUFFICES ASSUME NarrationInv, ProviderFails PROVE Session!Next
    OBVIOUS
  <1>. PICK n : n = Len(results) + 1
    OBVIOUS
  <1>. DEFINE p == Head(chain)
              f == failed \cup {p}
  <1>1. n \in DOMAIN Order /\ TypeOK /\ Unfinished /\ at = "narrate"
    BY ModuleIsOne DEF NarrationInv, TypeOK, Asking, ProviderFails
  <1>2. p \in Providers /\ Session!Asked(n, p)
    BY <1>1, HeadIsNext
  <1>3. Tail(chain) = <<>> <=> f = asked
    <2>1. CASE chain = <<"gemini", "ollama">> /\ asked = Providers /\ failed = {}
      BY <2>1 DEF Providers
    <2>2. CASE chain = <<"ollama">> /\ asked = Providers /\ failed = {"gemini"}
      BY <2>2 DEF Providers
    <2>3. CASE chain = <<"gemini">> /\ asked = {"gemini"} /\ failed = {}
      BY <2>3
    <2>4. CASE chain = <<"ollama">> /\ asked = {"ollama"} /\ failed = {}
      BY <2>4
    <2>. QED  BY <1>1, <2>1, <2>2, <2>3, <2>4 DEF NarrationInv, Asking
  <1>4. Ask(Tail(chain), asked, f)
    BY DEF ProviderFails
  <1>. HIDE DEF p, f
  <1>5. Moves(n, Session!Going(asked, f))
    <2>1. CASE Tail(chain) = <<>>
      <3>1. Finish("measured", "nobody", asked, f)
        BY <1>4, <2>1 DEF Ask
      <3>. QED  BY <1>1, <1>3, <2>1, <3>1, FinishMoves DEF Session!Going, Session!Is
    <2>2. CASE Tail(chain) # <<>>
      <3>1. at' = "narrate" /\ asked' = asked /\ failed' = f /\ UNCHANGED results
        BY <1>4, <2>2 DEF Ask
      <3>. QED  BY <1>1, <1>3, <2>2, <3>1, AskMoves DEF Session!Going, Session!Is
    <2>. QED  BY <2>1, <2>2
  <1>6. Walk(n).chosen = asked /\ Walk(n).failed = failed
    BY <1>1, UnderWay DEF Session!Is
  <1>7. Session!Becomes(n, Session!Going(Walk(n).chosen, Walk(n).failed \cup {p}))
    BY <1>1, <1>5, <1>6, MovesBecomes DEF f
  <1>. QED  BY <1>1, <1>2, <1>7 DEF Session!Fail, Session!Next

(* A diagnostic without a verdict needs no walk. *)
LEMMA UnmeasuredDrops == NarrationInv /\ (DiagnosticRaises \/ NoTables) => Session!Next
  <1>. SUFFICES ASSUME NarrationInv, DiagnosticRaises \/ NoTables PROVE Session!Next
    OBVIOUS
  <1>. PICK n : n = Len(results) + 1
    OBVIOUS
  <1>1. n \in DOMAIN Order /\ TypeOK /\ Unfinished /\ at = "diagnose"
    BY ModuleIsOne DEF NarrationInv, TypeOK, DiagnosticRaises, NoTables
  <1>2. PICK v \in {"failed", "no_tables"}, by \in {"program", "nobody"} : Finish(v, by, {}, {})
    BY DEF DiagnosticRaises, NoTables
  <1>3. Moves(n, Session!Dropped)
    BY <1>1, <1>2, FinishMoves
  <1>4. Session!Becomes(n, Session!Dropped)
    BY <1>1, <1>3, MovesBecomes
  <1>5. Walk(n).stage = "idle"
    BY <1>1, UnderWay DEF Session!NotBegun, Session!Is
  <1>. QED  BY <1>1, <1>4, <1>5 DEF Session!Drop, Session!Next

(* Each narration asks the providers selected when its diagnostic came back, *)
(* the preferred one first and none of them twice, until one answers, and is *)
(* not touched again (generate_ai_explanation); with the page as well.       *)
THEOREM NarrationWalksTheChain == ToggleSpec => ImplementsProviderChain
  <1>1. Init => Session!Init
    BY DEF Init, Session!Init, Session!NotBegun, Session!Is, Walk
  <1>2. NarrationInv /\ [Next]_vars => [Session!Next]_[i \in DOMAIN Order |-> Walk(i)]
    <2>. SUFFICES ASSUME NarrationInv, [Next]_vars
                  PROVE  Session!Next \/ UNCHANGED [i \in DOMAIN Order |-> Walk(i)]
      OBVIOUS
    <2>1. CASE \E o \in Selections : SetProvider(o)
      BY <2>1 DEF SetProvider, Walk
    <2>2. CASE UNCHANGED vars
      BY <2>2 DEF vars, Walk
    <2>. QED  BY <2>1, <2>2, DiagnoseBegins, AnswerEnds, FailHandsOn, UnmeasuredDrops
              DEF Next, ScanStep
  <1>. QED  BY ToggleImplementsNarration, NarrationInvariant, <1>1, <1>2, PTL
            DEF Spec, ImplementsProviderChain, Session!Spec
---------------------------------------------------------------------------
(* How many steps a scan still takes, at most: a module its diagnostic and   *)
(* a request to each of two models.                                          *)
StepsToReport ==
    IF at = "narrate" THEN 3 * (Len(Order) - Len(results) - 1) + Len(chain)
    ELSE 3 * (Len(Order) - Len(results))

(* Every step of a scan takes it nearer its end; no page takes it back.      *)
NarrationProgresses ==
    [][UNCHANGED <<at, chain, results>> \/ StepsToReport' < StepsToReport]_toggleVars

(* A chain of which one is asked has one or two left. *)
LEMMA ChainLength ==
  ASSUME NarrationInv, at = "narrate"
  PROVE  /\ Len(chain) \in {1, 2}
         /\ Tail(chain) # <<>> => Len(chain) = 2 /\ Len(Tail(chain)) = 1
  <1>1. CASE chain = <<"gemini", "ollama">>
    BY <1>1
  <1>2. CASE chain = <<"ollama">>
    BY <1>2
  <1>3. CASE chain = <<"gemini">>
    BY <1>3
  <1>. QED  BY <1>1, <1>2, <1>3 DEF NarrationInv, Asking

(* Three steps a module cover its diagnostic and two requests: l and k are   *)
(* the providers left before a step and after it.                            *)
LEMMA ThreeSteps ==
  ASSUME NEW a \in Nat, NEW b \in Nat, b < a, NEW l \in {1, 2}, NEW k \in {1, 2}
  PROVE  /\ 3 * (a - (b + 1)) < 3 * (a - b - 1) + l
         /\ 3 * (a - b - 1) + k < 3 * (a - b)
         /\ k < l => 3 * (a - b - 1) + k < 3 * (a - b - 1) + l
  <1>1. CASE l = 1 /\ k = 1
    BY <1>1, SMT
  <1>2. CASE l = 1 /\ k = 2
    BY <1>2, SMT
  <1>3. CASE l = 2 /\ k = 1
    BY <1>3, SMT
  <1>4. CASE l = 2 /\ k = 2
    BY <1>4, SMT
  <1>. QED  BY <1>1, <1>2, <1>3, <1>4, Zenon

(* A result is nearer the end than a provider that was asked, *)
LEMMA FinishNearer ==
  ASSUME NarrationInv, Unfinished, NEW verdict, NEW by, NEW tried, NEW gaveUp,
         Finish(verdict, by, tried, gaveUp)
  PROVE  StepsToReport' < StepsToReport
  <1>1. /\ Len(results) \in Nat /\ Len(Order) \in Nat /\ Len(results) < Len(Order)
        /\ Len(results') = Len(results) + 1 /\ at' = "diagnose"
    BY OrderAssumption DEF NarrationInv, TypeOK, Unfinished, Finish
  <1>2. StepsToReport' = 3 * (Len(Order) - (Len(results) + 1))
    BY <1>1 DEF StepsToReport
  <1>3. CASE at = "narrate"
    <2>1. Len(chain) \in {1, 2}
      BY <1>3, ChainLength
    <2>2. StepsToReport = 3 * (Len(Order) - Len(results) - 1) + Len(chain)
      BY <1>3 DEF StepsToReport
    <2>3. 3 * (Len(Order) - (Len(results) + 1)) < 3 * (Len(Order) - Len(results) - 1) + Len(chain)
      BY <1>1, <2>1, ThreeSteps, Zenon
    <2>. QED  BY <1>2, <2>2, <2>3, Zenon
  <1>4. CASE at # "narrate"
    <2>1. StepsToReport = 3 * (Len(Order) - Len(results))
      BY <1>4 DEF StepsToReport
    <2>. QED  BY <1>1, <1>2, <2>1
  <1>. QED  BY <1>3, <1>4

(* as is a request to the next one. *)
LEMMA AskNearer ==
  ASSUME NarrationInv, Unfinished, at' = "narrate", UNCHANGED results,
         Len(chain') \in {1, 2}, at = "narrate" => Len(chain') < Len(chain)
  PROVE  StepsToReport' < StepsToReport
  <1>1. Len(results) \in Nat /\ Len(Order) \in Nat /\ Len(results) < Len(Order)
    BY OrderAssumption DEF NarrationInv, TypeOK, Unfinished
  <1>2. StepsToReport' = 3 * (Len(Order) - Len(results) - 1) + Len(chain')
    BY DEF StepsToReport
  <1>3. CASE at = "narrate"
    <2>1. Len(chain) \in {1, 2}
      BY <1>3, ChainLength
    <2>2. StepsToReport = 3 * (Len(Order) - Len(results) - 1) + Len(chain)
      BY <1>3 DEF StepsToReport
    <2>3. 3 * (Len(Order) - Len(results) - 1) + Len(chain')
             < 3 * (Len(Order) - Len(results) - 1) + Len(chain)
      BY <1>1, <1>3, <2>1, ThreeSteps, Zenon
    <2>. QED  BY <1>2, <2>2, <2>3, Zenon
  <1>4. CASE at # "narrate"
    <2>1. StepsToReport = 3 * (Len(Order) - Len(results))
      BY <1>4 DEF StepsToReport
    <2>2. 3 * (Len(Order) - Len(results) - 1) + Len(chain') < 3 * (Len(Order) - Len(results))
      BY <1>1, ThreeSteps, Zenon
    <2>. QED  BY <1>2, <2>1, <2>2, Zenon
  <1>. QED  BY <1>3, <1>4

(* A scan is over after three steps a module, with any failures and whatever *)
(* is selected meanwhile.                                                    *)
THEOREM ScanIsNarrated == ToggleSpec => NarrationProgresses
  <1>1. ASSUME NarrationInv, ScanStep PROVE StepsToReport' < StepsToReport
    <2>1. Unfinished
      BY <1>1 DEF ScanStep, Diagnose, DiagnosticRaises, NoTables, Answer, ProviderFails,
                  NarrationInv, Asking
    <2>2. CASE Diagnose
      <3>1. CASE Chain = <<>>
        BY <1>1, <2>1, <2>2, <3>1, FinishNearer DEF Diagnose, Ask
      <3>2. CASE Chain # <<>>
        <4>1. Len(Chain) \in {1, 2}
          BY <3>2 DEF Chain
        <4>. QED  BY <1>1, <2>1, <2>2, <3>2, <4>1, AskNearer DEF Diagnose, Ask
      <3>. QED  BY <3>1, <3>2
    <2>3. CASE DiagnosticRaises \/ NoTables \/ Answer
      BY <1>1, <2>1, <2>3, FinishNearer DEF DiagnosticRaises, NoTables, Answer
    <2>4. CASE ProviderFails
      <3>1. CASE Tail(chain) = <<>>
        BY <1>1, <2>1, <2>4, <3>1, FinishNearer DEF ProviderFails, Ask
      <3>2. CASE Tail(chain) # <<>>
        <4>1. Len(Tail(chain)) = 1 /\ Len(chain) = 2
          BY <1>1, <2>4, <3>2, ChainLength DEF ProviderFails
        <4>2. at' = "narrate" /\ chain' = Tail(chain) /\ UNCHANGED results
          BY <2>4, <3>2 DEF ProviderFails, Ask
        <4>3. Len(chain') = 1
          BY <4>1, <4>2
        <4>4. 1 < 2
          OBVIOUS
        <4>5. Len(chain') \in {1, 2} /\ Len(chain') < Len(chain)
          BY <4>1, <4>3, <4>4, Zenon
        <4>6. NarrationInv
          BY <1>1
        <4>. QED  BY <2>1, <4>2, <4>6, <4>5, AskNearer
      <3>. QED  BY <3>1, <3>2
    <2>. QED  BY <1>1, <2>2, <2>3, <2>4 DEF ScanStep
  <1>2. ToggleInv /\ [ToggleNext]_toggleVars =>
           [UNCHANGED <<at, chain, results>> \/ StepsToReport' < StepsToReport]_toggleVars
    <2>. SUFFICES ASSUME ToggleInv, [ToggleNext]_toggleVars
                  PROVE  UNCHANGED <<at, chain, results>> \/ StepsToReport' < StepsToReport
      OBVIOUS
    <2>1. ScanStep => StepsToReport' < StepsToReport
      BY <1>1 DEF ToggleInv
    <2>2. [Next]_vars
      BY ToggleStepNarrates DEF ToggleInv
    <2>. QED  BY <2>1, <2>2 DEF Next, SetProvider, vars
  <1>. QED  BY <1>2, ToggleInvariant, PTL DEF ToggleSpec, NarrationProgresses
============================================================================
