--------------------------- MODULE ProviderToggle ----------------------------
(***************************************************************************)
(* The provider toggle of an assistant page, on top of Narration: the page *)
(* asks for the selection once (GET /assistant/providers) and sends what   *)
(* its user picks (PUT /assistant/provider).  Both handlers settle what    *)
(* they answer first and probe the providers afterwards, so an answer is   *)
(* on its way for seconds; a scan goes on under it, and other clients pick *)
(* too (SetProvider).                                                      *)
(***************************************************************************)
EXTENDS Narration

CONSTANT MaxPicks       \* bound on what the user picks

ASSUME PicksAssumption == MaxPicks \in Nat

VARIABLES
    shown,      \* providerSelect.value, "blank" when it has no such option
    label,      \* the source in the line of text beside it, "none" without one
    previous,   \* dataset.previous, "auto" until it is set
    load,       \* the GET: where it is, and what it answers
    put,        \* the PUT, and what handleProviderChange restores if it fails
    picks,
    excused     \* something happened after which the page cannot be right

page == <<shown, label, previous, load, put, picks, excused>>
toggleVars == <<vars, page>>

Sources == {"configuration", "runtime override"}
Named == Selections \cup {"unknown"}
Loads == [at : {"sent", "probing", "answered", "done"}, selected : Named, source : Sources]
Puts == [at : {"idle", "sent", "probing", "answered"}, value : Selections, restore : Named]

Shown(name) == IF name \in Selections THEN name ELSE "blank"
SelectedSource == IF override = "unset" THEN "configuration" ELSE "runtime override"

ToggleInit ==
    /\ Init
    /\ shown = "auto"
    /\ label = "none"
    /\ previous = "auto"
    /\ load = [at |-> "sent", selected |-> "auto", source |-> "configuration"]
    /\ put = [at |-> "idle", value |-> "auto", restore |-> "auto"]
    /\ picks = 0
    /\ excused = FALSE

---------------------------------------------------------------------------
(* GET /assistant/providers *)

(* Fault: the source is read before the probes, the selection after them. *)
ProbesEndAndReadSelection ==
    /\ load.at = "probing"
    /\ load' = [load EXCEPT !.at = "answered", !.selected = Selection]
    /\ UNCHANGED <<vars, shown, label, previous, put, picks, excused>>

(* What is answered is settled before the first probe. *)
LoadArrives ==
    /\ load.at = "sent"
    /\ load' = [at |-> "probing", selected |-> Selection, source |-> SelectedSource]
    /\ UNCHANGED <<vars, shown, label, previous, put, picks, excused>>

(* A probe that raises is a status like any other. *)
ProbesEnd ==
    /\ load.at = "probing"
    /\ load' = [load EXCEPT !.at = "answered"]
    /\ UNCHANGED <<vars, shown, label, previous, put, picks, excused>>

(* Fault: what the server reports is not recorded. *)
LoadShownUnrecorded ==
    /\ load.at = "answered"
    /\ load' = [load EXCEPT !.at = "done"]
    /\ shown' = Shown(load.selected)
    /\ label' = load.source
    /\ UNCHANGED <<vars, previous, put, picks, excused>>

(* renderProviderStatuses *)
LoadShown ==
    /\ load.at = "answered"
    /\ load' = [load EXCEPT !.at = "done"]
    /\ shown' = Shown(load.selected)
    /\ label' = load.source
    /\ previous' = load.selected
    /\ UNCHANGED <<vars, put, picks, excused>>

LoadFails ==
    /\ load.at # "done"
    /\ load' = [load EXCEPT !.at = "done"]
    /\ label' = "none"
    /\ excused' = TRUE
    /\ UNCHANGED <<vars, shown, previous, put, picks>>

---------------------------------------------------------------------------
(* handleProviderChange and PUT /assistant/provider *)

(* The select is disabled while a PUT is under way, and not while the GET is. *)
Pick(o) ==
    /\ put.at = "idle"
    /\ o # shown
    /\ picks < MaxPicks
    /\ picks' = picks + 1
    /\ shown' = o
    /\ excused' = (excused \/ load.at # "done")
    /\ IF o = previous
       THEN UNCHANGED <<label, put>>
       ELSE /\ label' = "none"
            /\ put' = [at |-> "sent", value |-> o, restore |-> previous]
    /\ UNCHANGED <<vars, previous, load>>

(* From here on the page is right again, unless the GET is still to come. *)
PutArrives ==
    /\ put.at = "sent"
    /\ SetProvider(put.value)
    /\ put' = [put EXCEPT !.at = "probing"]
    /\ excused' = (load.at # "done")
    /\ UNCHANGED <<shown, label, previous, load, picks>>

PutProbesEnd ==
    /\ put.at = "probing"
    /\ put' = [put EXCEPT !.at = "answered"]
    /\ UNCHANGED <<vars, shown, label, previous, load, picks, excused>>

PutShown ==
    /\ put.at = "answered"
    /\ put' = [put EXCEPT !.at = "idle"]
    /\ shown' = put.value
    /\ label' = "runtime override"
    /\ previous' = put.value
    /\ UNCHANGED <<vars, load, picks, excused>>

(* Fault: what was picked stays on the page. *)
PutFailsUnrestored ==
    /\ put.at = "sent"
    /\ put' = [put EXCEPT !.at = "idle"]
    /\ label' = "none"
    /\ UNCHANGED <<vars, shown, previous, load, picks, excused>>

(* The request did not get there. *)
PutFails ==
    /\ put.at = "sent"
    /\ put' = [put EXCEPT !.at = "idle"]
    /\ shown' = Shown(put.restore)
    /\ label' = "none"
    /\ UNCHANGED <<vars, previous, load, picks, excused>>

(* It did, and the answer does not get back: the page restores all the same. *)
PutReplyLost ==
    /\ put.at \in {"probing", "answered"}
    /\ put' = [put EXCEPT !.at = "idle"]
    /\ shown' = Shown(put.restore)
    /\ label' = "none"
    /\ excused' = TRUE
    /\ UNCHANGED <<vars, previous, load, picks>>

(* Another page picks. *)
OtherPicks(o) ==
    /\ SetProvider(o)
    /\ excused' = TRUE
    /\ UNCHANGED <<shown, label, previous, load, put, picks>>

PageStep ==
    \/ LoadArrives \/ ProbesEnd \/ LoadShown \/ LoadFails
    \/ PutArrives \/ PutProbesEnd \/ PutShown \/ PutFails \/ PutReplyLost
    \/ \E o \in Selections : Pick(o)

ToggleNext ==
    \/ ScanStep /\ UNCHANGED page
    \/ PageStep
    \/ \E o \in Selections : OtherPicks(o)

ToggleSpec == ToggleInit /\ [][ToggleNext]_toggleVars

---------------------------------------------------------------------------
PageTypeOK ==
    /\ shown \in Selections \cup {"blank"}
    /\ label \in Sources \cup {"none"}
    /\ previous \in Named
    /\ load \in Loads
    /\ put \in Puts
    /\ picks \in 0..MaxPicks
    /\ excused \in BOOLEAN

(* Every variable has its type. *)
ToggleTypeOK == TypeOK /\ PageTypeOK

Settled == load.at = "done" /\ put.at = "idle"

(* "The switch did not take; do not show it as if it did" (app.js): a page   *)
(* that waits for nothing shows the selection in force and whence it comes,  *)
(* whatever switches failed before; unless its load failed or was overtaken  *)
(* by a pick, another page picked since, or an answer was lost on its way    *)
(* back, and even then from its next switch on.  A selection said to be the  *)
(* configuration's always is.                                                *)
PageAgrees ==
    /\ label = "configuration" => shown = Shown(configured)
    /\ Settled /\ ~excused =>
          /\ shown = Shown(Selection)
          /\ label \in {"none", SelectedSource}

---------------------------------------------------------------------------
(* What can be counted on does not depend on the page. *)
FairToggleSpec == ToggleSpec /\ WF_toggleVars(AsksOllama /\ ScanStep /\ UNCHANGED page)
============================================================================
