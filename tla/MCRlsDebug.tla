----------------------------- MODULE MCRlsDebug -----------------------------
(***************************************************************************)
(* Instances of RlsDebug: a uuid column and a text column, the policies    *)
(* that tell the heuristics apart, rows with and without whitespace, and   *)
(* the tables of the seed scripts.                                         *)
(***************************************************************************)
EXTENDS RlsFixtures

CONSTANTS owner, note

MCColumns == {owner, note}
MCKeys == {owner}

Compare(c, to) == [col |-> c, to |-> to]
Policy(qual, check, admits) == [qual |-> qual, check |-> check, admits |-> admits]

(* Fits, and tests a text column beside; fits, of a text column; casts the    *)
(* wrong side; has a WITH CHECK only.                                         *)
OwnerAndNote == {Compare(owner, "uid"), Compare(note, "value")}
NoteIsUid == {Compare(note, "uid_text")}
OwnerCast == {Compare(owner, "uid_text")}
PolicySets ==
    {{}} \cup {{Policy(OwnerAndNote, {}, b)} : b \in BOOLEAN}
         \cup {{Policy(NoteIsUid, {}, b)} : b \in BOOLEAN}
         \cup {{Policy(OwnerCast, {}, FALSE), Policy({}, NoteIsUid, TRUE)}}

RowSets == {{}, {{}}, {{}, {note}}}

(* What PostgreSQL lets the role see of a table. *)
Sees(t) ==
    IF t.access # "select" THEN t.visible = {}
    ELSE IF ~t.rls THEN t.visible = t.rows
    ELSE /\ t.visible \subseteq t.rows
         /\ (\A p \in t.policies : ~p.admits) => t.visible = {}

TableOf(access, rls, pols, rows, visible) ==
    [access |-> access, rls |-> rls, policies |-> pols, rows |-> rows, visible |-> visible,
     type |-> [c \in MCColumns |-> IF c = owner THEN "uuid" ELSE "text"]]

Readable == {t \in {TableOf("select", b, ps, r, v) :
                       b \in BOOLEAN, ps \in PolicySets, r \in RowSets, v \in RowSets \cup {{{note}}}} :
                Sees(t)}
Unreadable == {TableOf(a, TRUE, ps, {{}}, {}) :
                  a \in {"dropped", "hidden", "listed"},
                  ps \in {{}, {Policy(NoteIsUid, {}, TRUE)}}}
WithoutNote == {[TableOf("select", TRUE, {Policy(OwnerCast, {}, TRUE)}, {{}}, {{}})
                    EXCEPT !.type[note] = "absent"]}

MCTables == Readable \cup Unreadable \cup WithoutNote \cup {Orders, Profiles, Events}
============================================================================
