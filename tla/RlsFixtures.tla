----------------------------- MODULE RlsFixtures -----------------------------
(***************************************************************************)
(* The tables that the seed scripts leave in a target database, and the    *)
(* diagnosis of each that they were written for.  seed_demo.py makes       *)
(* orders and events, seed_target_fixtures.py events again and profiles;   *)
(* the grants come from the default privileges of the setup in the README. *)
(***************************************************************************)
EXTENDS RlsReport

CONSTANTS
    Keys,           \* the columns of a table that no policy looks at
    TextColumn      \* orders.user_id, profiles.visibility

ASSUME ColumnsAssumption == TextColumn \in Columns /\ Keys = Columns \ {TextColumn}

Fixture(rls, pols, rows, visible) ==
    [access |-> "select", rls |-> rls, policies |-> pols, rows |-> rows, visible |-> visible,
     type |-> [c \in Columns |-> IF c \in Keys THEN "uuid" ELSE "text"]]

Using(to, admits) ==
    {[qual |-> {[col |-> TextColumn, to |-> to]}, check |-> {}, admits |-> admits]}

Clean == {}
Untrimmed == {TextColumn}

(* A correct policy for authenticated, over two rows of three with a space   *)
(* at the end of user_id.                                                    *)
Orders == Fixture(TRUE, Using("uid_text", FALSE), {Clean, Untrimmed}, {})

(* visibility = 'public', for everyone; the row with the space is hidden.    *)
Profiles == Fixture(TRUE, Using("value", TRUE), {Clean, Untrimmed}, {Clean})

(* No row security. *)
Events == Fixture(FALSE, {}, {Clean}, {Clean})

(* No statement raised. *)
Smooth == \A i \in detected_issues : i.kind \notin {"explain", "select", "shape_failed"}

(* "This is the defect the RLS module exists to surface" (seed_demo.py) and  *)
(* "the tool cannot see it without the elevated connection"                  *)
(* (seed_target_fixtures.py): of a seeded table nobody touches, an           *)
(* inspection all of whose statements came back says what it was seeded to   *)
(* show.  The space is a critical finding over an elevated connection that   *)
(* reads every row; without one, orders is a table the role cannot see, and  *)
(* profiles is OK with the hidden rows named as not looked at.               *)
FixturesAreDiagnosed ==
    Undisturbed /\ Smooth =>
        /\ table = Orders =>
              /\ elevated = "all" =>
                    Severity = "critical" /\ Issue("whitespace", TextColumn) \in detected_issues
              /\ elevated = "none" => Severity = "warning" /\ Cause = "no_policy_applies"
        /\ table = Profiles =>
              /\ elevated = "all" => Severity = "critical" /\ Cause = "whitespace"
              /\ elevated = "none" => Severity = "ok" /\ Caveat = "visible_only"
        /\ table = Events => Severity = "critical" /\ Cause = "rls_disabled"
============================================================================
