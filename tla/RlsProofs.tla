----------------------------- MODULE RlsProofs ------------------------------
(***************************************************************************)
(* What an inspection of RlsDebug guarantees for every set of columns,     *)
(* every set of table states and any number of changes: its verdicts are   *)
(* earned, and true of the table when nobody changed it meanwhile.         *)
(***************************************************************************)
EXTENDS RlsFixtures, TLAPS

(* The statement named has come back, and the request did not end early. *)
Past(later) == at \in later \/ Reported
AfterCount == {"shape"}
AfterPrivilege == AfterCount \cup {"count"}
AfterRoles == AfterPrivilege \cup {"privilege"}
AfterExplain == AfterRoles \cup {"roles"}
AfterColumns == AfterExplain \cup {"explain"}
AfterPolicies == AfterColumns \cup {"columns"}
AfterRls == AfterPolicies \cup {"policies"}

(* A request that has an answer is over, and no role was looked up before    *)
(* the policies were read.                                                   *)
Ended ==
    /\ answer # "none" => at = "end"
    /\ at \in {"connect", "table", "rls", "policies", "columns", "explain", "roles"}
          => applicable = {}

(* A count that was tried and gave no number is an issue, and the report     *)
(* waits until every whitespace check was tried.                             *)
Accounted ==
    /\ (Past(AfterCount) /\ has_select_privilege /\ readable_rows_count = "unread")
          => Issue("select", "none") \in detected_issues
    /\ at = "count" => has_select_privilege
    /\ readable_rows_count # "unread" => has_select_privilege
    /\ at \notin {"shape", "end"} => readable_rows_count = "unread" /\ examined = {}
    /\ Reported /\ Source # "not_run" => CheckedTextCols \subseteq Attempted
    /\ Reported /\ Source = "not_run" => detected_issues # {}

(* What was read of a table that was not changed is what the table is. *)
TrueReadings ==
    changes = 0 =>
        /\ Past(AfterRls \cup {"rls"}) => table.access \in {"listed", "select"}
        /\ Past(AfterRls) => rls_enabled = (Existing(table) /\ table.rls)
        /\ Past(AfterPolicies) => policies = IF Existing(table) THEN table.policies ELSE {}
        /\ Past(AfterColumns) =>
              \A p \in policies : \A c \in Mismatched(p, columns_map) :
                  Issue("mismatch", c) \in detected_issues
        /\ plan_proves_zero_rows => table.visible = {}
        /\ Past(AfterPrivilege) => has_select_privilege = (table.access = "select")
        /\ readable_rows_count = "zero" => table.visible = {}
        /\ readable_rows_count = "some" => table.visible # {}
        /\ \A c \in examined : (\E row \in ShapeRows : c \in row)
                                  => Issue("whitespace", c) \in detected_issues

(* Why there is an issue, and what the policies were compared with. *)
Explained ==
    /\ at \in {"connect", "table", "rls", "policies", "columns"} => detected_issues = {}
    /\ Past(AfterRoles) => applicable = {p \in policies : p.admits}
    /\ changes = 0 /\ Past(AfterColumns) => columns_map = table.type
    /\ \A i \in detected_issues :
          /\ i.kind = "mismatch" => \E p \in policies : i.col \in Mismatched(p, columns_map)
          /\ i.kind = "whitespace" =>
                /\ at \in {"shape", "end"} /\ Source # "not_run" /\ i.col \in CheckedTextCols
                /\ changes = 0 => \E row \in ShapeRows : i.col \in row
          /\ i.kind \in {"privilege", "no_policy", "filtered"} =>
                at = "end" /\ Source = "not_run"

RlsInv == TypeOK /\ Ended /\ Accounted /\ TrueReadings

-----------------------------------------------------------------------------
(* The invariant holds before the first statement. *)
THEOREM InitEstablishesInv == Init => RlsInv
  <1>. SUFFICES ASSUME Init PROVE RlsInv
    OBVIOUS
  <1>. USE DEF Init
  <1>1. TypeOK
    <2>1. columns_map \in [Columns -> {"uuid", "text", "absent"}]
      OBVIOUS
    <2>2. changes \in 0..MaxChanges
      BY ChangesAssumption
    <2>3. applicable \in SUBSET policies /\ policies \in SUBSET Policies
      OBVIOUS
    <2>4. detected_issues \in SUBSET Issues /\ examined \in SUBSET Columns
      OBVIOUS
    <2>. QED  BY <2>1, <2>2, <2>3, <2>4 DEF TypeOK, Statements
  <1>2. Ended /\ Accounted /\ TrueReadings
    BY DEF Ended, Accounted, TrueReadings, Past, Reported, AfterCount, AfterPrivilege,
           AfterRoles, AfterExplain, AfterColumns, AfterPolicies, AfterRls
  <1>. QED  BY <1>1, <1>2 DEF RlsInv

(* Every step keeps every variable in its type. *)
LEMMA TypeStep == TypeOK /\ Ended /\ [Next]_vars => TypeOK'
  <1>. SUFFICES ASSUME TypeOK, Ended, [Next]_vars PROVE TypeOK'
    OBVIOUS
  <1>. table \in TableStates
    BY TablesAssumption DEF TypeOK
  <1>. USE ChangesAssumption DEF TypeOK, Ended, vars, findings, Environment, Step, Answer, Statements,
                                 TableStates, Issue, Issues, Kinds
  <1>1. CASE Connect
    BY <1>1 DEF Connect
  <1>2. CASE ConnectFails
    BY <1>2 DEF ConnectFails
  <1>3. CASE CheckTable
    BY <1>3 DEF CheckTable
  <1>4. CASE ReadRls
    BY <1>4 DEF ReadRls
  <1>5. CASE ReadPolicies
    BY <1>5 DEF ReadPolicies
  <1>6. CASE ReadColumns
    <2>1. columns_map' \in [Columns -> {"uuid", "text", "absent"}]
      BY <1>6 DEF ReadColumns
    <2>2. detected_issues' \in SUBSET Issues
      BY <1>6 DEF ReadColumns, Mismatched
    <2>. QED  BY <1>6, <2>1, <2>2 DEF ReadColumns
  <1>7. CASE Explain
    BY <1>7 DEF Explain
  <1>8. CASE ReadRoles
    BY <1>8 DEF ReadRoles
  <1>9. CASE ReadPrivilege
    BY <1>9 DEF ReadPrivilege
  <1>10. CASE CountRows
    BY <1>10 DEF CountRows
  <1>11. CASE CountRowsFails
    BY <1>11 DEF CountRowsFails
  <1>12. CASE NotRun
    BY <1>12 DEF NotRun
  <1>13. CASE Report
    BY <1>13 DEF Report
  <1>14. CASE StatementFails
    BY <1>14 DEF StatementFails
  <1>15. CASE Change
    BY <1>15 DEF Change
  <1>16. ASSUME NEW c \in Columns, CheckShape(c) PROVE TypeOK'
    BY <1>16 DEF CheckShape
  <1>17. ASSUME NEW c \in Columns, CheckShapeFails(c) PROVE TypeOK'
    BY <1>17 DEF CheckShapeFails
  <1>18. CASE UNCHANGED vars
    BY <1>18
  <1>. QED  BY <1>1, <1>2, <1>3, <1>4, <1>5, <1>6, <1>7, <1>8, <1>9, <1>10, <1>11, <1>12, <1>13, <1>14, <1>15, <1>16, <1>17, <1>18 DEF Next

(* Where the request is agrees with its answer and with what it looked up. *)
LEMMA EndedStep == Ended /\ [Next]_vars => Ended'
  <1>. SUFFICES ASSUME Ended, [Next]_vars PROVE Ended'
    OBVIOUS
  <1>. USE DEF Ended, vars, findings, Environment, Step, Answer
  <1>1. CASE Connect
    BY <1>1 DEF Connect
  <1>2. CASE ConnectFails
    BY <1>2 DEF ConnectFails
  <1>3. CASE CheckTable
    BY <1>3 DEF CheckTable
  <1>4. CASE ReadRls
    BY <1>4 DEF ReadRls
  <1>5. CASE ReadPolicies
    BY <1>5 DEF ReadPolicies
  <1>6. CASE ReadColumns
    BY <1>6 DEF ReadColumns
  <1>7. CASE Explain
    BY <1>7 DEF Explain
  <1>8. CASE ReadRoles
    BY <1>8 DEF ReadRoles
  <1>9. CASE ReadPrivilege
    BY <1>9 DEF ReadPrivilege
  <1>10. CASE CountRows
    BY <1>10 DEF CountRows
  <1>11. CASE CountRowsFails
    BY <1>11 DEF CountRowsFails
  <1>12. CASE NotRun
    BY <1>12 DEF NotRun
  <1>13. CASE Report
    BY <1>13 DEF Report
  <1>14. CASE StatementFails
    BY <1>14 DEF StatementFails
  <1>15. CASE Change
    BY <1>15 DEF Change
  <1>16. ASSUME NEW c \in Columns, CheckShape(c) PROVE Ended'
    BY <1>16 DEF CheckShape
  <1>17. ASSUME NEW c \in Columns, CheckShapeFails(c) PROVE Ended'
    BY <1>17 DEF CheckShapeFails
  <1>18. CASE UNCHANGED vars
    BY <1>18
  <1>. QED  BY <1>1, <1>2, <1>3, <1>4, <1>5, <1>6, <1>7, <1>8, <1>9, <1>10, <1>11, <1>12, <1>13, <1>14, <1>15, <1>16, <1>17, <1>18 DEF Next

(* The count and the whitespace checks are accounted for. *)
LEMMA AccountedStep == TypeOK /\ Ended /\ Accounted /\ [Next]_vars => Accounted'
  <1>. SUFFICES ASSUME TypeOK, Ended, Accounted, [Next]_vars PROVE Accounted'
    OBVIOUS
  <1>. USE DEF TypeOK, Ended, Accounted, vars, findings, Environment, Step, Answer, Past, Reported,
               AfterCount, AfterPrivilege, Source, CheckedTextCols, Attempted, Issue
  <1>1. CASE Connect
    BY <1>1 DEF Connect
  <1>2. CASE ConnectFails
    BY <1>2 DEF ConnectFails
  <1>3. CASE CheckTable
    BY <1>3 DEF CheckTable
  <1>4. CASE ReadRls
    BY <1>4 DEF ReadRls
  <1>5. CASE ReadPolicies
    BY <1>5 DEF ReadPolicies
  <1>6. CASE ReadColumns
    BY <1>6 DEF ReadColumns
  <1>7. CASE Explain
    BY <1>7 DEF Explain
  <1>8. CASE ReadRoles
    BY <1>8 DEF ReadRoles
  <1>9. CASE ReadPrivilege
    BY <1>9 DEF ReadPrivilege
  <1>10. CASE CountRows
    BY <1>10 DEF CountRows
  <1>11. CASE CountRowsFails
    BY <1>11 DEF CountRowsFails
  <1>12. CASE NotRun
    BY <1>12 DEF NotRun, RowVisibility
  <1>13. CASE Report
    BY <1>13 DEF Report
  <1>14. CASE StatementFails
    BY <1>14 DEF StatementFails
  <1>15. CASE Change
    BY <1>15 DEF Change
  <1>16. ASSUME NEW c \in Columns, CheckShape(c) PROVE Accounted'
    BY <1>16 DEF CheckShape
  <1>17. ASSUME NEW c \in Columns, CheckShapeFails(c) PROVE Accounted'
    BY <1>17 DEF CheckShapeFails
  <1>18. CASE UNCHANGED vars
    BY <1>18
  <1>. QED  BY <1>1, <1>2, <1>3, <1>4, <1>5, <1>6, <1>7, <1>8, <1>9, <1>10, <1>11, <1>12, <1>13, <1>14, <1>15, <1>16, <1>17, <1>18 DEF Next


(* What was read stays true of the table as long as nobody changes it. *)
LEMMA TrueReadingsStep == RlsInv /\ [Next]_vars => TrueReadings'
  <1>. SUFFICES ASSUME RlsInv, [Next]_vars PROVE TrueReadings'
    OBVIOUS
  <1>. TypeOK /\ Ended /\ Accounted /\ TrueReadings
    BY DEF RlsInv
  <1>. USE DEF Ended, TrueReadings, vars, findings, Environment, Step, Answer, Past, Reported,
               AfterCount, AfterPrivilege, AfterRoles, AfterExplain, AfterColumns,
               AfterPolicies, AfterRls, ShapeRows, Source
  <1>1. CASE Connect
    BY <1>1 DEF Connect
  <1>2. CASE ConnectFails
    BY <1>2 DEF ConnectFails
  <1>3. CASE CheckTable
    BY <1>3 DEF CheckTable
  <1>4. CASE ReadRls
    BY <1>4 DEF ReadRls
  <1>5. CASE ReadPolicies
    BY <1>5 DEF ReadPolicies
  <1>6. CASE ReadColumns
    BY <1>6 DEF ReadColumns, Issue, Accounted
  <1>7. CASE Explain
    BY <1>7 DEF Explain
  <1>8. CASE ReadRoles
    BY <1>8 DEF ReadRoles
  <1>9. CASE ReadPrivilege
    BY <1>9 DEF ReadPrivilege
  <1>10. CASE CountRows
    BY <1>10 DEF CountRows, Accounted
  <1>11. CASE CountRowsFails
    BY <1>11 DEF CountRowsFails
  <1>12. CASE NotRun
    BY <1>12 DEF NotRun
  <1>13. CASE Report
    BY <1>13 DEF Report
  <1>14. CASE StatementFails
    BY <1>14 DEF StatementFails
  <1>15. CASE Change
    BY <1>15 DEF Change, TypeOK
  <1>16. ASSUME NEW c \in Columns, CheckShape(c) PROVE TrueReadings'
    BY <1>16 DEF CheckShape, Accounted, Issue
  <1>17. ASSUME NEW c \in Columns, CheckShapeFails(c) PROVE TrueReadings'
    BY <1>17 DEF CheckShapeFails
  <1>18. CASE UNCHANGED vars
    BY <1>18
  <1>. QED  BY <1>1, <1>2, <1>3, <1>4, <1>5, <1>6, <1>7, <1>8, <1>9, <1>10, <1>11, <1>12, <1>13, <1>14, <1>15, <1>16, <1>17, <1>18 DEF Next

-----------------------------------------------------------------------------
(* RlsInv holds throughout every inspection. *)
THEOREM RlsInvariant == Spec => []RlsInv
  <1>1. RlsInv /\ [Next]_vars => RlsInv'
    BY TypeStep, EndedStep, AccountedStep, TrueReadingsStep DEF RlsInv
  <1>. QED  BY InitEstablishesInv, <1>1, PTL DEF Spec

(* Type correctness of an inspection. *)
THEOREM RlsTypeCorrect == Spec => []TypeOK
  <1>1. RlsInv => TypeOK
    BY DEF RlsInv
  <1>. QED  BY RlsInvariant, <1>1, PTL

(* Checks that did not run always leave an issue, so no verdict is reached   *)
(* in silence, whatever statement raised.                                    *)
THEOREM NotRunIsNeverSilent == Spec => []NotRunLeavesIssue
  <1>1. RlsInv => NotRunLeavesIssue
    BY DEF RlsInv, Accounted, NotRunLeavesIssue
  <1>. QED  BY RlsInvariant, <1>1, PTL

(* An OK rests on a whitespace check that came back for every text column    *)
(* the policies depend on.                                                   *)
THEOREM OkRequiresEvidence == Spec => []OkIsEarned
  <1>1. RlsInv => OkIsEarned
    BY DEF RlsInv, Accounted, OkIsEarned, Severity, Attempted
  <1>. QED  BY RlsInvariant, <1>1, PTL

(* The endpoint claims the absence of defects exactly when a scan says OK. *)
THEOREM VerdictsAlwaysAgree == Spec => []VerdictsAgree
  <1>1. RlsInv => VerdictsAgree
    BY DEF VerdictsAgree, Severity, Explanation, Confirmed, Source
  <1>. QED  BY RlsInvariant, <1>1, PTL

(* No whitespace the connection meant to see it can see passes as OK. *)
THEOREM DefectsAreReported == Spec => []DefectIsReported
  <1>1. RlsInv => DefectIsReported
    <2>. SUFFICES ASSUME RlsInv, Undisturbed, Severity = "ok", NEW c \in CheckedTextCols
                  PROVE  /\ elevated = "all" => \A row \in table.rows : c \notin row
                         /\ elevated = "none" => \A row \in table.visible : c \notin row
      BY DEF DefectIsReported
    <2>1. c \in examined /\ Source # "not_run"
      BY DEF RlsInv, Accounted, Undisturbed, Severity, Attempted
    <2>2. Issue("whitespace", c) \notin detected_issues
      BY DEF Severity
    <2>3. \A row \in ShapeRows : c \notin row
      BY <2>1, <2>2 DEF RlsInv, TrueReadings, Undisturbed
    <2>. QED  BY <2>1, <2>3 DEF ShapeRows, Source
  <1>. QED  BY RlsInvariant, <1>1, PTL

(* A uuid column compared with a cast of auth.uid() never goes unreported. *)
THEOREM UuidCastsAreReported == Spec => []UuidCastIsReported
  <1>1. RlsInv => UuidCastIsReported
    <2>. SUFFICES ASSUME RlsInv, Undisturbed, NEW p \in table.policies, NEW k \in Expression(p),
                         columns_map[k.col] = "uuid", k.to = "uid_text"
                  PROVE  Issue("mismatch", k.col) \in detected_issues
      BY DEF UuidCastIsReported
    <2>. USE DEF RlsInv, TypeOK
    <2>1. k \in Comparisons /\ k.col \in Columns
      BY TablesAssumption DEF TableStates, Policies, Expression, Comparisons
    <2>2. k.col \in Mismatched(p, columns_map)
      BY <2>1 DEF Mismatched, CallsUid, References, CastsUid
    <2>3. p \in policies
      BY DEF TrueReadings, Undisturbed, Past, Existing
    <2>. QED  BY <2>2, <2>3 DEF TrueReadings, Undisturbed, Past
  <1>. QED  BY RlsInvariant, <1>1, PTL

-----------------------------------------------------------------------------
(* Every issue has its cause, at every step. *)
LEMMA ExplainedStep == RlsInv /\ Explained /\ [Next]_vars => Explained'
  <1>. SUFFICES ASSUME RlsInv, Explained, [Next]_vars PROVE Explained'
    OBVIOUS
  <1>. TypeOK /\ Ended /\ Accounted /\ TrueReadings
    BY DEF RlsInv
  <1>. table \in TableStates
    BY TablesAssumption DEF TypeOK
  <1>k. columns_map' = columns_map /\ policies' = policies => CheckedTextCols' = CheckedTextCols
    BY DEF CheckedTextCols
  <1>. USE DEF Ended, Explained, vars, findings, Environment, Step, Answer, Past, Reported,
               AfterCount, AfterPrivilege, AfterRoles, AfterExplain, AfterColumns,
               ShapeRows, Source, Issue
  <1>1. CASE Connect
    BY <1>1 DEF Connect
  <1>2. CASE ConnectFails
    BY <1>2 DEF ConnectFails
  <1>3. CASE CheckTable
    BY <1>3 DEF CheckTable
  <1>4. CASE ReadRls
    BY <1>4 DEF ReadRls
  <1>5. CASE ReadPolicies
    BY <1>5 DEF ReadPolicies
  <1>6. CASE ReadColumns
    BY <1>6 DEF ReadColumns, TrueReadings, TypeOK, TableStates, AfterRls, AfterPolicies
  <1>7. CASE Explain
    BY <1>7 DEF Explain
  <1>8. CASE ReadRoles
    BY <1>8 DEF ReadRoles
  <1>9. CASE ReadPrivilege
    BY <1>9 DEF ReadPrivilege
  <1>10. CASE CountRows
    BY <1>10 DEF CountRows, Accounted
  <1>11. CASE CountRowsFails
    BY <1>11 DEF CountRowsFails
  <1>12. CASE NotRun
    BY <1>12 DEF NotRun
  <1>13. CASE Report
    BY <1>13, <1>k DEF Report
  <1>14. CASE StatementFails
    BY <1>14, <1>k DEF StatementFails
  <1>15. CASE Change
    BY <1>15, <1>k DEF Change, TypeOK
  <1>16. ASSUME NEW c \in Columns, CheckShape(c) PROVE Explained'
    BY <1>16, <1>k DEF CheckShape
  <1>17. ASSUME NEW c \in Columns, CheckShapeFails(c) PROVE Explained'
    BY <1>17, <1>k DEF CheckShapeFails
  <1>18. CASE UNCHANGED vars
    BY <1>18, <1>k
  <1>. QED  BY <1>1, <1>2, <1>3, <1>4, <1>5, <1>6, <1>7, <1>8, <1>9, <1>10, <1>11, <1>12, <1>13, <1>14, <1>15, <1>16, <1>17, <1>18 DEF Next

(* Explained holds throughout every inspection. *)
THEOREM ExplainedInvariant == Spec => []Explained
  <1>1. Init => Explained
    BY DEF Init, Explained, Past, Reported, AfterCount, AfterPrivilege, AfterRoles,
           AfterExplain, AfterColumns
  <1>2. RlsInv /\ Explained /\ [Next]_vars => Explained'
    BY ExplainedStep
  <1>. QED  BY RlsInvariant, <1>1, <1>2, PTL DEF Spec

(* A column is never called malformed on the strength of rows nobody saw. *)
THEOREM WhitespaceIsAlwaysSeen == Spec => []WhitespaceIsSeen
  <1>1. RlsInv /\ Explained => WhitespaceIsSeen
    <2>. SUFFICES ASSUME RlsInv, Explained, Undisturbed,
                         NEW i \in detected_issues, i.kind = "whitespace"
                  PROVE  /\ \E row \in IF elevated = "all" THEN table.rows ELSE table.visible :
                               i.col \in row
                         /\ \E p \in table.policies : References(p.qual, i.col)
      BY DEF WhitespaceIsSeen
    <2>1. Source # "not_run" /\ i.col \in CheckedTextCols /\ \E row \in ShapeRows : i.col \in row
      BY DEF Explained, Undisturbed
    <2>2. policies = table.policies
      BY DEF RlsInv, TrueReadings, Undisturbed, Past, Existing
    <2>3. elevated = "none" => Source = "read_only"
      BY <2>1 DEF Source
    <2>. QED  BY <2>1, <2>2, <2>3 DEF CheckedTextCols, ShapeRows, Source, RlsInv, TypeOK
  <1>. QED  BY RlsInvariant, ExplainedInvariant, <1>1, PTL

(* The causes of a count of zero that row_visibility tells apart are those   *)
(* of the table, if nobody changed it.                                       *)
THEOREM VisibilityIsCorrect == Spec => []VisibilityIsTrue
  <1>1. RlsInv /\ Explained => VisibilityIsTrue
    <2>. SUFFICES ASSUME RlsInv, Explained, Undisturbed PROVE VisibilityIsTrue
      BY DEF VisibilityIsTrue
    <2>. USE DEF Undisturbed, RlsInv
    <2>1. /\ has_select_privilege = (table.access = "select")
          /\ rls_enabled = (Existing(table) /\ table.rls)
          /\ policies = IF Existing(table) THEN table.policies ELSE {}
          /\ table.access \in {"listed", "select"}
          /\ readable_rows_count = "zero" => table.visible = {}
          /\ readable_rows_count = "some" => table.visible # {}
      BY DEF TrueReadings, Past
    <2>2. /\ Existing(table)
          /\ rls_enabled = table.rls
          /\ policies = table.policies
      <3>1. Existing(table)
        BY <2>1 DEF Existing
      <3>2. table.rls \in BOOLEAN
        BY TablesAssumption DEF TypeOK, TableStates
      <3>. QED  BY <2>1, <3>1, <3>2
    <2>3. applicable = {p \in table.policies : p.admits}
      BY <2>2 DEF Explained, Past
    <2>4. has_select_privilege /\ readable_rows_count = "unread"
             => Issue("select", "none") \in detected_issues
      BY DEF Accounted, Past
    <2>5. has_select_privilege \in BOOLEAN /\ readable_rows_count \in {"unread", "zero", "some"}
      BY DEF TypeOK
    <2>6. (applicable = {}) = (\A p \in table.policies : ~p.admits)
      BY <2>3
    <2>. HIDE DEF Undisturbed, RlsInv
    <2>. QED  BY <2>1, <2>2, <2>4, <2>5, <2>6 DEF VisibilityIsTrue, RowVisibility, NoneTargetsRole
  <1>. QED  BY RlsInvariant, ExplainedInvariant, <1>1, PTL

(* MismatchIsReal, which a policy that compares two columns violates, for    *)
(* the policies that compare one: on them the heuristic of a cast anywhere   *)
(* in the expression (rls_debug.py) is exact.                                *)
MismatchIsRealOfOne ==
    Undisturbed =>
        \A i \in detected_issues : i.kind = "mismatch" =>
            \E p \in table.policies :
                \/ \E k, l \in Expression(p) : k # l
                \/ \E k \in Expression(p) :
                      k.col = i.col /\ k.to = IF columns_map[i.col] = "uuid" THEN "uid_text" ELSE "uid"

(* A policy with one comparison is reported as a mismatch for a reason. *)
THEOREM MismatchesOfOneAreReal == Spec => []MismatchIsRealOfOne
  <1>1. RlsInv /\ Explained => MismatchIsRealOfOne
    <2>. SUFFICES ASSUME RlsInv, Explained, Undisturbed,
                         NEW i \in detected_issues, i.kind = "mismatch"
                  PROVE  \E p \in table.policies :
                             \/ \E k, l \in Expression(p) : k # l
                             \/ \E k \in Expression(p) :
                                   /\ k.col = i.col
                                   /\ k.to = IF columns_map[i.col] = "uuid" THEN "uid_text" ELSE "uid"
      BY DEF MismatchIsRealOfOne
    <2>1. PICK p \in policies : i.col \in Mismatched(p, columns_map)
      BY DEF Explained
    <2>2. p \in table.policies
      BY <2>1 DEF RlsInv, TrueReadings, Undisturbed, Past, Existing
    <2>3. PICK k \in Expression(p) : k.col = i.col
      BY <2>1 DEF Mismatched, References
    <2>4. PICK l \in Expression(p) : l.to \in {"uid", "uid_text"}
      BY <2>1 DEF Mismatched, CallsUid
    <2>5. CASE \A x, y \in Expression(p) : x = y
      <3>1. k = l
        BY <2>5
      <3>2. columns_map[i.col] = "uuid" => k.to = "uid_text"
        BY <2>1, <2>5 DEF Mismatched, CastsUid
      <3>3. columns_map[i.col] # "uuid" => k.to = "uid"
        BY <2>1, <2>4, <3>1 DEF Mismatched, CastsUid
      <3>. QED  BY <2>2, <2>3, <3>2, <3>3
    <2>. QED  BY <2>2, <2>5
  <1>. QED  BY RlsInvariant, ExplainedInvariant, <1>1, PTL

(* The statements of an inspection, in order. *)
Statement ==
    IF at = "connect" THEN 0 ELSE IF at = "table" THEN 1 ELSE IF at = "rls" THEN 2
    ELSE IF at = "policies" THEN 3 ELSE IF at = "columns" THEN 4 ELSE IF at = "explain" THEN 5
    ELSE IF at = "roles" THEN 6 ELSE IF at = "privilege" THEN 7 ELSE IF at = "count" THEN 8
    ELSE IF at = "shape" THEN 9 ELSE 10

(* An inspection goes on to a later statement with each that it makes, or to *)
(* another column of the whitespace checks, of which none is checked again;  *)
(* nothing else touches what it found.                                       *)
InspectionGoesOn ==
    [][\/ Statement' > Statement
       \/ /\ at = "shape" /\ at' = "shape" /\ Attempted \subseteq Attempted'
          /\ \E c \in CheckedTextCols \ Attempted : c \in Attempted'
       \/ UNCHANGED <<at, answer, findings, detected_issues, examined>>]_vars

(* An inspection is over after ten statements and one for each text column a *)
(* policy depends on, whatever raises and changes (run_rls_debug).           *)
THEOREM InspectionsGoOn == Spec => InspectionGoesOn
  <1>1. [Next]_vars =>
           [\/ Statement' > Statement
            \/ /\ at = "shape" /\ at' = "shape" /\ Attempted \subseteq Attempted'
               /\ \E c \in CheckedTextCols \ Attempted : c \in Attempted'
            \/ UNCHANGED <<at, answer, findings, detected_issues, examined>>]_vars
    <2>. SUFFICES ASSUME Next
                  PROVE  \/ Statement' > Statement
                         \/ /\ at = "shape" /\ at' = "shape" /\ Attempted \subseteq Attempted'
                            /\ \E c \in CheckedTextCols \ Attempted : c \in Attempted'
                         \/ UNCHANGED <<at, answer, findings, detected_issues, examined>>
      OBVIOUS
    <2>. USE DEF Statement, Step, Answer
    <2>1. CASE Connect \/ ConnectFails \/ CheckTable \/ ReadRls \/ ReadPolicies \/ ReadColumns
      BY <2>1 DEF Connect, ConnectFails, CheckTable, ReadRls, ReadPolicies, ReadColumns
    <2>2. CASE Explain \/ ReadRoles \/ ReadPrivilege \/ CountRows \/ CountRowsFails
      BY <2>2 DEF Explain, ReadRoles, ReadPrivilege, CountRows, CountRowsFails
    <2>3. CASE NotRun \/ Report \/ StatementFails
      BY <2>3 DEF NotRun, Report, StatementFails
    <2>4. ASSUME NEW c \in Columns, CheckShape(c) \/ CheckShapeFails(c)
          PROVE  /\ at = "shape" /\ at' = "shape" /\ Attempted \subseteq Attempted'
                 /\ c \in CheckedTextCols \ Attempted /\ c \in Attempted'
      BY <2>4 DEF CheckShape, CheckShapeFails, Attempted, Issue
    <2>5. CASE Change
      BY <2>5 DEF Change
    <2>. QED  BY <2>1, <2>2, <2>3, <2>4, <2>5 DEF Next
  <1>. QED  BY <1>1, PTL DEF Spec, InspectionGoesOn

(* An OK that rests on the rows the role was let see says so in its report. *)
THEOREM PartialViewsAreDisclosed == Spec => []PartialViewIsDisclosed
  <1>1. RlsInv => PartialViewIsDisclosed
    BY DEF RlsInv, Accounted, PartialViewIsDisclosed, Severity, Source, RowVisibility, Cause,
           Caveat, WhitespaceSeen
  <1>. QED  BY RlsInvariant, <1>1, PTL

(* The one comparison of a seeded policy fits its column. *)
LEMMA FixtureFits ==
  ASSUME NEW to \in {"uid_text", "value"}, NEW b \in BOOLEAN,
         NEW types, types = [c \in Columns |-> IF c \in Keys THEN "uuid" ELSE "text"]
  PROVE  \A p \in Using(to, b) : Mismatched(p, types) = {}
  <1>. SUFFICES ASSUME NEW p \in Using(to, b), NEW c \in Mismatched(p, types) PROVE FALSE
    OBVIOUS
  <1>1. Expression(p) = {[col |-> TextColumn, to |-> to]}
    BY DEF Using, Expression
  <1>2. c \in Columns /\ References(Expression(p), c) /\ CallsUid(Expression(p))
        /\ (types[c] = "uuid" \/ ~CastsUid(Expression(p)))
    BY DEF Mismatched
  <1>3. c = TextColumn
    BY <1>1, <1>2 DEF References
  <1>4. types[c] = "text"
    BY <1>3, ColumnsAssumption
  <1>5. to = "uid_text"
    BY <1>1, <1>2 DEF CallsUid
  <1>6. CastsUid(Expression(p))
    BY <1>1, <1>5 DEF CastsUid
  <1>. QED  BY <1>2, <1>4, <1>6

(* What an undisturbed inspection of orders or profiles read. *)
LEMMA FixtureReadings ==
  ASSUME RlsInv, Explained, Undisturbed, Smooth, table \in {Orders, Profiles}
  PROVE  /\ rls_enabled /\ policies = table.policies
         /\ columns_map = [c \in Columns |-> IF c \in Keys THEN "uuid" ELSE "text"]
         /\ has_select_privilege
         /\ readable_rows_count = (IF table.visible = {} THEN "zero" ELSE "some")
         /\ \A i \in detected_issues :
                i.kind \in {"whitespace", "privilege", "no_policy", "filtered"}
         /\ \A c \in CheckedTextCols : Source # "not_run" => c \in examined
  <1>. USE DEF RlsInv, Explained, Undisturbed, Past, Reported
  <1>1. /\ table.access = "select" /\ table.rls
        /\ \E to \in {"uid_text", "value"}, b \in BOOLEAN : table.policies = Using(to, b)
        /\ table.type = [c \in Columns |-> IF c \in Keys THEN "uuid" ELSE "text"]
    <2>1. CASE table = Orders
      <3>1. table.policies = Using("uid_text", FALSE)
        BY <2>1 DEF Orders, Fixture
      <3>. QED  BY <2>1, <3>1 DEF Orders, Fixture
    <2>2. CASE table = Profiles
      <3>1. table.policies = Using("value", TRUE)
        BY <2>2 DEF Profiles, Fixture
      <3>. QED  BY <2>2, <3>1 DEF Profiles, Fixture
    <2>. QED  BY <2>1, <2>2
  <1>3. rls_enabled /\ policies = table.policies
    BY <1>1 DEF TrueReadings, Existing
  <1>4. columns_map = table.type
    OBVIOUS
  <1>5. has_select_privilege
    BY <1>1 DEF TrueReadings
  <1>6. readable_rows_count # "unread"
    BY <1>5 DEF Accounted, Smooth, Issue
  <1>7. readable_rows_count = (IF table.visible = {} THEN "zero" ELSE "some")
    BY <1>6 DEF TrueReadings, TypeOK
  <1>8. \A p \in policies : Mismatched(p, columns_map) = {}
    BY <1>1, <1>3, <1>4, FixtureFits
  <1>9. \A i \in detected_issues : i.kind \in {"whitespace", "privilege", "no_policy", "filtered"}
    <2>. SUFFICES ASSUME NEW i \in detected_issues
                  PROVE  i.kind \in {"whitespace", "privilege", "no_policy", "filtered"}
      OBVIOUS
    <2>1. i.kind \in Kinds
      BY DEF TypeOK, Issues
    <2>2. i.kind # "mismatch"
      BY <1>8
    <2>. QED  BY <2>1, <2>2 DEF Kinds, Smooth
  <1>10. ASSUME NEW c \in CheckedTextCols, Source # "not_run" PROVE c \in examined
    <2>1. c \in Attempted
      BY <1>10 DEF Accounted
    <2>. QED  BY <2>1 DEF Attempted, Smooth
  <1>. QED  BY <1>1, <1>3, <1>4, <1>5, <1>7, <1>9, <1>10

(* Every seeded table is diagnosed as the seed scripts say. *)
THEOREM FixturesAreAlwaysDiagnosed == Spec => []FixturesAreDiagnosed
  <1>1. RlsInv /\ Explained => FixturesAreDiagnosed
    <2>. SUFFICES ASSUME RlsInv, Explained, Undisturbed, Smooth
                  PROVE  FixturesAreDiagnosed
      BY DEF FixturesAreDiagnosed
    <2>. DEFINE text == [c \in Columns |-> IF c \in Keys THEN "uuid" ELSE "text"]
    <2>0. text[TextColumn] = "text" /\ TextColumn \in Untrimmed
      BY ColumnsAssumption DEF Untrimmed
    <2>1. ASSUME table = Orders
          PROVE  /\ elevated = "all" =>
                        Severity = "critical" /\ Issue("whitespace", TextColumn) \in detected_issues
                 /\ elevated = "none" => Severity = "warning" /\ Cause = "no_policy_applies"
      <3>1. /\ rls_enabled /\ policies = Using("uid_text", FALSE) /\ columns_map = text
            /\ has_select_privilege /\ readable_rows_count = "zero"
            /\ \A i \in detected_issues :
                  i.kind \in {"whitespace", "privilege", "no_policy", "filtered"}
            /\ \A c \in CheckedTextCols : Source # "not_run" => c \in examined
        BY <2>1, FixtureReadings DEF Orders, Fixture
      <3>2. TextColumn \in CheckedTextCols
        BY <2>0, <3>1, ColumnsAssumption DEF CheckedTextCols, Using, References
      <3>3. ASSUME elevated = "all"
            PROVE  Severity = "critical" /\ Issue("whitespace", TextColumn) \in detected_issues
        <4>1. TextColumn \in examined /\ Untrimmed \in ShapeRows
          BY <2>1, <3>1, <3>2, <3>3 DEF Source, ShapeRows, Orders, Fixture
        <4>2. Issue("whitespace", TextColumn) \in detected_issues
          BY <2>0, <4>1 DEF RlsInv, TrueReadings, Undisturbed
        <4>. QED  BY <4>2 DEF Severity, Confirmed, Issue
      <3>4. ASSUME elevated = "none" PROVE Severity = "warning" /\ Cause = "no_policy_applies"
        <4>1. Source = "not_run"
          BY <3>1, <3>4 DEF Source
        <4>2. Confirmed = {}
          BY <3>1, <4>1 DEF Explained, Confirmed
        <4>3. applicable = {}
          <5>1. {p \in Using("uid_text", FALSE) : p.admits} = {}
            BY DEF Using
          <5>. QED  BY <3>1, <5>1 DEF Explained, Past, Undisturbed
        <4>4. policies # {}
          BY <3>1 DEF Using
        <4>5. RowVisibility = "no_policy_applies"
          BY <3>1, <4>3, <4>4 DEF RowVisibility
        <4>. QED  BY <3>1, <4>1, <4>2, <4>5 DEF Severity, Cause
      <3>. QED  BY <3>3, <3>4
    <2>2. ASSUME table = Profiles
          PROVE  /\ elevated = "all" => Severity = "critical" /\ Cause = "whitespace"
                 /\ elevated = "none" => Severity = "ok" /\ Caveat = "visible_only"
      <3>1. /\ rls_enabled /\ policies = Using("value", TRUE) /\ columns_map = text
            /\ has_select_privilege /\ readable_rows_count = "some"
            /\ \A i \in detected_issues :
                  i.kind \in {"whitespace", "privilege", "no_policy", "filtered"}
            /\ \A c \in CheckedTextCols : Source # "not_run" => c \in examined
        BY <2>2, FixtureReadings DEF Profiles, Fixture
      <3>2. TextColumn \in CheckedTextCols /\ RowVisibility = "readable"
        BY <2>0, <3>1, ColumnsAssumption DEF CheckedTextCols, Using, References, RowVisibility
      <3>3. ASSUME elevated = "all" PROVE Severity = "critical" /\ Cause = "whitespace"
        <4>1. TextColumn \in examined /\ Untrimmed \in ShapeRows
          BY <2>2, <3>1, <3>2, <3>3 DEF Source, ShapeRows, Profiles, Fixture
        <4>2. Issue("whitespace", TextColumn) \in detected_issues
          BY <2>0, <4>1 DEF RlsInv, TrueReadings, Undisturbed
        <4>. QED  BY <3>1, <3>2, <4>2 DEF Severity, Confirmed, Cause, WhitespaceSeen, Issue
      <3>4. ASSUME elevated = "none" PROVE Severity = "ok" /\ Caveat = "visible_only"
        <4>1. Source = "read_only"
          BY <3>1, <3>4 DEF Source
        <4>2. \A row \in ShapeRows : row = {}
          BY <2>2, <4>1 DEF ShapeRows, Profiles, Fixture, Clean
        <4>3. detected_issues = {}
          BY <3>1, <4>1, <4>2 DEF Explained, Undisturbed
        <4>4. policies # {}
          BY <3>1 DEF Using
        <4>. QED  BY <3>1, <3>2, <4>1, <4>3, <4>4 DEF Severity, Confirmed, Caveat
      <3>. QED  BY <3>3, <3>4
    <2>3. ASSUME table = Events PROVE Severity = "critical" /\ Cause = "rls_disabled"
      <3>1. ~rls_enabled
        BY <2>3 DEF RlsInv, TrueReadings, Undisturbed, Past, Reported, Events, Fixture
      <3>. QED  BY <3>1 DEF Severity, Cause
    <2>. QED  BY <2>1, <2>2, <2>3 DEF FixturesAreDiagnosed
  <1>. QED  BY RlsInvariant, ExplainedInvariant, <1>1, PTL
=============================================================================
