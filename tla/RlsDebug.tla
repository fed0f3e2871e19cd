------------------------------ MODULE RlsDebug ------------------------------
(***************************************************************************)
(* One inspection of a table by run_rls_debug, from POST /rls-debug to its *)
(* report.  The statements of an inspection run one after the other        *)
(* outside any transaction, so the owner of the table may change it        *)
(* between two of them.  A statement inside a try becomes an issue when it *)
(* raises; any other one ends the request.                                 *)
(*                                                                         *)
(* An expression of a policy is the set of the comparisons it makes, and a *)
(* row is the set of its columns that hold untrimmed whitespace.           *)
(***************************************************************************)
EXTENDS Naturals

CONSTANTS
    Columns,      \* names of columns
    Tables,       \* the states the inspected table can be in
    MaxChanges    \* bound on the changes made during the inspection

Comparisons == [col : Columns, to : {"uid", "uid_text", "value"}]

(* admits: the connecting role holds one of the policy's roles. *)
Policies == [qual : SUBSET Comparisons, check : SUBSET Comparisons, admits : BOOLEAN]

(* access: no such table, one the role has no privilege on, one it may write *)
(* but not read, and one it may read.  visible: the rows row security lets   *)
(* the role see.                                                             *)
TableStates == [access : {"dropped", "hidden", "listed", "select"}, rls : BOOLEAN,
                policies : SUBSET Policies, type : [Columns -> {"uuid", "text", "absent"}],
                rows : SUBSET SUBSET Columns, visible : SUBSET SUBSET Columns]

ASSUME TablesAssumption == Tables \subseteq TableStates
ASSUME ChangesAssumption == MaxChanges \in Nat

VARIABLES
    table,                  \* the table as it is
    changes,                \* how often it was changed during the inspection
    elevated,               \* TARGET_ELEVATED_DATABASE_URL: not set, a role that
                            \* reads every row, or one that row security stops
    at,                     \* the next statement
    answer,                 \* what the request ended in
    rls_enabled, policies, columns_map, plan_proves_zero_rows, applicable,
    has_select_privilege, readable_rows_count,
    detected_issues,
    examined                \* columns whose whitespace check came back

findings == <<rls_enabled, policies, columns_map, plan_proves_zero_rows, applicable,
              has_select_privilege, readable_rows_count>>
vars == <<table, changes, elevated, at, answer, findings, detected_issues, examined>>

Statements == {"connect", "table", "rls", "policies", "columns", "explain", "roles",
               "privilege", "count", "shape", "end"}
Kinds == {"mismatch", "whitespace", "explain", "select", "privilege", "no_policy",
          "filtered", "shape_failed"}
Issue(k, c) == [kind |-> k, col |-> c]
Issues == [kind : Kinds, col : Columns \cup {"none"}]

Existing(t) == t.access # "dropped"
HasColumn(t, c) == t.type[c] # "absent"

Init ==
    /\ table \in Tables
    /\ changes = 0
    /\ elevated \in {"none", "all", "stopped"}
    /\ at = "connect"
    /\ answer = "none"
    /\ rls_enabled = FALSE
    /\ policies = {}
    /\ columns_map = [c \in Columns |-> "absent"]
    /\ plan_proves_zero_rows = FALSE
    /\ applicable = {}
    /\ has_select_privilege = FALSE
    /\ readable_rows_count = "unread"
    /\ detected_issues = {}
    /\ examined = {}

---------------------------------------------------------------------------
(* What the inspection makes of what it read *)

Expression(p) == p.qual \cup p.check
References(expr, c) == \E k \in expr : k.col = c
CallsUid(expr) == \E k \in expr : k.to \in {"uid", "uid_text"}

(* The cast is looked for in the whole expression. *)
CastsUid(expr) == \E k \in expr : k.to = "uid_text"

(* Fault: the cast makes no difference for a uuid column. *)
MismatchIgnoresUuid(p, types) ==
    {c \in Columns : /\ CallsUid(Expression(p)) /\ References(Expression(p), c)
                     /\ types[c] = "text" /\ ~CastsUid(Expression(p))}

(* The columns of policy p that are reported as a type mismatch. *)
Mismatched(p, types) ==
    {c \in Columns :
        /\ CallsUid(Expression(p))
        /\ References(Expression(p), c)
        /\ \/ types[c] = "uuid" /\ CastsUid(Expression(p))
           \/ types[c] = "text" /\ ~CastsUid(Expression(p))}

(* data_shape_checked_columns: the text columns a USING clause refers to. *)
CheckedTextCols ==
    {c \in Columns : columns_map[c] = "text" /\ \E p \in policies : References(p.qual, c)}

(* Fault: only the plan says whether a policy applies. *)
RowVisibilityByPlan ==
    IF ~has_select_privilege THEN "no_privilege"
    ELSE IF readable_rows_count = "unread" THEN "unknown"
    ELSE IF readable_rows_count = "some" THEN "readable"
    ELSE IF rls_enabled /\ policies # {} /\ plan_proves_zero_rows
         THEN "no_policy_applies" ELSE "rls_filtered"

RowVisibility ==
    IF ~has_select_privilege THEN "no_privilege"
    ELSE IF readable_rows_count = "unread" THEN "unknown"
    ELSE IF readable_rows_count = "some" THEN "readable"
    ELSE IF rls_enabled /\ policies # {} /\ (applicable = {} \/ plan_proves_zero_rows)
         THEN "no_policy_applies" ELSE "rls_filtered"

(* Fault: the elevated connection is used only when it is needed. *)
SourcePrefersReadOnly ==
    IF readable_rows_count = "some" THEN "read_only"
    ELSE IF elevated # "none" THEN "elevated" ELSE "not_run"

(* data_shape_source: the connection the whitespace checks use. *)
Source ==
    IF elevated # "none" THEN "elevated"
    ELSE IF readable_rows_count = "some" THEN "read_only" ELSE "not_run"

Confirmed == {i \in detected_issues : i.kind \in {"mismatch", "whitespace"}}

(* Fault: only confirmed defects keep a verdict from being OK. *)
SeverityOfConfirmed ==
    IF ~rls_enabled \/ Confirmed # {} THEN "critical"
    ELSE IF policies = {} \/ Source = "not_run" THEN "warning" ELSE "ok"

(* analyze_rls_debug_results, as scans use it. *)
Severity ==
    IF ~rls_enabled \/ Confirmed # {} THEN "critical"
    ELSE IF policies = {} \/ detected_issues # {} \/ Source = "not_run" THEN "warning"
    ELSE "ok"

(* The sentence the endpoint answers with; it does not call the analyzer. *)
Explanation ==
    IF ~rls_enabled THEN "disabled"
    ELSE IF policies = {} THEN "no_policies"
    ELSE IF detected_issues # {} THEN "findings"
    ELSE IF Source = "not_run" THEN "unverified" ELSE "no_defects"

---------------------------------------------------------------------------
(* The statements of an inspection *)

Answer(a) == at' = "end" /\ answer' = a
Step(from, to) == at = from /\ at' = to /\ UNCHANGED answer
Environment == <<table, changes, elevated>>

(* The target connection and, when it is configured, the elevated one. *)
Connect ==
    /\ Step("connect", "table")
    /\ UNCHANGED <<Environment, findings, detected_issues, examined>>

(* A target that is not configured raises ValueError, and that is a 404. *)
ConnectFails ==
    /\ at = "connect"
    /\ \/ Answer("error")
       \/ Answer("notfound")
    /\ UNCHANGED <<Environment, findings, detected_issues, examined>>

(* information_schema.tables lists what the role has some privilege on. *)
CheckTable ==
    /\ at = "table"
    /\ IF table.access \in {"listed", "select"}
       THEN at' = "rls" /\ UNCHANGED answer
       ELSE Answer("notfound")
    /\ UNCHANGED <<Environment, findings, detected_issues, examined>>

ReadRls ==
    /\ Step("rls", "policies")
    /\ rls_enabled' = (Existing(table) /\ table.rls)
    /\ UNCHANGED <<Environment, policies, columns_map, plan_proves_zero_rows, applicable,
                   has_select_privilege, readable_rows_count, detected_issues, examined>>

ReadPolicies ==
    /\ Step("policies", "columns")
    /\ policies' = IF Existing(table) THEN table.policies ELSE {}
    /\ UNCHANGED <<Environment, rls_enabled, columns_map, plan_proves_zero_rows, applicable,
                   has_select_privilege, readable_rows_count, detected_issues, examined>>

(* Reading the columns, and matching their types with the expressions. *)
ReadColumns ==
    /\ Step("columns", "explain")
    /\ columns_map' = [c \in Columns |-> IF table.access \in {"listed", "select"}
                                         THEN table.type[c] ELSE "absent"]
    /\ detected_issues' = {Issue("mismatch", c) :
                              c \in UNION {Mismatched(p, columns_map') : p \in policies}}
    /\ UNCHANGED <<Environment, rls_enabled, policies, plan_proves_zero_rows, applicable,
                   has_select_privilege, readable_rows_count, examined>>

(* The planner proves that there are no rows when no policy admits the role, *)
(* and it may when the policies that do are constant.                        *)
Explain ==
    /\ Step("explain", "roles")
    /\ \/ /\ table.access = "select"
          /\ plan_proves_zero_rows' \in BOOLEAN
          /\ plan_proves_zero_rows' => table.rls /\ table.visible = {}
          /\ (table.rls /\ \A p \in table.policies : ~p.admits) => plan_proves_zero_rows'
          /\ UNCHANGED detected_issues
       \/ /\ detected_issues' = detected_issues \cup {Issue("explain", "none")}
          /\ UNCHANGED plan_proves_zero_rows
    /\ UNCHANGED <<Environment, rls_enabled, policies, columns_map, applicable,
                   has_select_privilege, readable_rows_count, examined>>

(* _policy_role_applicability, for the policies read before. *)
ReadRoles ==
    /\ Step("roles", "privilege")
    /\ applicable' = {p \in policies : p.admits}
    /\ UNCHANGED <<Environment, rls_enabled, policies, columns_map, plan_proves_zero_rows,
                   has_select_privilege, readable_rows_count, detected_issues, examined>>

(* has_table_privilege raises for a table that does not exist. *)
ReadPrivilege ==
    /\ Existing(table)
    /\ has_select_privilege' = (table.access = "select")
    /\ Step("privilege", IF has_select_privilege' THEN "count" ELSE "shape")
    /\ UNCHANGED <<Environment, rls_enabled, policies, columns_map, plan_proves_zero_rows,
                   applicable, readable_rows_count, detected_issues, examined>>

CountRows ==
    /\ Step("count", "shape")
    /\ table.access = "select"
    /\ readable_rows_count' = IF table.visible = {} THEN "zero" ELSE "some"
    /\ UNCHANGED <<Environment, rls_enabled, policies, columns_map, plan_proves_zero_rows,
                   applicable, has_select_privilege, detected_issues, examined>>

(* Fault: the exception is swallowed. *)
CountRowsFailsSilently ==
    /\ Step("count", "shape")
    /\ UNCHANGED <<Environment, findings, detected_issues, examined>>

CountRowsFails ==
    /\ Step("count", "shape")
    /\ detected_issues' = detected_issues \cup {Issue("select", "none")}
    /\ UNCHANGED <<Environment, findings, examined>>

(* No connection can read rows.  An unknown visibility is an issue already. *)
NotRun ==
    /\ at = "shape"
    /\ Source = "not_run"
    /\ detected_issues' = detected_issues \cup
          IF RowVisibility = "no_privilege" THEN {Issue("privilege", "none")}
          ELSE IF RowVisibility = "no_policy_applies" THEN {Issue("no_policy", "none")}
          ELSE IF RowVisibility = "rls_filtered" THEN {Issue("filtered", "none")}
          ELSE {}
    /\ Answer("report")
    /\ UNCHANGED <<Environment, findings, examined>>

Attempted == examined \cup {i.col : i \in {j \in detected_issues : j.kind = "shape_failed"}}

(* Fault: the rows of the role that asks, whatever the connection. *)
ShapeRowsVisible == table.visible

ShapeRows ==
    IF Source = "read_only" THEN table.visible
    ELSE IF elevated = "all" THEN table.rows ELSE {}

(* Fault: any count but NULL is a finding. *)
CheckShapeReportsZero(c) ==
    /\ at = "shape"
    /\ Source # "not_run"
    /\ c \in CheckedTextCols \ Attempted
    /\ Existing(table) /\ HasColumn(table, c)
    /\ Source = "read_only" => table.access = "select"
    /\ examined' = examined \cup {c}
    /\ detected_issues' = detected_issues \cup {Issue("whitespace", c)}
    /\ UNCHANGED <<Environment, findings, at, answer>>

(* The whitespace check of one column. *)
CheckShape(c) ==
    /\ at = "shape"
    /\ Source # "not_run"
    /\ c \in CheckedTextCols \ Attempted
    /\ Existing(table) /\ HasColumn(table, c)
    /\ Source = "read_only" => table.access = "select"
    /\ examined' = examined \cup {c}
    /\ detected_issues' = IF \E row \in ShapeRows : c \in row
                          THEN detected_issues \cup {Issue("whitespace", c)}
                          ELSE detected_issues
    /\ UNCHANGED <<Environment, findings, at, answer>>

(* Fault: the checks stop at the first one that raises, without an issue. *)
CheckShapeGivesUp(c) ==
    /\ at = "shape"
    /\ Source # "not_run"
    /\ c \in CheckedTextCols \ Attempted
    /\ Answer("report")
    /\ UNCHANGED <<Environment, findings, detected_issues, examined>>

CheckShapeFails(c) ==
    /\ at = "shape"
    /\ Source # "not_run"
    /\ c \in CheckedTextCols \ Attempted
    /\ detected_issues' = detected_issues \cup {Issue("shape_failed", c)}
    /\ UNCHANGED <<Environment, findings, at, answer, examined>>

Report ==
    /\ at = "shape"
    /\ Source # "not_run"
    /\ CheckedTextCols \subseteq Attempted
    /\ Answer("report")
    /\ UNCHANGED <<Environment, findings, detected_issues, examined>>

(* A statement outside every try raises, or closing a connection after the   *)
(* last one does: HTTP 500.                                                  *)
StatementFails ==
    /\ at \in {"table", "rls", "policies", "columns", "roles", "privilege", "shape"}
    /\ Answer("error")
    /\ UNCHANGED <<Environment, findings, detected_issues, examined>>

(* The owner of the table, or another session, changes it. *)
Change ==
    /\ at # "end"
    /\ changes < MaxChanges
    /\ changes' = changes + 1
    /\ table' \in Tables \ {table}
    /\ UNCHANGED <<elevated, at, answer, findings, detected_issues, examined>>

Next ==
    \/ Connect \/ ConnectFails
    \/ CheckTable \/ ReadRls \/ ReadPolicies \/ ReadColumns
    \/ Explain \/ ReadRoles \/ ReadPrivilege
    \/ CountRows \/ CountRowsFails
    \/ NotRun \/ Report
    \/ \E c \in Columns : CheckShape(c) \/ CheckShapeFails(c)
    \/ StatementFails
    \/ Change

Spec == Init /\ [][Next]_vars

---------------------------------------------------------------------------
Reported == answer = "report"
Undisturbed == Reported /\ changes = 0

(* Every variable has its type; what is reported as an issue is one the      *)
(* module knows.                                                             *)
TypeOK ==
    /\ table \in Tables
    /\ changes \in 0..MaxChanges
    /\ elevated \in {"none", "all", "stopped"}
    /\ at \in Statements
    /\ answer \in {"none", "notfound", "error", "report"}
    /\ rls_enabled \in BOOLEAN
    /\ policies \in SUBSET Policies
    /\ columns_map \in [Columns -> {"uuid", "text", "absent"}]
    /\ plan_proves_zero_rows \in BOOLEAN
    /\ applicable \in SUBSET policies
    /\ has_select_privilege \in BOOLEAN
    /\ readable_rows_count \in {"unread", "zero", "some"}
    /\ detected_issues \in SUBSET Issues
    /\ examined \in SUBSET Columns

(* Data-shape checks that did not run always leave an issue that says why,   *)
(* an unknown visibility included, whose branch adds none of its own: "never *)
(* OK, and never a silent skip" (README, the optional elevated path).  The   *)
(* last fallback of both decision trees is therefore dead.                   *)
NotRunLeavesIssue ==
    Reported /\ Source = "not_run" => detected_issues # {}

(* OK means that the check of every text column a USING clause depends on    *)
(* came back, whatever raised or changed on the way: "A pass on checks that  *)
(* never executed is not an OK" (rls_debug.py, analyze_rls_debug_results).   *)
OkIsEarned ==
    Reported /\ Severity = "ok" =>
        /\ Source # "not_run"
        /\ CheckedTextCols \subseteq examined

(* The endpoint and the scan rank the same inspection by two decision trees  *)
(* (main.py and rls_debug.py); the endpoint claims the absence of defects    *)
(* exactly when the scan says OK.                                            *)
VerdictsAgree ==
    Reported => (Explanation = "no_defects") = (Severity = "ok")

NoneTargetsRole == table.rls /\ table.policies # {} /\ \A p \in table.policies : ~p.admits

(* What row_visibility tells apart of a table nobody changed meanwhile.      *)
(* That no policy targets the role and that the policies filter every row    *)
(* "were previously reported identically" (rls_debug.py).  A table of which   *)
(* the role sees nothing and whose policies all target other roles is         *)
(* "no_policy_applies", also when the plan could not be had, unless its rows *)
(* could not be counted; besides it only a table with policies is, which the *)
(* planner proved to be empty.  "rls_filtered" says no more than that the    *)
(* role sees no row for another reason: models.py promises more of both, and *)
(* the code does not keep it (an empty table is "rls_filtered" as well, and  *)
(* a constant policy of the role makes "no_policy_applies").                 *)
VisibilityIsTrue ==
    Undisturbed =>
        /\ (RowVisibility = "no_privilege") = (table.access # "select")
        /\ RowVisibility = "unknown" => Issue("select", "none") \in detected_issues
        /\ RowVisibility = "readable" => table.visible # {}
        /\ NoneTargetsRole /\ table.visible = {} =>
              RowVisibility \in {"no_privilege", "unknown", "no_policy_applies"}
        /\ RowVisibility = "no_policy_applies" =>
              /\ table.rls /\ table.policies # {} /\ table.visible = {}
              /\ NoneTargetsRole \/ plan_proves_zero_rows
        /\ RowVisibility = "rls_filtered" => table.visible = {} /\ ~NoneTargetsRole

(* No malformed value a policy depends on passes as OK when the connection   *)
(* that is meant to see it does: the elevated one, if it reads every row, or *)
(* the diagnostic role's own when no other is configured.                    *)
DefectIsReported ==
    Undisturbed /\ Severity = "ok" =>
        \A c \in CheckedTextCols :
            /\ elevated = "all" => \A row \in table.rows : c \notin row
            /\ elevated = "none" => \A row \in table.visible : c \notin row

(* A column is reported as malformed only when the connection that was asked *)
(* saw such a value in it, and a USING clause depends on the column: this    *)
(* makes a verdict CRITICAL.  "Confirmed defects [...] are things it saw,    *)
(* not things it inferred" (rls_debug.py).                                   *)
WhitespaceIsSeen ==
    Undisturbed =>
        \A i \in detected_issues : i.kind = "whitespace" =>
            /\ \E row \in IF elevated = "all" THEN table.rows ELSE table.visible : i.col \in row
            /\ \E p \in table.policies : References(p.qual, i.col)

(* No comparison of a uuid column with a cast of auth.uid() passes: the       *)
(* column is reported as a mismatch, whatever else the expression compares.  *)
UuidCastIsReported ==
    Undisturbed =>
        \A p \in table.policies : \A k \in Expression(p) :
            columns_map[k.col] = "uuid" /\ k.to = "uid_text"
                => Issue("mismatch", k.col) \in detected_issues

(* A column is reported as a mismatch only when it is compared with a form   *)
(* of auth.uid() that does not fit: "Confirmed defects [...] are things it   *)
(* saw, not things it inferred" (rls_debug.py), and the cast "may belong to  *)
(* an unrelated column".                                                     *)
MismatchIsReal ==
    Undisturbed =>
        \A i \in detected_issues : i.kind = "mismatch" =>
            \E p \in table.policies : \E k \in Expression(p) :
                /\ k.col = i.col
                /\ k.to = IF columns_map[i.col] = "uuid" THEN "uid_text" ELSE "uid"
============================================================================
