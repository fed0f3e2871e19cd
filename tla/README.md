# Supabase Health Inspector: TLA+ models and proofs

The service runs five read-only diagnostics against a target PostgreSQL
database, keeps what it found in a control-plane database of its own, serves
results and reports to polling clients, and lets a language model ask for the
diagnostics in a chat. Its rule is that nothing may be reported which was not
observed: "a check that could not run is never reported as passing"
(`WORK_PLAN.md`). This directory holds models of the parts where that rule, and
the bookkeeping around it, depend on the order of events: TLC checks them on
small instances, TLAPS proves all their safety properties, and the refinements of
their abstract specifications, for all instances.

Every module is translated from the Python source; `PROJECT.json` maps each
definition to the lines it models. Paths below are relative to
`src/backend/app/` unless they begin otherwise.

## 1. The system

One server process (FastAPI on one asyncio event loop) talks to

- the **control plane**, a PostgreSQL database reached through an asyncpg pool
  of at most ten connections, or to no control plane at all (in-memory mode);
- the **target**, another PostgreSQL database, over one connection opened for
  each request, and optionally an **elevated** connection for row contents;
- the **language models** Gemini and Ollama.

Handlers interleave at every `await`. They share the pool, the dicts
`_in_memory_scans` and `_in_memory_connections`, and the selection of the model.

| component | state it keeps | operations | what is hard | what makes it correct |
|---|---|---|---|---|
| scan execution, polling (`main.py`) | `_in_memory_scans` | POST run, GET scan, GET report | failures between row, sweep, save and answer; crash; polls during a commit | one answer, agreeing with one record; whole results |
| control-plane pool (`db/control_plane.py`) | `_pool` | init, acquire, release, close | leaks on error paths; waiting behind sweeps | every connection comes back; nothing keeps a request waiting but requests that hang |
| scan persistence (`db/persistence.py`) | `scan_runs`, `scan_results` | start, save, finish, load, list | two statements written, two read | findings exist exactly with status completed |
| runner (`diagnostics/runner.py`) | none | `run_full_scan`, narration | a diagnostic raises halfway; models fail, and are switched, under it | one result per diagnostic, none silently OK; a text is signed by its author |
| target connections (`db/target.py`) | none | open, close | failures on both ends | unreachable is told from failed |
| RLS inspector (`diagnostics/rls_debug.py`, POST /rls-debug) | none | `run_rls_debug`, two verdicts | eight statements, no transaction; two decision trees; heuristics on expressions | OK is earned, both trees agree, defects seen are reported |
| vacuum, connections, storage, slow queries (`diagnostics/`) | none | run, analyze | what a role may not see looks like what is not there | OK is true; a reason given is the true one |
| report findings and markdown (`reporting/`) | none | rebuild a report from stored payloads | payloads of failed diagnostics | conclusions come from observations |
| assistant (`assistant/`) | `_runtime_override` | chat message, provider selection | providers fail into each other; selection changes meanwhile; unbounded tool calls | a reply tells its origin truly; only a wait without a timeout keeps it back |
| connection registration, vault (`main.py`, `db/vault.py`, `scripts/seed_control_plane.py`) | `target_connections`, vault secrets, `_in_memory_connections` | create, list, seed | secret and row are two statements; a failed vault is swallowed; the script runs again | registered once; a secret is the connection's own |
| authentication (`auth/`) | the cookie | verify, callback | configuration decides who is trusted, and changes under a cookie | production never trusts an unverified token |
| web client (`src/frontend/static/app.js`) | select box, poll timer | sweep, poll, chat, switch provider | overlapping requests of one page | what is shown is in force |
| migrations (`src/backend/migrations`) | `_schema_migrations` | apply | two runners, stopped anywhere | each file in effect once, in order |
| scheduler, realtime publisher, seeds, scripts, configuration | - | stubs, tools, declarations | - | - |

Interaction: POST run holds one pool connection from its first check to its
last statement and opens the target inside it; the runner calls the five
diagnostics in order; GET scan and GET report read what POST wrote, by two
statements each; the chat calls the same diagnostics from the tool loop of a
provider, without the pool; reports are rebuilt from the stored payloads. The
selection of a model is one module global: a page and other clients change it by
PUT while chats and scans read it. Registrations and the seed script write the
same tables and the same vault, whose secrets have names that may coincide.

`PROJECT.json` lists every component and, as "hazards", the places in this code
that are hard to test, each with the properties that watch it.

## 2. Modules

| module | models | checked by | proved in |
|---|---|---|---|
| `ScanRecord` | what the scan endpoint promises about a run's record | as a property of `ScanLifecycle` | `ScanProofs` |
| `ScanLifecycle` | POST run, GET scan, GET report, pool, persistence, process | `MCScanLifecycle` | `ScanProofs` |
| `ScanReport` | what a sweep promises: one severity for each diagnostic | as a property of `FullScan` | `FullScanProofs` |
| `ProviderChain` | what asking the models promises, in a chat and in a scan | as a property of `AssistantChat` and of `Narration` | `ChatProofs`, `NarrationProofs` |
| `SchemaVersion` | what the migrations promise of the database | as a property of `Migrations` | `MigrationProofs` |
| `RlsDebug` | one POST /rls-debug | `MCRlsDebug` | `RlsProofs` |
| `RlsReport` | what a report makes of it, a third decision tree | `MCRlsDebug` | `RlsProofs` |
| `RlsFixtures` | the tables the seed scripts make, and the diagnosis they were made for | `MCRlsDebug` | `RlsProofs` |
| `AssistantChat` | POST /chat, PUT /assistant/provider | `MCAssistantChat` | `ChatProofs` |
| `FullScan` | the five diagnostics of one `run_full_scan` and what reports make of them | `MCFullScan` | `FullScanProofs` |
| `Narration` | the same scan, its texts and the models that write them | `MCProviderToggle` | `NarrationProofs` |
| `ProviderToggle` | the provider switch of a page, GET and PUT, composed with `Narration` | `MCProviderToggle` | `NarrationProofs` |
| `AuthGate` | who a request is taken to come from | `MCControlPlane` | `ControlProofs` |
| `ControlPlane` | registrations, vault, seed script, login and cookie, restarts, composed with `AuthGate` | `MCControlPlane` | `ControlProofs` |
| `Migrations` | `run_migrations.py`, several at once | `MCMigrations` | `MigrationProofs` |

A definition marked `Fault:` is a plausible mistake in the code of the
definition after it. No behaviour uses one. Each is a mutant: put in place of the
real definition, it must violate the property it is paired with, which shows
that the property depends on the code.

### ScanLifecycle

An action is what a handler does between two awaits. `pc[s]` names the statement
request `s` sends next: `acquire` (the pool), `check` (`connection_exists`),
`start` (`start_scan_run`), `connect` and `sweep` (target, `run_full_scan`),
`mark` (the UPDATE to failed), `save`, `finish`, `commit` (the transaction), and
`release` (leaving `acquire_control_plane_conn`). `rpc[r]` does the same for
clients, which issue one GET after the other. `runs`, `rows`, `targets` are the
tables; `mem` is `_in_memory_scans`; `idle` counts free pool connections.

Every statement to the control plane may raise; `CommitReplyLost` is a COMMIT
that took effect although its acknowledgement did not arrive. `Crash` and
`Shutdown` end the process (PostgreSQL rolls back, the dict is gone), `Restart`
brings it back with or without a pool, since `init_control_plane_pool` only warns
when it fails. `DeleteTarget` is an operator's DELETE with its cascade, held off
by the row locks of an open transaction.

`ScanRecord` says the same with no pool, no memory and no control flow: a run is
opened once, closed once with all its findings, never written after its caller
was answered or lost, and agrees with the answer. `ImplementsScanRecord` is the
refinement, with `runs`, `rows` and the answer of a finished request as the
mapping.

Simplifications: a diagnostic inside a sweep is only a counter here (`FullScan`
has the content); asyncpg's pool is a counter of free connections whose slot is
returned at release, also when the reset raises; `connection_id` does not select
the target's address, as in the code.

### RlsDebug

`at` is the next statement of `run_rls_debug`. The table is a record of what
PostgreSQL knows of it: access of the role, row security, policies, types, rows,
and the rows the role can see. A policy expression is the set of its comparisons
(column against `auth.uid()`, against its text cast, or against a value): what
the regular expressions of the code look for is computed from that set
(`References`, `CallsUid`, `CastsUid`), so their confusion of a comparison with a
cast elsewhere in the same expression is there. A row is the set of columns that
hold whitespace. The owner may `Change` the table between any two statements.
`Severity` is `analyze_rls_debug_results`, `Explanation` the decision tree of the
endpoint. `elevated` is no elevated connection, one that sees every row, or one
that row security stops.

`RlsReport` adds what `reporting/findings.py` derives from the stored payload: a
cause and a caveat. `RlsFixtures` adds the tables `orders`, `profiles` and `events`
of the seed scripts, as the tables of `RlsDebug` they are, with the sentence each
was seeded to provoke.

### AssistantChat

`chain[c]` holds the providers left to try, `attempts` those that failed,
`started` the chain the request began with (it is kept for the properties),
`turns` and `pending` the tool loop, `traces` how many tool calls on record were
asked for by whom. A model's answer is arbitrary. `SetProvider` is the PUT, at
any time; it takes a name, so an override once set is never cleared. `Selections`
has the three names the code knows and "none"; any other name in the settings
counts as auto, which `configured = "unknown"` stands for.

`ProviderChain` is what chat and narration have in common (`providers.py` names
both): a walk along the providers chosen at its beginning, the preferred first,
each asked once, up to the first that answers. It has no queues, no tool calls and
no selection. `Walk(c)` maps a request to its walk, in `Narration` `Walk(i)` the
`i`-th diagnostic; a walk that nobody asked for, because the target was out of
reach or a diagnostic raised, is dropped.

### FullScan

`at` is the next statement of the sweep. `target` is what PostgreSQL has to show
(ages of tables, backends, buckets and their row security, recorded statements),
together with what the role may see of it. The five evidence variables hold the
`raw_result` of each diagnostic as far as the verdicts look at it. `VacuumClaim`,
`ConnectionClaim`, `StorageClaim` and `SlowClaim` are the analyze functions
(their branch, of which the severity and the sentence follow), `Severity` is the
severity stored, failures included, and `Cause` the probable cause that
`reporting/findings.py` computes later from the stored payload. `Pct` is
PostgreSQL's rounding of the wraparound percentage. The second diagnostic appears
by its severity only: `RlsDebug` is its model. `ModuleFails` is any statement
outside a local `try` raising; the two statements inside one (`ListBuckets`,
`ReadStatements`) have failing twins of their own. Ages, thresholds and the
rounding are the real numbers; "more than 80 connections" is the flag `crowded`,
and the 1 s and 5 s limits of slow queries are three classes of mean time.
Narration comes after a verdict and does not change it, which is what `Narration`
is about.

`ScanReport` is the sweep with nothing but its severities: each diagnostic gets
one, in order, it stays as it was given, and the sweep is over with the last one.
The mapping (`Verdict`) takes the severity of a diagnostic from the evidence the
sweep holds at that moment, so the refinement says in particular that no later
statement touches evidence a verdict was computed from.

### Narration and ProviderToggle

`Narration` walks through the modules of a scan. A diagnostic comes back, raises,
or (the RLS inspection) has no table to look at; then the providers of the chain
selected at that moment are asked one after the other. A result records who wrote
its text, whose name is on it, and, for the properties, the chain and its
failures. `SetProvider` is a PUT at any time.

`ProviderToggle` EXTENDS it by one page. `load` and `put` are its two requests.
Both handlers settle what they will answer and then probe the providers for
seconds, so an answer is a record fixed when the request arrives and applied when
it comes back. `shown`, `label` and `previous` are the select box, the line beside
it and `dataset.previous`. `excused` is set by the four events after which this
code cannot be right (a pick while the GET is under way, a GET that fails, a PUT
whose reply is lost, a switch by somebody else) and cleared by the next switch
that is answered: `PageAgrees` is what the code promises, and section 3 lists the
races it loses. The scan's steps leave the page alone, so the composition
implements `Narration`.

### ControlPlane and AuthGate

`AuthGate` has no state: `Verify`, `TokenFrom` and `UserClaims` are the decision
tables of `auth/jwt.py` over the kind of token, the environment and whether the
keys are known. `ControlPlane` uses them for every request: `server` holds the
settings of the process, which change with a restart, and `cookie` what the
browser keeps meanwhile.

`pc[c]` is the next statement of a registration or of a run of
`seed_control_plane.py`; `vault[n]` is whose password is under name `n`, and a
`secret_id` is the registration whose password it leads to, or one of two uuids
that lead nowhere: for a call that went wrong ("fallback") and for one refused
because the name was taken ("clash"). `StoreSecretFails` covers a vault that is
not there and a lost reply. `Crash` ends requests and memory, but not a seed run,
which is a process of its own.

### Migrations

`applied[f]` counts how often the content of a file was committed. The check
whether it was is outside the transaction; what one runner does in its
transaction is invisible to others until `Commit`, where the key of
`_schema_migrations` decides. A runner may fail or be killed at any statement and
be started again.

`SchemaVersion` is the database without runners, transactions or a tracking table:
a version that goes up by one file at a time, and reports of success that are made
of the last version only. What the runners do among themselves is invisible to it.

## 3. Runs

Passing runs:

| run | instance | distinct states | shows |
|---|---|---|---|
| `scan_safety` | 2 scans, 1 client, 2 targets, pool of 2, 2 diagnostics, 1 restart | 532,471 | record, answer and readers agree; the refinement |
| `scan_liveness` | 2 scans, 1 client, 1 target, pool of 2, 1 diagnostic, 1 restart | 247,738 | a request that waits for a connection is answered, or hangs, or all of the pool does |
| `rls_verdict` | 2 columns, 58 tables with the 3 seeded ones, 3 kinds of elevated connection, up to 2 changes | 482,790 | OK is earned, trees agree, zero rows have the cause reported where it is told apart, what is reported was there, seeded defects are found |
| `chat_safety` | 1 request, 3 turns, 2 calls a message, 2 switches | 10,553 | origin of a reply; it ends or hangs; the walk of `ProviderChain` |
| `full_scan` | 63 targets, up to 1 change | 830,347 | truth of the verdicts; the promise of `ScanReport` |
| `narration` | 2 modules, 1 page with 2 picks, 2 switches by others | 1,905,257 | texts are signed, verdicts stand, the page agrees, a scan ends or hangs; the walks of `ProviderChain` |
| `control_plane` | 2 registrations, 2 seed runs, 2 names (one of them a label and a host), 1 restart | 2,256,682 | registered once, secrets of one's own kind, verified in production |
| `migrations` | 2 runners started twice, 3 files | 853 | in effect once, in order; the upgrades of `SchemaVersion` |

Type correctness is an invariant of `scan_safety`; of the other modules it is only
proved (section 4), where it is part of each inductive invariant.

Why the bounds are enough to be interesting:

- *scan*: a pool of two lets a reader overlap a commit, and makes three compete for it,
  of whom one alone or two together may hang. Two diagnostics make a
  partial sweep differ from a whole one. One restart reaches every combination of
  a saved run with an empty dict or with no pool. Symmetry is over requests,
  clients and targets, and used only where no liveness is checked.
- *rls*: a uuid and a text column, and policies for each way of comparing them,
  including one whose cast belongs to another column. One change suffices to make
  any two readings disagree, two let it be undone.
- *chat*: requests share nothing but the selection, which changes under the one
  request. The number of turns is the program's own, two calls a message exceed
  what Gemini's loop takes.
- *full scan*: the targets differ from a healthy one in what a single diagnostic
  reads, because no diagnostic reads another's evidence. Ages lie on both sides of
  the thresholds, one and a half hundredths of a per cent below included, where
  rounding decides.
- *narration*: the RLS inspection, which has texts of its own, and one module for
  the other four, which are narrated alike. Two switches reach every chain and put
  it back; two picks let the second repair what the first lost.
- *control plane*: two registrations clash with each other and, since the one label
  reads like a host, with the seed script, which runs twice and whose host may have
  moved in between. One restart leads to any other settings, with or without a
  pool. The tables appear at any time.
- *migrations*: three files, so that there is one before and one after the file two
  runners meet at; a second start after any stop.

`CHECK_DEADLOCK FALSE` is stated where a behaviour may end (one request, one scan,
bounded registrations and starts). The scan runs check for deadlock.

Fairness (`scan_liveness`, `chat_safety`, `narration`) is assumed of two steps only,
because little in this code has a timeout: those of `db/target.py` and
`db/control_plane.py` bound connecting, and no statement has one, nor
`pool.acquire()`, nor a request to Gemini. asyncpg wakes those waiting for a
connection in the order they came, hence strong fairness for the acquisition. The
httpx client of Ollama gives up after 120 seconds, hence weak fairness for a step
that asks Ollama. Every other wait may last for ever, and the liveness properties say
so: a request ends, or it hangs at a place they name. What they exclude is every
other reason not to end: a connection that an error path keeps, a waiter overtaken
for ever by polls, a loop over tools, or over providers that fail.

### Disagreements

Four runs expect a violation. Each checks one sentence of the repository which the
code does not keep:

| run | sentence | what happens |
|---|---|---|
| `rls_false_mismatch` | confirmed defects are things it saw, not things it inferred | `(owner = auth.uid()) AND (note = 'x')` is a CRITICAL mismatch on `note` |
| `storage_empty` | listing verified readable | a policy for somebody else makes an empty listing trustworthy |
| `failed_cause` | `probable_cause` is derived from the diagnostic payload | the report of a diagnostic that raised describes an observation nobody made |
| `secret_not_stored` | creates a connection, storing the password as an encrypted secret | a name the vault already has becomes a fresh uuid, the password is dropped, the answer is "created" |

The others met while modelling have no run of their own. The properties that pass
are stated so as not to claim them:

- *Waits.* A statement at the target that a lock blocks holds its request, and its
  connection of the pool, for as long as the lock lasts; ten of them make every poll
  and every report wait as well. A request to Gemini that is never answered holds its
  chat or its scan.
- *Scans.* The header of a report counts the findings in a statement before the one
  that lists them (`main.py:451`): a report read during the commit says 0 above a
  full list. A restart while the control plane is unreachable serves without a pool
  from then on (`db/control_plane.py:25`), and saved scans are 404, although
  `main.py:322` speaks of surviving a restart. A COMMIT whose acknowledgement is
  lost is answered as "its results were not saved".
- *RLS inspection.* `models.py:49` says of `no_policy_applies` that no policy targets
  the role and of `rls_filtered` that a policy applies and filtered every row. The
  first is also given when the plan shows no rows because a policy of the role lets
  none through (`rls_debug.py:333`), the second to every other count of zero: of an
  empty table, of one without row security, of one without policies
  (`rls_debug.py:336`). `VisibilityIsTrue` claims only what remains. Row security and
  the policies are read by two statements (`rls_debug.py:156`), so an OK can describe a combination the table never had. An
  elevated role which row security stops sees no row, and the verdict is OK. The
  columns examined include those whose check raised.
- *Report.* The caveat says the whitespace checks "did not run" also when the
  elevated connection ran them (`findings.py:192`); "no whitespace" is said of
  columns whose check raised, under a WARNING (`findings.py:230`); a CRITICAL
  mismatch comes with the cause of a clean table. Every listing that cannot be
  trusted is explained by row security, also one without privilege
  (`findings.py:327`). The pattern that keeps remedies out of texts ends its word
  stems in `\b` (`findings.py:88`), so that it misses the longer forms.
- *Diagnostics.* "storage.buckets not found in target database" is also said of a
  table the role may not see (`storage_audit.py:28`). The table inspected by a scan
  is one of five without an ORDER BY (`runner.py:117`).
- *Texts.* The canned text of an RLS inspection that failed or found no table stands
  in the field for a model's narration (`runner.py:137`, `runner.py:147`). In the chat, "the
  diagnostic below still ran" stands above replies for which none ran, and the
  notice that narration is disabled names the selection at the end of the request.
- *Page.* The answer of the first GET is rendered over what was picked meanwhile
  (`app.js:865`), and the name restored after a failed PUT is the one from before
  that GET; a PUT whose reply is lost is shown as "Switch failed" although it took.
  The first sweep does not wait for `loadActiveTarget`, which replaces the current
  connection (`app.js:943`).
- *Seeds.* A second run of `seed_control_plane.py` after the target moved writes the
  new host and keeps the old host's `secret_id` (`SecretIsOwn` admits it); a first run while the vault is
  down leaves a `secret_id` that no later run repairs.

The list of hazards in `PROJECT.json` holds 38 of the places hard to test, each
watched by a property; the ones above that are not in it are known, and not checked.

## 4. Proofs

`tlapm` proves every obligation of the seven proof modules. The theorems hold for
all values of the constants under the named assumptions of the modules: a pool of
at least one connection, finite sets of requests and clients, at least one
diagnostic (`ScanLifecycle`); tables and targets are of their types and a role
sees no bucket that is not there (`RlsDebug`, `FullScan`); the modules of a scan
differ (`Narration`); registrations and seed runs differ from each other and from
the marks of the model (`ControlPlane`); natural bounds. Every invariant, every
action property and every refinement a passing run checks is stated by a theorem.

Each module has one inductive invariant, from which its properties follow:

- **ScanProofs.** The invariant `IInv` is type correctness together with
  `PoolConserved`, `RowMatchesProgress`, `OutcomeAtomic`, `ReplyMatchesRow` and
  `PersistedFlagHonest`. `OutcomeAtomic` alone is not inductive: that COMMIT writes
  a whole sweep follows from where the request is, which `RowMatchesProgress`
  records; the answers need both. `PoolConserved` counts holders by cardinality,
  so its steps rest on lemmas about adding and removing one element of a finite
  set. `WholeAnswer` (a reader shown "completed" has every finding, although two
  statements read them) needs `ReadInv`, what a reader between its statements may
  have seen of a run that moves on; `FoundOnceSaved` needs `MissedInv`, that a run
  saved after a poll missed its row is in the dict by the time the poll looks.
- **RlsProofs.** `RlsInv` adds to the types: what an ended request is (`Ended`),
  which issues the branches passed have left (`Accounted`), and that the readings
  of a table nobody changed are the table's (`TrueReadings`). The properties of the
  inspection follow for any policies, columns and rows. `Explained` gives every
  issue its cause; what the visibility says of a count of zero, that whitespace is reported of rows that were seen, and the
  disclosure of the report, follow. `FixturesAreDiagnosed` replays the statements
  on the three seeded tables, from `RlsInv` and from the issues a readable table
  must have left.
- **ChatProofs.** `ChatInv` relates the providers left to those that failed
  (`ChainInOrder`) and a reply to the chain behind it (`Signed`, `Stage`). The
  honesty of the answerer, that the fallback comes last, and that offline means
  unreachable follow for any number of requests. `BudgetInv` holds on top of it: the
  calls on record and those still pending fit into the turns used (`Spent`), which
  needs two lines of multiplication and gives `BudgetKept` and the types.
- **FullScanProofs.** `SweepInv` is `Shapes` (types), `Progress` (where the sweep is
  determines which results there are), `Listed` (a listing comes with the privilege
  and without an error) and `TrueReadings`. `OkIsTrue` needs all four: that a
  verdict is OK says something of the evidence, `Progress` that the evidence was
  read, `TrueReadings` that it is the target's, and the arithmetic of the rounded
  percentage that an age below the threshold was meant.
- **NarrationProofs.** `NarrationInv` is the types, `Asking` (what is left of a chain
  is what did not fail of it, in order) and `InOrder` (results are the first modules
  of the scan, and what was measured is what they and the one under way say), with
  `NarrationIsSigned`. `PageInv` says of each request of the page what its answer
  will do, and what `previous` may be restored to. `ToggleImplementsNarration` maps
  every step of the composition to a step of `Narration` or to none.
- **ControlProofs.** `ControlInv` adds to the properties what a handler carries from
  the vault to the table (`Carried`, `HeldIsOwn`) and that a row appears with the
  INSERT of its request (`RowsInTime`): without the first a row could bring another
  one's secret, without the second a request could insert twice. `RowsChange` says
  that rows change in three ways, from which each property follows once.
  `SecretIsOwn` relates a moved row to a run of the script that is over: `RowsKept`
  says that only such a run's host is new in a row, `MovesOn` that it stays over.
  `ProductionIsVerified` is the decision table of `AuthGate` (`ClaimsAreEarned`) at
  the moment a request is taken on.
- **MigrationProofs.** `MigratedInOrder` needs that two transactions at one file
  exclude each other at the key (`Disjoint`) and that a runner at a file has seen
  all before it (`AtHand`).

What is proved on top of the invariants:

- **Refinements.** Each abstract module is implemented step by step, under the
  invariant of the detailed one: `ScanRecord` (`Refinement`), `ScanReport`
  (`SweepKeepsItsPromise`), `ProviderChain` twice (`ChatWalksTheChain`,
  `NarrationWalksTheChain`), `SchemaVersion` (`SchemaIsUpgraded`). What an abstract
  module promises is then a fact about the code: `NothingWrittenLate` proves
  `AnswerIsFinal` of a step of `ScanRecord` alone, and takes it down the refinement.
  In `SchemaIsUpgraded` only a commit is visible, and it is an upgrade because the
  files in effect are a first part of all (`Prefix`) when its transaction gets the
  key.
- **Finality.** `TerminalStable`, `NothingWrittenLate` for runs; `NothingRepointed`
  for connections: no rerun, failure or restart drops one, changes which secret it
  names, or changes a password under a name. For the seeded connection this is also
  the flaw of section 3: moved to another host, it names the secret of the first.
- **Progress.** Liveness is out of the prover's reach, its arithmetic is not.
  `ScansProgress`, `ReadsProgress`, `ChatsEnd`, `ScanIsNarrated`, `SweepsGoOn`,
  `InspectionsGoOn`, `RunnersEnd` and `NothingRetried` give a measure that every step
  of an actor lowers and no other actor raises. They bound what may happen before an
  answer: NModules + 11 statements of a scan request, four of a poll, three steps for
  each module narrated, thirteen statements of a sweep, 4 * NFiles + 1 of a runner,
  and of a chat twice what a model can do with all its turns, for any
  `MaxToolTurns` and `MaxCalls`. For the pool the other half is
  `PoolNeverRunsDry`: a request that waits, waits for one that holds a connection and
  does not wait itself. What is left to TLC is that the fairness of section 3 turns
  this into an answer unless somebody hangs.
- **Exactness.** `VacuumThresholds` computes the verdict on vacuum from the age
  alone, through PostgreSQL's rounding: the limits are 399,900,000, 999,900,000 and
  1,599,900,000 of the two thousand million, and the code's own comparisons with the
  age decide nothing. `MismatchesOfOneAreReal` says that the false mismatch of
  section 3 takes an expression with two comparisons: with one, the heuristic is
  right. `ProductionIsStricter`: production accepts only what it verified, and
  nothing that development would refuse.

Only model-checked: liveness under fairness (`EveryScanEndsOrHangs`,
`EveryReadEndsOrHangs`, `EveryChatEndsOrHangs`, `EveryModuleIsNarratedOrHangs`), which
is beyond the provers, and the four
violations. No module declares a recursive operator, and no proof needs an
induction over data.

## 5. Plan

Built, in the order of importance: scan record and lifecycle, RLS inspector with its
reports and fixtures, assistant, full sweep, narration with the provider switch,
registration with vault, seed script and authentication, migrations. What could be
added:

1. The rest of the page of `app.js`: the first sweep against `loadActiveTarget` and
   poll ticks slower than their period, over the endpoints of `ScanLifecycle`.
2. `list_scan_runs` against `sort_findings` and the header of a report, as operators
   checked on bounded inputs.
3. An abstract "honest verdict" (a conclusion is a function of an observation),
   implemented by `RlsDebug` and `FullScan`; `ScanReport` says when a verdict is
   given, not of what.
4. Of the proofs: that `ControlPlane` implements a registry with no vault and no
   handlers, as `Migrations` does `SchemaVersion`.

Each new module brings one passing run for safety, and liveness with it where the
state space allows; bounds as above, two actors and one fault.

## 6. Not modelled, and why

Markdown layout, tool schemas, prompts and response models are data without state.
The scheduler's job and the realtime publisher are stubs. The seed scripts for the
target fill a demonstration database in one pass; their tables are modelled, their
statements are not, and `seed_connections.py` and `check_target_connection.py` only
hold or try a connection. The removal of SQL and of remedies from texts is string
processing whose effect no property here tells apart. The list of past runs is one
SELECT. Of the page, rendering, polling and the other panels are left out. SQL
planning, row security, the vault extension and the statistics views belong to
PostgreSQL and Supabase and appear as facts about the target (`external` in the map,
as are the operator's DELETE, the browser's cookie store and the end of the process).
The policies of the control-plane tables bind nobody the service connects as.

## 7. Running

    tlc -config ScanSafety.cfg MCScanLifecycle.tla
    tlapm ScanProofs.tla

with the cfg and module of each run as listed in `PROJECT.json`. The longest runs
take about two minutes, the proofs a few minutes in all.
