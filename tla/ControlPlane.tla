---------------------------- MODULE ControlPlane -----------------------------
(***************************************************************************)
(* How target connections come to be: POST /connections, which stores a    *)
(* password in the vault and then a row that names it; the script that     *)
(* seeds the demo organisation and connection the same way; and, for who   *)
(* may do it, the login callback with its cookie and the claims of a       *)
(* request.  The process may end and come back with other settings, or     *)
(* without a pool, where registrations are kept in memory.  The tables are *)
(* made by the first file of Migrations.                                   *)
(*                                                                         *)
(* The password of a registration is called by the registration.           *)
(***************************************************************************)
EXTENDS Naturals, AuthGate

CONSTANTS
    Requests,       \* of POST /connections
    Seeds,          \* runs of seed_control_plane.py
    Labels,         \* of connections; the secret of one is cred_<label>
    Hosts,          \* of targets; the secret of one is cred_target_<host>
    MaxRestarts     \* bound on the ends of the process

ASSUME CreatorsAssumption ==
    /\ Requests \cap Seeds = {}
    /\ {"free", "none", "fallback", "clash", "demo"} \cap (Requests \cup Seeds) = {}
ASSUME RestartsAssumption == MaxRestarts \in Nat

Creators == Requests \cup Seeds

(* A label may be target_<host>: the two kinds of names overlap. *)
Names == Labels \cup Hosts

VARIABLES
    tables,         \* 001_initial_schema.sql was applied
    up,             \* the process is there
    server,         \* its settings, and whether it has a pool
    restarts,
    cookie,         \* the session cookie of the browser
    pc,             \* the next statement of a request or of a seed run
    name,           \* its label or host
    secret_id,      \* the secret it got, while it has a use for it
    caller,         \* token, claims and environment of a request taken on
    vault,          \* whose password is under a name
    org,            \* the demo organisation is in orgs
    rows,           \* target_connections
    memory          \* _in_memory_connections

process == <<up, server>>
requests == <<pc, name, secret_id, caller>>
stored == <<vault, org, rows>>
controlVars == <<tables, process, restarts, cookie, requests, stored, memory>>

Processes == [production : BOOLEAN, url : BOOLEAN, pool : BOOLEAN]
Gone == [production |-> FALSE, url |-> FALSE, pool |-> FALSE]

(* Secrets by whose password they are, and two kinds of a fresh uuid that is *)
(* no secret's: for a call of the vault that went wrong, and for one that    *)
(* was refused because the name was taken.                                   *)
Secrets == Creators \cup {"fallback", "clash"}
(* By whom it was inserted, and the label or host it says. *)
Rows == [by : Creators, at : Names, secret_id : Secrets]
Callers == [token : Tokens, claims : ClaimKinds \cup {"none"}, production : BOOLEAN]

Under == {"acquire", "secret", "insert", "answer"}
Ended == {"failed", "created", "created_in_memory"}

Nobody == [token |-> "none", claims |-> "none", production |-> FALSE]

ControlInit ==
    /\ tables = FALSE
    /\ up = TRUE
    /\ server \in Processes
    /\ restarts = 0
    /\ cookie = "none"
    /\ pc = [c \in Creators |-> "idle"]
    /\ name \in [Creators -> Names]
    /\ \A r \in Requests : name[r] \in Labels
    /\ \A s \in Seeds : name[s] \in Hosts
    /\ secret_id = [c \in Creators |-> "none"]
    /\ caller = [r \in Requests |-> Nobody]
    /\ vault = [n \in Names |-> "free"]
    /\ org = FALSE
    /\ rows = {}
    /\ memory = {}

---------------------------------------------------------------------------
(* Authentication *)

(* GET /auth/callback: only a token that passes is put into the cookie. *)
Callback(token) ==
    /\ up
    /\ \E claims \in Verify(token, server) :
          cookie' = IF claims \in Refusals THEN cookie ELSE token
    /\ UNCHANGED <<tables, process, restarts, requests, stored, memory>>

CookieExpires ==
    /\ cookie # "none"
    /\ cookie' = "none"
    /\ UNCHANGED <<tables, process, restarts, requests, stored, memory>>

---------------------------------------------------------------------------
(* POST /connections *)

Goto(c, to) == pc' = [pc EXCEPT ![c] = to]
Environment == <<tables, process, restarts, cookie>>

(* A handler that is over forgets its secret and who called it. *)
Over(c, to) ==
    /\ Goto(c, to)
    /\ secret_id' = [secret_id EXCEPT ![c] = "none"]
    /\ caller' = [r \in Requests |-> IF r = c THEN Nobody ELSE caller[r]]

(* The claims of its caller. *)
Accepted(r, header) ==
    /\ up
    /\ pc[r] = "idle"
    /\ \E claims \in UserClaims(header, cookie, server) \cap ClaimKinds :
          caller' = [caller EXCEPT ![r] = [token |-> TokenFrom(header, cookie), claims |-> claims,
                                           production |-> server.production]]
    /\ UNCHANGED <<Environment, name, secret_id, stored>>

Post(r, header) ==
    /\ Accepted(r, header)
    /\ server.pool
    /\ Goto(r, "acquire")
    /\ UNCHANGED memory

PostInMemory(r, header) ==
    /\ Accepted(r, header)
    /\ ~server.pool
    /\ Goto(r, "created_in_memory")
    /\ memory' = memory \cup {r}

(* No claims, or ones that name an organisation by something else than a     *)
(* uuid, which the demo claims do not.                                       *)
PostRefused(r, header) ==
    /\ up
    /\ pc[r] = "idle"
    /\ UserClaims(header, cookie, server) # {"demo"}
    /\ Goto(r, "failed")
    /\ UNCHANGED <<Environment, name, secret_id, caller, stored, memory>>

(* Fault: a pool with no connection to give is taken for no pool. *)
AcquireNone(r) ==
    /\ pc[r] = "acquire"
    /\ Goto(r, "answer")
    /\ UNCHANGED <<Environment, name, secret_id, caller, stored, memory>>

Acquire(r) ==
    /\ pc[r] = "acquire"
    /\ Goto(r, "secret")
    /\ UNCHANGED <<Environment, name, secret_id, caller, stored, memory>>

(* Fault: a name that is taken is looked up. *)
StoreSecretOrFind(c) ==
    /\ pc[c] = "secret"
    /\ Goto(c, "insert")
    /\ vault' = [vault EXCEPT ![name[c]] = IF @ = "free" THEN c ELSE @]
    /\ secret_id' = [secret_id EXCEPT ![c] = vault'[name[c]]]
    /\ UNCHANGED <<Environment, name, caller, org, rows, memory>>

(* store_secret_in_vault.  The names of secrets are unique; an exception     *)
(* about that is swallowed like every other one.                             *)
StoreSecret(c) ==
    /\ pc[c] = "secret"
    /\ Goto(c, "insert")
    /\ IF vault[name[c]] = "free"
       THEN /\ vault' = [vault EXCEPT ![name[c]] = c]
            /\ secret_id' = [secret_id EXCEPT ![c] = c]
       ELSE /\ secret_id' = [secret_id EXCEPT ![c] = "clash"]
            /\ UNCHANGED vault
    /\ UNCHANGED <<Environment, name, caller, org, rows, memory>>

(* There is no vault, or the call raises before it took effect or after. *)
StoreSecretFails(c) ==
    /\ pc[c] = "secret"
    /\ Goto(c, "insert")
    /\ secret_id' = [secret_id EXCEPT ![c] = "fallback"]
    /\ \/ UNCHANGED vault
       \/ vault[name[c]] = "free" /\ vault' = [vault EXCEPT ![name[c]] = c]
    /\ UNCHANGED <<Environment, name, caller, org, rows, memory>>

Row(c) == [by |-> c, at |-> name[c], secret_id |-> secret_id[c]]

(* The row refers to the organisation. *)
InsertRow(r) ==
    /\ pc[r] = "insert"
    /\ tables /\ org
    /\ rows' = rows \cup {Row(r)}
    /\ Goto(r, "answer")
    /\ UNCHANGED <<Environment, name, secret_id, caller, vault, org, memory>>

InsertRowReplyLost(r) ==
    /\ pc[r] = "insert"
    /\ tables /\ org
    /\ rows' = rows \cup {Row(r)}
    /\ Over(r, "failed")
    /\ UNCHANGED <<Environment, name, vault, org, memory>>

(* The connection goes back to the pool. *)
Answer(r) ==
    /\ pc[r] = "answer"
    /\ Over(r, "created")
    /\ UNCHANGED <<Environment, name, stored, memory>>

(* The pool has no connection to give, a statement raises, or the release. *)
PostFails(r) ==
    /\ pc[r] \in Under \ {"secret"}
    /\ Over(r, "failed")
    /\ UNCHANGED <<Environment, name, stored, memory>>

(* GET /connections without a pool; with one it changes nothing. *)
ListConnections(header) ==
    /\ up /\ ~server.pool
    /\ memory = {}
    /\ UserClaims(header, cookie, server) \cap ClaimKinds # {}
    /\ memory' = {"demo"}
    /\ UNCHANGED <<Environment, requests, stored>>

---------------------------------------------------------------------------
(* seed_control_plane.py *)

SeedOrg(s) ==
    /\ pc[s] = "idle"
    /\ tables
    /\ org' = TRUE
    /\ Goto(s, "secret")
    /\ UNCHANGED <<Environment, name, secret_id, caller, vault, rows, memory>>

Seeded == \E row \in rows : row.by \in Seeds

(* The rows, with the host of the seeded one brought up to date. *)
Moved(s) == {IF row.by \in Seeds THEN [row EXCEPT !.at = name[s]] ELSE row : row \in rows}

(* Fault: every run inserts a row of its own. *)
SeedRowAnew(s) ==
    /\ pc[s] = "insert"
    /\ rows' = rows \cup {Row(s)}
    /\ Over(s, "created")
    /\ UNCHANGED <<Environment, name, vault, org, memory>>

(* The row has a fixed id.  One that is there keeps its secret_id. *)
SeedRow(s) ==
    /\ pc[s] = "insert"
    /\ rows' = IF Seeded THEN Moved(s) ELSE rows \cup {Row(s)}
    /\ \/ Over(s, "created")
       \/ Over(s, "failed")
    /\ UNCHANGED <<Environment, name, vault, org, memory>>

SeedFails(s) ==
    /\ pc[s] \in {"idle", "secret", "insert"}
    /\ Over(s, "failed")
    /\ UNCHANGED <<Environment, name, stored, memory>>

---------------------------------------------------------------------------
(* The process ends, and its requests and its memory with it. *)
Crash ==
    /\ up
    /\ restarts < MaxRestarts
    /\ restarts' = restarts + 1
    /\ up' = FALSE
    /\ server' = Gone
    /\ pc' = [c \in Creators |-> IF c \in Requests /\ pc[c] \in Under THEN "failed" ELSE pc[c]]
    /\ secret_id' = [c \in Creators |-> IF c \in Requests THEN "none" ELSE secret_id[c]]
    /\ caller' = [r \in Requests |-> Nobody]
    /\ memory' = {}
    /\ UNCHANGED <<tables, cookie, name, stored>>

(* With the settings of its environment then; a pool that cannot be made is  *)
(* a warning.                                                                *)
Restart ==
    /\ ~up
    /\ up' = TRUE
    /\ server' \in Processes
    /\ UNCHANGED <<tables, restarts, cookie, requests, stored, memory>>

(* The first file of Migrations is committed. *)
TablesMade ==
    /\ ~tables
    /\ tables' = TRUE
    /\ UNCHANGED <<process, restarts, cookie, requests, stored, memory>>

ControlNext ==
    \/ TablesMade
    \/ \E token \in Tokens \ {"none"} : Callback(token)
    \/ CookieExpires
    \/ \E r \in Requests :
          \/ \E header \in Tokens : Post(r, header) \/ PostInMemory(r, header) \/ PostRefused(r, header)
          \/ Acquire(r) \/ InsertRow(r) \/ InsertRowReplyLost(r)
          \/ Answer(r) \/ PostFails(r)
    \/ \E c \in Creators : StoreSecret(c) \/ StoreSecretFails(c)
    \/ \E header \in Tokens : ListConnections(header)
    \/ \E s \in Seeds : SeedOrg(s) \/ SeedRow(s) \/ SeedFails(s)
    \/ Crash \/ Restart

ControlSpec == ControlInit /\ [][ControlNext]_controlVars

---------------------------------------------------------------------------
(* Every variable has its type. *)
ControlTypeOK ==
    /\ tables \in BOOLEAN
    /\ up \in BOOLEAN
    /\ server \in Processes
    /\ restarts \in 0..MaxRestarts
    /\ cookie \in Tokens
    /\ pc \in [Creators -> {"idle"} \cup Under \cup Ended]
    /\ name \in [Creators -> Names]
    /\ secret_id \in [Creators -> Secrets \cup {"none"}]
    /\ caller \in [Requests -> Callers]
    /\ vault \in [Names -> Creators \cup {"free"}]
    /\ org \in BOOLEAN
    /\ rows \subseteq Rows
    /\ memory \subseteq Requests \cup {"demo"}

(* A registration that was answered has its row, whatever happened since,    *)
(* and no other; the seeded connection is there once, however often the      *)
(* script ran and wherever it stopped.  Without a pool it is in memory.      *)
RegisteredOnce ==
    /\ \A r \in Requests : pc[r] \in {"answer", "created"} => \E row \in rows : row.by = r
    /\ \A s \in Seeds : pc[s] = "created" => Seeded
    /\ \A row, other \in rows :
          row.by = other.by \/ {row.by, other.by} \subseteq Seeds => row = other
    /\ \A r \in Requests : pc[r] = "created_in_memory" /\ restarts = 0 => r \in memory

(* The secret a row names is in the vault, under the label or host it was    *)
(* stored for, or is nobody's.  That of a registration is its own and under  *)
(* the label the row says: no clash of names, not with the seed script       *)
(* either, makes it use the password of another.  That of the seeded         *)
(* connection is of a run of the script, and under the host the row says,    *)
(* unless the script was run for another host since: it then keeps the       *)
(* password of the host it had, because the upsert of seed_control_plane.py  *)
(* brings the host up to date and not the secret_id.                         *)
SecretIsOwn ==
    \A row \in rows : row.secret_id \in Creators =>
        /\ vault[name[row.secret_id]] = row.secret_id
        /\ row.by \in Requests => row.secret_id = row.by /\ row.at = name[row.by]
        /\ row.by \in Seeds =>
              /\ row.secret_id \in Seeds
              /\ \/ row.at = name[row.secret_id]
                 \/ \E s \in Seeds : pc[s] \in Ended /\ row.at = name[s]

(* "Never silently accepts an unverified token in production" (jwt.py): what *)
(* a process in production does, it does for a token it verified, a cookie   *)
(* included that was put there while tokens were not verified.  Whoever sent *)
(* a token is never answered as the demo user.                               *)
ProductionIsVerified ==
    \A r \in Requests :
        /\ caller[r].claims \in {"unverified", "demo"} => ~caller[r].production
        /\ caller[r].claims = "verified" => caller[r].token = "signed"
        /\ caller[r].claims = "demo" => caller[r].token = "none"

(* "Storing the password as an encrypted secret in Supabase Vault" (main.py, *)
(* create_connection): a registration whose call of the vault did not go     *)
(* wrong has its password there.                                             *)
SecretIsStored ==
    \A row \in rows : row.secret_id \in {row.by, "fallback"}
============================================================================
