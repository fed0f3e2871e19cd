--------------------------- MODULE ControlProofs ----------------------------
(***************************************************************************)
(* What registering a connection guarantees for any number of requests,    *)
(* runs of the seed script, labels, hosts and restarts.  The invariant     *)
(* adds to the properties what a handler carries from the vault to the     *)
(* table, and that a row appears with the INSERT of its request.  Nothing  *)
(* registered is lost or repointed later, and no statement is tried again. *)
(***************************************************************************)
EXTENDS ControlPlane, TLAPS

(* The secret a handler carries is its own, and in the vault. *)
HeldIsOwn ==
    \A c \in Creators : secret_id[c] \in Creators => secret_id[c] = c /\ vault[name[c]] = c

(* No row before the INSERT. *)
RowsInTime ==
    \A row \in rows : row.by \in Requests => pc[row.by] \in {"answer", "created", "failed"}

(* Whoever is about to insert has got a secret_id. *)
Carried == \A c \in Creators : pc[c] = "insert" => secret_id[c] # "none"

ControlInv ==
    /\ ControlTypeOK
    /\ Carried /\ HeldIsOwn /\ RowsInTime
    /\ RegisteredOnce /\ SecretIsOwn /\ ProductionIsVerified

---------------------------------------------------------------------------
(* What the claims of a request say of its token and of the process. *)
LEMMA ClaimsAreEarned ==
  ASSUME NEW header \in Tokens, NEW kept \in Tokens, NEW s \in Processes,
         NEW claims \in UserClaims(header, kept, s) \cap ClaimKinds
  PROVE  /\ claims \in {"unverified", "demo"} => ~s.production
         /\ claims = "verified" => TokenFrom(header, kept) = "signed"
         /\ claims = "demo" => TokenFrom(header, kept) = "none"
         /\ TokenFrom(header, kept) \in Tokens
  BY DEF UserClaims, Verify, DemoAuth, TokenFrom, Tokens, ClaimKinds, Refusals, Processes

(* Nothing is registered, held or answered at first. *)
LEMMA ControlInitInv == ControlInit => ControlInv
  <1>. SUFFICES ASSUME ControlInit PROVE ControlInv
    OBVIOUS
  <1>1. ControlTypeOK
    <2>1. name \in [Creators -> Names]
      BY DEF ControlInit
    <2>2. restarts \in 0..MaxRestarts
      BY RestartsAssumption DEF ControlInit
    <2>3. caller \in [Requests -> Callers]
      BY DEF ControlInit, Callers, Nobody, Tokens
    <2>4. pc \in [Creators -> {"idle"} \cup Under \cup Ended]
      BY DEF ControlInit
    <2>5. /\ secret_id \in [Creators -> Secrets \cup {"none"}]
          /\ vault \in [Names -> Creators \cup {"free"}]
      BY DEF ControlInit
    <2>6. rows \subseteq Rows /\ memory \subseteq Requests \cup {"demo"} /\ cookie \in Tokens
      BY DEF ControlInit, Tokens
    <2>7. tables \in BOOLEAN /\ up \in BOOLEAN /\ org \in BOOLEAN /\ server \in Processes
      BY DEF ControlInit
    <2>. QED  BY <2>1, <2>2, <2>3, <2>4, <2>5, <2>6, <2>7 DEF ControlTypeOK
  <1>2. Carried /\ HeldIsOwn
    BY CreatorsAssumption DEF ControlInit, Carried, HeldIsOwn, Creators
  <1>3. RowsInTime /\ SecretIsOwn
    BY DEF ControlInit, RowsInTime, SecretIsOwn
  <1>4. RegisteredOnce
    BY CreatorsAssumption DEF ControlInit, RegisteredOnce, Creators
  <1>5. ProductionIsVerified
    BY DEF ControlInit, ProductionIsVerified, Nobody
  <1>. QED  BY <1>1, <1>2, <1>3, <1>4, <1>5 DEF ControlInv

(* What a handler about to insert puts into the table is a row of it. *)
LEMMA RowIsARow ==
  ASSUME ControlTypeOK, Carried, NEW c \in Creators, pc[c] = "insert"
  PROVE  Row(c) \in Rows /\ Row(c).by = c /\ Row(c).at = name[c] /\ Row(c).secret_id = secret_id[c]
  <1>1. secret_id[c] \in Secrets /\ name[c] \in Names
    BY DEF ControlTypeOK, Carried
  <1>. QED  BY <1>1 DEF Row, Rows

(* Bringing the host up to date leaves whose row it is, and its secret. *)
LEMMA MovedKeeps ==
  ASSUME ControlTypeOK, NEW s \in Seeds
  PROVE  /\ Moved(s) \subseteq Rows
         /\ \A row \in Moved(s) : \E old \in rows :
               /\ row.by = old.by /\ row.secret_id = old.secret_id
               /\ row = IF old.by \in Seeds THEN [old EXCEPT !.at = name[s]] ELSE old
         /\ \A old \in rows : \E row \in Moved(s) : row.by = old.by
  <1>1. name[s] \in Names
    BY DEF ControlTypeOK, Creators
  <1>2. \A old \in rows : /\ [old EXCEPT !.at = name[s]] \in Rows
                          /\ [old EXCEPT !.at = name[s]].by = old.by
                          /\ [old EXCEPT !.at = name[s]].secret_id = old.secret_id
    BY <1>1 DEF ControlTypeOK, Rows
  <1>. QED  BY <1>2 DEF Moved, ControlTypeOK

(* Every step keeps every variable in its type. *)
LEMMA ControlTypeStep == ControlTypeOK /\ Carried /\ [ControlNext]_controlVars => ControlTypeOK'
  <1>. SUFFICES ASSUME ControlTypeOK, Carried, [ControlNext]_controlVars PROVE ControlTypeOK'
    OBVIOUS
  <1>0. Requests \subseteq Creators /\ Seeds \subseteq Creators /\ Creators \subseteq Secrets
        /\ {"fallback", "clash"} \subseteq Secrets /\ Nobody \in Callers
    BY DEF Creators, Secrets, Nobody, Callers, Tokens
  <1>. USE <1>0, RestartsAssumption
       DEF ControlTypeOK, process, requests, stored, Environment, Goto, Over, Under, Ended
  <1>1. ASSUME NEW t \in Tokens, Callback(t) PROVE ControlTypeOK'
    BY <1>1 DEF Callback
  <1>2. CASE CookieExpires \/ TablesMade \/ Restart
    BY <1>2 DEF CookieExpires, TablesMade, Restart, Tokens
  <1>3. ASSUME NEW r \in Requests, NEW h \in Tokens, Post(r, h) \/ PostInMemory(r, h)
        PROVE  ControlTypeOK'
    <2>1. caller' \in [Requests -> Callers]
      BY <1>3, ClaimsAreEarned DEF Post, PostInMemory, Accepted, Callers, Processes
    <2>. QED  BY <1>3, <2>1 DEF Post, PostInMemory, Accepted
  <1>4. ASSUME NEW r \in Requests, NEW h \in Tokens, PostRefused(r, h) PROVE ControlTypeOK'
    BY <1>4 DEF PostRefused
  <1>5. ASSUME NEW r \in Requests, Acquire(r) \/ Answer(r) \/ PostFails(r) PROVE ControlTypeOK'
    BY <1>5 DEF Acquire, Answer, PostFails
  <1>6. ASSUME NEW r \in Requests, InsertRow(r) \/ InsertRowReplyLost(r) PROVE ControlTypeOK'
    <2>1. Row(r) \in Rows
      BY <1>6, RowIsARow DEF InsertRow, InsertRowReplyLost
    <2>. QED  BY <1>6, <2>1 DEF InsertRow, InsertRowReplyLost
  <1>7. ASSUME NEW c \in Creators, StoreSecret(c) \/ StoreSecretFails(c) PROVE ControlTypeOK'
    BY <1>7 DEF StoreSecret, StoreSecretFails
  <1>8. ASSUME NEW h \in Tokens, ListConnections(h) PROVE ControlTypeOK'
    BY <1>8 DEF ListConnections
  <1>9. ASSUME NEW s \in Seeds, SeedOrg(s) PROVE ControlTypeOK'
    BY <1>9 DEF SeedOrg
  <1>10. ASSUME NEW s \in Seeds, SeedFails(s) \/ SeedRow(s) PROVE ControlTypeOK'
    <2>1. rows' \subseteq Rows
      BY <1>10, RowIsARow, MovedKeeps DEF SeedFails, SeedRow
    <2>2. pc' \in [Creators -> {"idle"} \cup Under \cup Ended]
      BY <1>10 DEF SeedFails, SeedRow
    <2>3. caller' \in [Requests -> Callers]
      BY <1>10 DEF SeedFails, SeedRow
    <2>4. secret_id' \in [Creators -> Secrets \cup {"none"}]
      BY <1>10 DEF SeedFails, SeedRow
    <2>. QED  BY <1>10, <2>1, <2>2, <2>3, <2>4 DEF SeedFails, SeedRow
  <1>11. CASE Crash
    <2>1. server' \in Processes /\ restarts' \in 0..MaxRestarts
      BY <1>11 DEF Crash, Processes, Gone
    <2>2. pc' \in [Creators -> {"idle"} \cup Under \cup Ended]
      BY <1>11 DEF Crash
    <2>3. secret_id' \in [Creators -> Secrets \cup {"none"}] /\ caller' \in [Requests -> Callers]
      BY <1>11 DEF Crash
    <2>. QED  BY <1>11, <2>1, <2>2, <2>3 DEF Crash
  <1>12. CASE UNCHANGED controlVars
    BY <1>12 DEF controlVars
  <1>. QED  BY <1>1, <1>2, <1>3, <1>4, <1>5, <1>6, <1>7, <1>8, <1>9, <1>10, <1>11, <1>12
            DEF ControlNext

---------------------------------------------------------------------------
(* A secret that is in the vault stays there, and a handler keeps its name. *)
LEMMA VaultGrows ==
  ASSUME ControlTypeOK, [ControlNext]_controlVars
  PROVE  name' = name /\ \A n \in Names : vault[n] # "free" => vault'[n] = vault[n]
  <1>1. name' = name
    BY DEF ControlNext, controlVars, requests, process, stored, Environment, Callback, CookieExpires, Post,
           PostInMemory, PostRefused, Accepted, Acquire, StoreSecret, StoreSecretFails, InsertRow,
           InsertRowReplyLost, Answer, PostFails, ListConnections, SeedOrg, SeedRow, SeedFails, Crash,
           Restart, TablesMade
  <1>2. CASE UNCHANGED vault
    BY <1>1, <1>2
  <1>3. ASSUME NEW c \in Creators, vault[name[c]] = "free", vault' = [vault EXCEPT ![name[c]] = c]
        PROVE  \A n \in Names : vault[n] # "free" => vault'[n] = vault[n]
    BY <1>3 DEF ControlTypeOK
  <1>4. UNCHANGED vault \/ \E c \in Creators : /\ vault[name[c]] = "free"
                                               /\ vault' = [vault EXCEPT ![name[c]] = c]
    BY DEF ControlNext, controlVars, requests, process, stored, Environment, Callback, CookieExpires, Post,
           PostInMemory, PostRefused, Accepted, Acquire, StoreSecret, StoreSecretFails, InsertRow,
           InsertRowReplyLost, Answer, PostFails, ListConnections, SeedOrg, SeedRow, SeedFails, Crash,
           Restart, TablesMade
  <1>. QED  BY <1>1, <1>2, <1>3, <1>4

(* The steps by which a secret comes into a handler, and all others. *)
LEMMA HeldStep ==
  ControlTypeOK /\ Carried /\ HeldIsOwn /\ [ControlNext]_controlVars => Carried' /\ HeldIsOwn'
  <1>. SUFFICES ASSUME ControlTypeOK, Carried, HeldIsOwn, [ControlNext]_controlVars
                PROVE  Carried' /\ HeldIsOwn'
    OBVIOUS
  <1>0. Requests \subseteq Creators /\ Seeds \subseteq Creators
        /\ "none" \notin Creators /\ "fallback" \notin Creators /\ "clash" \notin Creators
        /\ "free" \notin Creators
    BY CreatorsAssumption DEF Creators
  <1>1. \A d \in Creators : vault[name[d]] = d => vault'[name'[d]] = d
    BY <1>0, VaultGrows DEF ControlTypeOK
  <1>. USE <1>0, <1>1 DEF Goto, process, requests, stored, Environment
  <1>2. ASSUME NEW c \in Creators, StoreSecret(c) PROVE Carried' /\ HeldIsOwn'
    <2>1. CASE vault[name[c]] = "free"
      <3>1. secret_id' = [secret_id EXCEPT ![c] = c] /\ vault' = [vault EXCEPT ![name[c]] = c]
            /\ name' = name /\ pc' = [pc EXCEPT ![c] = "insert"]
        BY <1>2, <2>1 DEF StoreSecret
      <3>2. vault'[name'[c]] = c
        BY <3>1 DEF ControlTypeOK
      <3>. QED  BY <3>1, <3>2 DEF ControlTypeOK, Carried, HeldIsOwn
    <2>2. CASE vault[name[c]] # "free"
      <3>1. secret_id' = [secret_id EXCEPT ![c] = "clash"] /\ pc' = [pc EXCEPT ![c] = "insert"]
        BY <1>2, <2>2 DEF StoreSecret
      <3>. QED  BY <3>1 DEF ControlTypeOK, Carried, HeldIsOwn
    <2>. QED  BY <2>1, <2>2
  <1>3. ASSUME NEW c \in Creators, StoreSecretFails(c) PROVE Carried' /\ HeldIsOwn'
    <2>1. secret_id' = [secret_id EXCEPT ![c] = "fallback"] /\ pc' = [pc EXCEPT ![c] = "insert"]
      BY <1>3 DEF StoreSecretFails
    <2>. QED  BY <2>1 DEF ControlTypeOK, Carried, HeldIsOwn
  <1>4. ASSUME UNCHANGED secret_id, \A c \in Creators : pc'[c] = "insert" => pc[c] = "insert"
        PROVE  Carried' /\ HeldIsOwn'
    BY <1>4 DEF Carried, HeldIsOwn
  <1>5. ASSUME NEW c \in Creators, NEW to \in {"failed", "created"}, Over(c, to)
        PROVE  Carried' /\ HeldIsOwn'
    BY <1>5 DEF Over, ControlTypeOK, Carried, HeldIsOwn
  <1>6. CASE Crash
    BY <1>6 DEF Crash, ControlTypeOK, Carried, HeldIsOwn, Under
  <1>7. ASSUME NEW r \in Requests, NEW h \in Tokens, Post(r, h) \/ PostInMemory(r, h) \/ PostRefused(r, h)
        PROVE  Carried' /\ HeldIsOwn'
    BY <1>4, <1>7 DEF Post, PostInMemory, PostRefused, Accepted, ControlTypeOK
  <1>8. ASSUME NEW r \in Requests,
               Acquire(r) \/ InsertRow(r) \/ InsertRowReplyLost(r) \/ Answer(r) \/ PostFails(r)
        PROVE  Carried' /\ HeldIsOwn'
    BY <1>4, <1>5, <1>8 DEF Acquire, InsertRow, InsertRowReplyLost, Answer, PostFails, ControlTypeOK
  <1>9. ASSUME NEW s \in Seeds, SeedOrg(s) \/ SeedRow(s) \/ SeedFails(s) PROVE Carried' /\ HeldIsOwn'
    BY <1>4, <1>5, <1>9 DEF SeedOrg, SeedRow, SeedFails, ControlTypeOK
  <1>10. ASSUME NEW t \in Tokens, Callback(t) \/ ListConnections(t) PROVE Carried' /\ HeldIsOwn'
    BY <1>4, <1>10 DEF Callback, ListConnections
  <1>11. CASE CookieExpires \/ TablesMade \/ Restart \/ UNCHANGED controlVars
    BY <1>4, <1>11 DEF CookieExpires, TablesMade, Restart, controlVars
  <1>. QED  BY <1>2, <1>3, <1>6, <1>7, <1>8, <1>9, <1>10, <1>11 DEF ControlNext

(* The rows change in three ways. *)
LEMMA RowsChange ==
  ASSUME ControlTypeOK, Carried, [ControlNext]_controlVars
  PROVE  \/ UNCHANGED rows
         \/ \E c \in Creators : /\ pc[c] = "insert" /\ rows' = rows \cup {Row(c)}
                                /\ pc'[c] \in {"answer", "created", "failed"}
                                /\ c \in Seeds => ~Seeded
         \/ \E s \in Seeds : Seeded /\ rows' = Moved(s) /\ pc'[s] \in Ended
  <1>. USE DEF Goto, Over, process, requests, stored, Environment, Creators
  <1>1. ASSUME NEW r \in Requests, InsertRow(r) \/ InsertRowReplyLost(r)
        PROVE  /\ pc[r] = "insert" /\ rows' = rows \cup {Row(r)}
               /\ pc'[r] \in {"answer", "created", "failed"} /\ r \notin Seeds
    BY <1>1, CreatorsAssumption DEF InsertRow, InsertRowReplyLost, ControlTypeOK
  <1>2. ASSUME NEW s \in Seeds, SeedRow(s)
        PROVE  \/ Seeded /\ rows' = Moved(s) /\ pc'[s] \in Ended
               \/ /\ ~Seeded /\ pc[s] = "insert" /\ rows' = rows \cup {Row(s)}
                  /\ pc'[s] \in {"answer", "created", "failed"}
    BY <1>2 DEF SeedRow, ControlTypeOK, Ended
  <1>3. \/ UNCHANGED rows
        \/ \E r \in Requests : InsertRow(r) \/ InsertRowReplyLost(r)
        \/ \E s \in Seeds : SeedRow(s)
    BY DEF ControlNext, controlVars, Callback, CookieExpires, Post, PostInMemory, PostRefused, Accepted,
           Acquire, StoreSecret, StoreSecretFails, Answer, PostFails, ListConnections, SeedOrg, SeedFails,
           Crash, Restart, TablesMade
  <1>. QED  BY <1>1, <1>2, <1>3

(* The statements of a registration and of a run of the script, in order. *)
Stage(at) ==
    IF at = "idle" THEN 0 ELSE IF at = "acquire" THEN 1 ELSE IF at = "secret" THEN 2
    ELSE IF at = "insert" THEN 3 ELSE IF at = "answer" THEN 4 ELSE 5

(* Whoever moves, moves on: no statement is tried again, and what is over is *)
(* not taken up again, by a restart neither.                                 *)
MovesOn == \A c \in Creators : pc'[c] = pc[c] \/ Stage(pc'[c]) > Stage(pc[c])

(* A step of one of them that goes on. *)
LEMMA OneMoves ==
  ASSUME ControlTypeOK, NEW c \in Creators, NEW to, pc' = [pc EXCEPT ![c] = to],
         Stage(to) > Stage(pc[c])
  PROVE  \A d \in Creators : pc'[d] = pc[d] \/ Stage(pc'[d]) > Stage(pc[d])
  BY DEF ControlTypeOK

(* Every step of a registration, of a seed run or of the process. *)
LEMMA MovesOnStep == ControlTypeOK /\ [ControlNext]_controlVars => MovesOn
  <1>. SUFFICES ASSUME ControlTypeOK, [ControlNext]_controlVars PROVE MovesOn
    OBVIOUS
  <1>. DEFINE Moves(c, to) == pc' = [pc EXCEPT ![c] = to] /\ Stage(to) > Stage(pc[c])
  <1>1. ASSUME NEW c \in Creators, NEW to, Moves(c, to) PROVE MovesOn
    BY <1>1, OneMoves DEF MovesOn
  <1>2. ASSUME UNCHANGED pc PROVE MovesOn
    BY <1>2 DEF MovesOn
  <1>. USE DEF Goto, Over, process, requests, stored, Environment, Stage, Creators
  <1>3. ASSUME NEW r \in Requests, NEW h \in Tokens, Post(r, h) \/ PostInMemory(r, h) \/ PostRefused(r, h)
        PROVE  MovesOn
    <2>1. Moves(r, "acquire") \/ Moves(r, "created_in_memory") \/ Moves(r, "failed")
      BY <1>3 DEF Post, PostInMemory, PostRefused, Accepted
    <2>. QED  BY <1>1, <2>1
  <1>4. ASSUME NEW r \in Requests,
               Acquire(r) \/ InsertRow(r) \/ InsertRowReplyLost(r) \/ Answer(r) \/ PostFails(r)
        PROVE  MovesOn
    <2>1. Moves(r, "secret") \/ Moves(r, "answer") \/ Moves(r, "failed") \/ Moves(r, "created")
      BY <1>4 DEF Acquire, InsertRow, InsertRowReplyLost, Answer, PostFails, Under
    <2>. QED  BY <1>1, <2>1
  <1>5. ASSUME NEW s \in Seeds, SeedOrg(s) \/ SeedRow(s) \/ SeedFails(s) PROVE MovesOn
    <2>1. Moves(s, "secret") \/ Moves(s, "failed") \/ Moves(s, "created")
      BY <1>5 DEF SeedOrg, SeedRow, SeedFails
    <2>. QED  BY <1>1, <2>1
  <1>6. ASSUME NEW c \in Creators, StoreSecret(c) \/ StoreSecretFails(c) PROVE MovesOn
    <2>1. Moves(c, "insert")
      BY <1>6 DEF StoreSecret, StoreSecretFails
    <2>. QED  BY <1>1, <2>1
  <1>7. CASE Crash
    BY <1>7 DEF Crash, Under, ControlTypeOK, MovesOn
  <1>8. ASSUME NEW t \in Tokens, Callback(t) \/ ListConnections(t) PROVE MovesOn
    BY <1>2, <1>8 DEF Callback, ListConnections
  <1>9. CASE CookieExpires \/ TablesMade \/ Restart \/ UNCHANGED controlVars
    BY <1>2, <1>9 DEF CookieExpires, TablesMade, Restart, controlVars
  <1>. HIDE DEF Goto, Over, process, requests, stored, Environment, Stage, Creators
  <1>. QED  BY <1>3, <1>4, <1>5, <1>6, <1>7, <1>8, <1>9 DEF ControlNext

(* No registration goes back to a place before its INSERT. *)
LEMMA ProgressKept ==
  ASSUME ControlTypeOK, [ControlNext]_controlVars, NEW r \in Requests
  PROVE  /\ pc[r] \in {"answer", "created", "failed"} => pc'[r] \in {"answer", "created", "failed"}
         /\ pc'[r] \in {"answer", "created"} => pc[r] \in {"answer", "created"}
                                                  \/ Row(r) \in rows'
  <1>0. pc \in [Creators -> {"idle"} \cup Under \cup Ended] /\ r \in Creators
    BY DEF ControlTypeOK, Creators
  <1>. USE DEF Goto, Over, process, requests, stored, Environment, Creators
  <1>1. ASSUME NEW q \in Requests, NEW h \in Tokens, Post(q, h) \/ PostInMemory(q, h) \/ PostRefused(q, h)
        PROVE  \/ pc'[r] = pc[r]
               \/ pc[r] = "idle" /\ pc'[r] \in {"acquire", "created_in_memory", "failed"}
    <2>1. /\ pc[q] = "idle"
          /\ \/ pc' = [pc EXCEPT ![q] = "acquire"]
             \/ pc' = [pc EXCEPT ![q] = "created_in_memory"]
             \/ pc' = [pc EXCEPT ![q] = "failed"]
      BY <1>1 DEF Post, PostInMemory, PostRefused, Accepted
    <2>. QED  BY <1>0, <2>1
  <1>2. ASSUME NEW q \in Requests, Acquire(q) \/ Answer(q) \/ PostFails(q)
        PROVE  \/ pc'[r] = pc[r]
               \/ pc[r] = "acquire" /\ pc'[r] = "secret"
               \/ pc[r] = "answer" /\ pc'[r] = "created"
               \/ pc[r] \in {"acquire", "secret", "insert", "answer"} /\ pc'[r] = "failed"
    <2>1. \/ pc[q] = "acquire" /\ pc' = [pc EXCEPT ![q] = "secret"]
          \/ pc[q] = "answer" /\ pc' = [pc EXCEPT ![q] = "created"]
          \/ pc[q] \in {"acquire", "secret", "insert", "answer"} /\ pc' = [pc EXCEPT ![q] = "failed"]
      BY <1>2 DEF Acquire, Answer, PostFails, Under
    <2>. QED  BY <1>0, <2>1
  <1>3. ASSUME NEW q \in Requests, InsertRow(q) \/ InsertRowReplyLost(q)
        PROVE  \/ pc'[r] = pc[r]
               \/ pc'[r] \in {"answer", "failed"} /\ Row(r) \in rows'
    <2>1. /\ Row(q) \in rows'
          /\ pc' = [pc EXCEPT ![q] = "answer"] \/ pc' = [pc EXCEPT ![q] = "failed"]
      BY <1>3 DEF InsertRow, InsertRowReplyLost
    <2>. QED  BY <1>0, <2>1
  <1>4. ASSUME NEW c \in Creators, StoreSecret(c) \/ StoreSecretFails(c)
        PROVE  \/ pc'[r] = pc[r]
               \/ pc[r] = "secret" /\ pc'[r] = "insert"
    <2>1. pc[c] = "secret" /\ pc' = [pc EXCEPT ![c] = "insert"]
      BY <1>4 DEF StoreSecret, StoreSecretFails
    <2>. QED  BY <1>0, <2>1
  <1>5. ASSUME NEW s \in Seeds, SeedOrg(s) \/ SeedRow(s) \/ SeedFails(s) PROVE pc'[r] = pc[r]
    BY <1>0, <1>5, CreatorsAssumption DEF SeedOrg, SeedRow, SeedFails
  <1>6. CASE Crash
    BY <1>6 DEF Crash, Under, ControlTypeOK
  <1>7. ASSUME NEW t \in Tokens, Callback(t) \/ ListConnections(t) PROVE pc'[r] = pc[r]
    BY <1>7 DEF Callback, ListConnections
  <1>8. CASE CookieExpires \/ TablesMade \/ Restart \/ UNCHANGED controlVars
    BY <1>8 DEF CookieExpires, TablesMade, Restart, controlVars
  <1>. QED  BY <1>1, <1>2, <1>3, <1>4, <1>5, <1>6, <1>7, <1>8 DEF ControlNext

(* What became of a row: it was there, and if it is the seeded one a run of  *)
(* the script may just have moved it, or it is the one inserted.             *)
Stayed(row, old) ==
    /\ row.by = old.by /\ row.secret_id = old.secret_id
    /\ \/ row.at = old.at
       \/ row.by \in Seeds /\ \E s \in Seeds : pc'[s] \in Ended /\ row.at = name[s]
Inserted(row, c) ==
    /\ pc[c] = "insert" /\ row.by = c /\ row.at = name[c] /\ row.secret_id = secret_id[c]
    /\ pc'[c] \in {"answer", "created", "failed"}

LEMMA RowsKept ==
  ASSUME ControlTypeOK, Carried, [ControlNext]_controlVars
  PROVE  /\ \A old \in rows : \E row \in rows' : row.by = old.by
         /\ \A row \in rows' :
               \/ \E old \in rows : Stayed(row, old)
               \/ \E c \in Creators : Inserted(row, c)
  <1>1. CASE UNCHANGED rows
    BY <1>1 DEF Stayed
  <1>2. ASSUME NEW c \in Creators, pc[c] = "insert", rows' = rows \cup {Row(c)},
               pc'[c] \in {"answer", "created", "failed"}
        PROVE  /\ \A old \in rows : \E row \in rows' : row.by = old.by
               /\ \A row \in rows' : \/ \E old \in rows : Stayed(row, old)
                                     \/ Inserted(row, c)
    BY <1>2, RowIsARow DEF Stayed, Inserted
  <1>3. ASSUME NEW s \in Seeds, rows' = Moved(s), pc'[s] \in Ended
        PROVE  /\ \A old \in rows : \E row \in rows' : row.by = old.by
               /\ \A row \in rows' :
                     \E old \in rows : Stayed(row, old)
    <2>1. ASSUME NEW row \in Moved(s) PROVE \E old \in rows : Stayed(row, old)
      <3>1. PICK old \in rows :
               /\ row.by = old.by /\ row.secret_id = old.secret_id
               /\ row = IF old.by \in Seeds THEN [old EXCEPT !.at = name[s]] ELSE old
        BY MovedKeeps
      <3>2. row.at = IF old.by \in Seeds THEN name[s] ELSE old.at
        BY <3>1 DEF ControlTypeOK, Rows
      <3>. QED  BY <1>3, <3>1, <3>2 DEF Stayed
    <2>. QED  BY <1>3, <2>1, MovedKeeps
  <1>. QED  BY <1>1, <1>2, <1>3, RowsChange

(* A row appears with the INSERT of its request, which does not go back. *)
LEMMA RowsInTimeStep ==
  ControlTypeOK /\ Carried /\ RowsInTime /\ [ControlNext]_controlVars => RowsInTime'
  <1>. SUFFICES ASSUME ControlTypeOK, Carried, RowsInTime, [ControlNext]_controlVars,
                       NEW row \in rows', row.by \in Requests
                PROVE  pc'[row.by] \in {"answer", "created", "failed"}
    BY DEF RowsInTime
  <1>1. ASSUME NEW old \in rows, row.by = old.by
        PROVE  pc'[row.by] \in {"answer", "created", "failed"}
    BY <1>1, ProgressKept DEF RowsInTime
  <1>. QED  BY <1>1, RowsKept DEF Stayed, Inserted

(* A run of the script that is over stays so. *)
LEMMA EndedStays ==
  ASSUME ControlTypeOK, [ControlNext]_controlVars, NEW c \in Creators, pc[c] \in Ended
  PROVE  pc'[c] \in Ended
  <1>1. Stage(pc[c]) = 5 /\ ~(Stage(pc'[c]) > 5)
    BY DEF Stage, Ended
  <1>. QED  BY <1>1, MovesOnStep DEF MovesOn

(* A row brings the secret its handler carried, under the name it says, and  *)
(* the vault does not take the secret back; only the seeded row moves, to    *)
(* the host of a run that is then over.                                      *)
LEMMA SecretIsOwnStep ==
  ControlTypeOK /\ Carried /\ HeldIsOwn /\ SecretIsOwn /\ [ControlNext]_controlVars => SecretIsOwn'
  <1>. DEFINE Own(row) ==
                /\ vault'[name'[row.secret_id]] = row.secret_id
                /\ row.by \in Requests => row.secret_id = row.by /\ row.at = name'[row.by]
                /\ row.by \in Seeds =>
                      /\ row.secret_id \in Seeds
                      /\ \/ row.at = name'[row.secret_id]
                         \/ \E s \in Seeds : pc'[s] \in Ended /\ row.at = name'[s]
  <1>. SUFFICES ASSUME ControlTypeOK, Carried, HeldIsOwn, SecretIsOwn, [ControlNext]_controlVars,
                       NEW row \in rows', row.secret_id \in Creators
                PROVE  Own(row)
    BY DEF SecretIsOwn
  <1>0. name' = name /\ Requests \cap Seeds = {} /\ Seeds \subseteq Creators
    BY CreatorsAssumption, VaultGrows DEF Creators
  <1>1. \A d \in Creators : vault[name[d]] = d => vault'[name[d]] = d
    BY CreatorsAssumption, VaultGrows DEF ControlTypeOK, Creators
  <1>2. \A s \in Seeds : pc[s] \in Ended => pc'[s] \in Ended
    BY <1>0, EndedStays
  <1>3. ASSUME NEW old \in rows, Stayed(row, old)
        PROVE  Own(row)
    <2>1. /\ vault[name[row.secret_id]] = row.secret_id
          /\ row.by \in Requests => row.secret_id = row.by /\ old.at = name[row.by]
          /\ row.by \in Seeds =>
                /\ row.secret_id \in Seeds
                /\ \/ old.at = name[row.secret_id]
                   \/ \E s \in Seeds : pc[s] \in Ended /\ old.at = name[s]
      BY <1>3 DEF SecretIsOwn, Stayed
    <2>2. \/ row.at = old.at
          \/ row.by \in Seeds /\ \E s \in Seeds : pc'[s] \in Ended /\ row.at = name[s]
      BY <1>3 DEF Stayed
    <2>. QED  BY <1>0, <1>1, <1>2, <1>3, <2>1, <2>2
  <1>4. ASSUME NEW c \in Creators, Inserted(row, c) PROVE Own(row)
    <2>1. row.secret_id = c /\ row.by = c /\ row.at = name[c] /\ vault[name[c]] = c
      BY <1>4 DEF HeldIsOwn, Inserted
    <2>. QED  BY <1>0, <1>1, <2>1
  <1>. QED  BY <1>3, <1>4, RowsKept

---------------------------------------------------------------------------
(* The parts of RegisteredOnce. *)
AnsweredHasRow == \A r \in Requests : pc[r] \in {"answer", "created"} => \E row \in rows : row.by = r
SeededHasRow == \A s \in Seeds : pc[s] = "created" => Seeded
OneRowEach ==
    \A row, other \in rows : row.by = other.by \/ {row.by, other.by} \subseteq Seeds => row = other
InMemoryStays == \A r \in Requests : pc[r] = "created_in_memory" /\ restarts = 0 => r \in memory

(* A request inserts once, and the script only where there is no row of it. *)
LEMMA OneRowEachStep ==
  ControlTypeOK /\ Carried /\ RowsInTime /\ OneRowEach /\ [ControlNext]_controlVars => OneRowEach'
  <1>. SUFFICES ASSUME ControlTypeOK, Carried, RowsInTime, OneRowEach, [ControlNext]_controlVars
                PROVE  OneRowEach'
    OBVIOUS
  <1>1. CASE UNCHANGED rows
    BY <1>1 DEF OneRowEach
  <1>2. ASSUME NEW c \in Creators, pc[c] = "insert", rows' = rows \cup {Row(c)}, c \in Seeds => ~Seeded
        PROVE  OneRowEach'
    <2>1. Row(c).by = c
      BY <1>2, RowIsARow
    <2>2. \A row \in rows : row.by # c /\ ~({row.by, c} \subseteq Seeds)
      BY <1>2 DEF RowsInTime, Seeded, Creators
    <2>. QED  BY <1>2, <2>1, <2>2 DEF OneRowEach
  <1>3. ASSUME NEW s \in Seeds, rows' = Moved(s) PROVE OneRowEach'
    <2>. SUFFICES ASSUME NEW row \in Moved(s), NEW other \in Moved(s),
                         row.by = other.by \/ {row.by, other.by} \subseteq Seeds
                  PROVE  row = other
      BY <1>3 DEF OneRowEach
    <2>1. PICK old \in rows : /\ row.by = old.by
                              /\ row = IF old.by \in Seeds THEN [old EXCEPT !.at = name[s]] ELSE old
      BY MovedKeeps
    <2>2. PICK past \in rows : /\ other.by = past.by
                               /\ other = IF past.by \in Seeds THEN [past EXCEPT !.at = name[s]] ELSE past
      BY MovedKeeps
    <2>3. old = past
      BY <2>1, <2>2 DEF OneRowEach
    <2>. QED  BY <2>1, <2>2, <2>3
  <1>. QED  BY <1>1, <1>2, <1>3, RowsChange

(* The answer comes after the INSERT, and rows stay. *)
LEMMA AnsweredHasRowStep ==
  ControlTypeOK /\ Carried /\ AnsweredHasRow /\ [ControlNext]_controlVars => AnsweredHasRow'
  <1>. SUFFICES ASSUME ControlTypeOK, Carried, AnsweredHasRow, [ControlNext]_controlVars,
                       NEW r \in Requests, pc'[r] \in {"answer", "created"}
                PROVE  \E row \in rows' : row.by = r
    BY DEF AnsweredHasRow
  <1>1. CASE pc[r] \in {"answer", "created"}
    BY <1>1, RowsKept DEF AnsweredHasRow
  <1>2. CASE Row(r) \in rows'
    BY <1>2 DEF Row
  <1>. QED  BY <1>1, <1>2, ProgressKept

(* The script is over when its row is there, and rows stay. *)
LEMMA SeededHasRowStep ==
  ControlTypeOK /\ Carried /\ SeededHasRow /\ [ControlNext]_controlVars => SeededHasRow'
  <1>. SUFFICES ASSUME ControlTypeOK, Carried, SeededHasRow, [ControlNext]_controlVars,
                       NEW s \in Seeds, pc'[s] = "created"
                PROVE  Seeded'
    BY DEF SeededHasRow
  <1>0. s \in Creators /\ s \notin Requests /\ pc \in [Creators -> {"idle"} \cup Under \cup Ended]
    BY CreatorsAssumption DEF Creators, ControlTypeOK
  <1>1. CASE Seeded
    BY <1>1, RowsKept DEF Seeded
  <1>. USE DEF Goto, Over, process, requests, stored, Environment
  <1>2. ASSUME NEW t \in Seeds, SeedRow(t) PROVE Seeded'
    <2>1. CASE ~Seeded
      <3>1. rows' = rows \cup {Row(t)} /\ Row(t).by = t
        BY <1>2, <2>1 DEF SeedRow, Row
      <3>. QED  BY <3>1 DEF Seeded
    <2>. QED  BY <1>1, <2>1
  <1>3. ASSUME NEW t \in Seeds, SeedOrg(t) \/ SeedFails(t) PROVE pc[s] = "created"
    <2>1. pc' = [pc EXCEPT ![t] = "secret"] \/ pc' = [pc EXCEPT ![t] = "failed"]
      BY <1>3 DEF SeedOrg, SeedFails
    <2>. QED  BY <1>0, <2>1
  <1>4. ASSUME NEW c \in Creators, StoreSecret(c) \/ StoreSecretFails(c) PROVE pc[s] = "created"
    <2>1. pc' = [pc EXCEPT ![c] = "insert"]
      BY <1>4 DEF StoreSecret, StoreSecretFails
    <2>. QED  BY <1>0, <2>1
  <1>5. ASSUME NEW q \in Requests, NEW h \in Tokens, Post(q, h) \/ PostInMemory(q, h) \/ PostRefused(q, h)
        PROVE  pc[s] = "created"
    BY <1>0, <1>5 DEF Post, PostInMemory, PostRefused, Accepted
  <1>6. ASSUME NEW q \in Requests,
               Acquire(q) \/ Answer(q) \/ PostFails(q) \/ InsertRow(q) \/ InsertRowReplyLost(q)
        PROVE  pc[s] = "created"
    BY <1>0, <1>6 DEF Acquire, Answer, PostFails, InsertRow, InsertRowReplyLost
  <1>7. ASSUME NEW t \in Tokens, Callback(t) \/ ListConnections(t) PROVE pc[s] = "created"
    BY <1>7 DEF Callback, ListConnections
  <1>8. ASSUME CookieExpires \/ TablesMade \/ Restart \/ UNCHANGED controlVars PROVE pc[s] = "created"
    BY <1>8 DEF CookieExpires, TablesMade, Restart, controlVars
  <1>9. ASSUME Crash PROVE pc[s] = "created"
    BY <1>0, <1>9 DEF Crash
  <1>. QED  BY <1>1, <1>2, <1>3, <1>4, <1>5, <1>6, <1>7, <1>8, <1>9 DEF ControlNext, SeededHasRow

(* The memory grows until the process ends. *)
LEMMA InMemoryStaysStep ==
  ControlTypeOK /\ InMemoryStays /\ [ControlNext]_controlVars => InMemoryStays'
  <1>. SUFFICES ASSUME ControlTypeOK, InMemoryStays, [ControlNext]_controlVars,
                       NEW r \in Requests, pc'[r] = "created_in_memory", restarts' = 0
                PROVE  r \in memory'
    BY DEF InMemoryStays
  <1>0. r \in Creators /\ r \notin Seeds /\ pc \in [Creators -> {"idle"} \cup Under \cup Ended]
    BY CreatorsAssumption DEF Creators, ControlTypeOK
  <1>. USE DEF Goto, Over, process, requests, stored, Environment
  <1>1. ASSUME NEW t \in Seeds, SeedOrg(t) \/ SeedFails(t) \/ SeedRow(t) PROVE r \in memory'
    BY <1>0, <1>1 DEF SeedOrg, SeedFails, SeedRow, InMemoryStays
  <1>2. ASSUME NEW c \in Creators, StoreSecret(c) \/ StoreSecretFails(c) PROVE r \in memory'
    <2>1. pc' = [pc EXCEPT ![c] = "insert"] /\ UNCHANGED <<memory, restarts>>
      BY <1>2 DEF StoreSecret, StoreSecretFails
    <2>. QED  BY <1>0, <2>1 DEF InMemoryStays
  <1>3. ASSUME NEW q \in Requests, NEW h \in Tokens, Post(q, h) \/ PostRefused(q, h) PROVE r \in memory'
    <2>1. /\ pc' = [pc EXCEPT ![q] = "acquire"] \/ pc' = [pc EXCEPT ![q] = "failed"]
          /\ UNCHANGED <<memory, restarts>>
      BY <1>3 DEF Post, PostRefused, Accepted
    <2>. QED  BY <1>0, <2>1 DEF InMemoryStays
  <1>4. ASSUME NEW q \in Requests, NEW h \in Tokens, PostInMemory(q, h) PROVE r \in memory'
    <2>1. /\ pc' = [pc EXCEPT ![q] = "created_in_memory"] /\ memory' = memory \cup {q}
          /\ UNCHANGED restarts
      BY <1>4 DEF PostInMemory, Accepted
    <2>. QED  BY <1>0, <2>1 DEF InMemoryStays
  <1>5. ASSUME NEW q \in Requests,
               Acquire(q) \/ Answer(q) \/ PostFails(q) \/ InsertRow(q) \/ InsertRowReplyLost(q)
        PROVE  r \in memory'
    <2>1. /\ \E to \in {"secret", "created", "failed", "answer"} : pc' = [pc EXCEPT ![q] = to]
          /\ UNCHANGED <<memory, restarts>>
      BY <1>5 DEF Acquire, Answer, PostFails, InsertRow, InsertRowReplyLost
    <2>. QED  BY <1>0, <2>1 DEF InMemoryStays
  <1>6. ASSUME NEW t \in Tokens, Callback(t) \/ ListConnections(t) PROVE r \in memory'
    BY <1>6 DEF Callback, ListConnections, InMemoryStays
  <1>7. CASE CookieExpires \/ TablesMade \/ Restart \/ UNCHANGED controlVars
    BY <1>7 DEF CookieExpires, TablesMade, Restart, controlVars, InMemoryStays
  <1>8. CASE Crash
    BY <1>8 DEF Crash, ControlTypeOK
  <1>. QED  BY <1>1, <1>2, <1>3, <1>4, <1>5, <1>6, <1>7, <1>8 DEF ControlNext

(* The four parts together. *)
LEMMA RegisteredOnceStep ==
  ControlTypeOK /\ Carried /\ RowsInTime /\ RegisteredOnce /\ [ControlNext]_controlVars => RegisteredOnce'
  <1>1. RegisteredOnce <=> AnsweredHasRow /\ SeededHasRow /\ OneRowEach /\ InMemoryStays
    BY DEF RegisteredOnce, AnsweredHasRow, SeededHasRow, OneRowEach, InMemoryStays
  <1>2. RegisteredOnce' <=> AnsweredHasRow' /\ SeededHasRow' /\ OneRowEach' /\ InMemoryStays'
    BY DEF RegisteredOnce, AnsweredHasRow, SeededHasRow, OneRowEach, InMemoryStays
  <1>. QED  BY <1>1, <1>2, AnsweredHasRowStep, SeededHasRowStep, OneRowEachStep, InMemoryStaysStep

(* Claims are given when a request is taken on, and dropped when it is over. *)
LEMMA ProductionIsVerifiedStep ==
  ControlTypeOK /\ ProductionIsVerified /\ [ControlNext]_controlVars => ProductionIsVerified'
  <1>. SUFFICES ASSUME ControlTypeOK, ProductionIsVerified, [ControlNext]_controlVars
                PROVE  ProductionIsVerified'
    OBVIOUS
  <1>. USE DEF process, requests, stored, Environment
  <1>1. CASE UNCHANGED caller
    BY <1>1 DEF ProductionIsVerified
  <1>2. ASSUME NEW c \in Creators, NEW to, Over(c, to) PROVE ProductionIsVerified'
    BY <1>2 DEF Over, Nobody, ProductionIsVerified
  <1>3. ASSUME NEW r \in Requests, NEW h \in Tokens, Accepted(r, h) PROVE ProductionIsVerified'
    <2>1. PICK claims \in UserClaims(h, cookie, server) \cap ClaimKinds :
             caller' = [caller EXCEPT ![r] = [token |-> TokenFrom(h, cookie), claims |-> claims,
                                              production |-> server.production]]
      BY <1>3 DEF Accepted
    <2>2. /\ claims \in {"unverified", "demo"} => ~server.production
          /\ claims = "verified" => TokenFrom(h, cookie) = "signed"
          /\ claims = "demo" => TokenFrom(h, cookie) = "none"
      BY <2>1, ClaimsAreEarned DEF ControlTypeOK
    <2>. QED  BY <2>1, <2>2 DEF ProductionIsVerified, ControlTypeOK
  <1>4. CASE Crash
    BY <1>4 DEF Crash, Nobody, ProductionIsVerified
  <1>5. ASSUME NEW r \in Requests, NEW h \in Tokens, Post(r, h) \/ PostInMemory(r, h) \/ PostRefused(r, h)
        PROVE  ProductionIsVerified'
    BY <1>1, <1>3, <1>5 DEF Post, PostInMemory, PostRefused
  <1>6. ASSUME NEW r \in Requests,
               Acquire(r) \/ InsertRow(r) \/ InsertRowReplyLost(r) \/ Answer(r) \/ PostFails(r)
        PROVE  ProductionIsVerified'
    BY <1>1, <1>2, <1>6 DEF Acquire, InsertRow, InsertRowReplyLost, Answer, PostFails, Creators
  <1>7. ASSUME NEW s \in Seeds, SeedOrg(s) \/ SeedRow(s) \/ SeedFails(s) PROVE ProductionIsVerified'
    BY <1>1, <1>2, <1>7 DEF SeedOrg, SeedRow, SeedFails, Creators
  <1>8. ASSUME NEW c \in Creators, StoreSecret(c) \/ StoreSecretFails(c) PROVE ProductionIsVerified'
    BY <1>1, <1>8 DEF StoreSecret, StoreSecretFails
  <1>9. ASSUME NEW t \in Tokens, Callback(t) \/ ListConnections(t) PROVE ProductionIsVerified'
    BY <1>1, <1>9 DEF Callback, ListConnections
  <1>10. CASE CookieExpires \/ TablesMade \/ Restart \/ UNCHANGED controlVars
    BY <1>1, <1>10 DEF CookieExpires, TablesMade, Restart, controlVars
  <1>. QED  BY <1>4, <1>5, <1>6, <1>7, <1>8, <1>9, <1>10 DEF ControlNext

(* Every step keeps the invariant. *)
LEMMA ControlInvStep == ControlInv /\ [ControlNext]_controlVars => ControlInv'
  BY ControlTypeStep, HeldStep, RowsInTimeStep, RegisteredOnceStep, SecretIsOwnStep,
     ProductionIsVerifiedStep
  DEF ControlInv

(* What follows rests on the invariant of every statement of a registration, *)
(* a seed run, a login and a restart.                                        *)
THEOREM ControlInvariant == ControlSpec => []ControlInv
  BY ControlInitInv, ControlInvStep, PTL DEF ControlSpec

(* Every variable has its type: in particular, whatever a handler inserts is *)
(* a row with a secret_id (create_connection, seed_control_plane.py).        *)
THEOREM ControlTypeCorrect == ControlSpec => []ControlTypeOK
  BY ControlInvariant, PTL DEF ControlInv

(* What was answered as created is registered, once, and the seeded          *)
(* connection is there once, with any statement failing and any restart.     *)
THEOREM RegistersOnce == ControlSpec => []RegisteredOnce
  BY ControlInvariant, PTL DEF ControlInv

(* A registration has its own password, under its label, and the seeded      *)
(* connection one of the script, of the host it is at or was at before it    *)
(* was moved, for any overlap of labels and hosts and any reruns.            *)
THEOREM SecretsAreOwn == ControlSpec => []SecretIsOwn
  BY ControlInvariant, PTL DEF ControlInv

(* A process in production does nothing for a token it did not verify        *)
(* (get_current_user_claims), under any cookie kept from another process.    *)
THEOREM ProductionVerifies == ControlSpec => []ProductionIsVerified
  BY ControlInvariant, PTL DEF ControlInv
---------------------------------------------------------------------------
(* What a registration was given is not taken back: its row, the secret it   *)
(* names and the password under a name of the vault stay, and only the       *)
(* seeded connection moves to another host.                                  *)
RowsStay ==
    \A old \in rows : \E row \in rows' :
        /\ row.by = old.by /\ row.secret_id = old.secret_id
        /\ row.at = old.at \/ row.by \in Seeds
PasswordsStay == \A n \in Names : vault[n] # "free" => vault'[n] = vault[n]
NothingIsRepointed == [][RowsStay /\ PasswordsStay]_controlVars

(* Bringing the host up to date drops no row and no secret. *)
LEMMA MovedLoses ==
  ASSUME ControlTypeOK, NEW s \in Seeds, NEW old \in rows
  PROVE  \E row \in Moved(s) : /\ row.by = old.by /\ row.secret_id = old.secret_id
                               /\ row.at = old.at \/ row.by \in Seeds
  <1>. DEFINE row == IF old.by \in Seeds THEN [old EXCEPT !.at = name[s]] ELSE old
  <1>1. row \in Moved(s)
    BY DEF Moved
  <1>2. old \in Rows
    BY DEF ControlTypeOK
  <1>3. /\ row.by = old.by /\ row.secret_id = old.secret_id
        /\ row.at = old.at \/ row.by \in Seeds
    BY <1>2 DEF Rows
  <1>. QED  BY <1>1, <1>3

(* No later registration, rerun of the script, failure or restart loses a    *)
(* connection, has it name another secret, or puts another password under a  *)
(* name (create_connection, the upsert of seed_control_plane.py, the unique  *)
(* names of the vault).  This includes the seeded connection after a move:   *)
(* it keeps the secret of its first host.                                    *)
THEOREM NothingRepointed == ControlSpec => NothingIsRepointed
  <1>1. ControlInv /\ [ControlNext]_controlVars => RowsStay
    BY RowsChange, MovedLoses DEF ControlInv, RowsStay
  <1>2. ControlInv /\ [ControlNext]_controlVars => PasswordsStay
    BY VaultGrows DEF ControlInv, PasswordsStay
  <1>. QED  BY ControlInvariant, <1>1, <1>2, PTL DEF ControlSpec, NothingIsRepointed

---------------------------------------------------------------------------
(* MovesOn, of every step. *)
NothingIsRetried == [][MovesOn]_controlVars

(* A registration and a run of the script are over after five statements,    *)
(* with any of them failing: neither tries one again.                        *)
THEOREM NothingRetried == ControlSpec => NothingIsRetried
  <1>1. ControlInv /\ [ControlNext]_controlVars => [MovesOn]_controlVars
    BY MovesOnStep DEF ControlInv
  <1>. QED  BY ControlInvariant, <1>1, PTL DEF ControlSpec, NothingIsRetried

---------------------------------------------------------------------------
(* Production is the stricter of the two: whom it accepts, with whatever     *)
(* header and cookie and with the keys configured or not, it has verified,   *)
(* and development accepts as well (auth/jwt.py).                            *)
THEOREM ProductionIsStricter ==
  ASSUME NEW header \in Tokens, NEW kept \in Tokens, NEW url \in BOOLEAN
  PROVE  LET production == UserClaims(header, kept, [production |-> TRUE, url |-> url])
             development == UserClaims(header, kept, [production |-> FALSE, url |-> url])
         IN  /\ production \cap ClaimKinds \subseteq {"verified"}
             /\ production \cap ClaimKinds \subseteq development
  BY DEF UserClaims, Verify, DemoAuth, TokenFrom, Tokens, ClaimKinds
============================================================================
