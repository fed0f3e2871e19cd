----------------------------- MODULE ChatProofs -----------------------------
(***************************************************************************)
(* What a reply of AssistantChat says about its origin is true for any     *)
(* number of requests, of tool turns and of calls, and under any changes   *)
(* of the selected provider; each request walks along its chain as         *)
(* ProviderChain says, and no step of one is taken back.                   *)
(***************************************************************************)
EXTENDS AssistantChat, TLAPS

Chains == {<<>>, <<"gemini">>, <<"ollama">>, <<"gemini", "ollama">>}

Left(c) == {chain[c][i] : i \in DOMAIN chain[c]}
Trying(c) == pc[c] \in {"ask", "tool"}

(* While a provider is tried, those before it have failed, those after it    *)
(* have not, and every tool call on record is its own.                       *)
ChainInOrder(c) ==
    /\ chain[c] \in Chains
    /\ Trying(c) =>
          /\ chain[c] # <<>>
          /\ started[c] = attempts[c] \cup Left(c)
          /\ attempts[c] \cap Left(c) = {}
          /\ "gemini" \in started[c] => Head(chain[c]) = "gemini" \/ "gemini" \in attempts[c]
          /\ \A q \in Callers : traces[c][q] > 0 => q = Head(chain[c])
    /\ ~Trying(c) /\ reply[c].kind = "pending" => \A q \in Callers : traces[c][q] = 0
    /\ pc[c] = "fallback" => attempts[c] = started[c]

Signed(c) ==
    LET r == reply[c] IN
    r.kind = "answer" =>
       IF r.provider = "none"
       THEN attempts[c] = started[c] /\ (r.banner = "unanswered" <=> started[c] # {})
       ELSE /\ \A q \in Callers : r.tools[q] > 0 => q = r.provider
            /\ r.provider \in started[c] \ attempts[c]
            /\ "gemini" \in started[c] => r.provider = "gemini" \/ "gemini" \in attempts[c]

Stage(c) ==
    /\ pc[c] \in {"close", "done"} \/ reply[c].kind = "pending"
    /\ pc[c] = "close" => reply[c].kind \in {"answer", "error"}
    /\ pc[c] = "done" => (reply[c].kind = "offline") = ~connected[c]
    /\ connected[c] = (pc[c] # "new" /\ reply[c].kind # "offline")

Shapes ==
    /\ pc \in [Chats -> {"new", "elevated", "ask", "tool", "fallback", "close", "done"}]
    /\ chain \in [Chats -> Chains]
    /\ attempts \in [Chats -> SUBSET Providers]
    /\ traces \in [Chats -> [Callers -> Nat]]
    /\ connected \in [Chats -> BOOLEAN]
    /\ started \in [Chats -> SUBSET Providers]
    /\ reply \in [Chats -> Replies]
    /\ configured \in Selections \cup {"unknown"}
    /\ override \in Selections \cup {"unset"}

ChatInv == Shapes /\ \A c \in Chats : ChainInOrder(c) /\ Signed(c) /\ Stage(c)

-----------------------------------------------------------------------------
(* What Chain can be, and what is left of it when its head has failed. *)
LEMMA ChainShape ==
    ASSUME configured \in Selections \cup {"unknown"}, override \in Selections \cup {"unset"}
    PROVE  Chain \in Chains
  BY DEF Chain, Chains, Selection, Selections, Providers

(* A chain without its head is a chain, and does not name the head again. *)
LEMMA ChainTail ==
    ASSUME NEW s \in Chains, s # <<>>
    PROVE  /\ Tail(s) \in Chains
           /\ Head(s) \in Providers
           /\ {s[i] : i \in DOMAIN s} = {Head(s)} \cup {Tail(s)[i] : i \in DOMAIN Tail(s)}
           /\ Head(s) \notin {Tail(s)[i] : i \in DOMAIN Tail(s)}
           /\ Tail(s) # <<>> => Head(s) = "gemini" /\ Head(Tail(s)) = "ollama"
           /\ Tail(s) = <<>> => {Tail(s)[i] : i \in DOMAIN Tail(s)} = {}
  <1>1. CASE s = <<"gemini">>
    BY <1>1 DEF Chains, Providers
  <1>2. CASE s = <<"ollama">>
    BY <1>2 DEF Chains, Providers
  <1>3. CASE s = <<"gemini", "ollama">>
    BY <1>3 DEF Chains, Providers
  <1>. QED  BY <1>1, <1>2, <1>3 DEF Chains

(* The replies the program makes, and their fields. *)
LEMMA ReplyShape ==
    ASSUME NEW k \in Kinds, NEW p \in Callers, NEW t \in [Callers -> Nat], NEW b \in Banners
    PROVE  /\ Reply(k, p, t, b) \in Replies
           /\ Reply(k, p, t, b).kind = k /\ Reply(k, p, t, b).provider = p
           /\ Reply(k, p, t, b).tools = t /\ Reply(k, p, t, b).banner = b
  BY DEF Reply, Replies

(* The replies without content. *)
LEMMA PlainShape ==
    ASSUME NEW k \in Kinds
    PROVE  Plain(k) \in Replies /\ Plain(k).kind = k
  <1>1. NoTools \in [Callers -> Nat] /\ "none" \in Callers /\ "no" \in Banners
    BY DEF NoTools, Callers, Banners
  <1>. QED  BY <1>1, ReplyShape DEF Plain

(* The notice says that providers did not answer exactly when some failed. *)
LEMMA BannerShape ==
    ASSUME configured \in Selections \cup {"unknown"}, override \in Selections \cup {"unset"},
           NEW failed
    PROVE  Banner(failed) \in Banners /\ (Banner(failed) = "unanswered" <=> failed # {})
  BY DEF Banner, Banners, Selection, Selections, Providers

(* What the request that takes a step has to show afterwards. *)
Kept(c) == ChainInOrder(c) /\ Signed(c) /\ Stage(c)

(* A request that has not begun has nothing to show yet. *)
THEOREM InitEstablishesChatInv == Init => ChatInv
  <1>. SUFFICES ASSUME Init PROVE ChatInv
    OBVIOUS
  <1>0. NoTools \in [Callers -> Nat] /\ "pending" \in Kinds
    BY DEF NoTools, Kinds
  <1>1. Shapes
    BY <1>0, PlainShape DEF Init, Shapes, Chains
  <1>2. ASSUME NEW c \in Chats PROVE ChainInOrder(c) /\ Signed(c) /\ Stage(c)
    BY <1>0, PlainShape DEF Init, ChainInOrder, Signed, Stage, Trying, Chains, NoTools
  <1>. QED  BY <1>1, <1>2 DEF ChatInv

(* How a request goes on without the provider that failed, or from the start.*)
LEMMA NextProviderKeeps ==
    ASSUME Shapes, NEW c \in Chats, NEW left \in Chains, NEW failed \in SUBSET Providers,
           NextProvider(c, left, failed), connected' = connected, connected[c],
           UNCHANGED <<configured, override>>, started' \in [Chats -> SUBSET Providers],
           started'[c] = failed \cup {left[i] : i \in DOMAIN left},
           failed \cap {left[i] : i \in DOMAIN left} = {},
           left # <<>> /\ "gemini" \in started'[c] => Head(left) = "gemini" \/ "gemini" \in failed,
           traces' \in [Chats -> [Callers -> Nat]], \A q \in Callers : traces'[c][q] = 0,
           reply[c].kind = "pending"
    PROVE  Shapes' /\ Kept(c)'
  <1>. DEFINE r == Reply("answer", "none", NoTools, Banner(failed))
  <1>1. /\ r \in Replies /\ r.kind = "answer" /\ r.provider = "none"
        /\ r.banner = "unanswered" <=> failed # {}
    <2>1. NoTools \in [Callers -> Nat] /\ "answer" \in Kinds /\ "none" \in Callers
      BY DEF NoTools, Kinds, Callers
    <2>2. Banner(failed) \in Banners /\ (Banner(failed) = "unanswered" <=> failed # {})
      BY BannerShape DEF Shapes
    <2>. QED  BY <2>1, <2>2, ReplyShape
  <1>. HIDE DEF r
  <1>2. Shapes'
    <2>1. reply' = reply \/ reply' = [reply EXCEPT ![c] = r]
      BY DEF r, NextProvider, Goto, Return
    <2>2. reply' \in [Chats -> Replies]
      BY <1>1, <2>1 DEF Shapes
    <2>3. \E at \in {"ask", "fallback", "close"} : pc' = [pc EXCEPT ![c] = at]
      BY DEF NextProvider, Goto, Return
    <2>4. pc' \in [Chats -> {"new", "elevated", "ask", "tool", "fallback", "close", "done"}]
      BY <2>3 DEF Shapes
    <2>5. /\ chain' \in [Chats -> Chains]
          /\ attempts' \in [Chats -> SUBSET Providers]
      BY DEF Shapes, NextProvider
    <2>. QED  BY <2>2, <2>4, <2>5 DEF Shapes
  <1>3. /\ chain'[c] = left /\ attempts'[c] = failed
        /\ \/ left # <<>> /\ pc'[c] = "ask" /\ reply'[c] = reply[c]
           \/ left = <<>> /\ pc'[c] = "fallback" /\ reply'[c] = reply[c]
           \/ left = <<>> /\ pc'[c] = "close" /\ reply'[c] = r
    BY DEF r, Shapes, NextProvider, Goto, Return
  <1>4. left = <<>> => {left[i] : i \in DOMAIN left} = {}
    OBVIOUS
  <1>5. ChainInOrder(c)'
    BY <1>1, <1>3, <1>4 DEF ChainInOrder, Trying, Left
  <1>6. Signed(c)'
    BY <1>1, <1>3, <1>4 DEF Signed
  <1>7. Stage(c)'
    BY <1>1, <1>3 DEF Stage
  <1>. QED  BY <1>2, <1>5, <1>6, <1>7 DEF Kept

(* A step of request c keeps what c has to show. *)
LEMMA StepKeeps ==
    ASSUME ChatInv, NEW c \in Chats,
           ConnectTarget(c) \/ TargetUnreachable(c) \/ ChatStep(c)
    PROVE  Shapes' /\ Kept(c)'
  <1>. Shapes /\ ChainInOrder(c) /\ Signed(c) /\ Stage(c)
    BY DEF ChatInv
  <1>0. NoTools \in [Callers -> Nat] /\ {"answer", "offline", "error"} \subseteq Kinds
    BY DEF NoTools, Kinds
  <1>. USE DEF loop, selection, Goto
  <1>1. CASE ConnectTarget(c)
    <2>1. Shapes'
      BY <1>1 DEF ConnectTarget, Shapes
    <2>. QED  BY <1>1, <2>1 DEF ConnectTarget, Shapes, Kept, ChainInOrder, Signed, Stage, Trying, Left
  <1>2. CASE TargetUnreachable(c)
    <2>1. Shapes'
      BY <1>0, <1>2, PlainShape DEF TargetUnreachable, Shapes
    <2>2. pc'[c] = "done" /\ reply'[c] = Plain("offline") /\ ~connected'[c]
      BY <1>2 DEF TargetUnreachable, Shapes, Stage
    <2>. QED  BY <1>0, <1>2, <2>1, <2>2, PlainShape
              DEF TargetUnreachable, Kept, ChainInOrder, Signed, Stage, Trying, Left
  <1>3. CASE StartChain(c)
    <2>1. Chain \in Chains
      BY ChainShape DEF Shapes
    <2>2. {Chain[i] : i \in DOMAIN Chain} \subseteq Providers
      BY <2>1 DEF Chains, Providers
    <2>3. Chain # <<>> /\ "gemini" \in {Chain[i] : i \in DOMAIN Chain} => Head(Chain) = "gemini"
      BY <2>1 DEF Chains
    <2>4. /\ started' \in [Chats -> SUBSET Providers]
          /\ started'[c] = {Chain[i] : i \in DOMAIN Chain}
          /\ connected[c] /\ reply[c].kind = "pending"
          /\ \A q \in Callers : traces'[c][q] = 0
      BY <1>3, <2>2 DEF StartChain, Shapes, ChainInOrder, Stage, Trying, NextProvider
    <2>5. NextProvider(c, Chain, {})
      BY <1>3 DEF StartChain
    <2>6. UNCHANGED <<configured, override, connected, traces>>
      BY <1>3 DEF StartChain
    <2>. QED  BY <2>1, <2>3, <2>4, <2>5, <2>6, NextProviderKeeps DEF Shapes
  <1>4. CASE ElevatedFails(c)
    <2>1. Shapes'
      BY <1>0, <1>4, PlainShape DEF ElevatedFails, Shapes, Return
    <2>2. pc'[c] = "close" /\ reply'[c] = Plain("error")
      BY <1>4 DEF ElevatedFails, Shapes, Return
    <2>. QED  BY <1>0, <1>4, <2>1, <2>2, PlainShape
              DEF ElevatedFails, Kept, ChainInOrder, Signed, Stage, Trying, Left
  <1>5. CASE CallTools(c)
    <2>1. Shapes' /\ pc'[c] = "tool"
      BY <1>5 DEF CallTools, Shapes
    <2>. QED  BY <1>5, <2>1 DEF CallTools, Kept, ChainInOrder, Signed, Stage, Trying, Left
  <1>6. CASE RunTool(c)
    <2>1. Head(chain[c]) \in Callers
      BY <1>6, ChainTail DEF RunTool, ChainInOrder, Trying, Callers
    <2>2. Shapes'
      BY <1>6, <2>1 DEF RunTool, Shapes
    <2>3. /\ pc'[c] \in {"tool", "ask"}
          /\ \A q \in Callers : traces'[c][q] > 0 => q = Head(chain[c])
      BY <1>6, <2>1 DEF RunTool, Shapes, ChainInOrder, Trying
    <2>. QED  BY <1>6, <2>2, <2>3 DEF RunTool, Kept, ChainInOrder, Signed, Stage, Trying, Left
  <1>7. CASE AnswerText(c)
    <2>. DEFINE r == Reply("answer", Head(chain[c]), traces[c], "no")
    <2>1. Head(chain[c]) \in Providers /\ Head(chain[c]) \in Left(c)
      BY <1>7, ChainTail DEF AnswerText, ChainInOrder, Trying, Left
    <2>2. Head(chain[c]) \in Callers /\ Head(chain[c]) # "none" /\ "no" \in Banners
          /\ traces[c] \in [Callers -> Nat]
      BY <2>1 DEF Callers, Banners, Providers, Shapes
    <2>3. r \in Replies /\ r.kind = "answer" /\ r.provider = Head(chain[c]) /\ r.tools = traces[c]
      BY <1>0, <2>2, ReplyShape
    <2>. HIDE DEF r
    <2>4. Shapes'
      BY <1>7, <2>3 DEF r, AnswerText, Shapes, Return
    <2>5. pc'[c] = "close" /\ reply'[c] = r
      BY <1>7 DEF r, AnswerText, Shapes, Return
    <2>6. Signed(c)'
      BY <1>7, <2>1, <2>2, <2>3, <2>5 DEF AnswerText, ChainInOrder, Signed, Trying
    <2>. QED  BY <1>7, <2>3, <2>4, <2>5, <2>6
              DEF AnswerText, Kept, ChainInOrder, Stage, Trying, Left
  <1>8. CASE ProviderFails(c)
    <2>. DEFINE p == Head(chain[c])  left == Tail(chain[c])
    <2>1. /\ chain[c] \in Chains /\ chain[c] # <<>>
          /\ started[c] = attempts[c] \cup Left(c) /\ attempts[c] \cap Left(c) = {}
      BY <1>8 DEF ProviderFails, ChainInOrder, Trying
    <2>2. /\ left \in Chains /\ p \in Providers
          /\ Left(c) = {p} \cup {left[i] : i \in DOMAIN left}
          /\ p \notin {left[i] : i \in DOMAIN left}
          /\ left # <<>> => p = "gemini"
      BY <2>1, ChainTail DEF Left
    <2>3. NextProvider(c, left, attempts[c] \cup {p})
      BY <1>8 DEF ProviderFails
    <2>4. /\ UNCHANGED <<configured, override, connected, started>>
          /\ traces' \in [Chats -> [Callers -> Nat]] /\ \A q \in Callers : traces'[c][q] = 0
      BY <1>8, <1>0 DEF ProviderFails, Shapes, NoTools
    <2>5. connected[c] /\ reply[c].kind = "pending" /\ attempts[c] \cup {p} \in SUBSET Providers
      BY <1>8, <2>2 DEF ProviderFails, Stage, Shapes
    <2>. HIDE DEF p, left
    <2>6. started'[c] = (attempts[c] \cup {p}) \cup {left[i] : i \in DOMAIN left}
      BY <2>1, <2>2, <2>4
    <2>7. (attempts[c] \cup {p}) \cap {left[i] : i \in DOMAIN left} = {}
      BY <2>1, <2>2
    <2>8. started' \in [Chats -> SUBSET Providers]
      BY <2>4 DEF Shapes
    <2>. QED  BY <2>2, <2>3, <2>4, <2>5, <2>6, <2>7, <2>8, NextProviderKeeps
  <1>9. CASE Fallback(c)
    <2>. DEFINE t == [NoTools EXCEPT !["none"] = 1]
                r == Reply("answer", "none", t, Banner(attempts[c]))
    <2>1. t \in [Callers -> Nat] /\ "none" \in Callers
      BY <1>0 DEF Callers
    <2>2. /\ Banner(attempts[c]) \in Banners
          /\ Banner(attempts[c]) = "unanswered" <=> attempts[c] # {}
      BY BannerShape DEF Shapes
    <2>. HIDE DEF t
    <2>3. /\ r \in Replies /\ r.kind = "answer" /\ r.provider = "none"
          /\ r.banner = "unanswered" <=> attempts[c] # {}
      BY <1>0, <2>1, <2>2, ReplyShape
    <2>. HIDE DEF r
    <2>4. Shapes'
      BY <1>9, <2>3 DEF t, r, Fallback, Shapes, Return
    <2>5. pc'[c] = "close" /\ reply'[c] = r
      BY <1>9 DEF t, r, Fallback, Shapes, Return
    <2>. QED  BY <1>9, <2>3, <2>4, <2>5
              DEF Fallback, Kept, ChainInOrder, Signed, Stage, Trying, Left
  <1>10. CASE FallbackFails(c)
    <2>1. Shapes'
      BY <1>0, <1>10, PlainShape DEF FallbackFails, Shapes, Return
    <2>2. pc'[c] = "close" /\ reply'[c] = Plain("error")
      BY <1>10 DEF FallbackFails, Shapes, Return
    <2>. QED  BY <1>0, <1>10, <2>1, <2>2, PlainShape
              DEF FallbackFails, Kept, ChainInOrder, Signed, Stage, Trying, Left
  <1>11. CASE Close(c)
    <2>1. Shapes' /\ pc'[c] = "done"
      BY <1>11 DEF Close, Shapes
    <2>. QED  BY <1>11, <2>1 DEF Close, Kept, ChainInOrder, Signed, Stage, Trying, Left
  <1>12. CASE CloseFails(c)
    <2>1. Shapes'
      BY <1>0, <1>12, PlainShape DEF CloseFails, Shapes
    <2>2. pc'[c] = "done" /\ reply'[c] = Plain("error") /\ connected[c]
      BY <1>12 DEF CloseFails, Shapes, Stage
    <2>. QED  BY <1>0, <1>12, <2>1, <2>2, PlainShape
              DEF CloseFails, Kept, ChainInOrder, Signed, Stage, Trying, Left
  <1>. QED  BY <1>1, <1>2, <1>3, <1>4, <1>5, <1>6, <1>7, <1>8, <1>9, <1>10, <1>11, <1>12 DEF ChatStep

(* A step of one request leaves every other one as it is. *)
LEMMA OthersKeep ==
    ASSUME ChatInv, NEW c \in Chats, NEW d \in Chats \ {c},
           ConnectTarget(c) \/ TargetUnreachable(c) \/ ChatStep(c)
    PROVE  Kept(d)'
  <1>1. /\ pc'[d] = pc[d] /\ chain'[d] = chain[d] /\ attempts'[d] = attempts[d]
        /\ traces'[d] = traces[d] /\ connected'[d] = connected[d]
        /\ started'[d] = started[d] /\ reply'[d] = reply[d]
    BY DEF ChatInv, Shapes, loop, selection, Goto, Return, NextProvider, ChatStep,
           ConnectTarget, TargetUnreachable, StartChain, ElevatedFails, CallTools, RunTool, AnswerText,
           ProviderFails, Fallback, FallbackFails, Close, CloseFails
  <1>2. Kept(d)
    BY DEF ChatInv, Kept
  <1>. QED  BY <1>1, <1>2 DEF Kept, ChainInOrder, Signed, Stage, Trying, Left

-----------------------------------------------------------------------------
(* ChatInv holds in every reachable state. *)
THEOREM ChatInvariant == Spec => []ChatInv
  <1>1. ChatInv /\ [Next]_vars => ChatInv'
    <2>. SUFFICES ASSUME ChatInv, [Next]_vars PROVE ChatInv'
      OBVIOUS
    <2>1. ASSUME NEW c \in Chats, ConnectTarget(c) \/ TargetUnreachable(c) \/ ChatStep(c)
          PROVE  ChatInv'
      BY <2>1, StepKeeps, OthersKeep DEF ChatInv, Kept
    <2>2. ASSUME NEW o \in Selections, SetProvider(o) PROVE ChatInv'
      BY <2>2 DEF SetProvider, loop, ChatInv, Shapes, ChainInOrder, Signed, Stage, Trying, Left
    <2>3. CASE UNCHANGED vars
      BY <2>3 DEF vars, loop, selection, ChatInv, Shapes, ChainInOrder, Signed, Stage, Trying, Left
    <2>. QED  BY <2>1, <2>2, <2>3 DEF Next
  <1>. QED  BY InitEstablishesChatInv, <1>1, PTL DEF Spec

(* A signed reply lists only the tool calls of its signer, which comes first *)
(* among the providers that did not fail.                                    *)
THEOREM AnswerersAreHonest == Spec => []AnswererIsHonest
  <1>1. ChatInv => AnswererIsHonest
    BY DEF ChatInv, Signed, AnswererIsHonest, Providers
  <1>. QED  BY ChatInvariant, <1>1, PTL

(* Keyword routing answers only after every provider of the chain, and says  *)
(* so exactly when there was one.                                            *)
THEOREM FallbackComesLast == Spec => []FallbackIsLast
  <1>1. ChatInv => FallbackIsLast
    BY DEF ChatInv, Signed, FallbackIsLast
  <1>. QED  BY ChatInvariant, <1>1, PTL

(* A request is answered offline exactly when its target was unreachable. *)
THEOREM OfflineIsTrue == Spec => []OfflineMeansUnreachable
  <1>1. ChatInv => OfflineMeansUnreachable
    BY DEF ChatInv, Stage, OfflineMeansUnreachable
  <1>. QED  BY ChatInvariant, <1>1, PTL

-----------------------------------------------------------------------------
(* The budget of the tool loop.  While a provider is tried, the calls on     *)
(* record and those of its last message fit into the turns it has used.      *)
Counters ==
    /\ switches \in 0..MaxSwitches
    /\ keyword \in [Chats -> BOOLEAN]
    /\ turns \in [Chats -> 0..MaxToolTurns]
    /\ pending \in [Chats -> 0..MaxCalls]

Spent(c) ==
    /\ pc[c] = "ask" =>
          \A p \in Providers : traces[c][p] <= turns[c] * CallsTaken(p)
    /\ pc[c] = "tool" =>
          /\ turns[c] < MaxToolTurns
          /\ pending[c] \in 1..CallsTaken(Head(chain[c]))
          /\ \A p \in Providers :
                traces[c][p] + (IF p = Head(chain[c]) THEN pending[c] ELSE 0)
                    <= (turns[c] + 1) * CallsTaken(p)

Listed(c) == \A p \in Providers : reply[c].tools[p] <= MaxToolTurns * CallsTaken(p)

BudgetInv == Counters /\ \A c \in Chats : Spent(c) /\ Listed(c)

(* Gemini's loop takes one call of a message, Ollama's up to MaxCalls. *)
LEMMA CallsTakenShape ==
    ASSUME NEW p \in Providers
    PROVE  CallsTaken(p) \in Nat /\ CallsTaken(p) >= 1 /\ CallsTaken(p) <= MaxCalls
  BY TurnsAssumption DEF CallsTaken

(* Turns cost calls. *)
LEMMA TurnsCost ==
    ASSUME NEW k \in Nat, NEW t \in Nat, NEW u \in Nat, t <= u
    PROVE  /\ t * k \in Nat /\ t * k <= u * k
           /\ (t + 1) * k = t * k + k
  <1>1. PICK d \in Nat : u = t + d
    <2>1. u - t \in Nat /\ u = t + (u - t)
      OBVIOUS
    <2>. QED  BY <2>1
  <1>2. (t + d) * k = t * k + d * k /\ d * k >= 0 /\ t * k \in Nat /\ d * k \in Nat
    OBVIOUS
  <1>. QED  BY <1>1, <1>2

(* A request that has not begun has spent nothing. *)
LEMMA InitBudget == Init => BudgetInv
  <1>. SUFFICES ASSUME Init PROVE BudgetInv
    OBVIOUS
  <1>1. Counters
    BY TurnsAssumption, SwitchesAssumption DEF Init, Counters
  <1>2. ASSUME NEW c \in Chats PROVE Spent(c)
    BY <1>2 DEF Init, Spent
  <1>3. ASSUME NEW c \in Chats, NEW p \in Providers
        PROVE  reply[c].tools[p] <= MaxToolTurns * CallsTaken(p)
    <2>1. reply[c].tools[p] = 0
      BY DEF Init, Plain, Reply, NoTools, Callers
    <2>2. MaxToolTurns * CallsTaken(p) \in Nat
      BY CallsTakenShape, TurnsAssumption, TurnsCost
    <2>. QED  BY <2>1, <2>2
  <1>. QED  BY <1>1, <1>2, <1>3 DEF BudgetInv, Listed

(* A step of request c keeps the counters, and c within its budget. *)
LEMMA BudgetStep ==
    ASSUME ChatInv, BudgetInv, NEW c \in Chats,
           ConnectTarget(c) \/ TargetUnreachable(c) \/ ChatStep(c)
    PROVE  Counters' /\ Spent(c)' /\ Listed(c)'
  <1>. Shapes /\ ChainInOrder(c) /\ Stage(c) /\ Counters /\ Spent(c) /\ Listed(c)
    BY DEF ChatInv, BudgetInv
  <1>0. \A p \in Providers : /\ MaxToolTurns * CallsTaken(p) \in Nat
                             /\ p \in Callers
    BY CallsTakenShape, TurnsAssumption, TurnsCost DEF Callers
  <1>. USE DEF loop, selection, Goto
  <1>1. ASSUME NEW r, reply' = [reply EXCEPT ![c] = r],
               \A p \in Providers : r.tools[p] <= MaxToolTurns * CallsTaken(p)
        PROVE  Listed(c)'
    BY <1>1 DEF Listed, Shapes
  <1>2. ASSUME NEW k PROVE \A p \in Providers : Plain(k).tools[p] <= MaxToolTurns * CallsTaken(p)
    BY <1>0 DEF Plain, Reply, NoTools
  <1>3. ASSUME NEW left \in Chains, NEW failed, NextProvider(c, left, failed),
               UNCHANGED <<switches, keyword>>, \A q \in Callers : traces'[c][q] = 0
        PROVE  Counters' /\ Spent(c)' /\ Listed(c)'
    <2>1. /\ turns' = [turns EXCEPT ![c] = 0] /\ pending' = [pending EXCEPT ![c] = 0]
          /\ pc'[c] \in {"ask", "fallback", "close"}
      BY <1>3 DEF NextProvider, Return, Shapes
    <2>2. Counters'
      BY <1>3, <2>1, TurnsAssumption DEF Counters
    <2>3. Spent(c)'
      <3>1. turns'[c] = 0
        BY <2>1 DEF Counters
      <3>2. \A p \in Providers : traces'[c][p] <= 0 * CallsTaken(p)
        BY <1>0, <1>3, CallsTakenShape
      <3>. QED  BY <2>1, <3>1, <3>2 DEF Spent
    <2>4. Listed(c)'
      <3>1. reply' = reply \/ reply' = [reply EXCEPT ![c] = Reply("answer", "none", NoTools, Banner(failed))]
        BY <1>3 DEF NextProvider, Return
      <3>2. \A p \in Providers : Reply("answer", "none", NoTools, Banner(failed)).tools[p]
                                    <= MaxToolTurns * CallsTaken(p)
        BY <1>0 DEF Reply, NoTools
      <3>. QED  BY <1>1, <3>1, <3>2 DEF Listed
    <2>. QED  BY <2>2, <2>3, <2>4
  <1>4. CASE ConnectTarget(c)
    BY <1>4 DEF ConnectTarget, Counters, Spent, Listed, Shapes
  <1>5. CASE TargetUnreachable(c)
    <2>1. Listed(c)'
      BY <1>1, <1>2, <1>5 DEF TargetUnreachable
    <2>. QED  BY <1>5, <2>1 DEF TargetUnreachable, Counters, Spent, Shapes
  <1>6. CASE StartChain(c)
    <2>1. Chain \in Chains
      BY ChainShape DEF Shapes
    <2>2. \A q \in Callers : traces'[c][q] = 0
      BY <1>6 DEF StartChain, ChainInOrder, Stage, Trying
    <2>. QED  BY <1>3, <1>6, <2>1, <2>2 DEF StartChain
  <1>7. CASE ElevatedFails(c)
    <2>1. Listed(c)'
      BY <1>1, <1>2, <1>7 DEF ElevatedFails, Return
    <2>. QED  BY <1>7, <2>1 DEF ElevatedFails, Return, Counters, Spent, Shapes
  <1>8. CASE CallTools(c)
    <2>1. Head(chain[c]) \in Providers
      BY <1>8, ChainTail DEF CallTools, ChainInOrder, Trying
    <2>2. PICK n \in 1..CallsTaken(Head(chain[c])) : pending' = [pending EXCEPT ![c] = n]
      BY <1>8 DEF CallTools
    <2>3. n \in 0..MaxCalls
      BY <2>1, <2>2, CallsTakenShape, TurnsAssumption
    <2>4. /\ pc[c] = "ask" /\ pc'[c] = "tool" /\ turns[c] < MaxToolTurns
          /\ UNCHANGED <<switches, keyword, turns, traces, chain, reply>>
      BY <1>8 DEF CallTools, Shapes
    <2>5. Counters'
      BY <2>2, <2>3, <2>4 DEF Counters
    <2>6. pending'[c] = n
      BY <2>2 DEF Counters
    <2>7. ASSUME NEW p \in Providers
          PROVE  traces[c][p] + (IF p = Head(chain[c]) THEN n ELSE 0) <= (turns[c] + 1) * CallsTaken(p)
      <3>1. CallsTaken(p) \in Nat /\ turns[c] \in Nat /\ traces[c][p] \in Nat
        BY <1>0, CallsTakenShape, TurnsAssumption DEF Counters, Shapes
      <3>2. turns[c] * CallsTaken(p) \in Nat
            /\ (turns[c] + 1) * CallsTaken(p) = turns[c] * CallsTaken(p) + CallsTaken(p)
        BY <3>1, TurnsCost
      <3>3. traces[c][p] <= turns[c] * CallsTaken(p)
        BY <2>4 DEF Spent
      <3>. QED  BY <2>2, <3>1, <3>2, <3>3
    <2>8. Spent(c)'
      BY <2>2, <2>4, <2>6, <2>7 DEF Spent, CallsTaken
    <2>9. Listed(c)'
      BY <2>4 DEF Listed, CallsTaken
    <2>. QED  BY <2>5, <2>8, <2>9
  <1>9. CASE RunTool(c)
    <2>. DEFINE h == Head(chain[c])
    <2>1. h \in Providers /\ h \in Callers
      BY <1>0, <1>9, ChainTail DEF RunTool, ChainInOrder, Trying
    <2>2. /\ turns[c] < MaxToolTurns /\ pending[c] \in 1..CallsTaken(h) /\ pending[c] <= MaxCalls
          /\ turns[c] \in Nat /\ pending[c] \in Nat
      BY <1>9, TurnsAssumption DEF RunTool, Spent, Counters
    <2>3. UNCHANGED <<switches, keyword, chain, reply>>
      BY <1>9 DEF RunTool
    <2>4. /\ pending' = [pending EXCEPT ![c] = pending[c] - 1]
          /\ pending'[c] = pending[c] - 1
      BY <1>9 DEF RunTool, Counters
    <2>5. \/ pending[c] > 1 /\ pc'[c] = "tool" /\ turns' = turns
          \/ pending[c] = 1 /\ pc'[c] = "ask" /\ turns' = [turns EXCEPT ![c] = turns[c] + 1]
      BY <1>9 DEF RunTool, Shapes
    <2>6. Counters'
      <3>1. pending' \in [Chats -> 0..MaxCalls]
        BY <2>2, <2>4, TurnsAssumption DEF Counters
      <3>2. turns' \in [Chats -> 0..MaxToolTurns]
        BY <2>2, <2>5, TurnsAssumption DEF Counters
      <3>. QED  BY <2>3, <3>1, <3>2 DEF Counters
    <2>7. ASSUME NEW p \in Providers
          PROVE  /\ traces[c][p] \in Nat
                 /\ traces'[c][p] = traces[c][p] + (IF p = h THEN 1 ELSE 0)
                 /\ traces[c][p] + (IF p = h THEN pending[c] ELSE 0) <= (turns[c] + 1) * CallsTaken(p)
      BY <1>0, <1>9, <2>1 DEF RunTool, Shapes, Spent
    <2>8. turns' # turns => turns'[c] = turns[c] + 1
      BY <2>5 DEF Counters
    <2>. HIDE DEF h
    <2>9. Spent(c)'
      <3>1. CASE pending[c] > 1
        <4>1. pc'[c] = "tool" /\ turns'[c] = turns[c] /\ pending'[c] \in 1..CallsTaken(h)
          <5>1. pending[c] - 1 \in 1..CallsTaken(h)
            BY <2>1, <2>2, <3>1, CallsTakenShape
          <5>. QED  BY <2>2, <2>4, <2>5, <3>1, <5>1
        <4>2. \A p \in Providers : traces'[c][p] + (IF p = h THEN pending'[c] ELSE 0)
                                      <= (turns'[c] + 1) * CallsTaken(p)
          BY <2>2, <2>4, <2>7, <4>1
        <4>. QED  BY <2>2, <2>3, <4>1, <4>2 DEF Spent, CallsTaken, h
      <3>2. CASE pending[c] = 1
        <4>1. pc'[c] = "ask" /\ turns'[c] = turns[c] + 1
          BY <2>2, <2>5, <3>2 DEF Counters
        <4>2. \A p \in Providers : traces'[c][p] <= turns'[c] * CallsTaken(p)
          BY <2>2, <2>7, <3>2, <4>1
        <4>. QED  BY <4>1, <4>2 DEF Spent, CallsTaken
      <3>. QED  BY <2>5, <3>1, <3>2
    <2>10. Listed(c)'
      BY <2>3 DEF Listed, CallsTaken
    <2>. QED  BY <2>6, <2>9, <2>10
  <1>10. CASE AnswerText(c)
    <2>1. ASSUME NEW p \in Providers PROVE traces[c][p] <= MaxToolTurns * CallsTaken(p)
      <3>1. CallsTaken(p) \in Nat /\ turns[c] \in Nat /\ turns[c] <= MaxToolTurns /\ traces[c][p] \in Nat
        BY <1>0, CallsTakenShape, TurnsAssumption DEF Counters, Shapes
      <3>2. turns[c] * CallsTaken(p) \in Nat
            /\ turns[c] * CallsTaken(p) <= MaxToolTurns * CallsTaken(p)
        BY <3>1, TurnsCost, TurnsAssumption
      <3>3. traces[c][p] <= turns[c] * CallsTaken(p)
        BY <1>10 DEF AnswerText, Spent
      <3>. QED  BY <1>0, <3>1, <3>2, <3>3
    <2>2. Reply("answer", Head(chain[c]), traces[c], "no").tools = traces[c]
      BY DEF Reply
    <2>3. Listed(c)'
      BY <1>1, <1>10, <2>1, <2>2 DEF AnswerText, Return
    <2>. QED  BY <1>10, <2>3 DEF AnswerText, Return, Counters, Spent, Shapes
  <1>11. CASE ProviderFails(c)
    <2>1. Tail(chain[c]) \in Chains
      BY <1>11, ChainTail DEF ProviderFails, ChainInOrder, Trying
    <2>2. \A q \in Callers : traces'[c][q] = 0
      BY <1>11 DEF ProviderFails, Shapes, NoTools
    <2>. QED  BY <1>3, <1>11, <2>1, <2>2 DEF ProviderFails
  <1>12. CASE Fallback(c)
    <2>. DEFINE r == Reply("answer", "none", [NoTools EXCEPT !["none"] = 1], Banner(attempts[c]))
    <2>1. \A p \in Providers : r.tools[p] <= MaxToolTurns * CallsTaken(p)
      BY <1>0 DEF Reply, NoTools, Providers
    <2>2. reply' = [reply EXCEPT ![c] = r]
      BY <1>12 DEF Fallback, Return
    <2>. HIDE DEF r
    <2>3. Listed(c)'
      BY <1>1, <2>1, <2>2
    <2>. QED  BY <1>12, <2>3 DEF Fallback, Return, Counters, Spent, Shapes
  <1>13. CASE FallbackFails(c)
    <2>1. Listed(c)'
      BY <1>1, <1>2, <1>13 DEF FallbackFails, Return
    <2>. QED  BY <1>13, <2>1 DEF FallbackFails, Return, Counters, Spent, Shapes
  <1>14. CASE Close(c)
    BY <1>14 DEF Close, Counters, Spent, Listed, CallsTaken, Shapes
  <1>15. CASE CloseFails(c)
    <2>1. Listed(c)'
      BY <1>1, <1>2, <1>15 DEF CloseFails
    <2>. QED  BY <1>15, <2>1 DEF CloseFails, Counters, Spent, Shapes
  <1>. QED  BY <1>4, <1>5, <1>6, <1>7, <1>8, <1>9, <1>10, <1>11, <1>12, <1>13, <1>14, <1>15 DEF ChatStep

(* And leaves every other request in its. *)
LEMMA OthersKeepBudget ==
    ASSUME ChatInv, BudgetInv, NEW c \in Chats, NEW d \in Chats \ {c},
           ConnectTarget(c) \/ TargetUnreachable(c) \/ ChatStep(c)
    PROVE  Spent(d)' /\ Listed(d)'
  <1>1. /\ pc'[d] = pc[d] /\ chain'[d] = chain[d] /\ turns'[d] = turns[d]
        /\ pending'[d] = pending[d] /\ traces'[d] = traces[d] /\ reply'[d] = reply[d]
    BY DEF ChatInv, Shapes, BudgetInv, Counters, loop, selection, Goto, Return, NextProvider, ChatStep,
           ConnectTarget, TargetUnreachable, StartChain, ElevatedFails, CallTools, RunTool, AnswerText,
           ProviderFails, Fallback, FallbackFails, Close, CloseFails
  <1>. QED  BY <1>1 DEF BudgetInv, Spent, Listed, CallsTaken

(* The budget holds in every reachable state; it rests on ChatInv. *)
THEOREM BudgetInvariant == Spec => [](ChatInv /\ BudgetInv)
  <1>1. ChatInv /\ BudgetInv /\ [Next]_vars => BudgetInv'
    <2>. SUFFICES ASSUME ChatInv, BudgetInv, [Next]_vars PROVE BudgetInv'
      OBVIOUS
    <2>1. ASSUME NEW c \in Chats, ConnectTarget(c) \/ TargetUnreachable(c) \/ ChatStep(c)
          PROVE  BudgetInv'
      BY <2>1, BudgetStep, OthersKeepBudget DEF BudgetInv
    <2>2. ASSUME NEW o \in Selections, SetProvider(o) PROVE BudgetInv'
      BY <2>2, SwitchesAssumption
         DEF SetProvider, loop, BudgetInv, Counters, Spent, Listed, CallsTaken
    <2>3. CASE UNCHANGED vars
      BY <2>3 DEF vars, loop, selection, BudgetInv, Counters, Spent, Listed, CallsTaken
    <2>. QED  BY <2>1, <2>2, <2>3 DEF Next
  <1>. QED  BY InitBudget, ChatInvariant, <1>1, PTL DEF Spec

(* A reply lists no more tool calls than the turns of the loop can have made *)
(* (_run_gemini_agent, _run_ollama_agent), whatever the model asked for.     *)
THEOREM BudgetIsKept == Spec => []BudgetKept
  <1>1. BudgetInv => BudgetKept
    BY DEF BudgetInv, Listed, BudgetKept
  <1>. QED  BY BudgetInvariant, <1>1, PTL

(* Every variable has its type: an override is unset or one of the names     *)
(* set_runtime_provider takes, whatever is configured, and no loop runs past *)
(* its turns.                                                                *)
THEOREM ChatTypeCorrect == Spec => []TypeOK
  <1>1. Chains \subseteq Seq(Providers)
    BY DEF Chains, Providers
  <1>2. ChatInv /\ BudgetInv => TypeOK
    <2>. SUFFICES ASSUME ChatInv, BudgetInv PROVE TypeOK
      OBVIOUS
    <2>1. chain \in [Chats -> Seq(Providers)]
      BY <1>1 DEF ChatInv, Shapes
    <2>. QED  BY <2>1 DEF ChatInv, Shapes, BudgetInv, Counters, TypeOK
  <1>. QED  BY BudgetInvariant, <1>2, PTL
-----------------------------------------------------------------------------
(* AssistantChat implements ProviderChain. *)

(* What walk a request shows: that of the providers it started with and of   *)
(* those that failed, unless it has not begun one or dropped it.             *)
WalksShow ==
    \A c \in Chats :
        LET r == reply[c]
            going == Session!Going(started[c], attempts[c])
        IN  /\ pc[c] \in {"new", "elevated"} => Walk(c) = Session!NotBegun
            /\ Trying(c) \/ pc[c] = "fallback" => Walk(c) = going
            /\ r.kind = "answer" /\ r.provider = "none" => Walk(c) = going
            /\ r.kind = "answer" /\ r.provider # "none" =>
                  Walk(c) = Session!Is("answered", started[c], attempts[c], r.provider)
            /\ r.kind \in {"offline", "error"} => Walk(c) = Session!Dropped

(* It follows from what a request has to show in every state. *)
LEMMA WalksAreShown == ChatInv => WalksShow
  <1>. SUFFICES ASSUME ChatInv, NEW c \in Chats
       PROVE  LET r == reply[c]
                  going == Session!Going(started[c], attempts[c])
              IN  /\ pc[c] \in {"new", "elevated"} => Walk(c) = Session!NotBegun
                  /\ Trying(c) \/ pc[c] = "fallback" => Walk(c) = going
                  /\ r.kind = "answer" /\ r.provider = "none" => Walk(c) = going
                  /\ r.kind = "answer" /\ r.provider # "none" =>
                        Walk(c) = Session!Is("answered", started[c], attempts[c], r.provider)
                  /\ r.kind \in {"offline", "error"} => Walk(c) = Session!Dropped
    BY DEF WalksShow
  <1>. ChainInOrder(c) /\ Signed(c) /\ Stage(c)
    BY DEF ChatInv
  <1>. USE DEF Walk, Session!Going, Session!Is
  <1>1. pc[c] \in {"new", "elevated"} => Walk(c) = Session!NotBegun
    BY DEF Stage, Session!NotBegun
  <1>2. Trying(c) => Walk(c) = Session!Going(started[c], attempts[c])
    <2>. SUFFICES ASSUME Trying(c) PROVE Walk(c) = Session!Going(started[c], attempts[c])
      OBVIOUS
    <2>1. /\ chain[c] \in Chains /\ chain[c] # <<>> /\ started[c] = attempts[c] \cup Left(c)
          /\ attempts[c] \cap Left(c) = {}
      BY DEF ChainInOrder
    <2>2. Head(chain[c]) \in Left(c)
      BY <2>1, ChainTail DEF Left
    <2>3. attempts[c] # started[c]
      BY <2>1, <2>2
    <2>. QED  BY <2>3 DEF Stage, Trying
  <1>3. pc[c] = "fallback" => Walk(c) = Session!Going(started[c], attempts[c])
    BY DEF ChainInOrder, Stage
  <1>4. reply[c].kind = "answer" =>
           Walk(c) = IF reply[c].provider = "none" THEN Session!Going(started[c], attempts[c])
                     ELSE Session!Is("answered", started[c], attempts[c], reply[c].provider)
    BY DEF Signed
  <1>5. reply[c].kind \in {"offline", "error"} => Walk(c) = Session!Dropped
    BY DEF Session!Dropped, Session!NotBegun
  <1>. QED  BY <1>1, <1>2, <1>3, <1>4, <1>5

(* The walk of one request, when those of the others stay as they are. *)
LEMMA WalkBecomes ==
    ASSUME NEW c \in Chats, NEW r, Walk(c)' = r,
           \A d \in Chats \ {c} : Walk(d)' = Walk(d)
    PROVE  Session!Becomes(c, r)
  BY DEF Session!Becomes

(* Whoever comes first in the chain is the one to be asked. *)
LEMMA HeadIsAsked ==
    ASSUME ChatInv, NEW c \in Chats, Trying(c)
    PROVE  Head(chain[c]) \in Providers /\ Session!Asked(c, Head(chain[c]))
  <1>1. /\ chain[c] \in Chains /\ chain[c] # <<>> /\ started[c] = attempts[c] \cup Left(c)
        /\ attempts[c] \cap Left(c) = {}
    BY DEF ChatInv, ChainInOrder
  <1>2. Walk(c) = Session!Going(started[c], attempts[c])
    BY WalksAreShown DEF WalksShow
  <1>3. /\ Head(chain[c]) \in Providers /\ Head(chain[c]) \in Left(c)
        /\ \A q \in Left(c) : Preference[Head(chain[c])] <= Preference[q]
    <2>1. CASE chain[c] = <<"gemini">>
      BY <2>1 DEF Left, Providers, Preference
    <2>2. CASE chain[c] = <<"ollama">>
      BY <2>2 DEF Left, Providers, Preference
    <2>3. CASE chain[c] = <<"gemini", "ollama">>
      BY <2>3 DEF Left, Providers, Preference
    <2>. QED  BY <1>1, <2>1, <2>2, <2>3 DEF Chains
  <1>4. started[c] \ attempts[c] = Left(c) /\ attempts[c] # started[c]
    BY <1>1, <1>3
  <1>. QED  BY <1>2, <1>3, <1>4 DEF Session!Asked, Session!Going, Session!Is

(* A step of one request is a step of its walk, or none. *)
LEMMA RequestWalks ==
    ASSUME ChatInv, ChatInv', NEW c \in Chats,
           ConnectTarget(c) \/ TargetUnreachable(c) \/ ChatStep(c)
    PROVE  Session!Next \/ UNCHANGED [d \in Chats |-> Walk(d)]
  <1>. DEFINE was == Session!Going(started[c], attempts[c])
              is == Session!Going(started'[c], attempts'[c])
  <1>. USE DEF loop, selection, Goto
  <1>0. WalksShow /\ WalksShow'
    BY WalksAreShown, PTL
  <1>. Shapes /\ ChainInOrder(c) /\ Signed(c) /\ Stage(c)
    BY DEF ChatInv
  <1>1. ASSUME NEW d \in Chats \ {c} PROVE Walk(d)' = Walk(d)
    <2>1. /\ pc'[d] = pc[d] /\ attempts'[d] = attempts[d]
          /\ started'[d] = started[d] /\ reply'[d] = reply[d]
      BY DEF Shapes, Return, NextProvider, ChatStep,
             ConnectTarget, TargetUnreachable, StartChain, ElevatedFails, CallTools, RunTool, AnswerText,
             ProviderFails, Fallback, FallbackFails, Close, CloseFails
    <2>. QED  BY <2>1 DEF Walk
  <1>2. ASSUME Walk(c)' = Walk(c) PROVE UNCHANGED [d \in Chats |-> Walk(d)]
    BY <1>1, <1>2
  <1>3. ASSUME Walk(c).stage # "asking", Walk(c)' = Session!Dropped PROVE Session!Drop(c)
    <2>1. Session!Becomes(c, Session!Dropped)
      BY <1>1, <1>3, WalkBecomes
    <2>. QED  BY <1>3, <2>1 DEF Session!Drop
  <1>4. CASE ConnectTarget(c)
    <2>1. pc[c] = "new" /\ pc'[c] = "elevated"
      BY <1>4 DEF ConnectTarget, Shapes
    <2>. QED  BY <1>0, <1>2, <2>1 DEF WalksShow
  <1>5. CASE TargetUnreachable(c) \/ ElevatedFails(c)
    <2>1. pc[c] \in {"new", "elevated"} /\ reply'[c].kind \in {"offline", "error"}
      BY <1>5, PlainShape DEF TargetUnreachable, ElevatedFails, Return, Shapes, Kinds
    <2>2. Walk(c) = Session!NotBegun /\ Walk(c)' = Session!Dropped
      BY <1>0, <2>1 DEF WalksShow
    <2>. QED  BY <1>3, <2>2 DEF Session!NotBegun, Session!Is, Session!Next
  <1>6. CASE StartChain(c)
    <2>1. pc[c] = "elevated" /\ attempts'[c] = {} /\ started'[c] \in SUBSET Providers
      BY <1>6 DEF StartChain, NextProvider, Shapes, ChatInv
    <2>2. \/ pc'[c] \in {"ask", "fallback"}
          \/ reply'[c].kind = "answer" /\ reply'[c].provider = "none"
      BY <1>6 DEF StartChain, NextProvider, Return, Reply, Shapes
    <2>3. Walk(c) = Session!NotBegun /\ Walk(c)' = Session!Going(started'[c], {})
      BY <1>0, <2>1, <2>2 DEF WalksShow, Trying
    <2>4. Session!Becomes(c, Session!Going(started'[c], {}))
      BY <1>1, <2>3, WalkBecomes
    <2>. QED  BY <2>1, <2>3, <2>4 DEF Session!Begin, Session!Next, Session!NotBegun, Session!Is
  <1>7. CASE CallTools(c) \/ RunTool(c)
    <2>1. Trying(c) /\ Trying(c)' /\ UNCHANGED <<started, attempts>>
      BY <1>7 DEF CallTools, RunTool, Trying, Shapes
    <2>. QED  BY <1>0, <1>2, <2>1 DEF WalksShow
  <1>8. CASE AnswerText(c)
    <2>. DEFINE p == Head(chain[c])
    <2>1. Trying(c) /\ UNCHANGED <<started, attempts>>
      BY <1>8 DEF AnswerText, Trying
    <2>2. p \in Providers /\ Session!Asked(c, p)
      BY <2>1, HeadIsAsked
    <2>3. reply'[c].kind = "answer" /\ reply'[c].provider = p
      BY <1>8 DEF AnswerText, Return, Reply, Shapes
    <2>4. p # "none"
      BY <2>2 DEF Providers
    <2>. HIDE DEF p
    <2>5. /\ Walk(c) = was
          /\ Walk(c)' = Session!Is("answered", started[c], attempts[c], p)
      BY <1>0, <2>1, <2>3, <2>4 DEF WalksShow
    <2>6. Walk(c).chosen = started[c] /\ Walk(c).failed = attempts[c]
      BY <2>5 DEF Session!Going, Session!Is
    <2>7. Session!Becomes(c, Session!Is("answered", Walk(c).chosen, Walk(c).failed, p))
      BY <1>1, <2>5, <2>6, WalkBecomes
    <2>. QED  BY <2>2, <2>7 DEF Session!Answer, Session!Next
  <1>9. CASE ProviderFails(c)
    <2>. DEFINE p == Head(chain[c])
    <2>1. Trying(c) /\ UNCHANGED started
      BY <1>9 DEF ProviderFails, Trying
    <2>2. p \in Providers /\ Session!Asked(c, p)
      BY <2>1, HeadIsAsked
    <2>3. attempts'[c] = attempts[c] \cup {p}
      BY <1>9 DEF ProviderFails, NextProvider, Shapes
    <2>. HIDE DEF p
    <2>4. \/ pc'[c] \in {"ask", "fallback"}
          \/ reply'[c].kind = "answer" /\ reply'[c].provider = "none"
      BY <1>9 DEF ProviderFails, NextProvider, Return, Reply, Shapes
    <2>5. Walk(c) = was /\ Walk(c)' = Session!Going(started[c], attempts[c] \cup {p})
      BY <1>0, <2>1, <2>3, <2>4 DEF WalksShow, Trying
    <2>6. Walk(c).chosen = started[c] /\ Walk(c).failed = attempts[c]
      BY <2>5 DEF Session!Going, Session!Is
    <2>7. Session!Becomes(c, Session!Going(Walk(c).chosen, Walk(c).failed \cup {p}))
      BY <1>1, <2>5, <2>6, WalkBecomes
    <2>. QED  BY <2>2, <2>7 DEF Session!Fail, Session!Next
  <1>10. CASE Fallback(c)
    <2>1. /\ pc[c] = "fallback" /\ UNCHANGED <<started, attempts>>
          /\ reply'[c].kind = "answer" /\ reply'[c].provider = "none"
      BY <1>10 DEF Fallback, Return, Reply, Shapes
    <2>. QED  BY <1>0, <1>2, <2>1 DEF WalksShow
  <1>11. CASE FallbackFails(c)
    <2>1. pc[c] = "fallback" /\ reply'[c].kind = "error"
      BY <1>11, PlainShape DEF FallbackFails, Return, Shapes, Kinds
    <2>2. Walk(c) = was /\ attempts[c] = started[c] /\ Walk(c)' = Session!Dropped
      BY <1>0, <2>1 DEF WalksShow, ChainInOrder
    <2>. QED  BY <1>3, <2>2 DEF Session!Going, Session!Is, Session!Next
  <1>12. CASE Close(c)
    <2>1. /\ UNCHANGED <<started, attempts, reply>> /\ reply[c].kind \in {"answer", "error"}
      BY <1>12 DEF Close, Stage
    <2>. QED  BY <1>0, <1>2, <2>1 DEF WalksShow
  <1>13. CASE CloseFails(c)
    <2>1. reply[c].kind \in {"answer", "error"} /\ reply'[c].kind = "error"
      BY <1>13, PlainShape DEF CloseFails, Stage, Shapes, Kinds
    <2>2. Walk(c)' = Session!Dropped
      BY <1>0, <2>1 DEF WalksShow
    <2>3. CASE reply[c].kind = "error"
      BY <1>0, <1>2, <2>2, <2>3 DEF WalksShow
    <2>4. CASE reply[c].kind = "answer" /\ reply[c].provider = "none"
      <3>1. Walk(c) = was /\ attempts[c] = started[c]
        BY <1>0, <2>4 DEF WalksShow, Signed
      <3>. QED  BY <1>3, <2>2, <3>1 DEF Session!Going, Session!Is, Session!Next
    <2>5. CASE reply[c].kind = "answer" /\ reply[c].provider # "none"
      <3>1. Walk(c).stage = "answered"
        BY <1>0, <2>5 DEF WalksShow, Session!Going, Session!Is
      <3>. QED  BY <1>3, <2>2, <3>1 DEF Session!Next
    <2>. QED  BY <2>1, <2>3, <2>4, <2>5
  <1>. QED  BY <1>4, <1>5, <1>6, <1>7, <1>8, <1>9, <1>10, <1>11, <1>12, <1>13 DEF ChatStep

(* However many requests there are and whatever is selected under them, each *)
(* asks the providers it started with, the preferred one first and none of   *)
(* them twice, until one answers; keyword routing comes when all have failed *)
(* and never turns back (handle_assistant_message).                          *)
THEOREM ChatWalksTheChain == Spec => ImplementsProviderChain
  <1>1. Init => Session!Init
    <2>. SUFFICES ASSUME Init, NEW c \in Chats PROVE Walk(c) = Session!NotBegun
      BY DEF Session!Init
    <2>. QED  BY InitEstablishesChatInv, WalksAreShown DEF Init, WalksShow
  <1>2. ChatInv /\ ChatInv' /\ [Next]_vars => [Session!Next]_[c \in Chats |-> Walk(c)]
    <2>. SUFFICES ASSUME ChatInv, ChatInv', [Next]_vars
                  PROVE  Session!Next \/ UNCHANGED [c \in Chats |-> Walk(c)]
      OBVIOUS
    <2>1. CASE \E o \in Selections : SetProvider(o)
      BY <2>1 DEF SetProvider, Walk, loop
    <2>2. CASE UNCHANGED vars
      BY <2>2 DEF vars, Walk, loop
    <2>. QED  BY <2>1, <2>2, RequestWalks DEF Next
  <1>. QED  BY ChatInvariant, <1>1, <1>2, PTL DEF Spec, ImplementsProviderChain, Session!Spec
-----------------------------------------------------------------------------
(* How many steps a request still takes, at most.  A turn is a message of    *)
(* the model and its calls.                                                  *)
TurnSteps == MaxCalls + 1
ProviderSteps == MaxToolTurns * TurnSteps + 1

StepsToReply(c) ==
    LET later == (Len(chain[c]) - 1) * ProviderSteps IN
    CASE pc[c] = "new"      -> 2 * ProviderSteps + 4
      [] pc[c] = "elevated" -> 2 * ProviderSteps + 3
      [] pc[c] = "ask"      -> later + (MaxToolTurns - turns[c]) * TurnSteps + 3
      [] pc[c] = "tool"     -> later + (MaxToolTurns - turns[c] - 1) * TurnSteps + pending[c] + 3
      [] pc[c] = "fallback" -> 2
      [] pc[c] = "close"    -> 1
      [] OTHER              -> 0

(* A step of a request takes it nearer its end; one of another request, or a *)
(* change of the selection, neither nearer nor farther.                      *)
ChatsProgress ==
    [][\A c \in Chats :
          \/ UNCHANGED <<pc[c], chain[c], turns[c], pending[c]>>
          \/ StepsToReply(c)' < StepsToReply(c)]_vars

(* The turns that are left cost so many steps. *)
LEMMA TurnsLeft ==
    ASSUME NEW t \in 0..MaxToolTurns
    PROVE  /\ TurnSteps \in Nat /\ TurnSteps = MaxCalls + 1 /\ MaxToolTurns * TurnSteps \in Nat
           /\ (MaxToolTurns - t) * TurnSteps \in Nat
           /\ t < MaxToolTurns =>
                 /\ (MaxToolTurns - t - 1) * TurnSteps \in Nat
                 /\ (MaxToolTurns - t) * TurnSteps = (MaxToolTurns - t - 1) * TurnSteps + TurnSteps
  <1>1. TurnSteps \in Nat /\ MaxToolTurns \in Nat /\ MaxToolTurns - t \in Nat
    BY TurnsAssumption DEF TurnSteps
  <1>2. MaxToolTurns * TurnSteps \in Nat /\ (MaxToolTurns - t) * TurnSteps \in Nat
    BY <1>1, TurnsCost
  <1>3. ASSUME t < MaxToolTurns
        PROVE  /\ (MaxToolTurns - t - 1) * TurnSteps \in Nat
               /\ (MaxToolTurns - t) * TurnSteps = (MaxToolTurns - t - 1) * TurnSteps + TurnSteps
    <2>1. MaxToolTurns - t - 1 \in Nat /\ (MaxToolTurns - t - 1) + 1 = MaxToolTurns - t
      BY <1>1, <1>3
    <2>. QED  BY <1>1, <2>1, TurnsCost
  <1>. QED  BY <1>1, <1>2, <1>3 DEF TurnSteps

(* Going on with a shorter chain, or with none. *)
LEMMA NextIsNearer ==
    ASSUME Shapes, Counters, NEW c \in Chats, NEW left \in Chains, NEW failed,
           NextProvider(c, left, failed)
    PROVE  /\ StepsToReply(c)' \in Nat
           /\ StepsToReply(c)' <=
                 IF left = <<>> THEN 2 ELSE (Len(left) - 1) * ProviderSteps + ProviderSteps + 2
  <1>1. /\ chain'[c] = left /\ turns'[c] = 0
        /\ left # <<>> => pc'[c] = "ask"
        /\ left = <<>> => pc'[c] \in {"fallback", "close"}
    BY DEF NextProvider, Return, Goto, Shapes, Counters
  <1>2. CASE left = <<>>
    BY <1>1, <1>2 DEF StepsToReply
  <1>3. CASE left # <<>>
    <2>1. MaxToolTurns * TurnSteps \in Nat /\ MaxToolTurns - 0 = MaxToolTurns
      BY TurnsAssumption, TurnsLeft
    <2>2. Len(left) \in {1, 2}
      BY <1>3 DEF Chains
    <2>3. StepsToReply(c)' = (Len(left) - 1) * ProviderSteps + MaxToolTurns * TurnSteps + 3
      BY <1>1, <1>3, <2>1 DEF StepsToReply, TurnSteps, ProviderSteps
    <2>. QED  BY <1>3, <2>1, <2>2, <2>3 DEF ProviderSteps
  <1>. QED  BY <1>2, <1>3

(* Every step of a request takes it nearer its end. *)
LEMMA ChatStepNearer ==
    ASSUME ChatInv, BudgetInv, NEW c \in Chats,
           ConnectTarget(c) \/ TargetUnreachable(c) \/ ChatStep(c)
    PROVE  StepsToReply(c)' < StepsToReply(c)
  <1>. Shapes /\ ChainInOrder(c) /\ Counters /\ Spent(c)
    BY DEF ChatInv, BudgetInv
  <1>. DEFINE later == (Len(chain[c]) - 1) * ProviderSteps
  <1>0. ProviderSteps = MaxToolTurns * TurnSteps + 1 /\ ProviderSteps \in Nat /\ MaxToolTurns \in Nat
    <2>1. 0 \in 0..MaxToolTurns
      BY TurnsAssumption
    <2>2. MaxToolTurns * TurnSteps \in Nat
      BY <2>1, TurnsLeft
    <2>. QED  BY <2>2, TurnsAssumption DEF ProviderSteps
  <1>1. turns[c] \in 0..MaxToolTurns /\ turns[c] \in Nat /\ pending[c] \in Nat
    BY TurnsAssumption DEF Counters
  <1>2. Trying(c) => /\ Len(chain[c]) \in {1, 2} /\ later \in Nat
                     /\ Head(chain[c]) \in Providers /\ Tail(chain[c]) \in Chains
                     /\ Tail(chain[c]) # <<>> => Len(chain[c]) = 2 /\ Len(Tail(chain[c])) = 1
    <2>. SUFFICES ASSUME Trying(c)
                  PROVE /\ Len(chain[c]) \in {1, 2} /\ later \in Nat
                        /\ Head(chain[c]) \in Providers /\ Tail(chain[c]) \in Chains
                        /\ Tail(chain[c]) # <<>> => Len(chain[c]) = 2 /\ Len(Tail(chain[c])) = 1
      OBVIOUS
    <2>1. CASE chain[c] = <<"gemini">>
      BY <1>0, <2>1 DEF Chains, Providers
    <2>2. CASE chain[c] = <<"ollama">>
      BY <1>0, <2>2 DEF Chains, Providers
    <2>3. CASE chain[c] = <<"gemini", "ollama">>
      BY <1>0, <2>3 DEF Chains, Providers
    <2>. QED  BY <2>1, <2>2, <2>3 DEF ChainInOrder, Chains
  <1>3. ASSUME pc[c] = "ask"
        PROVE  /\ (MaxToolTurns - turns[c]) * TurnSteps \in Nat
               /\ StepsToReply(c) = later + (MaxToolTurns - turns[c]) * TurnSteps + 3
    BY <1>1, <1>3, TurnsLeft DEF StepsToReply
  <1>4. ASSUME pc[c] = "tool"
        PROVE  /\ turns[c] < MaxToolTurns /\ (MaxToolTurns - turns[c] - 1) * TurnSteps \in Nat
               /\ StepsToReply(c) = later + (MaxToolTurns - turns[c] - 1) * TurnSteps + pending[c] + 3
    BY <1>1, <1>4, TurnsLeft DEF StepsToReply, Spent
  <1>. USE DEF Goto
  <1>5. CASE ConnectTarget(c) \/ TargetUnreachable(c)
    <2>1. pc[c] = "new" /\ pc'[c] \in {"elevated", "done"}
      BY <1>5 DEF ConnectTarget, TargetUnreachable, Shapes
    <2>2. StepsToReply(c) = 2 * ProviderSteps + 4 /\ StepsToReply(c)' \in {2 * ProviderSteps + 3, 0}
      BY <2>1 DEF StepsToReply, ProviderSteps, TurnSteps
    <2>. QED  BY <1>0, <2>2
  <1>6. CASE StartChain(c)
    <2>1. Chain \in Chains /\ pc[c] = "elevated"
      BY <1>6, ChainShape DEF StartChain, Shapes
    <2>2. /\ StepsToReply(c)' \in Nat
          /\ StepsToReply(c)' <= IF Chain = <<>> THEN 2
                                 ELSE (Len(Chain) - 1) * ProviderSteps + ProviderSteps + 2
      BY <1>6, <2>1, NextIsNearer DEF StartChain
    <2>3. Chain # <<>> => Len(Chain) \in {1, 2}
      BY <2>1 DEF Chains
    <2>4. StepsToReply(c) = 2 * ProviderSteps + 3
      BY <2>1 DEF StepsToReply
    <2>5. CASE Chain = <<>>
      BY <1>0, <2>2, <2>4, <2>5
    <2>6. CASE Len(Chain) = 1 /\ Chain # <<>>
      BY <1>0, <2>2, <2>4, <2>6
    <2>7. CASE Len(Chain) = 2 /\ Chain # <<>>
      BY <1>0, <2>2, <2>4, <2>7
    <2>. QED  BY <2>3, <2>5, <2>6, <2>7
  <1>7. CASE ElevatedFails(c)
    <2>1. pc[c] = "elevated" /\ pc'[c] = "close"
      BY <1>7 DEF ElevatedFails, Return, Shapes
    <2>. QED  BY <1>0, <2>1 DEF StepsToReply
  <1>8. CASE CallTools(c)
    <2>1. PICK k \in 1..CallsTaken(Head(chain[c])) : pending' = [pending EXCEPT ![c] = k]
      BY <1>8 DEF CallTools
    <2>2. /\ pc[c] = "ask" /\ pc'[c] = "tool" /\ turns[c] < MaxToolTurns /\ pending'[c] = k
          /\ UNCHANGED <<chain, turns>>
      BY <1>8, <2>1 DEF CallTools, Shapes, Counters
    <2>3. k \in Nat /\ k <= MaxCalls
      BY <1>2, <2>1, <2>2, CallsTakenShape, TurnsAssumption DEF Trying
    <2>4. StepsToReply(c)' = later + (MaxToolTurns - turns[c] - 1) * TurnSteps + k + 3
      BY <2>2 DEF StepsToReply, TurnSteps, ProviderSteps
    <2>5. /\ (MaxToolTurns - turns[c] - 1) * TurnSteps \in Nat /\ TurnSteps = MaxCalls + 1
          /\ (MaxToolTurns - turns[c]) * TurnSteps = (MaxToolTurns - turns[c] - 1) * TurnSteps + TurnSteps
      BY <1>1, <2>2, TurnsLeft
    <2>6. later \in Nat
      BY <1>2, <2>2 DEF Trying
    <2>. HIDE DEF later
    <2>. QED  BY <1>3, <2>2, <2>3, <2>4, <2>5, <2>6, TurnsAssumption
  <1>9. CASE RunTool(c)
    <2>1. pc[c] = "tool" /\ UNCHANGED chain /\ pending'[c] = pending[c] - 1 /\ later \in Nat
      BY <1>2, <1>9 DEF RunTool, Counters, Trying
    <2>2. CASE pending[c] > 1
      <3>1. pc'[c] = "tool" /\ turns'[c] = turns[c]
        BY <1>9, <2>2 DEF RunTool
      <3>2. StepsToReply(c)' = later + (MaxToolTurns - turns[c] - 1) * TurnSteps + (pending[c] - 1) + 3
        BY <2>1, <3>1 DEF StepsToReply, TurnSteps, ProviderSteps
      <3>. HIDE DEF later
      <3>. QED  BY <1>1, <1>4, <2>1, <3>2
    <2>3. CASE pending[c] = 1
      <3>1. pc'[c] = "ask" /\ turns'[c] = turns[c] + 1
        BY <1>9, <2>3 DEF RunTool, Shapes, Counters
      <3>2. StepsToReply(c)' = later + (MaxToolTurns - (turns[c] + 1)) * TurnSteps + 3
        BY <2>1, <3>1 DEF StepsToReply, TurnSteps, ProviderSteps
      <3>3. MaxToolTurns - (turns[c] + 1) = MaxToolTurns - turns[c] - 1
        BY <1>0, <1>1
      <3>. HIDE DEF later
      <3>. QED  BY <1>1, <1>4, <2>1, <2>3, <3>2, <3>3
    <2>. QED  BY <1>9, <2>2, <2>3 DEF RunTool
  <1>10. CASE AnswerText(c)
    <2>1. pc[c] = "ask" /\ pc'[c] = "close" /\ later \in Nat
      BY <1>2, <1>10 DEF AnswerText, Return, Shapes, Trying
    <2>2. StepsToReply(c)' = 1
      BY <2>1 DEF StepsToReply
    <2>. HIDE DEF later
    <2>. QED  BY <1>3, <2>1, <2>2
  <1>11. CASE ProviderFails(c)
    <2>1. Trying(c) /\ NextProvider(c, Tail(chain[c]), attempts[c] \cup {Head(chain[c])})
      BY <1>11 DEF ProviderFails, Trying
    <2>2. StepsToReply(c) >= later + 3 /\ StepsToReply(c) \in Nat /\ later \in Nat
      <3>1. later \in Nat
        BY <1>2, <2>1
      <3>. HIDE DEF later
      <3>. QED  BY <1>1, <1>3, <1>4, <2>1, <3>1 DEF Trying
    <2>3. /\ StepsToReply(c)' \in Nat
          /\ StepsToReply(c)' <= IF Tail(chain[c]) = <<>> THEN 2
                                 ELSE (Len(Tail(chain[c])) - 1) * ProviderSteps + ProviderSteps + 2
      BY <1>2, <2>1, NextIsNearer
    <2>. QED  BY <1>0, <1>2, <2>1, <2>2, <2>3
  <1>12. CASE Fallback(c) \/ FallbackFails(c)
    <2>1. pc[c] = "fallback" /\ pc'[c] = "close"
      BY <1>12 DEF Fallback, FallbackFails, Return, Shapes
    <2>. QED  BY <2>1 DEF StepsToReply
  <1>13. CASE Close(c) \/ CloseFails(c)
    <2>1. pc[c] = "close" /\ pc'[c] = "done"
      BY <1>13 DEF Close, CloseFails, Shapes
    <2>. QED  BY <2>1 DEF StepsToReply
  <1>. QED  BY <1>5, <1>6, <1>7, <1>8, <1>9, <1>10, <1>11, <1>12, <1>13 DEF ChatStep

(* A request that reached its target ends after as many steps as two chains  *)
(* of MaxToolTurns turns can take, whatever models, tools and other requests *)
(* do: no step is for nothing, and none of another takes it back.            *)
THEOREM ChatsEnd == Spec => ChatsProgress
  <1>1. ChatInv /\ BudgetInv /\ [Next]_vars =>
           [\A c \in Chats :
              \/ UNCHANGED <<pc[c], chain[c], turns[c], pending[c]>>
              \/ StepsToReply(c)' < StepsToReply(c)]_vars
    <2>. SUFFICES ASSUME ChatInv, BudgetInv, [Next]_vars, NEW c \in Chats
                  PROVE  \/ UNCHANGED <<pc[c], chain[c], turns[c], pending[c]>>
                         \/ StepsToReply(c)' < StepsToReply(c)
      OBVIOUS
    <2>1. CASE ConnectTarget(c) \/ TargetUnreachable(c) \/ ChatStep(c)
      BY <2>1, ChatStepNearer
    <2>2. ASSUME NEW d \in Chats \ {c}, ConnectTarget(d) \/ TargetUnreachable(d) \/ ChatStep(d)
          PROVE  UNCHANGED <<pc[c], chain[c], turns[c], pending[c]>>
      BY <2>2 DEF ChatInv, Shapes, BudgetInv, Counters, loop, selection, Goto, Return, NextProvider,
             ChatStep, ConnectTarget, TargetUnreachable, StartChain, ElevatedFails, CallTools, RunTool,
             AnswerText, ProviderFails, Fallback, FallbackFails, Close, CloseFails
    <2>3. ASSUME NEW o \in Selections, SetProvider(o)
          PROVE  UNCHANGED <<pc[c], chain[c], turns[c], pending[c]>>
      BY <2>3 DEF SetProvider, loop
    <2>4. CASE UNCHANGED vars
      BY <2>4 DEF vars, loop
    <2>. QED  BY <2>1, <2>2, <2>3, <2>4 DEF Next
  <1>. QED  BY BudgetInvariant, <1>1, PTL DEF Spec, ChatsProgress
=============================================================================
