--------------------------- MODULE AssistantChat ----------------------------
(***************************************************************************)
(* POST /chat/{session_id}/message: handle_assistant_message tries the     *)
(* providers of a chain one after the other, each in a function-calling    *)
(* loop over the diagnostics, and falls back to keyword routing.  Requests *)
(* run concurrently, and PUT /assistant/provider changes the selection     *)
(* under them.  A step is what a handler does up to its next await.        *)
(*                                                                         *)
(* What a model answers is arbitrary: text, nothing, calls of tools, or an *)
(* error.  A diagnostic that raises inside the loop is a result like any   *)
(* other; in the fallback it ends the request.                             *)
(***************************************************************************)
EXTENDS Naturals, Sequences

CONSTANTS
    Chats,          \* requests
    MaxToolTurns,   \* MAX_TOOL_TURNS
    MaxCalls,       \* bound on the calls in one message of the model
    MaxSwitches     \* bound on the changes of the selection

ASSUME TurnsAssumption == MaxToolTurns \in Nat /\ MaxCalls \in Nat \ {0}
ASSUME SwitchesAssumption == MaxSwitches \in Nat

Providers == {"gemini", "ollama"}
Selections == Providers \cup {"auto", "none"}

VARIABLES
    configured,     \* settings.llm_provider, any name
    override,       \* _runtime_override, "unset" when it is None
    switches,
    pc,             \* where each request is
    keyword,        \* its message has a keyword of _deterministic_reply
    chain,          \* providers left to try; the first one is being tried
    attempts,       \* providers that were tried and did not answer
    turns,          \* tool turns of the provider being tried
    pending,        \* calls of its last message that are still to run
    traces,         \* tool calls its reply will list, by who asked for them
    connected,      \* the target connection was opened
    started,        \* the providers of its chain
    reply

selection == <<configured, override, switches>>
loop == <<chain, attempts, turns, pending, traces>>
vars == <<selection, pc, keyword, loop, connected, started, reply>>

Callers == Providers \cup {"none"}
NoTools == [p \in Callers |-> 0]

(* provider: who answered, "none" for keyword routing and for an offline     *)
(* reply.  banner: the notice above a fallback, with the selection it names  *)
(* when it says that narration is disabled.                                  *)
Kinds == {"pending", "answer", "offline", "error"}
Banners == {"no", "unanswered", "unknown"} \cup Selections
Reply(k, p, t, b) == [kind |-> k, provider |-> p, tools |-> t, banner |-> b]
Plain(k) == Reply(k, "none", NoTools, "no")
Replies == [kind : Kinds, provider : Callers, tools : [Callers -> Nat], banner : Banners]

(* configured_provider_name *)
Selection == IF override # "unset" THEN override ELSE configured

(* provider_chain: an unknown name counts as auto. *)
Chain ==
    IF Selection = "none" THEN <<>>
    ELSE IF Selection \in Providers THEN <<Selection>>
    ELSE <<"gemini", "ollama">>

(* Gemini's loop takes the first call of a message, Ollama's all of them. *)
CallsTaken(p) == IF p = "gemini" THEN 1 ELSE MaxCalls

Init ==
    /\ configured \in Selections \cup {"unknown"}
    /\ override = "unset"
    /\ switches = 0
    /\ pc = [c \in Chats |-> "new"]
    /\ keyword \in [Chats -> BOOLEAN]
    /\ chain = [c \in Chats |-> <<>>]
    /\ attempts = [c \in Chats |-> {}]
    /\ turns = [c \in Chats |-> 0]
    /\ pending = [c \in Chats |-> 0]
    /\ traces = [c \in Chats |-> NoTools]
    /\ connected = [c \in Chats |-> FALSE]
    /\ started = [c \in Chats |-> {}]
    /\ reply = [c \in Chats |-> Plain("pending")]

---------------------------------------------------------------------------
Goto(c, at) == pc' = [pc EXCEPT ![c] = at]

(* The handler returns; both connections are still to be closed. *)
Return(c, r) == Goto(c, "close") /\ reply' = [reply EXCEPT ![c] = r]

Banner(failed) == IF failed # {} THEN "unanswered" ELSE Selection

(* Go on with the providers left.  When none is left a keyword starts a      *)
(* diagnostic, and any other message is answered at once.                    *)
NextProvider(c, left, failed) ==
    /\ chain' = [chain EXCEPT ![c] = left]
    /\ attempts' = [attempts EXCEPT ![c] = failed]
    /\ turns' = [turns EXCEPT ![c] = 0]
    /\ pending' = [pending EXCEPT ![c] = 0]
    /\ \/ left # <<>> /\ Goto(c, "ask") /\ UNCHANGED reply
       \/ left = <<>> /\ keyword[c] /\ Goto(c, "fallback") /\ UNCHANGED reply
       \/ left = <<>> /\ ~keyword[c]
            /\ Return(c, Reply("answer", "none", NoTools, Banner(failed)))

ConnectTarget(c) ==
    /\ pc[c] = "new"
    /\ Goto(c, "elevated")
    /\ connected' = [connected EXCEPT ![c] = TRUE]
    /\ UNCHANGED <<selection, keyword, loop, started, reply>>

(* The request is answered without a database. *)
TargetUnreachable(c) ==
    /\ pc[c] = "new"
    /\ Goto(c, "done")
    /\ reply' = [reply EXCEPT ![c] = Plain("offline")]
    /\ UNCHANGED <<selection, keyword, loop, connected, started>>

(* The elevated connection is open or not configured; the chain is fixed. *)
StartChain(c) ==
    /\ pc[c] = "elevated"
    /\ started' = [started EXCEPT ![c] = {Chain[i] : i \in DOMAIN Chain}]
    /\ NextProvider(c, Chain, {})
    /\ UNCHANGED <<selection, keyword, traces, connected>>

(* Fault: connected is set only when both connections are open. *)
ElevatedFailsOffline(c) ==
    /\ pc[c] = "elevated"
    /\ Return(c, Plain("offline"))
    /\ UNCHANGED <<selection, keyword, loop, connected, started>>

ElevatedFails(c) ==
    /\ pc[c] = "elevated"
    /\ Return(c, Plain("error"))
    /\ UNCHANGED <<selection, keyword, loop, connected, started>>

(* Fault: one turn too many. *)
CallToolsOnceMore(c) ==
    /\ pc[c] = "ask"
    /\ turns[c] <= MaxToolTurns
    /\ \E n \in 1..CallsTaken(Head(chain[c])) : pending' = [pending EXCEPT ![c] = n]
    /\ Goto(c, "tool")
    /\ UNCHANGED <<selection, keyword, chain, attempts, turns, traces, connected, started, reply>>

(* The model asks for tools; a call past the budget is not looked at. *)
CallTools(c) ==
    /\ pc[c] = "ask"
    /\ turns[c] < MaxToolTurns
    /\ \E n \in 1..CallsTaken(Head(chain[c])) : pending' = [pending EXCEPT ![c] = n]
    /\ Goto(c, "tool")
    /\ UNCHANGED <<selection, keyword, chain, attempts, turns, traces, connected, started, reply>>

RunTool(c) ==
    /\ pc[c] = "tool"
    /\ pending' = [pending EXCEPT ![c] = @ - 1]
    /\ traces' = [traces EXCEPT ![c][Head(chain[c])] = @ + 1]
    /\ \/ pending[c] > 1 /\ UNCHANGED <<pc, turns>>
       \/ /\ pending[c] = 1
          /\ turns' = [turns EXCEPT ![c] = @ + 1]
          /\ Goto(c, "ask")
    /\ UNCHANGED <<selection, keyword, chain, attempts, connected, started, reply>>

(* The model answers in words. *)
AnswerText(c) ==
    /\ pc[c] = "ask"
    /\ Return(c, Reply("answer", Head(chain[c]), traces[c], "no"))
    /\ UNCHANGED <<selection, keyword, loop, connected, started>>

(* Fault: the traces are collected across providers. *)
ProviderFailsKeepsTraces(c) ==
    /\ pc[c] \in {"ask", "tool"}
    /\ NextProvider(c, Tail(chain[c]), attempts[c] \cup {Head(chain[c])})
    /\ UNCHANGED <<selection, keyword, traces, connected, started>>

(* Fault: the fallback comes after the first failure. *)
ProviderFailsGivesUp(c) ==
    /\ pc[c] \in {"ask", "tool"}
    /\ traces' = [traces EXCEPT ![c] = NoTools]
    /\ NextProvider(c, <<>>, attempts[c] \cup {Head(chain[c])})
    /\ UNCHANGED <<selection, keyword, connected, started>>

(* Fault: a provider that failed is tried again after the others. *)
ProviderFailsRotates(c) ==
    /\ pc[c] \in {"ask", "tool"}
    /\ traces' = [traces EXCEPT ![c] = NoTools]
    /\ NextProvider(c, Append(Tail(chain[c]), Head(chain[c])), attempts[c])
    /\ UNCHANGED <<selection, keyword, connected, started>>

(* An error or an empty answer: the traces of the provider go with it. *)
ProviderFails(c) ==
    /\ pc[c] \in {"ask", "tool"}
    /\ traces' = [traces EXCEPT ![c] = NoTools]
    /\ NextProvider(c, Tail(chain[c]), attempts[c] \cup {Head(chain[c])})
    /\ UNCHANGED <<selection, keyword, connected, started>>

Fallback(c) ==
    /\ pc[c] = "fallback"
    /\ Return(c, Reply("answer", "none", [NoTools EXCEPT !["none"] = 1], Banner(attempts[c])))
    /\ UNCHANGED <<selection, keyword, loop, connected, started>>

FallbackFails(c) ==
    /\ pc[c] = "fallback"
    /\ Return(c, Plain("error"))
    /\ UNCHANGED <<selection, keyword, loop, connected, started>>

Close(c) ==
    /\ pc[c] = "close"
    /\ Goto(c, "done")
    /\ UNCHANGED <<selection, keyword, loop, connected, started, reply>>

(* Closing a connection raises, and the reply is lost in a 502. *)
CloseFails(c) ==
    /\ pc[c] = "close"
    /\ Goto(c, "done")
    /\ reply' = [reply EXCEPT ![c] = Plain("error")]
    /\ UNCHANGED <<selection, keyword, loop, connected, started>>

(* PUT /assistant/provider, while other requests are being served. *)
SetProvider(o) ==
    /\ switches < MaxSwitches
    /\ override' = o
    /\ switches' = switches + 1
    /\ UNCHANGED <<configured, pc, keyword, loop, connected, started, reply>>

ChatStep(c) ==
    \/ StartChain(c) \/ ElevatedFails(c)
    \/ CallTools(c) \/ RunTool(c) \/ AnswerText(c) \/ ProviderFails(c)
    \/ Fallback(c) \/ FallbackFails(c)
    \/ Close(c) \/ CloseFails(c)

Next ==
    \/ \E c \in Chats : ConnectTarget(c) \/ TargetUnreachable(c) \/ ChatStep(c)
    \/ \E o \in Selections : SetProvider(o)

Spec == Init /\ [][Next]_vars

---------------------------------------------------------------------------
(* Every variable has its type; the override names a provider the program    *)
(* knows, and the loop keeps to its turns.                                   *)
TypeOK ==
    /\ configured \in Selections \cup {"unknown"}
    /\ override \in Selections \cup {"unset"}
    /\ switches \in 0..MaxSwitches
    /\ pc \in [Chats -> {"new", "elevated", "ask", "tool", "fallback", "close", "done"}]
    /\ keyword \in [Chats -> BOOLEAN]
    /\ chain \in [Chats -> Seq(Providers)]
    /\ attempts \in [Chats -> SUBSET Providers]
    /\ turns \in [Chats -> 0..MaxToolTurns]
    /\ pending \in [Chats -> 0..MaxCalls]
    /\ traces \in [Chats -> [Callers -> Nat]]
    /\ connected \in [Chats -> BOOLEAN]
    /\ started \in [Chats -> SUBSET Providers]
    /\ reply \in [Chats -> Replies]

(* A reply signed by a provider lists no tool call another one asked for,    *)
(* and the one preferred to it has failed: tool calls of a provider that     *)
(* broke off are never shown as evidence for the answer of the next.         *)
AnswererIsHonest ==
    \A c \in Chats :
        LET r == reply[c] IN
        r.kind = "answer" /\ r.provider \in Providers =>
            /\ \A q \in Callers : r.tools[q] > 0 => q = r.provider
            /\ r.provider \in started[c] \ attempts[c]
            /\ "gemini" \in started[c] => r.provider = "gemini" \/ "gemini" \in attempts[c]

(* Keyword routing answers only when every provider of the chain the request *)
(* started with has failed, whatever was selected in between; its notice     *)
(* reports a failure exactly when there was a provider to fail.              *)
FallbackIsLast ==
    \A c \in Chats :
        reply[c].kind = "answer" /\ reply[c].provider = "none" =>
            /\ attempts[c] = started[c]
            /\ reply[c].banner = "unanswered" <=> started[c] # {}

(* "An unreachable database and a failed assistant call are different faults *)
(* [...] Only the first is a reason to degrade to offline mode" (main.py,    *)
(* chat_endpoint).                                                           *)
OfflineMeansUnreachable ==
    \A c \in Chats : pc[c] = "done" => (reply[c].kind = "offline") = ~connected[c]

(* A reply lists no more diagnostics than the loop of its provider allows,   *)
(* however many calls the model makes.                                       *)
BudgetKept ==
    \A c \in Chats : \A p \in Providers :
        reply[c].tools[p] <= MaxToolTurns * CallsTaken(p)

---------------------------------------------------------------------------
(* AssistantChat implements ProviderChain: a request walks while it has a    *)
(* provider to ask, and how the walk ended is what its reply says.           *)
Preference == [p \in Providers |-> IF p = "gemini" THEN 1 ELSE 2]

Walk(c) ==
    LET r == reply[c]
        Shows(stage, by) == [stage |-> stage, chosen |-> started[c], failed |-> attempts[c], by |-> by]
        Empty(stage) == [stage |-> stage, chosen |-> {}, failed |-> {}, by |-> "nobody"]
    IN  CASE r.kind \in {"offline", "error"} -> Empty("dropped")
          [] r.kind = "answer" ->
                IF r.provider = "none" THEN Shows("exhausted", "nobody")
                ELSE Shows("answered", r.provider)
          [] OTHER ->
                IF pc[c] \in {"new", "elevated"} THEN Empty("idle")
                ELSE IF pc[c] = "fallback" THEN Shows("exhausted", "nobody")
                ELSE Shows("asking", "nobody")

Session == INSTANCE ProviderChain
              WITH Walks <- Chats, Rank <- Preference, walk <- [c \in Chats |-> Walk(c)]

(* "Providers are tried in order and a failure falls through to the next,    *)
(* ending at deterministic keyword routing" (agent.py): whatever the models  *)
(* ask for, and whoever selects another provider meanwhile, a request asks   *)
(* each of its providers once, in that order, and keeps to how this ended.   *)
ImplementsProviderChain == Session!Spec

---------------------------------------------------------------------------
(* Only a request to Ollama is sure to end: its httpx client gives up after  *)
(* 120 seconds without a byte.  The Gemini client has no timeout, and no     *)
(* statement to the target has one.                                          *)
AsksOllama(c) == pc[c] = "ask" /\ Head(chain[c]) = "ollama"

FairSpec == Spec /\ \A c \in Chats : WF_vars(AsksOllama(c) /\ ChatStep(c))

(* A message that reached the target is answered, unless one request to      *)
(* Gemini or one stretch at the target never comes back: neither a model     *)
(* that keeps asking for tools nor one that fails, again and again, holds    *)
(* the message for ever.                                                     *)
EveryChatEndsOrHangs ==
    \A c \in Chats : pc[c] = "elevated" ~>
        \/ pc[c] = "done"
        \/ [](pc[c] = "ask" /\ Head(chain[c]) = "gemini")
        \/ \E at \in {"elevated", "tool", "fallback", "close"} : [](pc[c] = at)
============================================================================
