----------------------------- MODULE TxPolling -----------------------------
(***************************************************************************)
(* FinschiaClient.broadcastTx (finschiaclient.ts 349-404) and              *)
(* FinschiaClient.pollForTxResult (587-635): any number of concurrent      *)
(* calls on one client, each with its timeout timer, its broadcast request *)
(* and its loop of "check the timer, sleep, query".                        *)
(*                                                                         *)
(* JavaScript runs one callback at a time, so an action is what runs       *)
(* between two suspensions: an await that ends, a timer callback.  The     *)
(* check at the head of pollForTx runs in the same callback as the answer  *)
(* that leads to it, and a promise settles and clears its timer in one.    *)
(***************************************************************************)
EXTENDS ChainNode, Integers

CONSTANTS Calls, NoTx

ASSUME NoTxAssumption == NoTx \notin Txs

VARIABLES
    online,   \* the client has a tmClient (it was not made in offline mode)
    method,   \* which of the two methods a call is a call of
    target,   \* the transaction (or its hash) the call is about
    phase,    \* where the call is suspended
    timer,    \* its txPollTimeout; "fired" is timedOut = true
    rpc,      \* its RPC request or the answer that has not been read yet
    outcome,  \* what its promise settled with
    admitted, \* history: the calls whose broadcast the node admitted
    late,     \* history: the queries each call sent after its timer fired
    atExpiry  \* history: the status of its target when its timer fired

callVars == <<method, target, phase, timer, rpc, outcome>>
history == <<admitted, late, atExpiry>>
vars == <<nodeVars, online, callVars, history>>

Methods == {"none", "broadcastTx", "pollForTxResult"}
Phases == {"idle", "broadcasting", "sleeping", "querying", "done"}
Timers == {"off", "armed", "fired", "cleared"}
BroadcastAnswers == {"admitted", "refused", "error"}
QueryAnswers == Codes \cup {"null", "error"}
Rpcs == {"none", "sent"} \cup BroadcastAnswers \cup QueryAnswers
Errors == {"TimeoutError", "BroadcastTxError", "BroadcastFailed", "QueryFailed"}
Outcomes == {"none"} \cup Codes \cup Errors

\* Bound: late queries are counted up to two, one more than there may be.
MaxLate == 2

Init ==
    /\ NodeInit
    /\ online \in BOOLEAN
    /\ method = [c \in Calls |-> "none"]
    /\ target = [c \in Calls |-> NoTx]
    /\ phase = [c \in Calls |-> "idle"]
    /\ timer = [c \in Calls |-> "off"]
    /\ rpc = [c \in Calls |-> "none"]
    /\ outcome = [c \in Calls |-> "none"]
    /\ admitted = {}
    /\ late = [c \in Calls |-> 0]
    /\ atExpiry = [c \in Calls |-> "unknown"]

-----------------------------------------------------------------------------
(* Steps of a callback *)

Send(c, waiting) ==
    /\ phase' = [phase EXCEPT ![c] = waiting]
    /\ rpc' = [rpc EXCEPT ![c] = "sent"]

Sleep(c) ==
    /\ phase' = [phase EXCEPT ![c] = "sleeping"]
    /\ rpc' = [rpc EXCEPT ![c] = "none"]
    /\ UNCHANGED <<timer, outcome>>

\* Faulty variant: the promise settles without clearing its timer.
SettleKeepingTimer(c, o) ==
    /\ phase' = [phase EXCEPT ![c] = "done"]
    /\ rpc' = [rpc EXCEPT ![c] = "none"]
    /\ outcome' = [outcome EXCEPT ![c] = o]
    /\ UNCHANGED timer

\* The promise settles with o and its timer is cleared.
Settle(c, o) ==
    /\ phase' = [phase EXCEPT ![c] = "done"]
    /\ rpc' = [rpc EXCEPT ![c] = "none"]
    /\ outcome' = [outcome EXCEPT ![c] = o]
    /\ timer' = [timer EXCEPT ![c] = IF @ = "armed" THEN "cleared" ELSE @]

\* broadcastTx leaves before its loop: nothing clears the timer.
Leave(c, o) ==
    /\ phase' = [phase EXCEPT ![c] = "done"]
    /\ rpc' = [rpc EXCEPT ![c] = "none"]
    /\ outcome' = [outcome EXCEPT ![c] = o]
    /\ UNCHANGED timer

\* Faulty variant: the check of timedOut is gone.
PollForTxUnchecked(c) == Sleep(c)

\* pollForTx: the check that begins every round, then the sleep.
PollForTx(c) ==
    IF timer[c] = "fired" THEN Settle(c, "TimeoutError") ELSE Sleep(c)

-----------------------------------------------------------------------------
(* The client *)

\* broadcastTx arms the timer, then sends the transaction: in offline mode
\* forceGetTmClient throws with the timer armed.
BroadcastTx(c, t) ==
    /\ phase[c] = "idle"
    /\ method' = [method EXCEPT ![c] = "broadcastTx"]
    /\ target' = [target EXCEPT ![c] = t]
    /\ timer' = [timer EXCEPT ![c] = "armed"]
    /\ IF online
       THEN Send(c, "broadcasting") /\ UNCHANGED outcome
       ELSE /\ phase' = [phase EXCEPT ![c] = "done"]
            /\ outcome' = [outcome EXCEPT ![c] = "BroadcastFailed"]
            /\ UNCHANGED rpc
    /\ UNCHANGED <<nodeVars, online, history>>

\* pollForTxResult arms the timer and goes to sleep.
PollForTxResult(c, t) ==
    /\ phase[c] = "idle"
    /\ method' = [method EXCEPT ![c] = "pollForTxResult"]
    /\ target' = [target EXCEPT ![c] = t]
    /\ timer' = [timer EXCEPT ![c] = "armed"]
    /\ phase' = [phase EXCEPT ![c] = "sleeping"]
    /\ UNCHANGED <<nodeVars, online, rpc, outcome, history>>

TimerFires(c) ==
    /\ timer[c] = "armed"
    /\ timer' = [timer EXCEPT ![c] = "fired"]
    /\ atExpiry' = [atExpiry EXCEPT ![c] = status[target[c]]]
    /\ UNCHANGED <<nodeVars, online, method, target, phase, rpc, outcome,
                   admitted, late>>

\* Faulty variant: the code of CheckTx is taken for the code of the execution.
OnBroadcastAnswerResolving(c) ==
    /\ phase[c] = "broadcasting"
    /\ \/ rpc[c] = "admitted" /\ Settle(c, "success")
       \/ rpc[c] = "refused" /\ Leave(c, "BroadcastTxError")
       \/ rpc[c] = "error" /\ Leave(c, "BroadcastFailed")
    /\ UNCHANGED <<nodeVars, online, method, target, history>>

\* Faulty variant: the code of the answer is not looked at.
OnBroadcastAnswerIgnoringCode(c) ==
    /\ phase[c] = "broadcasting"
    /\ \/ rpc[c] \in {"admitted", "refused"} /\ PollForTx(c)
       \/ rpc[c] = "error" /\ Leave(c, "BroadcastFailed")
    /\ UNCHANGED <<nodeVars, online, method, target, history>>

\* Faulty variant: a transaction in the node's cache counts as submitted.
OnBroadcastAnswerTolerant(c) ==
    /\ phase[c] = "broadcasting"
    /\ \/ rpc[c] \in {"admitted", "error"} /\ PollForTx(c)
       \/ rpc[c] = "refused" /\ Leave(c, "BroadcastTxError")
    /\ UNCHANGED <<nodeVars, online, method, target, history>>

\* Faulty variant: every failed broadcast is a BroadcastTxError.
OnBroadcastAnswerMislabelled(c) ==
    /\ phase[c] = "broadcasting"
    /\ \/ rpc[c] = "admitted" /\ PollForTx(c)
       \/ rpc[c] \in {"refused", "error"} /\ Leave(c, "BroadcastTxError")
    /\ UNCHANGED <<nodeVars, online, method, target, history>>

\* Faulty variant: the promise is rejected with the answer itself.
OnBroadcastAnswerRaw(c) ==
    /\ phase[c] = "broadcasting"
    /\ \/ rpc[c] = "admitted" /\ PollForTx(c)
       \/ rpc[c] \in {"refused", "error"} /\ Leave(c, rpc[c])
    /\ UNCHANGED <<nodeVars, online, method, target, history>>

\* The answer of broadcast_tx_sync: a code other than 0 is a BroadcastTxError,
\* an RPC error propagates, code 0 starts the loop.
OnBroadcastAnswer(c) ==
    /\ phase[c] = "broadcasting"
    /\ \/ rpc[c] = "admitted" /\ PollForTx(c)
       \/ rpc[c] = "refused" /\ Leave(c, "BroadcastTxError")
       \/ rpc[c] = "error" /\ Leave(c, "BroadcastFailed")
    /\ UNCHANGED <<nodeVars, online, method, target, history>>

\* Faulty variant: timedOut is also checked after the sleep.
WakeUpChecked(c) ==
    /\ phase[c] = "sleeping"
    /\ IF timer[c] = "fired"
       THEN Settle(c, "TimeoutError")
       ELSE Send(c, "querying") /\ UNCHANGED <<timer, outcome>>
    /\ UNCHANGED <<nodeVars, online, method, target, history>>

\* The sleep ends and getTx sends its query; there is no query in offline mode.
WakeUp(c) ==
    /\ phase[c] = "sleeping"
    /\ IF online
       THEN /\ Send(c, "querying")
            /\ late' = IF timer[c] = "fired"
                       THEN [late EXCEPT ![c] = IF @ < MaxLate THEN @ + 1 ELSE @]
                       ELSE late
            /\ UNCHANGED <<timer, outcome>>
       ELSE Settle(c, "QueryFailed") /\ UNCHANGED late
    /\ UNCHANGED <<nodeVars, online, method, target, admitted, atExpiry>>

\* Faulty variant: the first null ends the call.
OnQueryAnswerImpatient(c) ==
    /\ phase[c] = "querying"
    /\ \/ rpc[c] \in Codes /\ Settle(c, rpc[c])
       \/ rpc[c] = "null" /\ Settle(c, "TimeoutError")
       \/ rpc[c] = "error" /\ Settle(c, "QueryFailed")
    /\ UNCHANGED <<nodeVars, online, method, target, history>>

\* The answer of getTx: a result resolves the call, null starts another round,
\* an error rejects the call.
OnQueryAnswer(c) ==
    /\ phase[c] = "querying"
    /\ \/ rpc[c] \in Codes /\ Settle(c, rpc[c])
       \/ rpc[c] = "null" /\ PollForTx(c)
       \/ rpc[c] = "error" /\ Settle(c, "QueryFailed")
    /\ UNCHANGED <<nodeVars, online, method, target, history>>

-----------------------------------------------------------------------------
(* The node and the network *)

\* The node runs CheckTx on the transaction of c; its answer may get lost.
NodeAdmits(c) ==
    /\ phase[c] = "broadcasting" /\ rpc[c] = "sent"
    /\ Admit(target[c])
    /\ admitted' = admitted \cup {c}
    /\ \E answer \in {"admitted", "error"} :
           rpc' = [rpc EXCEPT ![c] = answer]
    /\ UNCHANGED <<online, method, target, phase, timer, outcome, late, atExpiry>>

NodeRefuses(c) ==
    /\ phase[c] = "broadcasting" /\ rpc[c] = "sent"
    /\ status[target[c]] = "unknown"
    /\ rpc' = [rpc EXCEPT ![c] = "refused"]
    /\ UNCHANGED <<nodeVars, online, method, target, phase, timer, outcome,
                   history>>

\* tx_search looks the hash up in the index.
NodeSearches(c) ==
    /\ phase[c] = "querying" /\ rpc[c] = "sent"
    /\ rpc' = [rpc EXCEPT ![c] =
                 IF status[target[c]] = "indexed" THEN code[target[c]] ELSE "null"]
    /\ UNCHANGED <<nodeVars, online, method, target, phase, timer, outcome,
                   history>>

\* The request or its answer is lost, or the node answers with an RPC error
\* (a transaction it already holds in its cache).
RpcFails(c) ==
    /\ rpc[c] = "sent"
    /\ rpc' = [rpc EXCEPT ![c] = "error"]
    /\ UNCHANGED <<nodeVars, online, method, target, phase, timer, outcome,
                   history>>

\* What the node does by itself, and transactions that reach it by
\* broadcast_tx_async or from other clients (Admit).
NodeStep(t) ==
    /\ \/ Admit(t)
       \/ Drop(t)
       \/ \E result \in Codes : Include(t, result)
       \/ Index(t)
    /\ UNCHANGED <<online, callVars, history>>

-----------------------------------------------------------------------------
ClientStep(c) ==
    \/ TimerFires(c)
    \/ OnBroadcastAnswer(c)
    \/ WakeUp(c)
    \/ OnQueryAnswer(c)

RpcStep(c) ==
    \/ NodeAdmits(c)
    \/ NodeRefuses(c)
    \/ NodeSearches(c)
    \/ RpcFails(c)

Next ==
    \/ \E c \in Calls :
          \/ \E t \in Txs : BroadcastTx(c, t) \/ PollForTxResult(c, t)
          \/ ClientStep(c)
          \/ RpcStep(c)
    \/ \E t \in Txs : NodeStep(t)

Spec == Init /\ [][Next]_vars

\* The event loop runs every callback that is due (an elapsed timer, an
\* elapsed sleep, an answer that arrived) and a request is answered or fails.
\* Nothing is assumed of the chain: it may never include a transaction.
Fairness ==
    \A c \in Calls :
        /\ WF_vars(TimerFires(c))
        /\ WF_vars(OnBroadcastAnswer(c))
        /\ WF_vars(WakeUp(c))
        /\ WF_vars(OnQueryAnswer(c))
        /\ WF_vars(RpcStep(c))

FairSpec == Spec /\ Fairness

-----------------------------------------------------------------------------
(* Properties *)

\* Every variable of the client and of the node keeps its type.
TypeOK ==
    /\ NodeTypeOK
    /\ online \in BOOLEAN
    /\ method \in [Calls -> Methods]
    /\ target \in [Calls -> Txs \cup {NoTx}]
    /\ \A c \in Calls :
          phase[c] # "idle" \/ timer[c] # "off" => target[c] \in Txs
    /\ phase \in [Calls -> Phases]
    /\ timer \in [Calls -> Timers]
    /\ rpc \in [Calls -> Rpcs]
    /\ outcome \in [Calls -> Outcomes]
    /\ admitted \subseteq Calls
    /\ late \in [Calls -> Nat]
    /\ atExpiry \in [Calls -> Status]

\* A DeliverTxResponse tells the truth: the transaction of that very call is
\* in a block, and the code returned is the code of its execution, however
\* long the answer travelled and whatever the other calls saw meanwhile
\* (the `result ? ... : pollForTx(txId)` of broadcastTx and pollForTxResult).
ResponseIsOnChain ==
    \A c \in Calls : outcome[c] \in Codes =>
        /\ status[target[c]] = "indexed"
        /\ code[target[c]] = outcome[c]

\* A TimeoutError is thrown by a timer that expired, and a call that ends
\* after at least one round never leaves its timer running; only a
\* broadcastTx that never got to its loop does (finschiaclient.ts 385-390:
\* BroadcastTxError and a throwing broadcastTxSync return past clearTimeout).
TimerDiscipline ==
    \A c \in Calls : phase[c] = "done" =>
        /\ outcome[c] = "TimeoutError" => timer[c] = "fired"
        /\ timer[c] = "armed" =>
              /\ method[c] = "broadcastTx"
              /\ outcome[c] \in {"BroadcastTxError", "BroadcastFailed"}

\* The error a broadcastTx call ends with tells its caller what it may retry:
\* a BroadcastTxError means this call put nothing in the mempool, while a
\* TimeoutError, a failed query or a response means the node had admitted the
\* transaction (so the caller of a retry risks a second execution).
\* A failed broadcast request promises neither.
OutcomeTellsAdmission ==
    \A c \in Calls : method[c] = "broadcastTx" =>
        /\ outcome[c] = "BroadcastTxError" => c \notin admitted
        /\ outcome[c] \in Codes \cup {"TimeoutError", "QueryFailed"} => c \in admitted

\* The loop overruns its timeout by one query at most: a timer that fires
\* during the sleep or during the query is noticed at the next check.
AtMostOneLateQuery == \A c \in Calls : late[c] <= 1

\* No broadcastTx or pollForTxResult call hangs: whatever the chain does with
\* the transaction, even nothing at all, the promise settles.
EveryCallSettles ==
    \A c \in Calls : phase[c] # "idle" ~> phase[c] = "done"

\* A transaction that the index already holds when the loop goes to sleep is
\* reported, even if the timer fires during that sleep: the query comes
\* before the next check, so only a failing query can hide it.
IndexedDuringSleepIsReported ==
    \A c \in Calls :
        phase[c] = "sleeping" /\ status[target[c]] = "indexed"
            ~> outcome[c] \in Codes \cup {"QueryFailed"}

\* The promise of each call as its caller sees it.
Promise == [c \in Calls |-> IF phase[c] = "idle" THEN "idle"
                            ELSE IF phase[c] = "done" THEN outcome[c]
                            ELSE "pending"]

\* The calls implement the abstract promise of TxDelivery, its liveness too.
Delivery == INSTANCE TxDelivery WITH
    watched <- target,
    promise <- Promise,
    fate <- code,
    expired <- {c \in Calls : timer[c] = "fired"}

\* Each call of broadcastTx and pollForTxResult behaves as TxDelivery allows:
\* it settles once, with the fate the chain decided, with a TimeoutError after
\* its deadline, or with an error.
ImplementsDelivery == Delivery!FairSpec

\* What the comment on broadcastTx says (finschiaclient.ts 344-347): a
\* transaction that is in a block before the timeout is returned as a
\* DeliverTxResponse, never reported as a TimeoutError.
DocIncludedInTimeIsReported ==
    \A c \in Calls : outcome[c] = "TimeoutError" =>
        atExpiry[c] \notin {"included", "indexed"}
=============================================================================
