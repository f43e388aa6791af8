----------------------------- MODULE TxDelivery -----------------------------
(***************************************************************************)
(* What broadcastTx and pollForTxResult promise their caller               *)
(* (finschiaclient.ts 338-348), with no polling, no timer handle and no    *)
(* node: a call watches one transaction, the chain decides the fate of     *)
(* each transaction once, and the promise of a call settles once, with the *)
(* fate the chain decided, with a TimeoutError after its deadline, or with *)
(* an error that promises nothing.                                         *)
(***************************************************************************)
CONSTANTS Calls, Txs, NoTx

VARIABLES
    watched,  \* the transaction each started call is about
    promise,  \* the state of the promise each call returned
    fate,     \* the code the chain gave each transaction, or "none"
    expired   \* the calls whose deadline has passed

vars == <<watched, promise, fate, expired>>

Fates == {"success", "failure"}
Errors == {"BroadcastTxError", "BroadcastFailed", "QueryFailed"}
Settled == Fates \cup Errors \cup {"TimeoutError"}

Init ==
    /\ watched = [c \in Calls |-> NoTx]
    /\ promise = [c \in Calls |-> "idle"]
    /\ fate = [t \in Txs |-> "none"]
    /\ expired = {}

\* The application calls the client for transaction t.  The promise may be
\* rejected before the call returns (a client in offline mode).
Start(c) ==
    /\ promise[c] = "idle"
    /\ \E t \in Txs : watched' = [watched EXCEPT ![c] = t]
    /\ \E p \in {"pending", "BroadcastFailed"} :
           promise' = [promise EXCEPT ![c] = p]
    /\ UNCHANGED <<fate, expired>>

Decide(t) ==
    /\ fate[t] = "none"
    /\ \E f \in Fates : fate' = [fate EXCEPT ![t] = f]
    /\ UNCHANGED <<watched, promise, expired>>

Expire(c) ==
    /\ promise[c] # "idle"
    /\ c \notin expired
    /\ expired' = expired \cup {c}
    /\ UNCHANGED <<watched, promise, fate>>

Settle(c) ==
    /\ promise[c] = "pending"
    /\ \E p \in Settled :
           /\ p \in Fates => fate[watched[c]] = p
           /\ p = "TimeoutError" => c \in expired
           /\ promise' = [promise EXCEPT ![c] = p]
    /\ UNCHANGED <<watched, fate, expired>>

Next ==
    \/ \E c \in Calls : Start(c) \/ Expire(c) \/ Settle(c)
    \/ \E t \in Txs : Decide(t)

Spec == Init /\ [][Next]_vars

\* No promise stays pending for ever.
FairSpec == Spec /\ \A c \in Calls : WF_vars(Settle(c))
=============================================================================
