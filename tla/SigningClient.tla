---------------------------- MODULE SigningClient ----------------------------
(***************************************************************************)
(* SigningFinschiaClient: concurrent signing calls for ONE account, from   *)
(* simulate and getSequence through the wallet to broadcastTx              *)
(* (signingfinschiaclient.ts 164-181, 634-781).  Broadcasting and polling  *)
(* are the actions of TxPolling; the node of ChainNode is narrowed to one  *)
(* that protects the account's sequence, as the ante handler of the chain  *)
(* does.                                                                   *)
(*                                                                         *)
(* A transaction is the message, the sequence it was signed for, and       *)
(* whether the wallet edited the document before it signed: the same       *)
(* message signed for the same sequence is the same bytes and hash.        *)
(***************************************************************************)
EXTENDS Integers, FiniteSets

CONSTANTS
    Calls, NoTx, NoMsg,
    Msgs,       \* the messages the application sends
    Foreign,    \* messages other clients of the same account send
    Async,      \* those of swapAndBridge with asyncBroadcast
    Lossy,      \* messages AminoTypes cannot convert back (AminoTypes module)
    Edits,      \* {FALSE}, or BOOLEAN if the wallet may edit what it signs
    Explicit,   \* the sequences passed as explicitSignerData
    MaxSeq,     \* bound: the last sequence that is signed for
    MaxForeign, \* bound: other clients only use the sequences below it
    Policies,   \* when the application makes its next call
    Drops       \* whether the mempool may lose a transaction

ASSUME SigningAssumption ==
    /\ MaxSeq \in Nat /\ MaxForeign \in Nat
    /\ Explicit \subseteq 0..MaxSeq
    /\ Edits \subseteq BOOLEAN
    /\ Lossy \subseteq Msgs /\ Async \subseteq Msgs
    /\ NoMsg \notin Msgs
    /\ Msgs \cap Foreign = {}
    /\ Policies \subseteq {"free", "await", "retry"}
    /\ Drops \in BOOLEAN

Txs == [msg : Msgs \cup Foreign, seq : 0..MaxSeq, edited : Edits \cup {FALSE}]

ASSUME NoTxAssumption == NoTx \notin Txs

VARIABLES
    status, code, online, method, target, phase, timer, rpc, outcome,
    admitted, late, atExpiry,  \* the variables of TxPolling
    sequence,    \* the account's sequence in the last block
    chainId,     \* the client knows the chain id (the chainId field)
    aminoSigner, \* the signer is an OfflineAminoSigner, not a direct one
    policy,      \* the application's policy, for all its calls
    step,        \* where each call is before its broadcast
    request,     \* the message each call sends
    sequenceRead,\* the sequence each call signs for
    failure,     \* what a call that was not handed to broadcastTx ended with
    wire,        \* transactions sent by broadcastTxAsync, not yet at the node
    signed,      \* history: what the wallet signed in each call
    mismatched   \* history: calls refused because of their sequence

Poll == INSTANCE TxPolling

pollVars == <<status, code, online, method, target, phase, timer, rpc, outcome,
              admitted, late, atExpiry>>
signVars == <<chainId, aminoSigner, policy, step, request, sequenceRead, failure, wire,
              signed, mismatched>>
vars == <<pollVars, sequence, signVars>>

Steps == {"idle", "simulating", "readingSequence", "readingChainId", "signing",
          "sending", "broadcast", "done"}
Failures == {"none", "SigningFailed", "hash", "BroadcastFailed"}

Init ==
    /\ Poll!Init
    /\ sequence = 0
    /\ chainId = FALSE
    /\ aminoSigner \in BOOLEAN
    /\ policy \in Policies
    /\ step = [c \in Calls |-> "idle"]
    /\ request = [c \in Calls |-> NoMsg]
    /\ sequenceRead = [c \in Calls |-> 0]
    /\ failure = [c \in Calls |-> "none"]
    /\ wire = {}
    /\ signed = [c \in Calls |-> {}]
    /\ mismatched = {}

\* What the promise of the call settled with, "none" while it is pending.
Result(c) == IF step[c] = "broadcast" THEN outcome[c] ELSE failure[c]

-----------------------------------------------------------------------------
(* The application *)

\* "free" calls whenever it likes; "await", the only user of the account, waits
\* for the DeliverTxResponse of every earlier call; "retry" repeats a message
\* only after an error that says that nothing was broadcast.
MayCall(m) ==
    /\ policy = "await" =>
          \A d \in Calls : step[d] # "idle" => Result(d) \in Poll!Codes
    /\ policy = "retry" =>
          \A d \in Calls : request[d] = m =>
              Result(d) \in {"BroadcastTxError", "SigningFailed"}

\* signAndBroadcast (a fee "auto" or a number simulates first) and
\* swapAndBridge (its messages and fee are computed from queries; it never
\* simulates).
Call(c, m) ==
    /\ step[c] = "idle" /\ phase[c] = "idle"
    /\ MayCall(m)
    /\ request' = [request EXCEPT ![c] = m]
    /\ \E first \in {"simulating", "readingSequence"} :
           /\ m \in Async => first = "readingSequence"
           /\ step' = [step EXCEPT ![c] = first]
    /\ UNCHANGED <<pollVars, sequence, chainId, aminoSigner, policy, sequenceRead,
                   failure, wire, signed, mismatched>>

\* sign with explicitSignerData, then broadcastTx: no query is made.
CallExplicit(c, m, s) ==
    /\ step[c] = "idle" /\ phase[c] = "idle"
    /\ MayCall(m) /\ m \notin Async
    /\ policy # "await"  \* the sequence is the caller's own responsibility
    /\ request' = [request EXCEPT ![c] = m]
    /\ sequenceRead' = [sequenceRead EXCEPT ![c] = s]
    /\ step' = [step EXCEPT ![c] = "signing"]
    /\ UNCHANGED <<pollVars, sequence, chainId, aminoSigner, policy, failure, wire,
                   signed, mismatched>>

\* pollForTxResult of a hash that an asynchronous broadcast returned.
PollHash(c, d) ==
    /\ step[c] = "idle"
    /\ failure[d] = "hash"
    /\ \E t \in signed[d] : Poll!PollForTxResult(c, t)
    /\ UNCHANGED <<sequence, signVars>>

-----------------------------------------------------------------------------
(* The client, up to the broadcast *)

\* Faulty variant: the call ends with the step it was in, not with an error.
FailRaw(c) ==
    /\ step' = [step EXCEPT ![c] = "done"]
    /\ failure' = [failure EXCEPT ![c] = step[c]]

\* A query, the wallet or a conversion failed: the call rejects and nothing
\* was broadcast.
Fail(c) ==
    /\ step' = [step EXCEPT ![c] = "done"]
    /\ failure' = [failure EXCEPT ![c] = "SigningFailed"]

\* simulate: the gas estimate, from a sequence of its own that is then dropped.
Simulate(c) ==
    /\ step[c] = "simulating"
    /\ \/ online /\ step' = [step EXCEPT ![c] = "readingSequence"] /\ UNCHANGED failure
       \/ Fail(c)
    /\ UNCHANGED <<pollVars, sequence, chainId, aminoSigner, policy, request,
                   sequenceRead, wire, signed, mismatched>>

\* Faulty variant: the sequence is kept like the chain id.
ReadSequenceOnce(c) ==
    /\ step[c] = "readingSequence"
    /\ \/ /\ online
          /\ sequenceRead' = [sequenceRead EXCEPT ![c] = IF chainId THEN 0 ELSE sequence]
          /\ step' = [step EXCEPT ![c] =
                        IF chainId THEN "signing" ELSE "readingChainId"]
          /\ UNCHANGED failure
       \/ Fail(c) /\ UNCHANGED sequenceRead
    /\ UNCHANGED <<pollVars, sequence, chainId, aminoSigner, policy, request, wire,
                   signed, mismatched>>

\* getSequence reads the state of the last block, not the mempool; getChainId
\* makes a request only if the client does not know the chain id.
ReadSequence(c) ==
    /\ step[c] = "readingSequence"
    /\ \/ /\ online /\ sequence <= MaxSeq
          /\ sequenceRead' = [sequenceRead EXCEPT ![c] = sequence]
          /\ step' = [step EXCEPT ![c] =
                        IF chainId THEN "signing" ELSE "readingChainId"]
          /\ UNCHANGED failure
       \/ Fail(c) /\ UNCHANGED sequenceRead
    /\ UNCHANGED <<pollVars, sequence, chainId, aminoSigner, policy, request, wire,
                   signed, mismatched>>

ReadChainId(c) ==
    /\ step[c] = "readingChainId"
    /\ \/ /\ chainId' = TRUE
          /\ step' = [step EXCEPT ![c] = "signing"]
          /\ UNCHANGED failure
       \/ Fail(c) /\ UNCHANGED chainId
    /\ UNCHANGED <<pollVars, sequence, aminoSigner, policy, request, sequenceRead, wire,
                   signed, mismatched>>

\* The document the client gives to the wallet, as it is or edited.
SignDoc(c, edit) == [msg |-> request[c], seq |-> sequenceRead[c], edited |-> edit]

\* Faulty variant: the body is encoded from the caller's messages.
SignedTxFromRequest(c, doc) == SignDoc(c, FALSE)

\* The transaction is built from what the wallet signed, not from what it was
\* asked to sign.
SignedTx(c, doc) == doc

\* The wallet has no such account or its user says no.
WalletDeclines(c) ==
    /\ step[c] = "signing"
    /\ Fail(c)
    /\ UNCHANGED <<pollVars, sequence, chainId, aminoSigner, policy, request,
                   sequenceRead, wire, signed, mismatched>>

WalletSigns(c, edit) ==
    LET doc == SignDoc(c, edit)
        tx == SignedTx(c, doc) IN
    /\ step[c] = "signing"
    /\ signed' = [signed EXCEPT ![c] = {doc}]
    /\ \/ /\ aminoSigner /\ request[c] \in Lossy  \* fromAmino throws
          /\ Fail(c)
          /\ UNCHANGED <<pollVars, wire>>
       \/ /\ ~ (aminoSigner /\ request[c] \in Lossy)
          /\ \/ /\ request[c] \notin Async
                /\ Poll!BroadcastTx(c, tx)
                /\ step' = [step EXCEPT ![c] = "broadcast"]
                /\ UNCHANGED <<failure, wire>>
             \/ /\ request[c] \in Async
                /\ wire' = wire \cup {tx}
                /\ step' = [step EXCEPT ![c] = "sending"]
                /\ UNCHANGED <<pollVars, failure>>
    /\ UNCHANGED <<sequence, chainId, aminoSigner, policy, request, sequenceRead,
                   mismatched>>

\* broadcastTxAsync answers with the hash before any CheckTx, or fails.
OnAsyncAnswer(c) ==
    /\ step[c] = "sending"
    /\ step' = [step EXCEPT ![c] = "done"]
    /\ \E f \in {"hash", "BroadcastFailed"} : failure' = [failure EXCEPT ![c] = f]
    /\ UNCHANGED <<pollVars, sequence, chainId, aminoSigner, policy, request,
                   sequenceRead, wire, signed, mismatched>>

-----------------------------------------------------------------------------
(* The node: the sequence of the account *)

\* The sequence CheckTx expects: the account's, past what the mempool holds.
CheckSequence ==
    sequence + Cardinality({t \in Txs : status[t] = "pooled"})

NodeAdmits(c) ==
    /\ Poll!NodeAdmits(c)
    /\ target[c].seq = CheckSequence
    /\ UNCHANGED <<sequence, signVars>>

\* CheckTx refuses a wrong sequence, or for another reason (fee, funds).
NodeRefuses(c) ==
    /\ Poll!NodeRefuses(c)
    /\ mismatched' = IF target[c].seq = CheckSequence THEN mismatched
                     ELSE mismatched \cup {c}
    /\ UNCHANGED <<sequence, chainId, aminoSigner, policy, step, request, sequenceRead,
                   failure, wire, signed>>

\* A transaction arrives without an answer to anyone: sent asynchronously or
\* by another client of the account.
Arrives(t) ==
    /\ Poll!NodeStep(t)
    /\ status[t] = "unknown"
    /\ t.seq = CheckSequence
    /\ \/ t \in wire
       \/ /\ t.msg \in Foreign /\ ~ t.edited
          /\ t.seq < MaxForeign
          /\ policy # "await"
    /\ wire' = wire \ {t}
    /\ UNCHANGED <<sequence, chainId, aminoSigner, policy, step, request, sequenceRead,
                   failure, signed, mismatched>>

\* The mempool loses its last transaction: a restart, an eviction.
Lost(t) ==
    /\ Drops
    /\ Poll!NodeStep(t)
    /\ status[t] = "pooled" /\ status'[t] = "unknown"
    /\ t.seq = CheckSequence - 1
    /\ UNCHANGED <<sequence, signVars>>

\* A block includes the transaction whose turn it is.
Committed(t) ==
    /\ Poll!NodeStep(t)
    /\ status[t] = "pooled" /\ status'[t] = "included"
    /\ t.seq = sequence
    /\ sequence' = sequence + 1
    /\ UNCHANGED signVars

Indexed(t) ==
    /\ Poll!NodeStep(t)
    /\ status[t] = "included"
    /\ UNCHANGED <<sequence, signVars>>

-----------------------------------------------------------------------------
\* What TxPolling does with a call that is handed to it.
PollStep(c) ==
    /\ Poll!ClientStep(c) \/ Poll!NodeSearches(c) \/ Poll!RpcFails(c)
    /\ UNCHANGED <<sequence, signVars>>

BeforeBroadcast(c) ==
    \/ Simulate(c)
    \/ ReadSequence(c)
    \/ ReadChainId(c)
    \/ OnAsyncAnswer(c)

Next ==
    \/ \E c \in Calls :
          \/ \E m \in Msgs :
                Call(c, m) \/ (\E s \in Explicit : CallExplicit(c, m, s))
          \/ \E d \in Calls : PollHash(c, d)
          \/ BeforeBroadcast(c)
          \/ WalletDeclines(c)
          \/ \E edit \in Edits : WalletSigns(c, edit)
          \/ PollStep(c)
          \/ NodeAdmits(c)
          \/ NodeRefuses(c)
    \/ \E t \in Txs :
          \/ Arrives(t)
          \/ Lost(t)
          \/ Committed(t)
          \/ Indexed(t)

Spec == Init /\ [][Next]_vars

\* The fairness of TxPolling, and the queries before the broadcast are
\* answered or fail.  The user of the wallet owes nothing.
Fairness ==
    \A c \in Calls :
        /\ WF_vars(BeforeBroadcast(c))
        /\ WF_vars(Poll!TimerFires(c) /\ PollStep(c))
        /\ WF_vars(Poll!OnBroadcastAnswer(c) /\ PollStep(c))
        /\ WF_vars(Poll!WakeUp(c) /\ PollStep(c))
        /\ WF_vars(Poll!OnQueryAnswer(c) /\ PollStep(c))
        /\ WF_vars((Poll!NodeSearches(c) \/ Poll!RpcFails(c)) /\ PollStep(c))

FairSpec == Spec /\ Fairness

-----------------------------------------------------------------------------
(* Properties *)

\* Every variable of the signing client keeps its type.
TypeOK ==
    /\ Poll!TypeOK
    /\ sequence \in Nat
    /\ chainId \in BOOLEAN
    /\ aminoSigner \in BOOLEAN
    /\ policy \in Policies
    /\ step \in [Calls -> Steps]
    /\ request \in [Calls -> Msgs \cup {NoMsg}]
    /\ sequenceRead \in [Calls -> 0..MaxSeq]
    /\ failure \in [Calls -> Failures]
    /\ wire \subseteq Txs
    /\ signed \in [Calls -> SUBSET Txs]
    /\ mismatched \subseteq Calls

\* What reaches the network is what the wallet signed in that very call, for
\* the message of that call (signAmino and signDirect build the TxRaw from
\* `signed`), and a call that failed before its broadcast sent nothing.
OnlySignedIsSent ==
    \A c \in Calls : step[c] # "idle" =>
        /\ step[c] = "broadcast" => target[c] \in signed[c] /\ target[c].msg = request[c]
        /\ failure[c] = "SigningFailed" => target[c] = NoTx

\* An application that awaits the DeliverTxResponse of each call before the
\* next one never sees its sequence refused, if nobody else uses the account:
\* getSequence reads committed state, and a response means the transaction
\* is committed.
AwaitedCallsNeverMismatch == policy = "await" => mismatched = {}

\* One execution never answers two calls, not even two calls with the same
\* message and the same sequence, whose transactions are the same bytes: the
\* second broadcast is refused, so its caller is not told of a payment that
\* never happened (Drops = FALSE).
ResponsesAreDistinct ==
    \A c, d \in Calls :
        /\ method[c] = "broadcastTx" /\ method[d] = "broadcastTx"
        /\ outcome[c] \in Poll!Codes /\ outcome[d] \in Poll!Codes
        /\ target[c] = target[d]
        => c = d

\* An application that repeats a message only after a BroadcastTxError or an
\* error raised before the broadcast never has it executed twice.
RetriesExecuteOnce ==
    policy = "retry" => \A t, u \in Txs :
        /\ t.msg = u.msg /\ t.msg \in Msgs
        /\ status[t] \in {"included", "indexed"}
        /\ status[u] \in {"included", "indexed"}
        => t = u

\* A call ends, unless it waits for the user of the wallet.
EveryCallEnds ==
    \A c \in Calls :
        step[c] \notin {"idle", "signing"}
            ~> step[c] = "signing" \/ Result(c) # "none"
=============================================================================
