------------------------ MODULE SigningOutcomeProofs ------------------------
(***************************************************************************)
(* What the outcomes of concurrent signing calls say about the chain: no   *)
(* execution answers two calls, a message repeated after an error that     *)
(* promises "not broadcast" is executed once, and an application that      *)
(* awaits its responses never has a sequence refused.  For every set of    *)
(* calls and messages.                                                     *)
(*                                                                         *)
(* The calls of SigningClient are calls of TxPolling, so what TxPolling's  *)
(* inductive invariant says of them is used here and not proved again.     *)
(***************************************************************************)
EXTENDS SigningClientProofs, FiniteSetTheorems

PollProofs == INSTANCE TxPollingProofs

-----------------------------------------------------------------------------
(* What TxPolling guarantees about the calls                               *)

\* Poll and PollProofs are instances of the same definitions: a step of one is
\* a step of the other.
LEMMA SameInit == Poll!Init => PollProofs!Init
BY DEF Poll!Init, PollProofs!Init, Poll!NodeInit, PollProofs!NodeInit

LEMMA SameNext == [Poll!Next]_(Poll!vars) => [PollProofs!Next]_(PollProofs!vars)
<1> USE DEF Poll!Codes, PollProofs!Codes, Poll!nodeVars, PollProofs!nodeVars,
        Poll!callVars, PollProofs!callVars, Poll!history, PollProofs!history,
        Poll!MaxLate, PollProofs!MaxLate, Poll!Send, PollProofs!Send,
        Poll!Settle, PollProofs!Settle, Poll!Sleep, PollProofs!Sleep,
        Poll!Leave, PollProofs!Leave, Poll!PollForTx, PollProofs!PollForTx,
        Poll!Admit, PollProofs!Admit
<1>1. ASSUME NEW c \in Calls, NEW t \in Txs, Poll!BroadcastTx(c, t)
      PROVE  PollProofs!BroadcastTx(c, t)
  BY <1>1 DEF Poll!BroadcastTx, PollProofs!BroadcastTx
<1>2. ASSUME NEW c \in Calls, NEW t \in Txs, Poll!PollForTxResult(c, t)
      PROVE  PollProofs!PollForTxResult(c, t)
  BY <1>2 DEF Poll!PollForTxResult, PollProofs!PollForTxResult
<1>3. ASSUME NEW c \in Calls, Poll!ClientStep(c) PROVE PollProofs!ClientStep(c)
  BY <1>3 DEF Poll!ClientStep, PollProofs!ClientStep,
              Poll!TimerFires, PollProofs!TimerFires,
              Poll!OnBroadcastAnswer, PollProofs!OnBroadcastAnswer,
              Poll!WakeUp, PollProofs!WakeUp,
              Poll!OnQueryAnswer, PollProofs!OnQueryAnswer
<1>4. ASSUME NEW c \in Calls, Poll!RpcStep(c) PROVE PollProofs!RpcStep(c)
  BY <1>4 DEF Poll!RpcStep, PollProofs!RpcStep,
              Poll!NodeAdmits, PollProofs!NodeAdmits,
              Poll!NodeRefuses, PollProofs!NodeRefuses,
              Poll!NodeSearches, PollProofs!NodeSearches,
              Poll!RpcFails, PollProofs!RpcFails
<1>5. ASSUME NEW t \in Txs, Poll!NodeStep(t) PROVE PollProofs!NodeStep(t)
  BY <1>5 DEF Poll!NodeStep, PollProofs!NodeStep, Poll!Drop, PollProofs!Drop,
              Poll!Include, PollProofs!Include, Poll!Index, PollProofs!Index
<1>6. Poll!vars = PollProofs!vars /\ Poll!vars' = PollProofs!vars'
  BY DEF Poll!vars, PollProofs!vars
<1> QED
  BY <1>1, <1>2, <1>3, <1>4, <1>5, <1>6 DEF Poll!Next, PollProofs!Next

\* The inductive invariant of TxPolling holds of the signing client's calls:
\* broadcastTx and pollForTxResult behave as they do on their own, although the
\* node now also checks the sequence of the account.
THEOREM CallsPollCorrectly == Spec => []PollProofs!IInv
<1>1. Poll!Spec => PollProofs!Spec
  BY SameInit, SameNext, PTL DEF Poll!Spec, PollProofs!Spec
<1> QED
  BY <1>1, SigningRefinesPolling, PollProofs!InductiveInvariant, NoTxAssumption, PTL

\* The part of it that the proofs below use.
PollInv ==
    /\ Poll!TypeOK
    /\ \A c \in Calls :
          /\ phase[c] = "done" <=> outcome[c] # "none"
          /\ phase[c] = "idle" => c \notin admitted
          /\ phase[c] = "broadcasting" => method[c] = "broadcastTx"
          /\ phase[c] = "broadcasting" /\ rpc[c] \in {"sent", "refused"} =>
                c \notin admitted
          /\ outcome[c] \in Poll!Codes => status[target[c]] = "indexed"
          /\ method[c] = "broadcastTx" =>
                /\ outcome[c] = "BroadcastTxError" => c \notin admitted
                /\ outcome[c] \in Poll!Codes => c \in admitted

LEMMA PollInvHolds == PollProofs!IInv => PollInv
BY DEF PollProofs!IInv, PollProofs!TypeOK, Poll!TypeOK, PollProofs!NodeTypeOK,
   Poll!NodeTypeOK, PollProofs!Methods, Poll!Methods, PollProofs!Phases, Poll!Phases,
   PollProofs!Timers, Poll!Timers, PollProofs!Rpcs, Poll!Rpcs,
   PollProofs!BroadcastAnswers, Poll!BroadcastAnswers,
   PollProofs!QueryAnswers, Poll!QueryAnswers, PollProofs!Outcomes, Poll!Outcomes,
   PollProofs!Errors, Poll!Errors, PollProofs!Status, Poll!Status,
   PollProofs!Codes, Poll!Codes, PollProofs!PhaseInv, PollProofs!AdmissionInv,
   PollProofs!ResponseIsOnChain, PollProofs!OutcomeTellsAdmission, PollInv

-----------------------------------------------------------------------------
(* What a step changes                                                     *)

\* A call that waits for an answer, or ends, changes neither the node nor what
\* a call is about, starts no call, and leaves what has settled alone.
LEMMA PollStepEffect ==
    ASSUME PollInv, NEW c \in Calls, PollStep(c)
    PROVE  /\ UNCHANGED <<status, method, target, admitted, sequence, signVars>>
           /\ \A d \in Calls :
                 /\ phase'[d] = "idle" <=> phase[d] = "idle"
                 /\ phase'[d] = "broadcasting" => phase[d] = "broadcasting"
                 /\ phase'[d] = "broadcasting" /\ rpc'[d] = "sent" => rpc[d] = "sent"
                 /\ phase[d] = "done" => outcome'[d] = outcome[d]
<1> USE DEF PollInv, Poll!TypeOK, Poll!nodeVars, Poll!history
<1>0. UNCHANGED <<sequence, signVars>>
  BY DEF PollStep
<1>1. CASE Poll!TimerFires(c)
  BY <1>0, <1>1 DEF Poll!TimerFires
<1>2. CASE Poll!OnBroadcastAnswer(c)
  BY <1>0, <1>2
     DEF Poll!OnBroadcastAnswer, Poll!PollForTx, Poll!Settle, Poll!Sleep, Poll!Leave
<1>3. CASE Poll!WakeUp(c)
  BY <1>0, <1>3 DEF Poll!WakeUp, Poll!Send, Poll!Settle
<1>4. CASE Poll!OnQueryAnswer(c)
  BY <1>0, <1>4 DEF Poll!OnQueryAnswer, Poll!PollForTx, Poll!Settle, Poll!Sleep
<1>5. CASE Poll!NodeSearches(c) \/ Poll!RpcFails(c)
  BY <1>0, <1>5 DEF Poll!NodeSearches, Poll!RpcFails
<1> QED
  BY <1>1, <1>2, <1>3, <1>4, <1>5 DEF PollStep, Poll!ClientStep

\* CheckTx answers a broadcast that was sent.
LEMMA NodeAdmitsEffect ==
    ASSUME PollInv, NEW c \in Calls, NodeAdmits(c)
    PROVE  /\ phase[c] = "broadcasting" /\ rpc[c] = "sent"
           /\ target[c] \in Txs /\ status[target[c]] = "unknown"
           /\ status' = [status EXCEPT ![target[c]] = "pooled"]
           /\ admitted' = admitted \cup {c}
           /\ rpc'[c] # "sent"
           /\ \A d \in Calls : d # c => rpc'[d] = rpc[d]
           /\ UNCHANGED <<method, target, phase, outcome, sequence, signVars>>
BY DEF NodeAdmits, Poll!NodeAdmits, Poll!Admit, PollInv, Poll!TypeOK

LEMMA NodeRefusesEffect ==
    ASSUME PollInv, NEW c \in Calls, NodeRefuses(c)
    PROVE  /\ phase[c] = "broadcasting" /\ rpc[c] = "sent"
           /\ rpc'[c] # "sent"
           /\ \A d \in Calls : d # c => rpc'[d] = rpc[d]
           /\ UNCHANGED <<status, method, target, phase, outcome, admitted, sequence>>
           /\ UNCHANGED <<chainId, aminoSigner, policy, step, request, sequenceRead,
                          failure, wire, signed>>
BY DEF NodeRefuses, Poll!NodeRefuses, Poll!nodeVars, Poll!history, PollInv, Poll!TypeOK

\* The node moves one transaction, from one status to the next; only a mempool
\* that may lose transactions moves one back.
LEMMA NodeStepEffect ==
    ASSUME PollInv, NEW t \in Txs, Arrives(t) \/ Lost(t) \/ Committed(t) \/ Indexed(t)
    PROVE  /\ UNCHANGED <<method, target, phase, rpc, outcome, admitted>>
           /\ UNCHANGED <<chainId, aminoSigner, policy, step, request, sequenceRead,
                          failure, signed, mismatched>>
           /\ wire' \subseteq wire
           /\ \/ /\ Arrives(t)
                 /\ status[t] = "unknown"
                 /\ status' = [status EXCEPT ![t] = "pooled"]
                 /\ UNCHANGED sequence
              \/ /\ Drops
                 /\ status[t] = "pooled"
                 /\ status' = [status EXCEPT ![t] = "unknown"]
                 /\ UNCHANGED sequence
              \/ /\ status[t] = "pooled"
                 /\ status' = [status EXCEPT ![t] = "included"]
              \/ /\ status[t] = "included"
                 /\ status' = [status EXCEPT ![t] = "indexed"]
                 /\ UNCHANGED sequence
<1> USE DEF PollInv, Poll!TypeOK, Poll!NodeTypeOK, Poll!NodeStep, Poll!Admit, Poll!Drop,
        Poll!Include, Poll!Index, Poll!callVars, Poll!history, signVars
<1>1. CASE Arrives(t)
  BY <1>1 DEF Arrives
<1>2. CASE Lost(t)
  BY <1>2 DEF Lost
<1>3. CASE Committed(t)
  BY <1>3 DEF Committed
<1>4. CASE Indexed(t)
  BY <1>4 DEF Indexed
<1> QED
  BY <1>1, <1>2, <1>3, <1>4

\* broadcastTx of a signed transaction starts an idle call, and no other.
LEMMA BroadcastEffect ==
    ASSUME PollInv, NEW c \in Calls, NEW t \in Txs, Poll!BroadcastTx(c, t)
    PROVE  /\ phase[c] = "idle" /\ phase'[c] # "idle"
           /\ method' = [method EXCEPT ![c] = "broadcastTx"]
           /\ target' = [target EXCEPT ![c] = t]
           /\ \A d \in Calls \ {c} :
                 phase'[d] = phase[d] /\ rpc'[d] = rpc[d] /\ outcome'[d] = outcome[d]
           /\ outcome'[c] \in {"none", "BroadcastFailed"}
           /\ UNCHANGED <<status, admitted>>
BY DEF Poll!BroadcastTx, Poll!Send, Poll!nodeVars, Poll!history, PollInv, Poll!TypeOK

\* Polling for a hash starts a call that does not broadcast.
LEMMA PollHashEffect ==
    ASSUME PollInv, NEW c \in Calls, NEW d \in Calls, PollHash(c, d)
    PROVE  /\ step[c] = "idle" /\ phase[c] = "idle" /\ c \notin admitted
           /\ phase'[c] = "sleeping"
           /\ method' = [method EXCEPT ![c] = "pollForTxResult"]
           /\ \A e \in Calls \ {c} :
                 phase'[e] = phase[e] /\ target'[e] = target[e]
           /\ UNCHANGED <<status, rpc, outcome, admitted, sequence, signVars>>
BY DEF PollHash, Poll!PollForTxResult, Poll!nodeVars, Poll!history, PollInv, Poll!TypeOK

\* Before it signs, and after it sent a transaction asynchronously, a call moves
\* on its own: the other calls and the node see nothing of it.
LEMMA PrivateEffect ==
    ASSUME ClientInv, NEW c \in Calls, BeforeBroadcast(c) \/ WalletDeclines(c)
    PROVE  /\ UNCHANGED <<pollVars, sequence, policy, request, wire, signed, mismatched>>
           /\ \A d \in Calls \ {c} :
                 /\ step'[d] = step[d] /\ failure'[d] = failure[d]
                 /\ sequenceRead'[d] = sequenceRead[d]
           /\ \/ /\ step[c] \in {"simulating", "readingSequence", "readingChainId"}
                 /\ step'[c] \in {"readingSequence", "readingChainId", "signing"}
                 /\ failure'[c] = failure[c]
                 /\ \/ step'[c] = "readingSequence"
                    \/ sequenceRead'[c] = sequence
                    \/ /\ step[c] = "readingChainId"
                       /\ sequenceRead'[c] = sequenceRead[c]
              \/ /\ step[c] \in {"simulating", "readingSequence", "readingChainId",
                                 "signing"}
                 /\ step'[c] = "done" /\ failure'[c] = "SigningFailed"
              \/ /\ step[c] = "sending"
                 /\ step'[c] = "done" /\ failure'[c] \in {"hash", "BroadcastFailed"}
<1> USE DEF ClientInv, ClientType, Fail
<1>1. CASE Simulate(c)
  BY <1>1 DEF Simulate
<1>2. CASE ReadSequence(c)
  BY <1>2 DEF ReadSequence
<1>3. CASE ReadChainId(c)
  BY <1>3 DEF ReadChainId
<1>4. CASE OnAsyncAnswer(c)
  BY <1>4 DEF OnAsyncAnswer
<1>5. CASE WalletDeclines(c)
  BY <1>5 DEF WalletDeclines
<1> QED
  BY <1>1, <1>2, <1>3, <1>4, <1>5 DEF BeforeBroadcast

\* The application starts an idle call for a message.
LEMMA CallEffect ==
    ASSUME ClientInv, NEW c \in Calls, NEW m \in Msgs,
           Call(c, m) \/ (\E s \in Explicit : CallExplicit(c, m, s))
    PROVE  /\ step[c] = "idle" /\ phase[c] = "idle"
           /\ MayCall(m)
           /\ request' = [request EXCEPT ![c] = m]
           /\ step'[c] \in {"simulating", "readingSequence", "signing"}
           /\ step'[c] = "signing" => policy # "await"
           /\ \A d \in Calls \ {c} : step'[d] = step[d] /\ sequenceRead'[d] = sequenceRead[d]
           /\ UNCHANGED <<pollVars, sequence, policy, failure, wire, signed, mismatched>>
BY DEF Call, CallExplicit, ClientInv, ClientType

\* The wallet signed tx in call c: the call fails, broadcasts or sends it.
SignedIn(c, tx) ==
    /\ tx.msg = request[c] /\ tx.seq = sequenceRead[c]
    /\ step[c] = "signing"
    /\ signed' = [signed EXCEPT ![c] = {tx}]
    /\ UNCHANGED <<status, admitted, sequence, policy, request, sequenceRead, mismatched>>
    /\ \A d \in Calls \ {c} :
          /\ step'[d] = step[d] /\ failure'[d] = failure[d]
          /\ phase'[d] = phase[d] /\ rpc'[d] = rpc[d] /\ outcome'[d] = outcome[d]
          /\ target'[d] = target[d] /\ method'[d] = method[d]
    /\ \/ /\ step'[c] = "done" /\ failure'[c] = "SigningFailed"
          /\ UNCHANGED <<phase, method, target, rpc, outcome, wire>>
       \/ /\ step'[c] = "broadcast" /\ failure'[c] = failure[c]
          /\ phase[c] = "idle" /\ phase'[c] # "idle"
          /\ method'[c] = "broadcastTx" /\ target'[c] = tx
          /\ outcome'[c] \in {"none", "BroadcastFailed"}
          /\ UNCHANGED wire
       \/ /\ step'[c] = "sending" /\ failure'[c] = failure[c]
          /\ wire' = wire \cup {tx}
          /\ UNCHANGED <<phase, method, target, rpc, outcome>>

LEMMA WalletEffect ==
    ASSUME ClientInv, PollInv, NEW c \in Calls, NEW edit \in Edits, WalletSigns(c, edit)
    PROVE  \E tx \in Txs : SignedIn(c, tx)
<1> DEFINE tx == SignDoc(c, edit)
<1> USE DEF ClientInv, ClientType
<1>1. tx \in Txs /\ tx.msg = request[c] /\ tx.seq = sequenceRead[c] /\ step[c] = "signing"
  BY SignedIsTx DEF WalletSigns, SignDoc
<1>2. /\ signed' = [signed EXCEPT ![c] = {tx}]
      /\ UNCHANGED <<sequence, policy, request, sequenceRead, mismatched>>
  BY DEF WalletSigns
<1>3. CASE Fail(c) /\ UNCHANGED <<pollVars, wire>>
  BY <1>1, <1>2, <1>3 DEF Fail, pollVars, SignedIn
<1>4. CASE /\ Poll!BroadcastTx(c, tx)
           /\ step' = [step EXCEPT ![c] = "broadcast"]
           /\ UNCHANGED <<failure, wire>>
  <2>1. /\ phase[c] = "idle" /\ phase'[c] # "idle"
        /\ method' = [method EXCEPT ![c] = "broadcastTx"]
        /\ target' = [target EXCEPT ![c] = tx]
        /\ \A d \in Calls \ {c} :
              phase'[d] = phase[d] /\ rpc'[d] = rpc[d] /\ outcome'[d] = outcome[d]
        /\ outcome'[c] \in {"none", "BroadcastFailed"}
        /\ UNCHANGED <<status, admitted>>
    BY <1>1, <1>4, BroadcastEffect
  <2> HIDE DEF tx
  <2>2. /\ \A d \in Calls \ {c} :
              step'[d] = step[d] /\ target'[d] = target[d] /\ method'[d] = method[d]
        /\ step'[c] = "broadcast" /\ target'[c] = tx /\ method'[c] = "broadcastTx"
    BY <1>4, <2>1 DEF PollInv, Poll!TypeOK
  <2> QED
    BY <1>1, <1>2, <1>4, <2>1, <2>2 DEF SignedIn
<1>5. CASE /\ wire' = wire \cup {tx}
           /\ step' = [step EXCEPT ![c] = "sending"]
           /\ UNCHANGED <<pollVars, failure>>
  BY <1>1, <1>2, <1>5 DEF pollVars, SignedIn
<1> QED
  BY <1>3, <1>4, <1>5 DEF WalletSigns, SignedTx

-----------------------------------------------------------------------------
(* Control: which steps a call has behind it                               *)

\* A call broadcasts at most one transaction, and only after its wallet signed.
ControlInv ==
    \A c \in Calls :
        /\ step[c] \notin {"broadcast", "sending", "done"} => signed[c] = {}
        /\ step[c] = "idle" => request[c] = NoMsg
        /\ failure[c] # "none" <=> step[c] = "done"
        /\ step[c] = "broadcast" <=> method[c] = "broadcastTx"
        /\ step[c] = "broadcast" => phase[c] # "idle"
        /\ c \in admitted => step[c] = "broadcast"
        /\ \A t, u \in signed[c] : t = u

LEMMA InitControlInv == Init => ControlInv
BY DEF Init, Poll!Init, ControlInv

\* What holds besides the property at hand.
Context == ClientInv /\ SentInv /\ PollInv /\ ControlInv

LEMMA NextControlInv ==
    ASSUME Context, [Next]_vars
    PROVE  ControlInv'
<1> USE DEF Context, ControlInv
<1>1. ASSUME NEW c \in Calls, NEW m \in Msgs,
             Call(c, m) \/ (\E s \in Explicit : CallExplicit(c, m, s))
      PROVE  ControlInv'
  BY <1>1, CallEffect DEF pollVars, ClientInv, ClientType
<1>2. ASSUME NEW c \in Calls, NEW d \in Calls, PollHash(c, d) PROVE ControlInv'
  BY <1>2, PollHashEffect DEF signVars, PollInv, Poll!TypeOK
<1>3. ASSUME NEW c \in Calls, BeforeBroadcast(c) \/ WalletDeclines(c) PROVE ControlInv'
  BY <1>3, PrivateEffect DEF pollVars
<1>4. ASSUME NEW c \in Calls, NEW edit \in Edits, WalletSigns(c, edit) PROVE ControlInv'
  <2>1. PICK tx \in Txs : SignedIn(c, tx)
    BY <1>4, WalletEffect
  <2> QED
    BY <2>1 DEF SignedIn, ClientInv, ClientType
<1>5. ASSUME NEW c \in Calls, PollStep(c) PROVE ControlInv'
  BY <1>5, PollStepEffect DEF signVars
<1>6. ASSUME NEW c \in Calls, NodeAdmits(c) PROVE ControlInv'
  BY <1>6, NodeAdmitsEffect DEF signVars, PollInv
<1>7. ASSUME NEW c \in Calls, NodeRefuses(c) PROVE ControlInv'
  BY <1>7, NodeRefusesEffect
<1>8. ASSUME NEW t \in Txs, Arrives(t) \/ Lost(t) \/ Committed(t) \/ Indexed(t)
      PROVE  ControlInv'
  BY <1>8, NodeStepEffect
<1>9. CASE UNCHANGED vars
  BY <1>9 DEF vars, pollVars, signVars
<1> QED
  BY <1>1, <1>2, <1>3, <1>4, <1>5, <1>6, <1>7, <1>8, <1>9 DEF Next

LEMMA ContextHolds == Spec => []Context
<1>1. Spec => []PollInv
  BY CallsPollCorrectly, PollInvHolds, PTL
<1>2. Init => ClientInv /\ SentInv /\ ControlInv
  BY InitClientInv, InitSentInv, InitControlInv
<1>3. ClientInv /\ SentInv /\ ControlInv /\ PollInv /\ [Next]_vars
         => ClientInv' /\ SentInv' /\ ControlInv'
  BY NextClientInv, NextSentInv, NextControlInv DEF Context
<1> QED
  BY <1>1, <1>2, <1>3, PTL DEF Spec, Context

-----------------------------------------------------------------------------
(* Type correctness                                                        *)

\* The part of the type invariant no other proof needs.
RestType ==
    /\ chainId \in BOOLEAN
    /\ aminoSigner \in BOOLEAN
    /\ policy \in Policies
    /\ wire \subseteq Txs
    /\ mismatched \subseteq Calls

LEMMA NextRestType == ASSUME Context, RestType, [Next]_vars PROVE RestType'
<1> USE DEF RestType, Context
<1>1. ASSUME NEW c \in Calls, NEW m \in Msgs,
             Call(c, m) \/ (\E s \in Explicit : CallExplicit(c, m, s))
      PROVE  RestType'
  BY <1>1 DEF Call, CallExplicit
<1>2. ASSUME NEW c \in Calls, NEW d \in Calls, PollHash(c, d) PROVE RestType'
  BY <1>2 DEF PollHash, signVars
<1>3. ASSUME NEW c \in Calls, BeforeBroadcast(c) \/ WalletDeclines(c) PROVE RestType'
  BY <1>3 DEF BeforeBroadcast, Simulate, ReadSequence, ReadChainId, OnAsyncAnswer,
              WalletDeclines
<1>4. ASSUME NEW c \in Calls, NEW edit \in Edits, WalletSigns(c, edit) PROVE RestType'
  BY <1>4, SignedIsTx DEF WalletSigns, SignedTx
<1>5. ASSUME NEW c \in Calls, PollStep(c) \/ NodeAdmits(c) \/ NodeRefuses(c)
      PROVE  RestType'
  BY <1>5 DEF PollStep, NodeAdmits, NodeRefuses, signVars
<1>6. ASSUME NEW t \in Txs, Arrives(t) \/ Lost(t) \/ Committed(t) \/ Indexed(t)
      PROVE  RestType'
  BY <1>6 DEF Arrives, Lost, Committed, Indexed, signVars
<1>7. CASE UNCHANGED vars
  BY <1>7 DEF vars, signVars
<1> QED
  BY <1>1, <1>2, <1>3, <1>4, <1>5, <1>6, <1>7 DEF Next

\* Every variable of the signing client, those of its polling included, keeps
\* its type: in particular no call signs for a sequence past MaxSeq.
THEOREM SigningTypes == Spec => []TypeOK
<1>1. Init => RestType
  BY DEF Init, RestType
<1>2. Context /\ RestType => TypeOK
  BY DEF Context, RestType, PollInv, ClientInv, ClientType, TypeOK
<1> QED
  BY <1>1, <1>2, ContextHolds, NextRestType, PTL DEF Spec

-----------------------------------------------------------------------------
(* One execution never answers two calls                                   *)

\* While the mempool loses nothing, what was admitted stays known to the node,
\* so the same bytes are never admitted for a second call.
DistinctInv ==
    ~ Drops =>
        /\ \A c \in admitted : status[target[c]] # "unknown"
        /\ \A c, d \in admitted : target[c] = target[d] => c = d

LEMMA NextDistinctInv == ASSUME Context, DistinctInv, [Next]_vars PROVE DistinctInv'
<1> USE DEF DistinctInv
<1>1. ASSUME NEW c \in Calls, NEW m \in Msgs,
             Call(c, m) \/ (\E s \in Explicit : CallExplicit(c, m, s))
      PROVE  DistinctInv'
  BY <1>1, CallEffect DEF pollVars, Context
<1>2. ASSUME NEW c \in Calls, NEW d \in Calls, PollHash(c, d) PROVE DistinctInv'
  BY <1>2, PollHashEffect DEF Context, PollInv, Poll!TypeOK
<1>3. ASSUME NEW c \in Calls, BeforeBroadcast(c) \/ WalletDeclines(c) PROVE DistinctInv'
  BY <1>3, PrivateEffect DEF pollVars, Context
<1>4. ASSUME NEW c \in Calls, NEW edit \in Edits, WalletSigns(c, edit) PROVE DistinctInv'
  <2>1. PICK tx \in Txs : SignedIn(c, tx)
    BY <1>4, WalletEffect DEF Context
  <2>2. c \notin admitted
    BY <2>1 DEF SignedIn, Context, ControlInv
  <2> QED
    BY <2>1, <2>2 DEF SignedIn, Context, PollInv, Poll!TypeOK
<1>5. ASSUME NEW c \in Calls, PollStep(c) PROVE DistinctInv'
  BY <1>5, PollStepEffect DEF Context
<1>6. ASSUME NEW c \in Calls, NodeAdmits(c) PROVE DistinctInv'
  BY <1>6, NodeAdmitsEffect DEF Context, PollInv, Poll!TypeOK, Poll!NodeTypeOK
<1>7. ASSUME NEW c \in Calls, NodeRefuses(c) PROVE DistinctInv'
  BY <1>7, NodeRefusesEffect DEF Context
<1>8. ASSUME NEW t \in Txs, Arrives(t) \/ Lost(t) \/ Committed(t) \/ Indexed(t)
      PROVE  DistinctInv'
  BY <1>8, NodeStepEffect DEF Context, PollInv, Poll!TypeOK, Poll!NodeTypeOK
<1>9. CASE UNCHANGED vars
  BY <1>9 DEF vars, pollVars
<1> QED
  BY <1>1, <1>2, <1>3, <1>4, <1>5, <1>6, <1>7, <1>8, <1>9 DEF Next

\* While the mempool loses nothing, one execution never answers two broadcastTx
\* calls: not even two calls of one account whose concurrent getSequence gave
\* them the same sequence, hence the same bytes for the same message.
THEOREM AnswersAreDistinct == ASSUME ~ Drops PROVE Spec => []ResponsesAreDistinct
<1>1. Init => DistinctInv
  BY DEF Init, Poll!Init, DistinctInv
<1>2. Context /\ DistinctInv => ResponsesAreDistinct
  BY DEF Context, PollInv, DistinctInv, ResponsesAreDistinct
<1> QED
  BY <1>1, <1>2, ContextHolds, NextDistinctInv, PTL DEF Spec

-----------------------------------------------------------------------------
(* Where the transactions on the chain come from                           *)

\* Call c sent t by broadcastTxAsync.
SentAsync(c, t) ==
    /\ t \in signed[c] /\ request[c] = t.msg
    /\ step[c] \in {"sending", "done"} /\ failure[c] # "SigningFailed"

SentBy(c, t) == (c \in admitted /\ target[c] = t) \/ SentAsync(c, t)

\* What is on the chain for a message of the application, some call sent; and
\* so everything, if nobody else uses the account.
SourceInv ==
    \A t \in Txs : t.msg \in Msgs \/ policy = "await" =>
        /\ status[t] # "unknown" => \E c \in Calls : SentBy(c, t)
        /\ t \in wire => \E c \in Calls : SentAsync(c, t)

\* A call that has sent a transaction has sent it for good.
LEMMA SentStays ==
    ASSUME Context, [Next]_vars, NEW c \in Calls, NEW t \in Txs
    PROVE  /\ SentAsync(c, t) => SentAsync(c, t)'
           /\ SentBy(c, t) => SentBy(c, t)'
<1> USE DEF SentAsync, SentBy, Context
<1> DEFINE Goal == (SentAsync(c, t) => SentAsync(c, t)') /\ (SentBy(c, t) => SentBy(c, t)')
<1>1. ASSUME NEW e \in Calls, NEW m \in Msgs,
             Call(e, m) \/ (\E s \in Explicit : CallExplicit(e, m, s))
      PROVE  Goal
  BY <1>1, CallEffect DEF pollVars, ClientInv, ClientType
<1>2. ASSUME NEW e \in Calls, NEW d \in Calls, PollHash(e, d) PROVE Goal
  BY <1>2, PollHashEffect DEF signVars
<1>3. ASSUME NEW e \in Calls, BeforeBroadcast(e) \/ WalletDeclines(e) PROVE Goal
  BY <1>3, PrivateEffect DEF pollVars, ControlInv
<1>4. ASSUME NEW e \in Calls, NEW edit \in Edits, WalletSigns(e, edit) PROVE Goal
  <2>1. PICK tx \in Txs : SignedIn(e, tx)
    BY <1>4, WalletEffect
  <2> QED
    BY <2>1 DEF SignedIn, ControlInv, ClientInv, ClientType
<1>5. ASSUME NEW e \in Calls, PollStep(e) PROVE Goal
  BY <1>5, PollStepEffect DEF signVars
<1>6. ASSUME NEW e \in Calls, NodeAdmits(e) PROVE Goal
  BY <1>6, NodeAdmitsEffect DEF signVars
<1>7. ASSUME NEW e \in Calls, NodeRefuses(e) PROVE Goal
  BY <1>7, NodeRefusesEffect
<1>8. ASSUME NEW u \in Txs, Arrives(u) \/ Lost(u) \/ Committed(u) \/ Indexed(u)
      PROVE  Goal
  BY <1>8, NodeStepEffect
<1>9. CASE UNCHANGED vars
  BY <1>9 DEF vars, pollVars, signVars
<1> QED
  BY <1>1, <1>2, <1>3, <1>4, <1>5, <1>6, <1>7, <1>8, <1>9 DEF Next

\* No call starts, and none is undone.
Running ==
    /\ UNCHANGED <<request, policy>>
    /\ \A c \in Calls : step'[c] = "idle" <=> step[c] = "idle"

\* Only the application starts a call and gives it its message.
LEMMA RequestStays ==
    ASSUME Context, [Next]_vars
    PROVE  \/ \E c \in Calls, m \in Msgs :
                  Call(c, m) \/ (\E s \in Explicit : CallExplicit(c, m, s))
           \/ Running
<1> USE DEF Context, Running
<1>1. ASSUME NEW c \in Calls, NEW d \in Calls, PollHash(c, d)
      PROVE  Running
  BY <1>1 DEF PollHash, signVars
<1>2. ASSUME NEW c \in Calls, BeforeBroadcast(c) \/ WalletDeclines(c)
      PROVE  Running
  BY <1>2, PrivateEffect
<1>3. ASSUME NEW c \in Calls, NEW edit \in Edits, WalletSigns(c, edit)
      PROVE  Running
  BY <1>3, WalletEffect DEF SignedIn
<1>4. ASSUME NEW c \in Calls, PollStep(c) \/ NodeAdmits(c) \/ NodeRefuses(c)
      PROVE  Running
  BY <1>4 DEF PollStep, NodeAdmits, NodeRefuses, signVars
<1>5. ASSUME NEW t \in Txs, Arrives(t) \/ Lost(t) \/ Committed(t) \/ Indexed(t)
      PROVE  Running
  BY <1>5, NodeStepEffect
<1>6. CASE UNCHANGED vars
  BY <1>6 DEF vars, signVars
<1> QED
  BY <1>1, <1>2, <1>3, <1>4, <1>5, <1>6 DEF Next

\* A transaction that becomes known to the node comes from a broadcast, from the
\* wire or from another client of the account.
LEMMA NewOnChain ==
    ASSUME Context, [Next]_vars, NEW t \in Txs, status[t] = "unknown",
           status'[t] # "unknown"
    PROVE  (\E c \in Calls : SentBy(c, t)') \/ t \in wire
           \/ (t.msg \in Foreign /\ policy # "await")
<1> USE DEF Context
<1>1. ASSUME NEW e \in Calls, NodeAdmits(e) PROVE SentBy(e, t)'
  BY <1>1, NodeAdmitsEffect DEF SentBy, PollInv, Poll!TypeOK, Poll!NodeTypeOK
<1>2. ASSUME NEW u \in Txs, Arrives(u) \/ Lost(u) \/ Committed(u) \/ Indexed(u)
      PROVE  t \in wire \/ (t.msg \in Foreign /\ policy # "await")
  BY <1>2, NodeStepEffect DEF Arrives, PollInv, Poll!TypeOK, Poll!NodeTypeOK
<1>3. ASSUME NEW c \in Calls, NEW m \in Msgs,
             Call(c, m) \/ (\E s \in Explicit : CallExplicit(c, m, s))
      PROVE  UNCHANGED status
  BY <1>3, CallEffect DEF pollVars
<1>4. ASSUME NEW c \in Calls, NEW d \in Calls, PollHash(c, d) PROVE UNCHANGED status
  BY <1>4, PollHashEffect
<1>5. ASSUME NEW c \in Calls, BeforeBroadcast(c) \/ WalletDeclines(c)
      PROVE  UNCHANGED status
  BY <1>5, PrivateEffect DEF pollVars
<1>6. ASSUME NEW c \in Calls, NEW edit \in Edits, WalletSigns(c, edit)
      PROVE  UNCHANGED status
  BY <1>6, WalletEffect DEF SignedIn
<1>7. ASSUME NEW c \in Calls, PollStep(c) \/ NodeRefuses(c) PROVE UNCHANGED status
  BY <1>7, PollStepEffect, NodeRefusesEffect
<1>8. CASE UNCHANGED vars
  BY <1>8 DEF vars, pollVars
<1> QED
  BY <1>1, <1>2, <1>3, <1>4, <1>5, <1>6, <1>7, <1>8 DEF Next

\* What is put on the wire was signed in the call that sends it.
LEMMA NewOnWire ==
    ASSUME Context, [Next]_vars, NEW t \in Txs, t \notin wire, t \in wire'
    PROVE  \E c \in Calls : SentAsync(c, t)'
<1> USE DEF Context
<1>1. ASSUME NEW c \in Calls, NEW edit \in Edits, WalletSigns(c, edit)
      PROVE  SentAsync(c, t)'
  <2>1. PICK tx \in Txs : SignedIn(c, tx)
    BY <1>1, WalletEffect
  <2> QED
    BY <2>1 DEF SignedIn, SentAsync, ControlInv, ClientInv, ClientType
<1>2. ASSUME NEW c \in Calls, NEW m \in Msgs,
             Call(c, m) \/ (\E s \in Explicit : CallExplicit(c, m, s))
      PROVE  FALSE
  BY <1>2, CallEffect
<1>3. ASSUME NEW c \in Calls, NEW d \in Calls, PollHash(c, d) PROVE FALSE
  BY <1>3, PollHashEffect DEF signVars
<1>4. ASSUME NEW c \in Calls, BeforeBroadcast(c) \/ WalletDeclines(c) PROVE FALSE
  BY <1>4, PrivateEffect
<1>5. ASSUME NEW c \in Calls, PollStep(c) \/ NodeAdmits(c) \/ NodeRefuses(c) PROVE FALSE
  BY <1>5, PollStepEffect, NodeAdmitsEffect, NodeRefusesEffect DEF signVars
<1>6. ASSUME NEW u \in Txs, Arrives(u) \/ Lost(u) \/ Committed(u) \/ Indexed(u)
      PROVE  FALSE
  BY <1>6, NodeStepEffect
<1>7. CASE UNCHANGED vars
  BY <1>7 DEF vars, signVars
<1> QED
  BY <1>1, <1>2, <1>3, <1>4, <1>5, <1>6, <1>7 DEF Next

LEMMA NextSourceInv == ASSUME Context, SourceInv, [Next]_vars PROVE SourceInv'
<1>p. policy' = policy
  BY RequestStays, CallEffect DEF Context, Running
<1> SUFFICES ASSUME NEW t \in Txs, t.msg \in Msgs \/ policy = "await"
             PROVE  /\ status'[t] # "unknown" => \E c \in Calls : SentBy(c, t)'
                    /\ t \in wire' => \E c \in Calls : SentAsync(c, t)'
  BY <1>p DEF SourceInv
<1>1. t.msg \notin Foreign \/ policy = "await"
  BY SigningAssumption
<1>2. ASSUME t \in wire' PROVE \E c \in Calls : SentAsync(c, t)'
  BY <1>2, NewOnWire, SentStays DEF SourceInv
<1>3. ASSUME t \in wire PROVE \E c \in Calls : SentBy(c, t)'
  BY <1>3, SentStays DEF SourceInv, SentBy
<1>4. ASSUME status'[t] # "unknown" PROVE \E c \in Calls : SentBy(c, t)'
  BY <1>1, <1>3, <1>4, NewOnChain, SentStays DEF SourceInv
<1> QED
  BY <1>2, <1>4

-----------------------------------------------------------------------------
(* A message repeated after a definite failure is executed once            *)

\* The call ended with an error that says that nothing was broadcast.
Dead(c) == Result(c) \in {"BroadcastTxError", "SigningFailed"}

\* What a call has settled with never changes.
LEMMA ResultStays ==
    ASSUME Context, [Next]_vars, NEW c \in Calls, Result(c) # "none"
    PROVE  Result(c)' = Result(c)
<1> USE DEF Result, Context
<1>1. ASSUME NEW e \in Calls, NEW m \in Msgs,
             Call(e, m) \/ (\E s \in Explicit : CallExplicit(e, m, s))
      PROVE  Result(c)' = Result(c)
  BY <1>1, CallEffect DEF pollVars
<1>2. ASSUME NEW e \in Calls, NEW d \in Calls, PollHash(e, d)
      PROVE  Result(c)' = Result(c)
  BY <1>2, PollHashEffect DEF signVars
<1>3. ASSUME NEW e \in Calls, BeforeBroadcast(e) \/ WalletDeclines(e)
      PROVE  Result(c)' = Result(c)
  BY <1>3, PrivateEffect DEF pollVars, ControlInv
<1>4. ASSUME NEW e \in Calls, NEW edit \in Edits, WalletSigns(e, edit)
      PROVE  Result(c)' = Result(c)
  <2>1. PICK tx \in Txs : SignedIn(e, tx)
    BY <1>4, WalletEffect
  <2> QED
    BY <2>1 DEF SignedIn, ControlInv
<1>5. ASSUME NEW e \in Calls, PollStep(e) PROVE Result(c)' = Result(c)
  BY <1>5, PollStepEffect DEF signVars, PollInv
<1>6. ASSUME NEW e \in Calls, NodeAdmits(e) \/ NodeRefuses(e) PROVE Result(c)' = Result(c)
  BY <1>6, NodeAdmitsEffect, NodeRefusesEffect DEF signVars
<1>7. ASSUME NEW t \in Txs, Arrives(t) \/ Lost(t) \/ Committed(t) \/ Indexed(t)
      PROVE  Result(c)' = Result(c)
  BY <1>7, NodeStepEffect
<1>8. CASE UNCHANGED vars
  BY <1>8 DEF vars, pollVars, signVars
<1> QED
  BY <1>1, <1>2, <1>3, <1>4, <1>5, <1>6, <1>7, <1>8 DEF Next

\* Of two calls with one message, one is dead: a retry needs a dead call.
RetryInv ==
    policy = "retry" => \A c, d \in Calls :
        request[c] = request[d] /\ request[c] # NoMsg /\ c # d => Dead(c) \/ Dead(d)

LEMMA NextRetryInv == ASSUME Context, RetryInv, [Next]_vars PROVE RetryInv'
<1>1. \A c \in Calls : Dead(c) => Dead(c)'
  BY ResultStays DEF Dead
<1>2. ASSUME NEW c \in Calls, NEW m \in Msgs,
             Call(c, m) \/ (\E s \in Explicit : CallExplicit(c, m, s))
      PROVE  RetryInv'
  <2>1. /\ step[c] = "idle"
        /\ request' = [request EXCEPT ![c] = m]
        /\ MayCall(m)
        /\ policy' = policy
    BY <1>2, CallEffect DEF Context
  <2>2. policy = "retry" => \A d \in Calls : request[d] = m => Dead(d)
    BY <2>1 DEF MayCall, Dead
  <2> QED
    BY <1>1, <2>1, <2>2 DEF RetryInv, Context, ClientInv, ClientType
<1>3. CASE Running
  BY <1>1, <1>3 DEF Running, RetryInv
<1> QED
  BY <1>2, <1>3, RequestStays

\* A call that sent a transaction is not dead, and sent it for its own message.
LEMMA SenderIsAlive ==
    ASSUME Context, NEW c \in Calls, NEW t \in Txs, SentBy(c, t)
    PROVE  ~ Dead(c) /\ request[c] = t.msg /\ t \in signed[c]
<1>1. CASE c \in admitted /\ target[c] = t
  BY <1>1 DEF Context, ControlInv, PollInv, SentInv, HandOverInv, Dead, Result,
              Poll!TypeOK, Poll!Outcomes, Poll!Errors, Poll!Codes
<1>2. CASE SentAsync(c, t)
  BY <1>2 DEF SentAsync, Context, ControlInv, ClientInv, ClientType, Failures, Dead, Result
<1> QED
  BY <1>1, <1>2 DEF SentBy

LEMMA RetryInvIsEnough ==
    ASSUME Context, SourceInv, RetryInv
    PROVE  RetriesExecuteOnce
<1> SUFFICES ASSUME policy = "retry", NEW t \in Txs, NEW u \in Txs,
                    t.msg = u.msg, t.msg \in Msgs,
                    status[t] # "unknown", status[u] # "unknown"
             PROVE  t = u
  BY DEF RetriesExecuteOnce
<1>1. PICK c \in Calls : SentBy(c, t)
  BY DEF SourceInv
<1>2. PICK d \in Calls : SentBy(d, u)
  BY DEF SourceInv
<1>3. c = d
  BY <1>1, <1>2, SenderIsAlive, SigningAssumption DEF RetryInv
<1> QED
  BY <1>1, <1>2, <1>3, SenderIsAlive DEF Context, ControlInv

LEMMA SourceHolds == Spec => []SourceInv
<1>1. Init => SourceInv
  BY DEF Init, Poll!Init, Poll!NodeInit, SourceInv
<1> QED
  BY <1>1, ContextHolds, NextSourceInv, PTL DEF Spec

\* An application that repeats a message only after a BroadcastTxError, or after
\* an error raised before the broadcast, never has it executed twice: however
\* many calls it makes and whatever gets lost.
THEOREM RetriesAreSafe == Spec => []RetriesExecuteOnce
<1>1. Init => RetryInv
  BY DEF Init, RetryInv
<1> QED
  BY <1>1, ContextHolds, SourceHolds, NextRetryInv, RetryInvIsEnough, PTL DEF Spec

-----------------------------------------------------------------------------
(* Awaiting every response keeps the sequence right                        *)

\* The call was made and has not been answered with a DeliverTxResponse.
Open(c) == step[c] # "idle" /\ Result(c) \notin Poll!Codes

OneOpen == \A c, d \in Calls : Open(c) /\ Open(d) => c = d

\* The sequence a call has read, or has on its way to CheckTx, is the current
\* one.
SequenceIsCurrent ==
    \A c \in Calls :
        /\ step[c] \in {"readingChainId", "signing"} => sequenceRead[c] = sequence
        /\ phase[c] = "broadcasting" /\ rpc[c] = "sent" => target[c].seq = sequence

AwaitInv == policy = "await" => OneOpen /\ SequenceIsCurrent /\ mismatched = {}

\* A call that has not been answered by a result is open.
LEMMA PendingIsOpen ==
    ASSUME Context, NEW c \in Calls
    PROVE  /\ step[c] \notin {"idle", "broadcast"} => Open(c)
           /\ phase[c] = "broadcasting" => step[c] = "broadcast" /\ Open(c)
BY DEF Context, ControlInv, ClientInv, ClientType, Failures, PollInv, Open, Result,
   Poll!Codes

\* A transaction that is not in the index yet is that of an open call.
LEMMA SenderIsOpen ==
    ASSUME Context, NEW c \in Calls, NEW t \in Txs, SentBy(c, t), status[t] # "indexed"
    PROVE  Open(c)
<1>1. CASE c \in admitted /\ target[c] = t
  BY <1>1 DEF Context, ControlInv, PollInv, Open, Result
<1>2. CASE SentAsync(c, t)
  BY <1>2, PendingIsOpen DEF SentAsync
<1> QED
  BY <1>1, <1>2 DEF SentBy

\* While the only open call has sent nothing, every transaction of the account
\* is in the index, and the mempool is empty.
LEMMA NothingPending ==
    ASSUME Context, SourceInv, AwaitInv, policy = "await", NEW c \in Calls, Open(c),
           c \notin admitted, step[c] \notin {"sending", "done"}, NEW t \in Txs
    PROVE  status[t] \in {"unknown", "indexed"}
<1> SUFFICES ASSUME status[t] # "unknown", status[t] # "indexed"
             PROVE  FALSE
  OBVIOUS
<1>1. PICK d \in Calls : SentBy(d, t)
  BY DEF SourceInv
<1>2. d = c
  BY <1>1, SenderIsOpen DEF AwaitInv, OneOpen
<1> QED
  BY <1>1, <1>2 DEF SentBy, SentAsync

\* An open call stays the only one: the application waits for its answer.
LEMMA NextOneOpen ==
    ASSUME Context, AwaitInv, policy = "await", [Next]_vars
    PROVE  OneOpen'
<1>1. ASSUME NEW c \in Calls, NEW m \in Msgs,
             Call(c, m) \/ (\E s \in Explicit : CallExplicit(c, m, s))
      PROVE  OneOpen'
  <2>1. /\ \A d \in Calls : ~ Open(d)
        /\ UNCHANGED <<pollVars, failure>>
        /\ \A d \in Calls \ {c} : step'[d] = step[d]
    BY <1>1, CallEffect DEF Context, MayCall, Open
  <2> QED
    BY <2>1 DEF OneOpen, Open, Result, pollVars
<1>2. CASE Running
  <2>1. ASSUME NEW c \in Calls, Open(c)' PROVE Open(c)
    BY <1>2, <2>1, ResultStays DEF Running, Open, Poll!Codes
  <2> QED
    BY <2>1 DEF AwaitInv, OneOpen
<1> QED
  BY <1>1, <1>2, RequestStays

LEMMA NextSequenceIsCurrent ==
    ASSUME Context, SourceInv, AwaitInv, policy = "await", [Next]_vars
    PROVE  SequenceIsCurrent'
<1> USE DEF SequenceIsCurrent
<1>0. Context /\ SequenceIsCurrent
  BY DEF AwaitInv
<1>1. ASSUME NEW c \in Calls, NEW m \in Msgs,
             Call(c, m) \/ (\E s \in Explicit : CallExplicit(c, m, s))
      PROVE  SequenceIsCurrent'
  BY <1>0, <1>1, CallEffect DEF Context, pollVars
<1>2. ASSUME NEW c \in Calls, NEW d \in Calls, PollHash(c, d) PROVE SequenceIsCurrent'
  BY <1>0, <1>2, PollHashEffect DEF Context, signVars
<1>3. ASSUME NEW c \in Calls, BeforeBroadcast(c) \/ WalletDeclines(c)
      PROVE  SequenceIsCurrent'
  BY <1>0, <1>3, PrivateEffect DEF Context, pollVars
<1>4. ASSUME NEW c \in Calls, NEW edit \in Edits, WalletSigns(c, edit)
      PROVE  SequenceIsCurrent'
  <2>1. PICK tx \in Txs : SignedIn(c, tx)
    BY <1>4, WalletEffect DEF Context
  <2>2. sequenceRead[c] = sequence /\ phase[c] # "broadcasting"
    BY <1>0, <2>1, PendingIsOpen DEF SignedIn
  <2> QED
    BY <1>0, <2>1, <2>2 DEF SignedIn
<1>5. ASSUME NEW c \in Calls, PollStep(c) PROVE SequenceIsCurrent'
  BY <1>0, <1>5, PollStepEffect DEF Context, signVars
<1>6. ASSUME NEW c \in Calls, NodeAdmits(c) \/ NodeRefuses(c) PROVE SequenceIsCurrent'
  BY <1>0, <1>6, NodeAdmitsEffect, NodeRefusesEffect DEF Context, signVars
<1>7. ASSUME NEW t \in Txs, Arrives(t) \/ Lost(t) \/ Committed(t) \/ Indexed(t)
      PROVE  SequenceIsCurrent'
  <2>1. CASE UNCHANGED sequence
    BY <1>0, <1>7, <2>1, NodeStepEffect DEF Context
  <2>2. CASE status[t] = "pooled"
    <3>1. ASSUME NEW c \in Calls,
                 \/ step[c] \in {"readingChainId", "signing"}
                 \/ phase[c] = "broadcasting" /\ rpc[c] = "sent"
          PROVE  FALSE
      <4>1. /\ Open(c) /\ c \notin admitted
            /\ step[c] \notin {"sending", "done"}
        BY <1>0, <3>1, PendingIsOpen DEF Context, ControlInv, PollInv
      <4> QED
        BY <1>0, <2>2, <4>1, NothingPending
    <3> QED
      BY <1>0, <1>7, <3>1, NodeStepEffect DEF Context
  <2> QED
    BY <1>0, <1>7, <2>1, <2>2, NodeStepEffect DEF Context
<1>8. CASE UNCHANGED vars
  BY <1>0, <1>8 DEF vars, pollVars, signVars
<1> QED
  BY <1>1, <1>2, <1>3, <1>4, <1>5, <1>6, <1>7, <1>8 DEF Next

\* The sequence CheckTx expects is the one the call has read.
LEMMA CurrentIsExpected ==
    ASSUME Context, SourceInv, AwaitInv, policy = "await",
           NEW c \in Calls, phase[c] = "broadcasting", rpc[c] = "sent"
    PROVE  target[c].seq = CheckSequence
<1>1. Open(c) /\ c \notin admitted /\ step[c] = "broadcast"
  BY PendingIsOpen DEF Context, PollInv
<1>2. {t \in Txs : status[t] = "pooled"} = {}
  BY <1>1, NothingPending
<1>3. CheckSequence = sequence
  BY <1>2, FS_EmptySet DEF CheckSequence, Context, ClientInv, ClientType
<1> QED
  BY <1>3 DEF AwaitInv, SequenceIsCurrent

LEMMA NextAwaitInv ==
    ASSUME Context, SourceInv, AwaitInv, [Next]_vars
    PROVE  AwaitInv'
<1>1. policy' = policy
  BY RequestStays, CallEffect DEF Context, Running
<1> SUFFICES ASSUME policy = "await" PROVE mismatched' = {}
  BY <1>1, NextOneOpen, NextSequenceIsCurrent DEF AwaitInv
<1>2. mismatched = {}
  BY DEF AwaitInv
<1>3. ASSUME NEW c \in Calls, NodeRefuses(c) PROVE mismatched' = mismatched
  <2>1. target[c].seq = CheckSequence
    BY <1>3, NodeRefusesEffect, CurrentIsExpected DEF Context
  <2> QED
    BY <1>3, <2>1 DEF NodeRefuses
<1>4. ASSUME NEW c \in Calls, NEW m \in Msgs,
             Call(c, m) \/ (\E s \in Explicit : CallExplicit(c, m, s))
      PROVE  mismatched' = mismatched
  BY <1>4 DEF Call, CallExplicit
<1>5. ASSUME NEW c \in Calls, NEW d \in Calls, PollHash(c, d)
      PROVE  mismatched' = mismatched
  BY <1>5 DEF PollHash, signVars
<1>6. ASSUME NEW c \in Calls, BeforeBroadcast(c) \/ WalletDeclines(c)
      PROVE  mismatched' = mismatched
  BY <1>6, PrivateEffect DEF Context
<1>7. ASSUME NEW c \in Calls, NEW edit \in Edits, WalletSigns(c, edit)
      PROVE  mismatched' = mismatched
  BY <1>7 DEF WalletSigns
<1>8. ASSUME NEW c \in Calls, PollStep(c) \/ NodeAdmits(c) PROVE mismatched' = mismatched
  BY <1>8 DEF PollStep, NodeAdmits, signVars
<1>9. ASSUME NEW t \in Txs, Arrives(t) \/ Lost(t) \/ Committed(t) \/ Indexed(t)
      PROVE  mismatched' = mismatched
  BY <1>9, NodeStepEffect DEF Context
<1>10. ASSUME UNCHANGED vars PROVE mismatched' = mismatched
  BY <1>10 DEF vars, signVars
<1> QED
  BY <1>2, <1>3, <1>4, <1>5, <1>6, <1>7, <1>8, <1>9, <1>10 DEF Next

\* An application that is the only user of its account and awaits each
\* DeliverTxResponse before its next call never has a sequence refused:
\* getSequence reads the last block, and nothing of the account is pending.
THEOREM AwaitingIsSafe == Spec => []AwaitedCallsNeverMismatch
<1>1. Init => AwaitInv
  BY DEF Init, Poll!Init, AwaitInv, OneOpen, SequenceIsCurrent, Open
<1>2. AwaitInv => AwaitedCallsNeverMismatch
  BY DEF AwaitInv, AwaitedCallsNeverMismatch
<1> QED
  BY <1>1, <1>2, ContextHolds, SourceHolds, NextAwaitInv, PTL DEF Spec
=============================================================================
