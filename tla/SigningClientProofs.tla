------------------------- MODULE SigningClientProofs -------------------------
(***************************************************************************)
(* Proofs about SigningClient, for every set of calls and messages and     *)
(* every policy: its calls are calls of TxPolling, and what they send is   *)
(* what the wallet signed in that call.                                    *)
(***************************************************************************)
EXTENDS SigningClient, TLAPS

-----------------------------------------------------------------------------
(* Every step is a step of TxPolling or leaves it alone.                   *)

\* The part of the type invariant that concerns the client.
ClientType ==
    /\ sequence \in Nat
    /\ step \in [Calls -> Steps]
    /\ request \in [Calls -> Msgs \cup {NoMsg}]
    /\ sequenceRead \in [Calls -> 0..MaxSeq]
    /\ failure \in [Calls -> Failures]
    /\ signed \in [Calls -> SUBSET Txs]

\* A call that was made sends a message of the application.
RequestInv == \A c \in Calls : step[c] # "idle" => request[c] \in Msgs

ClientInv == ClientType /\ RequestInv

LEMMA InitClientInv == Init => ClientInv
BY SigningAssumption DEF Init, ClientInv, ClientType, RequestInv, Steps, Failures

LEMMA SignedIsTx ==
    ASSUME ClientInv, NEW c \in Calls, step[c] = "signing", NEW edit \in Edits
    PROVE  SignDoc(c, edit) \in Txs
BY SigningAssumption DEF ClientInv, ClientType, RequestInv, SignDoc, Txs

\* The node's steps and those of a call that polls leave the client alone.
LEMMA OthersKeepClientInv ==
    ASSUME ClientInv,
           UNCHANGED <<step, request, sequenceRead, failure, signed>>,
           sequence' \in Nat
    PROVE  ClientInv'
BY DEF ClientInv, ClientType, RequestInv

LEMMA NextClientInv == ASSUME ClientInv, [Next]_vars PROVE ClientInv'
<1> USE SigningAssumption DEF ClientInv, ClientType, RequestInv, Steps, Failures
<1>1. ASSUME NEW c \in Calls, NEW m \in Msgs, Call(c, m) PROVE ClientInv'
  BY <1>1 DEF Call
<1>2. ASSUME NEW c \in Calls, NEW m \in Msgs, NEW s \in Explicit, CallExplicit(c, m, s)
      PROVE  ClientInv'
  BY <1>2 DEF CallExplicit
<1>3. ASSUME NEW c \in Calls, NEW d \in Calls, PollHash(c, d) PROVE ClientInv'
  BY <1>3, OthersKeepClientInv DEF PollHash, signVars
<1>4. ASSUME NEW c \in Calls, Simulate(c) PROVE ClientInv'
  BY <1>4 DEF Simulate, Fail
<1>5. ASSUME NEW c \in Calls, ReadSequence(c) PROVE ClientInv'
  BY <1>5 DEF ReadSequence, Fail
<1>6. ASSUME NEW c \in Calls, ReadChainId(c) PROVE ClientInv'
  BY <1>6 DEF ReadChainId, Fail
<1>7. ASSUME NEW c \in Calls, OnAsyncAnswer(c) PROVE ClientInv'
  BY <1>7 DEF OnAsyncAnswer
<1>8. ASSUME NEW c \in Calls, WalletDeclines(c) PROVE ClientInv'
  BY <1>8 DEF WalletDeclines, Fail
<1>9. ASSUME NEW c \in Calls, NEW edit \in Edits, WalletSigns(c, edit) PROVE ClientInv'
  <2>1. SignDoc(c, edit) \in Txs
    BY <1>9, SignedIsTx DEF WalletSigns
  <2> QED
    BY <1>9, <2>1 DEF WalletSigns, Fail
<1>10. ASSUME NEW c \in Calls, PollStep(c) \/ NodeAdmits(c) \/ NodeRefuses(c)
       PROVE  ClientInv'
  BY <1>10, OthersKeepClientInv DEF PollStep, NodeAdmits, NodeRefuses, signVars
<1>11. ASSUME NEW t \in Txs, Arrives(t) \/ Lost(t) \/ Committed(t) \/ Indexed(t)
       PROVE  ClientInv'
  BY <1>11, OthersKeepClientInv DEF Arrives, Lost, Committed, Indexed, signVars
<1>12. CASE UNCHANGED vars
  BY <1>12 DEF vars, signVars
<1> QED
  BY <1>1, <1>2, <1>3, <1>4, <1>5, <1>6, <1>7, <1>8, <1>9, <1>10, <1>11, <1>12
     DEF Next, BeforeBroadcast

\* A call past its first step carries a message of the application, and every
\* variable of the client keeps its type.
THEOREM ClientInvariant == Spec => []ClientInv
BY InitClientInv, NextClientInv, PTL DEF Spec

LEMMA UnchangedPoll == ASSUME UNCHANGED pollVars PROVE UNCHANGED Poll!vars
BY DEF pollVars, Poll!vars, Poll!nodeVars, Poll!callVars, Poll!history

LEMMA NextPolls == ASSUME ClientInv, [Next]_vars PROVE [Poll!Next]_(Poll!vars)
<1>1. ASSUME NEW c \in Calls, NEW d \in Calls, PollHash(c, d) PROVE Poll!Next
  <2>1. PICK t \in signed[d] : Poll!PollForTxResult(c, t)
    BY <1>1 DEF PollHash
  <2>2. t \in Txs
    BY <2>1 DEF ClientInv, ClientType
  <2> QED
    BY <2>1, <2>2 DEF Poll!Next
<1>2. ASSUME NEW c \in Calls, NEW edit \in Edits, WalletSigns(c, edit)
      PROVE  Poll!Next \/ UNCHANGED pollVars
  <2>1. SignDoc(c, edit) \in Txs
    BY <1>2, SignedIsTx DEF WalletSigns
  <2>2. Poll!BroadcastTx(c, SignDoc(c, edit)) \/ UNCHANGED pollVars
    BY <1>2 DEF WalletSigns, SignedTx
  <2> QED
    BY <2>1, <2>2 DEF Poll!Next
<1>3. ASSUME NEW c \in Calls, PollStep(c) \/ NodeAdmits(c) \/ NodeRefuses(c)
      PROVE  Poll!Next
  BY <1>3 DEF PollStep, NodeAdmits, NodeRefuses, Poll!Next, Poll!RpcStep
<1>4. ASSUME NEW t \in Txs, Arrives(t) \/ Lost(t) \/ Committed(t) \/ Indexed(t)
      PROVE  Poll!Next
  BY <1>4 DEF Arrives, Lost, Committed, Indexed, Poll!Next
<1>5. ASSUME NEW c \in Calls, NEW m \in Msgs,
             Call(c, m) \/ (\E s \in Explicit : CallExplicit(c, m, s))
      PROVE  UNCHANGED pollVars
  BY <1>5 DEF Call, CallExplicit
<1>6. ASSUME NEW c \in Calls, BeforeBroadcast(c) \/ WalletDeclines(c)
      PROVE  UNCHANGED pollVars
  BY <1>6 DEF BeforeBroadcast, Simulate, ReadSequence, ReadChainId, OnAsyncAnswer,
              WalletDeclines
<1>7. ASSUME UNCHANGED vars PROVE UNCHANGED pollVars
  BY <1>7 DEF vars
<1>8. Poll!Next \/ UNCHANGED pollVars
  <2>1. ASSUME NEW c \in Calls,
               \/ \E m \in Msgs :
                     Call(c, m) \/ (\E s \in Explicit : CallExplicit(c, m, s))
               \/ \E d \in Calls : PollHash(c, d)
        PROVE  Poll!Next \/ UNCHANGED pollVars
    <3>1. CASE \E m \in Msgs :
                  Call(c, m) \/ (\E s \in Explicit : CallExplicit(c, m, s))
      BY <3>1, <1>5
    <3>2. CASE \E d \in Calls : PollHash(c, d)
      BY <3>2, <1>1
    <3> QED
      BY <2>1, <3>1, <3>2
  <2>2. ASSUME NEW c \in Calls,
               \/ BeforeBroadcast(c)
               \/ WalletDeclines(c)
               \/ \E edit \in Edits : WalletSigns(c, edit)
        PROVE  Poll!Next \/ UNCHANGED pollVars
    BY <2>2, <1>2, <1>6
  <2>3. ASSUME NEW c \in Calls, PollStep(c) \/ NodeAdmits(c) \/ NodeRefuses(c)
        PROVE  Poll!Next
    BY <2>3, <1>3
  <2>4. ASSUME NEW t \in Txs, Arrives(t) \/ Lost(t) \/ Committed(t) \/ Indexed(t)
        PROVE  Poll!Next
    BY <2>4, <1>4
  <2>5. CASE Next
    BY <2>5, <2>1, <2>2, <2>3, <2>4, Zenon DEF Next
  <2> QED
    BY <2>5, <1>7
<1>9. CASE UNCHANGED pollVars
  <2>1. UNCHANGED Poll!vars
    BY <1>9, UnchangedPoll
  <2> QED
    BY <2>1
<1> QED
  BY <1>8, <1>9

\* The signing client uses TxPolling as TxPolling is specified: the sequence of
\* the account only narrows what the node does.
THEOREM SigningRefinesPolling == Spec => Poll!Spec
<1>1. Init => Poll!Init
  BY DEF Init
<1> QED
  BY <1>1, ClientInvariant, NextPolls, PTL DEF Spec, Poll!Spec

-----------------------------------------------------------------------------
(* What reaches the network is what the wallet signed.                     *)

SentType ==
    /\ phase \in [Calls -> Poll!Phases]
    /\ target \in [Calls -> Txs \cup {NoTx}]

\* A call has no target before it is handed to TxPolling.
UntargetedInv == \A c \in Calls : phase[c] = "idle" => target[c] = NoTx

\* A signing call is handed to TxPolling in one step, when the wallet signed.
HandOverInv ==
    \A c \in Calls :
        /\ step[c] \notin {"idle", "broadcast"} => phase[c] = "idle"
        /\ step[c] = "broadcast" => target[c] \in signed[c] /\ target[c].msg = request[c]
        /\ failure[c] = "SigningFailed" => step[c] = "done"

SentInv == SentType /\ UntargetedInv /\ HandOverInv

LEMMA InitSentInv == Init => SentInv
BY DEF Init, Poll!Init, Poll!Phases, SentInv, SentType, UntargetedInv, HandOverInv

\* A call that is under way keeps its target, and no step of it starts or
\* undoes a call.
LEMMA PollKeepsTarget ==
    ASSUME SentType, NEW c \in Calls, Poll!ClientStep(c) \/ Poll!RpcStep(c)
    PROVE  /\ target' = target
           /\ phase' \in [Calls -> Poll!Phases]
           /\ \A d \in Calls : phase'[d] = "idle" <=> phase[d] = "idle"
<1> USE DEF SentType, Poll!Phases
<1>1. CASE Poll!TimerFires(c)
  BY <1>1 DEF Poll!TimerFires
<1>2. CASE Poll!OnBroadcastAnswer(c)
  BY <1>2 DEF Poll!OnBroadcastAnswer, Poll!PollForTx, Poll!Settle, Poll!Sleep, Poll!Leave
<1>3. CASE Poll!WakeUp(c)
  BY <1>3 DEF Poll!WakeUp, Poll!Send, Poll!Settle
<1>4. CASE Poll!OnQueryAnswer(c)
  BY <1>4 DEF Poll!OnQueryAnswer, Poll!PollForTx, Poll!Settle, Poll!Sleep
<1>5. CASE Poll!RpcStep(c)
  BY <1>5 DEF Poll!RpcStep, Poll!NodeAdmits, Poll!NodeRefuses, Poll!NodeSearches,
              Poll!RpcFails
<1> QED
  BY <1>1, <1>2, <1>3, <1>4, <1>5 DEF Poll!ClientStep

LEMMA KeepsSentInv ==
    ASSUME SentInv, UNCHANGED <<step, request, failure, signed>>,
           target' = target, phase' \in [Calls -> Poll!Phases],
           \A d \in Calls : phase'[d] = "idle" <=> phase[d] = "idle"
    PROVE  SentInv'
BY DEF SentInv, SentType, UntargetedInv, HandOverInv

LEMMA WalletSignsSentInv ==
    ASSUME ClientInv, SentInv, NEW c \in Calls, NEW edit \in Edits, WalletSigns(c, edit)
    PROVE  SentInv'
<1> DEFINE doc == SignDoc(c, edit)
<1>1. doc \in Txs /\ doc.msg = request[c] /\ step[c] = "signing"
  BY SignedIsTx DEF WalletSigns, SignDoc
<1>2. signed' = [signed EXCEPT ![c] = {doc}] /\ UNCHANGED request
  BY DEF WalletSigns
<1>3. CASE Fail(c) /\ UNCHANGED pollVars
  BY <1>1, <1>2, <1>3
     DEF Fail, pollVars, SentInv, SentType, UntargetedInv, HandOverInv, ClientInv, ClientType
<1>4. CASE /\ Poll!BroadcastTx(c, doc)
           /\ step' = [step EXCEPT ![c] = "broadcast"]
           /\ UNCHANGED failure
  <2>1. target' = [target EXCEPT ![c] = doc] /\ phase[c] = "idle"
    BY <1>4 DEF Poll!BroadcastTx
  <2>2. \E p \in {"broadcasting", "done"} : phase' = [phase EXCEPT ![c] = p]
    BY <1>4 DEF Poll!BroadcastTx, Poll!Send
  <2>3. SentType'
    BY <1>1, <2>1, <2>2 DEF SentInv, SentType, Poll!Phases
  <2>4. UntargetedInv'
    BY <2>1, <2>2 DEF SentInv, SentType, UntargetedInv
  <2>5. HandOverInv'
    BY <1>1, <1>2, <1>4, <2>1, <2>2
       DEF SentInv, SentType, HandOverInv, ClientInv, ClientType
  <2> QED
    BY <2>3, <2>4, <2>5 DEF SentInv
<1>5. CASE /\ UNCHANGED <<pollVars, failure>>
           /\ step' = [step EXCEPT ![c] = "sending"]
  BY <1>1, <1>2, <1>5
     DEF pollVars, SentInv, SentType, UntargetedInv, HandOverInv, ClientInv, ClientType
<1> QED
  BY <1>3, <1>4, <1>5 DEF WalletSigns, SignedTx, pollVars

LEMMA NextSentInv == ASSUME ClientInv, SentInv, [Next]_vars PROVE SentInv'
<1> USE DEF SentInv, SentType, UntargetedInv, HandOverInv, ClientInv, ClientType, pollVars
<1>1. ASSUME NEW c \in Calls, NEW m \in Msgs, Call(c, m) PROVE SentInv'
  BY <1>1 DEF Call
<1>2. ASSUME NEW c \in Calls, NEW m \in Msgs, NEW s \in Explicit, CallExplicit(c, m, s)
      PROVE  SentInv'
  BY <1>2 DEF CallExplicit
<1>3. ASSUME NEW c \in Calls, NEW d \in Calls, PollHash(c, d) PROVE SentInv'
  BY <1>3 DEF PollHash, Poll!PollForTxResult, Poll!Phases, signVars
<1>4. ASSUME NEW c \in Calls, BeforeBroadcast(c) \/ WalletDeclines(c) PROVE SentInv'
  BY <1>4 DEF BeforeBroadcast, Simulate, ReadSequence, ReadChainId, OnAsyncAnswer,
              WalletDeclines, Fail
<1>5. ASSUME NEW c \in Calls, NEW edit \in Edits, WalletSigns(c, edit) PROVE SentInv'
  BY <1>5, WalletSignsSentInv
<1>6. ASSUME NEW c \in Calls, PollStep(c) \/ NodeAdmits(c) \/ NodeRefuses(c)
      PROVE  SentInv'
  BY <1>6, PollKeepsTarget, KeepsSentInv
     DEF PollStep, NodeAdmits, NodeRefuses, Poll!RpcStep, signVars
<1>7. ASSUME NEW t \in Txs, Arrives(t) \/ Lost(t) \/ Committed(t) \/ Indexed(t)
      PROVE  SentInv'
  BY <1>7, KeepsSentInv
     DEF Arrives, Lost, Committed, Indexed, Poll!NodeStep, Poll!callVars, signVars
<1>8. ASSUME UNCHANGED vars PROVE SentInv'
  BY <1>8 DEF vars, signVars
<1> QED
  BY <1>1, <1>2, <1>3, <1>4, <1>5, <1>6, <1>7, <1>8 DEF Next

LEMMA SentInvIsEnough == SentInv => OnlySignedIsSent
BY DEF SentInv, UntargetedInv, HandOverInv, OnlySignedIsSent

\* A signing call broadcasts what the wallet signed for its own message, and a
\* call that failed before its broadcast sent nothing.
THEOREM SignedIsSent == Spec => []OnlySignedIsSent
<1>1. Spec => []SentInv
  BY ClientInvariant, InitSentInv, NextSentInv, PTL DEF Spec
<1> QED
  BY <1>1, SentInvIsEnough, PTL
=============================================================================
