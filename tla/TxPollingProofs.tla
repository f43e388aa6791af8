-------------------------- MODULE TxPollingProofs --------------------------
(***************************************************************************)
(* Proofs about TxPolling, for every set of calls and transactions: the    *)
(* type invariant, the four safety invariants the runs check, and that the *)
(* calls implement the abstract promise TxDelivery (its safety part).      *)
(***************************************************************************)
EXTENDS TxPolling, TLAPS

-----------------------------------------------------------------------------
(* The inductive invariant *)

\* A call has an outcome exactly when it is done, and has done nothing while
\* idle.
PhaseInv ==
    \A c \in Calls :
        /\ phase[c] = "done" <=> outcome[c] # "none"
        /\ phase[c] = "idle" => /\ c \notin admitted
                                /\ timer[c] = "off"
        /\ phase[c] = "broadcasting" => method[c] = "broadcastTx"

\* An answer on its way to a call of getTx is already final.
AnswerInv ==
    \A c \in Calls : phase[c] = "querying" /\ rpc[c] \in Codes =>
        /\ status[target[c]] = "indexed"
        /\ code[target[c]] = rpc[c]

\* A broadcastTx call is in its loop only after the node admitted its
\* transaction, and knows it from the answer.
AdmissionInv ==
    \A c \in Calls :
        /\ phase[c] = "broadcasting" /\ rpc[c] = "admitted" => c \in admitted
        /\ phase[c] = "broadcasting" /\ rpc[c] \in {"sent", "refused"} =>
              c \notin admitted
        /\ phase[c] \in {"sleeping", "querying"} /\ method[c] = "broadcastTx" =>
              c \in admitted

\* A late query needs a timer that fired, and a call that sleeps has sent none.
LateInv ==
    \A c \in Calls :
        /\ late[c] > 0 => timer[c] = "fired"
        /\ phase[c] # "querying" /\ phase[c] # "done" => late[c] = 0

\* A transaction has no code before a block includes it.
CodeInv == \A t \in Txs : ~ Included(t) => code[t] = "none"

IInv ==
    /\ TypeOK
    /\ CodeInv
    /\ PhaseInv
    /\ AnswerInv
    /\ AdmissionInv
    /\ LateInv
    /\ ResponseIsOnChain
    /\ TimerDiscipline
    /\ OutcomeTellsAdmission
    /\ AtMostOneLateQuery

-----------------------------------------------------------------------------
(* Type correctness *)

LEMMA InitTypeOK == Init => TypeOK
BY NoTxAssumption DEF Init, NodeInit, TypeOK, NodeTypeOK, Status, Methods,
   Phases, Timers, Rpcs, BroadcastAnswers, QueryAnswers, Outcomes, Codes, Errors

LEMMA NextTypeOK == ASSUME TypeOK, [Next]_vars PROVE TypeOK'
<1> USE NoTxAssumption DEF TypeOK, NodeTypeOK, Status, Methods, Phases, Timers,
        Rpcs, BroadcastAnswers, QueryAnswers, Outcomes, Codes, Errors,
        nodeVars, history
<1>1. ASSUME NEW c \in Calls, NEW t \in Txs, BroadcastTx(c, t) PROVE TypeOK'
  BY <1>1 DEF BroadcastTx, Send
<1>2. ASSUME NEW c \in Calls, NEW t \in Txs, PollForTxResult(c, t) PROVE TypeOK'
  BY <1>2 DEF PollForTxResult
<1>3. ASSUME NEW c \in Calls, TimerFires(c) PROVE TypeOK'
  BY <1>3 DEF TimerFires
<1>4. ASSUME NEW c \in Calls, OnBroadcastAnswer(c) PROVE TypeOK'
  BY <1>4 DEF OnBroadcastAnswer, PollForTx, Settle, Sleep, Leave
<1>5. ASSUME NEW c \in Calls, WakeUp(c) PROVE TypeOK'
  BY <1>5 DEF WakeUp, Send, Settle
<1>6. ASSUME NEW c \in Calls, OnQueryAnswer(c) PROVE TypeOK'
  BY <1>6 DEF OnQueryAnswer, PollForTx, Settle, Sleep
<1>7. ASSUME NEW c \in Calls, RpcStep(c) PROVE TypeOK'
  BY <1>7 DEF RpcStep, NodeAdmits, NodeRefuses, NodeSearches, RpcFails, Admit
<1>8. ASSUME NEW t \in Txs, NodeStep(t) PROVE TypeOK'
  BY <1>8 DEF NodeStep, Admit, Drop, Include, Index, callVars
<1>9. CASE UNCHANGED vars
  BY <1>9 DEF vars, callVars
<1> QED
  BY <1>1, <1>2, <1>3, <1>4, <1>5, <1>6, <1>7, <1>8, <1>9 DEF Next, ClientStep

-----------------------------------------------------------------------------
(* The inductive invariant holds initially and is preserved *)

LEMMA InitIInv == Init => IInv
BY InitTypeOK DEF Init, NodeInit, IInv, CodeInv, Included, PhaseInv, AnswerInv, AdmissionInv,
   LateInv, ResponseIsOnChain, TimerDiscipline, OutcomeTellsAdmission,
   AtMostOneLateQuery, Codes

LEMMA NextIInv == ASSUME IInv, [Next]_vars PROVE IInv'
<1> USE DEF TypeOK, NodeTypeOK, Codes, nodeVars, history
<1>t. TypeOK'
  BY NextTypeOK DEF IInv
<1>i. /\ TypeOK /\ CodeInv /\ PhaseInv /\ AnswerInv /\ AdmissionInv /\ LateInv
      /\ ResponseIsOnChain /\ TimerDiscipline /\ OutcomeTellsAdmission
      /\ AtMostOneLateQuery
  BY DEF IInv
<1>1. ASSUME NEW d \in Calls, NEW t \in Txs, BroadcastTx(d, t) PROVE IInv'
  <2>1. PhaseInv'
    BY <1>t, <1>i, <1>1 DEF BroadcastTx, Send, PhaseInv
  <2>2. AnswerInv'
    BY <1>t, <1>i, <1>1 DEF BroadcastTx, Send, AnswerInv
  <2>3. AdmissionInv'
    BY <1>t, <1>i, <1>1 DEF BroadcastTx, Send, AdmissionInv, PhaseInv
  <2>4. LateInv'
    BY <1>t, <1>i, <1>1 DEF BroadcastTx, Send, LateInv
  <2>5. ResponseIsOnChain'
    BY <1>t, <1>i, <1>1 DEF BroadcastTx, Send, ResponseIsOnChain,
      PhaseInv, AnswerInv
  <2>6. TimerDiscipline'
    BY <1>t, <1>i, <1>1 DEF BroadcastTx, Send, TimerDiscipline
  <2>7. OutcomeTellsAdmission'
    BY <1>t, <1>i, <1>1 DEF BroadcastTx, Send, OutcomeTellsAdmission,
      PhaseInv, AdmissionInv
  <2>8. AtMostOneLateQuery'
    BY <1>t, <1>i, <1>1 DEF BroadcastTx, Send, AtMostOneLateQuery
  <2>9. CodeInv'
    BY <1>t, <1>i, <1>1 DEF BroadcastTx, Send, CodeInv, Included
  <2> QED
    BY <1>t, <2>9, <2>1, <2>2, <2>3, <2>4, <2>5, <2>6, <2>7, <2>8 DEF IInv
<1>2. ASSUME NEW d \in Calls, NEW t \in Txs, PollForTxResult(d, t) PROVE IInv'
  <2>1. PhaseInv'
    BY <1>t, <1>i, <1>2 DEF PollForTxResult, PhaseInv
  <2>2. AnswerInv'
    BY <1>t, <1>i, <1>2 DEF PollForTxResult, AnswerInv
  <2>3. AdmissionInv'
    BY <1>t, <1>i, <1>2 DEF PollForTxResult, AdmissionInv
  <2>4. LateInv'
    BY <1>t, <1>i, <1>2 DEF PollForTxResult, LateInv
  <2>5. ResponseIsOnChain'
    BY <1>t, <1>i, <1>2 DEF PollForTxResult, ResponseIsOnChain, PhaseInv,
      AnswerInv
  <2>6. TimerDiscipline'
    BY <1>t, <1>i, <1>2 DEF PollForTxResult, TimerDiscipline
  <2>7. OutcomeTellsAdmission'
    BY <1>t, <1>i, <1>2 DEF PollForTxResult, OutcomeTellsAdmission
  <2>8. AtMostOneLateQuery'
    BY <1>t, <1>i, <1>2 DEF PollForTxResult, AtMostOneLateQuery
  <2>9. CodeInv'
    BY <1>t, <1>i, <1>2 DEF PollForTxResult, CodeInv, Included
  <2> QED
    BY <1>t, <2>9, <2>1, <2>2, <2>3, <2>4, <2>5, <2>6, <2>7, <2>8 DEF IInv
<1>3. ASSUME NEW d \in Calls, TimerFires(d) PROVE IInv'
  <2>1. PhaseInv'
    BY <1>t, <1>i, <1>3 DEF TimerFires, PhaseInv
  <2>2. AnswerInv'
    BY <1>t, <1>i, <1>3 DEF TimerFires, AnswerInv
  <2>3. AdmissionInv'
    BY <1>t, <1>i, <1>3 DEF TimerFires, AdmissionInv
  <2>4. LateInv'
    BY <1>t, <1>i, <1>3 DEF TimerFires, LateInv
  <2>5. ResponseIsOnChain'
    BY <1>t, <1>i, <1>3 DEF TimerFires, ResponseIsOnChain
  <2>6. TimerDiscipline'
    BY <1>t, <1>i, <1>3 DEF TimerFires, TimerDiscipline
  <2>7. OutcomeTellsAdmission'
    BY <1>t, <1>i, <1>3 DEF TimerFires, OutcomeTellsAdmission
  <2>8. AtMostOneLateQuery'
    BY <1>t, <1>i, <1>3 DEF TimerFires, AtMostOneLateQuery
  <2>9. CodeInv'
    BY <1>t, <1>i, <1>3 DEF TimerFires, CodeInv, Included
  <2> QED
    BY <1>t, <2>9, <2>1, <2>2, <2>3, <2>4, <2>5, <2>6, <2>7, <2>8 DEF IInv
<1>4. ASSUME NEW d \in Calls, OnBroadcastAnswer(d) PROVE IInv'
  <2>1. PhaseInv'
    BY <1>t, <1>i, <1>4 DEF OnBroadcastAnswer, PollForTx, Settle, Sleep,
      Leave, PhaseInv
  <2>2. AnswerInv'
    BY <1>t, <1>i, <1>4 DEF OnBroadcastAnswer, PollForTx, Settle, Sleep,
      Leave, AnswerInv
  <2>3. AdmissionInv'
    BY <1>t, <1>i, <1>4 DEF OnBroadcastAnswer, PollForTx, Settle, Sleep,
      Leave, AdmissionInv
  <2>4. LateInv'
    BY <1>t, <1>i, <1>4 DEF OnBroadcastAnswer, PollForTx, Settle, Sleep,
      Leave, LateInv
  <2>5. ResponseIsOnChain'
    BY <1>t, <1>i, <1>4 DEF OnBroadcastAnswer, PollForTx, Settle, Sleep,
      Leave, ResponseIsOnChain
  <2>6. TimerDiscipline'
    BY <1>t, <1>i, <1>4 DEF OnBroadcastAnswer, PollForTx, Settle, Sleep,
      Leave, TimerDiscipline, PhaseInv
  <2>7. OutcomeTellsAdmission'
    BY <1>t, <1>i, <1>4 DEF OnBroadcastAnswer, PollForTx, Settle, Sleep,
      Leave, OutcomeTellsAdmission, PhaseInv, AdmissionInv
  <2>8. AtMostOneLateQuery'
    BY <1>t, <1>i, <1>4 DEF OnBroadcastAnswer, PollForTx, Settle, Sleep,
      Leave, AtMostOneLateQuery
  <2>9. CodeInv'
    BY <1>t, <1>i, <1>4 DEF OnBroadcastAnswer, PollForTx, Settle, Sleep, Leave, CodeInv, Included
  <2> QED
    BY <1>t, <2>9, <2>1, <2>2, <2>3, <2>4, <2>5, <2>6, <2>7, <2>8 DEF IInv
<1>5. ASSUME NEW d \in Calls, WakeUp(d) PROVE IInv'
  <2>1. PhaseInv'
    BY <1>t, <1>i, <1>5 DEF WakeUp, Send, Settle, PhaseInv
  <2>2. AnswerInv'
    BY <1>t, <1>i, <1>5 DEF WakeUp, Send, Settle, AnswerInv
  <2>3. AdmissionInv'
    BY <1>t, <1>i, <1>5 DEF WakeUp, Send, Settle, AdmissionInv
  <2>4. LateInv'
    BY <1>t, <1>i, <1>5 DEF WakeUp, Send, Settle, LateInv
  <2>5. ResponseIsOnChain'
    BY <1>t, <1>i, <1>5 DEF WakeUp, Send, Settle, ResponseIsOnChain
  <2>6. TimerDiscipline'
    BY <1>t, <1>i, <1>5 DEF WakeUp, Send, Settle, TimerDiscipline
  <2>7. OutcomeTellsAdmission'
    BY <1>t, <1>i, <1>5 DEF WakeUp, Send, Settle, OutcomeTellsAdmission,
      PhaseInv, AdmissionInv
  <2>8. AtMostOneLateQuery'
    BY <1>t, <1>i, <1>5 DEF WakeUp, Send, Settle, AtMostOneLateQuery, LateInv
  <2>9. CodeInv'
    BY <1>t, <1>i, <1>5 DEF WakeUp, Send, Settle, CodeInv, Included
  <2> QED
    BY <1>t, <2>9, <2>1, <2>2, <2>3, <2>4, <2>5, <2>6, <2>7, <2>8 DEF IInv
<1>6. ASSUME NEW d \in Calls, OnQueryAnswer(d) PROVE IInv'
  <2>1. PhaseInv'
    BY <1>t, <1>i, <1>6 DEF OnQueryAnswer, PollForTx, Settle, Sleep, PhaseInv
  <2>2. AnswerInv'
    BY <1>t, <1>i, <1>6 DEF OnQueryAnswer, PollForTx, Settle, Sleep, AnswerInv
  <2>3. AdmissionInv'
    BY <1>t, <1>i, <1>6 DEF OnQueryAnswer, PollForTx, Settle, Sleep,
      AdmissionInv
  <2>4. LateInv'
    BY <1>t, <1>i, <1>6 DEF OnQueryAnswer, PollForTx, Settle, Sleep, LateInv
  <2>5. ResponseIsOnChain'
    BY <1>t, <1>i, <1>6 DEF OnQueryAnswer, PollForTx, Settle, Sleep,
      ResponseIsOnChain, PhaseInv, AnswerInv
  <2>6. TimerDiscipline'
    BY <1>t, <1>i, <1>6 DEF OnQueryAnswer, PollForTx, Settle, Sleep,
      TimerDiscipline
  <2>7. OutcomeTellsAdmission'
    BY <1>t, <1>i, <1>6 DEF OnQueryAnswer, PollForTx, Settle, Sleep,
      OutcomeTellsAdmission, PhaseInv, AdmissionInv
  <2>8. AtMostOneLateQuery'
    BY <1>t, <1>i, <1>6 DEF OnQueryAnswer, PollForTx, Settle, Sleep,
      AtMostOneLateQuery
  <2>9. CodeInv'
    BY <1>t, <1>i, <1>6 DEF OnQueryAnswer, PollForTx, Settle, Sleep, CodeInv, Included
  <2> QED
    BY <1>t, <2>9, <2>1, <2>2, <2>3, <2>4, <2>5, <2>6, <2>7, <2>8 DEF IInv
<1>7. ASSUME NEW d \in Calls, RpcStep(d) PROVE IInv'
  <2>1. PhaseInv'
    BY <1>t, <1>i, <1>7 DEF RpcStep, NodeAdmits, NodeRefuses,
      NodeSearches, RpcFails, Admit, PhaseInv
  <2>2. AnswerInv'
    BY <1>t, <1>i, <1>7 DEF RpcStep, NodeAdmits, NodeRefuses,
      NodeSearches, RpcFails, Admit, AnswerInv
  <2>3. AdmissionInv'
    BY <1>t, <1>i, <1>7 DEF RpcStep, NodeAdmits, NodeRefuses,
      NodeSearches, RpcFails, Admit, AdmissionInv
  <2>4. LateInv'
    BY <1>t, <1>i, <1>7 DEF RpcStep, NodeAdmits, NodeRefuses,
      NodeSearches, RpcFails, Admit, LateInv
  <2>5. ResponseIsOnChain'
    BY <1>t, <1>i, <1>7 DEF RpcStep, NodeAdmits, NodeRefuses,
      NodeSearches, RpcFails, Admit, ResponseIsOnChain, PhaseInv,
      AnswerInv
  <2>6. TimerDiscipline'
    BY <1>t, <1>i, <1>7 DEF RpcStep, NodeAdmits, NodeRefuses,
      NodeSearches, RpcFails, Admit, TimerDiscipline
  <2>7. OutcomeTellsAdmission'
    BY <1>t, <1>i, <1>7 DEF RpcStep, NodeAdmits, NodeRefuses,
      NodeSearches, RpcFails, Admit, OutcomeTellsAdmission, PhaseInv,
      AdmissionInv
  <2>8. AtMostOneLateQuery'
    BY <1>t, <1>i, <1>7 DEF RpcStep, NodeAdmits, NodeRefuses,
      NodeSearches, RpcFails, Admit, AtMostOneLateQuery
  <2>9. CodeInv'
    BY <1>t, <1>i, <1>7 DEF RpcStep, NodeAdmits, NodeRefuses, NodeSearches, RpcFails, Admit, CodeInv, Included
  <2> QED
    BY <1>t, <2>9, <2>1, <2>2, <2>3, <2>4, <2>5, <2>6, <2>7, <2>8 DEF IInv
<1>8. ASSUME NEW t \in Txs, NodeStep(t) PROVE IInv'
  <2>1. PhaseInv'
    BY <1>t, <1>i, <1>8 DEF NodeStep, Admit, Drop, Include, Index,
      callVars, PhaseInv
  <2>2. AnswerInv'
    BY <1>t, <1>i, <1>8 DEF NodeStep, Admit, Drop, Include, Index,
      callVars, AnswerInv
  <2>3. AdmissionInv'
    BY <1>t, <1>i, <1>8 DEF NodeStep, Admit, Drop, Include, Index,
      callVars, AdmissionInv
  <2>4. LateInv'
    BY <1>t, <1>i, <1>8 DEF NodeStep, Admit, Drop, Include, Index,
      callVars, LateInv
  <2>5. ResponseIsOnChain'
    BY <1>t, <1>i, <1>8 DEF NodeStep, Admit, Drop, Include, Index,
      callVars, ResponseIsOnChain, PhaseInv, AnswerInv
  <2>6. TimerDiscipline'
    BY <1>t, <1>i, <1>8 DEF NodeStep, Admit, Drop, Include, Index,
      callVars, TimerDiscipline
  <2>7. OutcomeTellsAdmission'
    BY <1>t, <1>i, <1>8 DEF NodeStep, Admit, Drop, Include, Index,
      callVars, OutcomeTellsAdmission
  <2>8. AtMostOneLateQuery'
    BY <1>t, <1>i, <1>8 DEF NodeStep, Admit, Drop, Include, Index,
      callVars, AtMostOneLateQuery
  <2>9. CodeInv'
    BY <1>t, <1>i, <1>8 DEF NodeStep, Admit, Drop, Include, Index, callVars, CodeInv, Included
  <2> QED
    BY <1>t, <2>9, <2>1, <2>2, <2>3, <2>4, <2>5, <2>6, <2>7, <2>8 DEF IInv
<1>9. CASE UNCHANGED vars
  <2>1. PhaseInv'
    BY <1>t, <1>i, <1>9 DEF vars, callVars, PhaseInv
  <2>2. AnswerInv'
    BY <1>t, <1>i, <1>9 DEF vars, callVars, AnswerInv
  <2>3. AdmissionInv'
    BY <1>t, <1>i, <1>9 DEF vars, callVars, AdmissionInv
  <2>4. LateInv'
    BY <1>t, <1>i, <1>9 DEF vars, callVars, LateInv
  <2>5. ResponseIsOnChain'
    BY <1>t, <1>i, <1>9 DEF vars, callVars, ResponseIsOnChain
  <2>6. TimerDiscipline'
    BY <1>t, <1>i, <1>9 DEF vars, callVars, TimerDiscipline
  <2>7. OutcomeTellsAdmission'
    BY <1>t, <1>i, <1>9 DEF vars, callVars, OutcomeTellsAdmission
  <2>8. AtMostOneLateQuery'
    BY <1>t, <1>i, <1>9 DEF vars, callVars, AtMostOneLateQuery
  <2>9. CodeInv'
    BY <1>t, <1>i, <1>9 DEF vars, callVars, CodeInv, Included
  <2> QED
    BY <1>t, <2>9, <2>1, <2>2, <2>3, <2>4, <2>5, <2>6, <2>7, <2>8 DEF IInv
<1> QED
  BY <1>1, <1>2, <1>3, <1>4, <1>5, <1>6, <1>7, <1>8, <1>9 DEF Next, ClientStep

\* The invariant above holds of every reachable state.
THEOREM InductiveInvariant == Spec => []IInv
BY InitIInv, NextIInv, PTL DEF Spec

\* Every variable keeps its type, for any set of calls and transactions.
THEOREM TypeCorrect == Spec => []TypeOK
<1>1. IInv => TypeOK
  BY DEF IInv
<1> QED
  BY <1>1, InductiveInvariant, PTL

\* A DeliverTxResponse is always the execution of the call's own transaction.
THEOREM ResponsesAreOnChain == Spec => []ResponseIsOnChain
<1>1. IInv => ResponseIsOnChain
  BY DEF IInv
<1> QED
  BY <1>1, InductiveInvariant, PTL

\* TimeoutErrors come from expired timers and only a broadcastTx that never
\* reached its loop leaves a timer running.
THEOREM TimersAreReleased == Spec => []TimerDiscipline
<1>1. IInv => TimerDiscipline
  BY DEF IInv
<1> QED
  BY <1>1, InductiveInvariant, PTL

\* The error of a broadcastTx call says whether its transaction was admitted.
THEOREM OutcomesTellAdmission == Spec => []OutcomeTellsAdmission
<1>1. IInv => OutcomeTellsAdmission
  BY DEF IInv
<1> QED
  BY <1>1, InductiveInvariant, PTL

\* No call sends more than one query after its timer fired.
THEOREM LateQueriesAreBounded == Spec => []AtMostOneLateQuery
<1>1. IInv => AtMostOneLateQuery
  BY DEF IInv
<1> QED
  BY <1>1, InductiveInvariant, PTL

-----------------------------------------------------------------------------
(* Implementation of TxDelivery *)

LEMMA InitImplements == Init => Delivery!Init
BY DEF Init, NodeInit, Promise, Delivery!Init

\* A step that ends the call c settles its promise.
LEMMA PromiseSettles ==
    ASSUME TypeOK, PhaseInv, NEW c \in Calls, NEW o \in Outcomes \ {"none"},
           phase[c] \notin {"idle", "done"},
           Settle(c, o) \/ Leave(c, o),
           UNCHANGED <<target, code>>,
           o \in Codes => code[target[c]] = o,
           o = "TimeoutError" => timer[c] = "fired"
    PROVE  Delivery!Settle(c)
<1>1. Promise' = [Promise EXCEPT ![c] = o]
  BY DEF TypeOK, Settle, Leave, Promise
<1>2. {d \in Calls : timer'[d] = "fired"} = {d \in Calls : timer[d] = "fired"}
  BY DEF TypeOK, Settle, Leave
<1>3. Promise[c] = "pending"
  BY DEF Promise
<1>4. o \in Delivery!Settled
  BY DEF Outcomes, Codes, Errors, Delivery!Settled, Delivery!Fates, Delivery!Errors
<1> QED
  BY <1>1, <1>2, <1>3, <1>4 DEF Delivery!Settle, Delivery!Fates, Codes

\* A step that keeps the call c pending is invisible.
LEMMA PromisePends ==
    ASSUME TypeOK, NEW c \in Calls, NEW p \in Phases \ {"idle", "done"},
           phase[c] \notin {"idle", "done"},
           phase' = [phase EXCEPT ![c] = p],
           UNCHANGED <<target, code, timer, outcome>>
    PROVE  UNCHANGED Delivery!vars
<1>1. Promise' = Promise
  BY DEF TypeOK, Promise
<1> QED
  BY <1>1 DEF Delivery!vars

LEMMA NextImplements ==
    ASSUME IInv, [Next]_vars PROVE [Delivery!Next]_(Delivery!vars)
<1> USE DEF TypeOK, NodeTypeOK, Codes, nodeVars, history
<1>i. TypeOK /\ PhaseInv /\ AnswerInv /\ CodeInv
  BY DEF IInv
<1>1. ASSUME NEW c \in Calls, NEW t \in Txs, BroadcastTx(c, t)
      PROVE Delivery!Start(c)
  <2>1. \/ Promise' = [Promise EXCEPT ![c] = "pending"]
        \/ Promise' = [Promise EXCEPT ![c] = "BroadcastFailed"]
    BY <1>i, <1>1 DEF BroadcastTx, Send, Promise
  <2>2. Promise[c] = "idle"
    BY <1>1 DEF BroadcastTx, Promise
  <2>3. {d \in Calls : timer'[d] = "fired"} = {d \in Calls : timer[d] = "fired"}
    BY <1>i, <1>1 DEF BroadcastTx, PhaseInv
  <2> QED
    BY <1>1, <2>1, <2>2, <2>3 DEF BroadcastTx, Delivery!Start
<1>2. ASSUME NEW c \in Calls, NEW t \in Txs, PollForTxResult(c, t)
      PROVE Delivery!Start(c)
  <2>1. Promise' = [Promise EXCEPT ![c] = "pending"]
    BY <1>i, <1>2 DEF PollForTxResult, Promise
  <2>2. Promise[c] = "idle"
    BY <1>2 DEF PollForTxResult, Promise
  <2>3. {d \in Calls : timer'[d] = "fired"} = {d \in Calls : timer[d] = "fired"}
    BY <1>i, <1>2 DEF PollForTxResult, PhaseInv
  <2> QED
    BY <1>2, <2>1, <2>2, <2>3 DEF PollForTxResult, Delivery!Start
<1>3. ASSUME NEW c \in Calls, TimerFires(c) PROVE Delivery!Expire(c)
  <2>1. Promise' = Promise /\ Promise[c] # "idle"
    BY <1>i, <1>3 DEF TimerFires, Promise, PhaseInv, Outcomes, Errors
  <2>2. {d \in Calls : timer'[d] = "fired"}
          = {d \in Calls : timer[d] = "fired"} \cup {c}
    BY <1>i, <1>3 DEF TimerFires
  <2> QED
    BY <1>3, <2>1, <2>2 DEF TimerFires, Delivery!Expire
<1>4. ASSUME NEW c \in Calls, OnBroadcastAnswer(c)
      PROVE Delivery!Settle(c) \/ UNCHANGED Delivery!vars
  <2>1. CASE rpc[c] = "admitted" /\ timer[c] # "fired"
    BY <1>i, <1>4, <2>1, PromisePends
    DEF OnBroadcastAnswer, PollForTx, Sleep, Phases
  <2>2. CASE rpc[c] = "admitted" /\ timer[c] = "fired"
    BY <1>i, <1>4, <2>2, PromiseSettles
    DEF OnBroadcastAnswer, PollForTx, Outcomes, Errors
  <2>3. CASE rpc[c] # "admitted"
    BY <1>i, <1>4, <2>3, PromiseSettles
    DEF OnBroadcastAnswer, Outcomes, Errors
  <2> QED
    BY <2>1, <2>2, <2>3
<1>5. ASSUME NEW c \in Calls, WakeUp(c)
      PROVE Delivery!Settle(c) \/ UNCHANGED Delivery!vars
  <2>1. CASE online
    BY <1>i, <1>5, <2>1, PromisePends DEF WakeUp, Send, Phases
  <2>2. CASE ~ online
    BY <1>i, <1>5, <2>2, PromiseSettles DEF WakeUp, Outcomes, Errors
  <2> QED
    BY <2>1, <2>2
<1>6. ASSUME NEW c \in Calls, OnQueryAnswer(c)
      PROVE Delivery!Settle(c) \/ UNCHANGED Delivery!vars
  <2>1. CASE rpc[c] = "null" /\ timer[c] # "fired"
    BY <1>i, <1>6, <2>1, PromisePends
    DEF OnQueryAnswer, PollForTx, Sleep, Phases
  <2>2. CASE rpc[c] = "null" /\ timer[c] = "fired"
    BY <1>i, <1>6, <2>2, PromiseSettles
    DEF OnQueryAnswer, PollForTx, Outcomes, Errors
  <2>3. CASE rpc[c] \in Codes
    BY <1>i, <1>6, <2>3, PromiseSettles
    DEF OnQueryAnswer, Outcomes, AnswerInv
  <2>4. CASE rpc[c] = "error"
    BY <1>i, <1>6, <2>4, PromiseSettles DEF OnQueryAnswer, Outcomes, Errors
  <2> QED
    BY <1>6, <2>1, <2>2, <2>3, <2>4 DEF OnQueryAnswer
<1>7. ASSUME NEW c \in Calls, RpcStep(c) PROVE UNCHANGED Delivery!vars
  BY <1>i, <1>7 DEF RpcStep, NodeAdmits, NodeRefuses, NodeSearches, RpcFails,
     Admit, Promise, Delivery!vars
<1>8. ASSUME NEW t \in Txs, NodeStep(t)
      PROVE Delivery!Decide(t) \/ UNCHANGED Delivery!vars
  BY <1>i, <1>8 DEF NodeStep, Admit, Drop, Include, Index, callVars, CodeInv,
     Included, Promise, Delivery!Decide, Delivery!Fates, Delivery!vars
<1>9. CASE UNCHANGED vars
  BY <1>9 DEF vars, callVars, Promise, Delivery!vars
<1> QED
  BY <1>1, <1>2, <1>3, <1>4, <1>5, <1>6, <1>7, <1>8, <1>9
  DEF Next, ClientStep, Delivery!Next

\* Every behaviour of the polling calls is one the abstract promise allows:
\* each call settles at most once, with the fate the chain decided for its own
\* transaction, with a TimeoutError after its deadline, or with an error.
THEOREM PollingImplementsDelivery == Spec => Delivery!Spec
BY InitImplements, NextImplements, InductiveInvariant, PTL DEF Spec,
  Delivery!Spec
=============================================================================
