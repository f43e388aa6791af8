----------------------- MODULE ContractOutcomeProofs -----------------------
(***************************************************************************)
(* What a method of SigningFinschiaClient promises that resolved, or whose *)
(* error leaves it open what became of the transaction, for any calls and  *)
(* queries: everything the caller asked for is done and stays done, or all *)
(* of it or nothing; and a query made of an up to date node after a call   *)
(* resolved sees what it did.                                              *)
(*                                                                         *)
(* All of it rests on what the execution of one message does to what the   *)
(* others made (lemma DoneStays): codes and what was written stay, only    *)
(* the admin "user" is ever replaced, and only a migration changes the     *)
(* code a contract runs.                                                   *)
(***************************************************************************)
EXTENDS ContractCallsProofs

\* The message each method builds for the contracts it is called with.
MessageInv ==
    \A c \in Calls : call[c] # NoCall =>
        /\ call[c].method = "executeMultiple" =>
              \E addresses \in SUBSET Contracts :
                  call[c].message = MsgsExecuteContract(addresses)
        /\ call[c].method = "clearAdmin" =>
              \E a \in Contracts : call[c].message = MsgClearAdmin(a)
        /\ call[c].method = "updateAdmin" =>
              \E a \in Contracts : call[c].message = MsgUpdateAdmin(a, "other")
        /\ call[c].method = "migrate" =>
              \E a \in Contracts, k \in CodeIds : call[c].message = MsgMigrateContract(a, k)

\* Whatever has been executed is done, whoever knows of it.
DoneInv ==
    \A c \in Calls : fate[c] = "success" =>
        call[c] # NoCall /\ Done(c, call[c].method, call[c].message)

\* A query remembers calls that were executed, queryContractRaw asks for data
\* only of a contract it has seen, and getContract asks for none.
StageOk(q) ==
    /\ q.after \subseteq {c \in Calls : fate[c] = "success"}
    /\ q.stage = "queryContractRaw" => q.about <= Len(contracts)
    /\ q.stage \in {"queryContractRaw", "queryContractSmart"} => q.method # "getContract"

\* The calls a query remembers that executed, or cleared, the contract it is about.
DoneBefore(q) ==
    {c \in q.after : q.about \in (IF call[c].method = "executeMultiple"
                                  THEN call[c].message.contracts ELSE {})}
ClearedBefore(q) ==
    {c \in q.after : call[c].method = "clearAdmin" /\ call[c].message.contract = q.about}

\* The answer of a query is one an up to date node may have given.
AnswerOk(q) ==
    q.stage = "done" =>
        /\ q.answer \in {"data", "empty"} => q.about <= Len(contracts)
        /\ q.answer = "empty" /\ ~ lagging => DoneBefore(q) = {}
        /\ q.method = "getContract" /\ ~ lagging /\ ClearedBefore(q) # {} =>
              q.answer \in {Chain!Nobody, "error"}

ReadInv == \A r \in Reads : query[r] # NoQuery => StageOk(query[r]) /\ AnswerOk(query[r])

OInv == IInv /\ MessageInv /\ DoneInv

-----------------------------------------------------------------------------
(* The contracts                                                           *)

\* No code or contract disappears or gets another author, and no contract loses
\* what was written to it, or gets another admin once its admin is not the user.
ContractsStay ==
    /\ Len(codes) <= Len(codes')
    /\ \A k \in 1..Len(codes) : codes'[k] = codes[k]
    /\ Len(contracts) <= Len(contracts')
    /\ \A a \in 1..Len(contracts) :
          /\ contracts'[a].by = contracts[a].by /\ contracts'[a].origin = contracts[a].origin
          /\ contracts[a].written \subseteq contracts'[a].written
          /\ contracts[a].admin # "user" => contracts'[a].admin = contracts[a].admin

\* No contract gets another code.
CodesStay == \A a \in 1..Len(contracts) : contracts'[a].code = contracts[a].code

LEMMA ExecutionKeepsContracts ==
    ASSUME TypeOK, NEW c \in Calls, NEW m \in Message, NEW nested \in BOOLEAN,
           Chain!Execute(c, m, nested)
    PROVE  /\ ContractsStay
           /\ \A a \in 1..Len(contracts) :
                 \/ contracts'[a].code = contracts[a].code
                 \/ /\ m.type = "MigrateContract" /\ m.contract = a
                    /\ contracts'[a].code = m.code
<1>1. ChainGrows /\ Changes(c, m)
  BY Executed
<1>2. Chain!Possible(m)
  BY DEF Chain!Execute
<1>3. ASSUME NEW a \in 1..Len(contracts)
      PROVE  /\ contracts[a].written \subseteq Chain!Changed(c, m, a).written
             /\ contracts[a].admin # "user" =>
                   Chain!Changed(c, m, a).admin = contracts[a].admin
             /\ \/ Chain!Changed(c, m, a).code = contracts[a].code
                \/ /\ m.type = "MigrateContract" /\ m.contract = a
                   /\ Chain!Changed(c, m, a).code = m.code
  <2>1. contracts[a] \in Chain!ContractInfo
    BY ElementOfSeq DEF TypeOK
  <2>2. m.type \in {"UpdateAdmin", "ClearAdmin"} /\ m.contract = a =>
           contracts[a].admin = "user"
    BY <1>2 DEF Chain!Possible, Chain!Stores
  <2> QED
    BY <2>1, <2>2 DEF Chain!Changed, Chain!ContractInfo
<1> QED
  BY <1>1, <1>3 DEF ChainGrows, Changes, ContractsStay

LEMMA OthersKeepContracts ==
    ASSUME TypeOK, Chain!ElsewhereStores \/ Chain!ElsewhereInstantiates
    PROVE  ContractsStay /\ CodesStay
<1>1. ChainGrows
  BY OthersOnlyAdd
<1>2. \A a \in 1..Len(contracts) : contracts'[a] = contracts[a]
  <2>1. CASE Chain!ElsewhereStores
    BY <2>1 DEF Chain!ElsewhereStores
  <2>2. CASE Chain!ElsewhereInstantiates
    <3>1. PICK new : contracts' = Append(contracts, new)
      BY <2>2 DEF Chain!ElsewhereInstantiates
    <3>2. contracts \in Seq(Chain!ContractInfo)
      BY DEF TypeOK
    <3> QED
      BY <3>1, <3>2, AppendProperties
  <2> QED
    BY <2>1, <2>2
<1> QED
  BY <1>1, <1>2 DEF ChainGrows, ContractsStay, CodesStay

\* What an application called it called for good, what was executed was executed
\* for good, and another code means another migration.
CallsStay ==
    /\ ContractsStay
    /\ lagging' = lagging
    /\ \A c \in Calls : call[c] # NoCall => call'[c] = call[c]
    /\ \A c \in Calls : fate[c] = "success" => fate'[c] = "success"
    /\ \A a \in 1..Len(contracts) :
          \/ contracts'[a].code = contracts[a].code
          \/ \E d \in Migrated(a)' : contracts'[a].code = call'[d].message.code

LEMMA DoneStays ==
    ASSUME CallsStay, Len(codes) \in Nat, Len(codes') \in Nat,
           Len(contracts) \in Nat, Len(contracts') \in Nat,
           \A d \in Calls : fate[d] = "success" => call[d] # NoCall,
           NEW c, NEW method, NEW message, Done(c, method, message)
    PROVE  Done(c, method, message)'
<1>1. \A a \in 1..Len(contracts) : a \in 1..Len(contracts')
  BY DEF CallsStay, ContractsStay
<1>2. \A k \in 1..Len(codes) : k \in 1..Len(codes') /\ codes'[k] = codes[k]
  BY DEF CallsStay, ContractsStay
<1>3. ASSUME NEW k, NEW a \in 1..Len(contracts), Instantiated(c, k, a)
      PROVE  a \in 1..Len(contracts') /\ Instantiated(c, k, a)'
  BY <1>1, <1>3 DEF CallsStay, ContractsStay, Instantiated
<1>4. CASE method = "upload"
  BY <1>2, <1>4 DEF Done
<1>5. CASE method = "instantiate"
  BY <1>3, <1>5 DEF Done
<1>6. CASE method = "uploadAndInstantiate"
  BY <1>2, <1>3, <1>6 DEF Done
<1>7. CASE method \in {"executeMultiple", "clearAdmin", "updateAdmin"}
  BY <1>1, <1>7 DEF CallsStay, ContractsStay, Done, Chain!Nobody
<1>8. CASE method = "migrate"
  <2> DEFINE a == message.contract
  <2>1. /\ a \in 1..Len(contracts) /\ a \in 1..Len(contracts')
        /\ \E d \in Migrated(a) : contracts[a].code = call[d].message.code
    BY <1>1, <1>8 DEF Done
  <2>2. \A d \in Migrated(a) : d \in Migrated(a)' /\ call'[d] = call[d]
    BY DEF CallsStay, Migrated
  <2>3. \E d \in Migrated(a)' : contracts'[a].code = call'[d].message.code
    BY <2>1, <2>2 DEF CallsStay
  <2> QED
    BY <1>8, <2>1, <2>3 DEF Done
<1>9. CASE method \notin {"upload", "instantiate", "uploadAndInstantiate", "executeMultiple",
                         "clearAdmin", "updateAdmin", "migrate"}
  BY <1>9 DEF Done
<1> QED
  BY <1>4, <1>5, <1>6, <1>7, <1>8, <1>9

\* The execution of a method's message does what the caller asked for.
LEMMA ExecutionIsDone ==
    ASSUME IInv, MessageInv, NEW c \in Calls, call[c] # NoCall,
           NEW method, NEW m, method = call[c].method, m = call[c].message,
           ~ IsEmpty(m), NEW nested \in BOOLEAN, Chain!Execute(c, m, nested),
           fate'[c] = "success", call'[c] = call[c]
    PROVE  Done(c, method, m)'
<1>1. m \in Message
  BY DEF IInv, TypeOK
<1>c. ChainGrows /\ Changes(c, m)
  BY <1>1, Executed DEF IInv
<1>2. /\ \A a \in 1..Len(contracts) : contracts'[a] = Chain!Changed(c, m, a)
      /\ Len(contracts) \in Nat /\ Len(contracts') \in Nat
  BY <1>c, LenProperties DEF IInv, TypeOK, ChainGrows, Changes
<1>3. Chain!Possible(m)
  BY DEF Chain!Execute
<1>4. \A a \in 1..Len(contracts) :
         a \in 1..Len(contracts') /\ contracts[a] \in Chain!ContractInfo
  BY <1>c, <1>2, ElementOfSeq DEF IInv, TypeOK, ChainGrows
<1>5. Contracts \subseteq Nat \ {0}
  BY ContractCallsAssumption DEF Contracts
<1>6. CASE method = "executeMultiple"
  <2>1. PICK addresses \in SUBSET Contracts : m = MsgsExecuteContract(addresses)
    BY <1>6 DEF MessageInv
  <2>2. m.type = "ExecuteContract" /\ m.contracts = addresses
    BY <2>1 DEF MsgsExecuteContract
  <2>3. m.contracts # {} /\ \A a \in m.contracts : a \in 1..Len(contracts)
    BY <1>2, <1>3, <1>5, <2>2 DEF IsEmpty, Chain!Possible, Chain!Stores
  <2>4. ASSUME NEW a \in m.contracts
        PROVE  a \in 1..Len(contracts') /\ c \in contracts'[a].written
    <3>1. a \in 1..Len(contracts) /\ a \in 1..Len(contracts')
      BY <1>4, <2>3
    <3>2. contracts[a] \in Chain!ContractInfo /\ contracts'[a] = Chain!Changed(c, m, a)
      BY <1>2, <1>4, <3>1
    <3>3. Chain!Changed(c, m, a) = [contracts[a] EXCEPT !.written = @ \cup {c}]
      BY <2>2 DEF Chain!Changed
    <3> QED
      BY <3>1, <3>2, <3>3 DEF Chain!ContractInfo
  <2> QED
    BY <1>6, <2>3, <2>4 DEF Done
<1>7. CASE method = "clearAdmin"
  <2>1. PICK a \in Contracts : m = MsgClearAdmin(a)
    BY <1>7 DEF MessageInv
  <2>2. m.type = "ClearAdmin" /\ m.contract = a
    BY <2>1 DEF MsgClearAdmin
  <2>3. a \in 1..Len(contracts)
    BY <1>2, <1>3, <1>5, <2>2 DEF Chain!Possible, Chain!Stores
  <2>4. contracts'[a].admin = Chain!Nobody
    BY <1>2, <1>4, <2>2, <2>3 DEF Chain!Changed, Chain!ContractInfo
  <2> QED
    BY <1>4, <1>7, <2>2, <2>3, <2>4 DEF Done, Chain!Nobody
<1>8. CASE method = "updateAdmin"
  <2>1. PICK a \in Contracts : m = MsgUpdateAdmin(a, "other")
    BY <1>8 DEF MessageInv
  <2>2. m.type = "UpdateAdmin" /\ m.contract = a /\ m.admin = "other"
    BY <2>1 DEF MsgUpdateAdmin
  <2>3. a \in 1..Len(contracts)
    BY <1>2, <1>3, <1>5, <2>2 DEF Chain!Possible, Chain!Stores
  <2>4. contracts'[a].admin = "other"
    BY <1>2, <1>4, <2>2, <2>3 DEF Chain!Changed, Chain!ContractInfo
  <2> QED
    BY <1>4, <1>8, <2>2, <2>3, <2>4 DEF Done
<1>9. CASE method = "migrate"
  <2>1. PICK a \in Contracts, k \in CodeIds : m = MsgMigrateContract(a, k)
    BY <1>9 DEF MessageInv
  <2>2. m.type = "MigrateContract" /\ m.contract = a /\ m.code = k
    BY <2>1 DEF MsgMigrateContract
  <2>3. a \in 1..Len(contracts)
    BY <1>2, <1>3, <1>5, <2>2 DEF Chain!Possible, Chain!Stores
  <2>4. contracts'[a].code = k
    BY <1>2, <1>4, <2>2, <2>3 DEF Chain!Changed, Chain!ContractInfo
  <2>5. c \in Migrated(a)' /\ call'[c].message.code = k
    BY <2>2 DEF Migrated
  <2> QED
    BY <1>4, <1>9, <2>2, <2>3, <2>4, <2>5 DEF Done
<1>10. CASE method \in Storing \cup Instantiating
  <2>1. /\ Chain!Stores(m) =>
             /\ Len(codes') = Len(codes) + 1
             /\ codes'[Len(codes) + 1] = [checksum |-> m.wasm, by |-> c]
        /\ Chain!Instantiates(m) =>
             /\ Len(contracts) + 1 <= Len(contracts')
             /\ contracts'[Len(contracts) + 1].by = c
             /\ contracts'[Len(contracts) + 1].origin = Chain!CodeOf(m)
    BY <1>1, Executed DEF IInv
  <2>2. Len(codes) \in Nat
    BY LenProperties DEF IInv, TypeOK
  <2>3. /\ method \in Storing => Chain!Stores(m)
        /\ method \in Instantiating => Chain!Instantiates(m)
        /\ method = "instantiate" => Chain!CodeOf(m) = m.code
        /\ method = "uploadAndInstantiate" => Chain!CodeOf(m) = Len(codes) + 1
    BY DEF IInv, MethodInv, Storing, Instantiating, Chain!Stores, Chain!Instantiates,
       Chain!CodeOf
  <2>4. method \in Storing =>
          /\ Len(codes) + 1 \in 1..Len(codes')
          /\ codes'[Len(codes) + 1] = [checksum |-> m.wasm, by |-> c]
    BY <2>1, <2>2, <2>3
  <2>5. method \in Instantiating =>
          /\ Len(contracts) + 1 \in 1..Len(contracts')
          /\ contracts'[Len(contracts) + 1].by = c
          /\ contracts'[Len(contracts) + 1].origin = Chain!CodeOf(m)
    BY <1>2, <2>1, <2>3
  <2>6. CASE method = "upload"
    BY <2>4, <2>6 DEF Done, Storing
  <2>7. CASE method = "instantiate"
    BY <2>3, <2>5, <2>7 DEF Done, Instantiated, Instantiating
  <2>8. CASE method = "uploadAndInstantiate"
    BY <2>3, <2>4, <2>5, <2>8 DEF Done, Instantiated, Storing, Instantiating
  <2> QED
    BY <1>10, <2>6, <2>7, <2>8 DEF Storing, Instantiating
<1>11. CASE method \notin Storing \cup Instantiating
                 \cup {"executeMultiple", "clearAdmin", "updateAdmin", "migrate"}
  BY <1>11 DEF Done, Storing, Instantiating
<1> QED
  BY <1>6, <1>7, <1>8, <1>9, <1>10, <1>11

-----------------------------------------------------------------------------
(* The steps                                                               *)

LEMMA ReaderLeavesCalls ==
    ASSUME NEW r \in Reads, Reader(r)
    PROVE  UNCHANGED <<promise, fate, call, codes, contracts, log, lagging>>
BY DEF Reader, GetCodeDetails, GetContract, QueryContractRaw, QueryContractSmart, Query,
   QueryFails, OnCode, OnContract, OnRawData, OnSmartData, callVars, chainVars

LEMMA NextKeepsCalls ==
    ASSUME IInv, [Next]_vars
    PROVE  CallsStay
<1>1. /\ Len(contracts) \in Nat /\ contracts \in Seq(Chain!ContractInfo)
      /\ fate \in [Calls -> {"none", "success", "failure"}]
      /\ TypeOK
  BY LenProperties DEF IInv, TypeOK
<1>2. codes' = codes /\ contracts' = contracts => ContractsStay /\ CodesStay
  <2>1. Len(codes) \in Nat
    BY LenProperties DEF IInv, TypeOK
  <2> QED
    BY <1>1, <2>1 DEF ContractsStay, CodesStay
<1>3. ASSUME NEW c \in Calls, MethodCalled(c) PROVE CallsStay
  <2>1. PICK method, message : Call(c, method, message)
    BY <1>3, MethodsBuild
  <2> QED
    BY <1>2, <2>1 DEF Call, CallsStay, CodesStay, chainVars, readVars
<1>4. ASSUME NEW c \in Calls, PromiseMoves(c) PROVE CallsStay
  <2>1. PICK p : Ends(c, p)
    BY <1>4 DEF PromiseMoves, Signs, IsRefused, IsLost, IsDelivered
  <2> QED
    BY <1>2, <2>1 DEF Ends, CallsStay, CodesStay, chainVars, readVars
<1>5. ASSUME NEW c \in Calls, IsExecuted(c) PROVE CallsStay
  <2>1. UNCHANGED <<promise, call, readVars>> /\ fate[c] = "none"
    BY <1>5 DEF IsExecuted
  <2>2. call[c].message \in Message
    BY <1>5 DEF IsExecuted, IInv, FateInv, TypeOK
  <2>4. \E f : fate' = [fate EXCEPT ![c] = f]
    BY <1>5 DEF IsExecuted
  <2>5. CASE UNCHANGED chainVars
    BY <1>1, <1>2, <2>1, <2>4, <2>5 DEF CallsStay, CodesStay, readVars, chainVars
  <2>6. CASE /\ fate' = [fate EXCEPT ![c] = "success"]
             /\ \E nested \in BOOLEAN : Chain!Execute(c, call[c].message, nested)
    <3> DEFINE m == call[c].message
    <3>1. PICK nested \in BOOLEAN : Chain!Execute(c, m, nested)
      BY <2>6
    <3>2. /\ ContractsStay
          /\ \A a \in 1..Len(contracts) :
                \/ contracts'[a].code = contracts[a].code
                \/ /\ m.type = "MigrateContract" /\ m.contract = a
                   /\ contracts'[a].code = m.code
      BY <1>1, <2>2, <3>1, ExecutionKeepsContracts
    <3>3. fate'[c] = "success" /\ call'[c].message = m
      BY <1>1, <2>1, <2>6
    <3>4. ASSUME NEW a, m.type = "MigrateContract", m.contract = a PROVE c \in Migrated(a)'
      BY <3>3, <3>4 DEF Migrated
    <3>5. \A a \in 1..Len(contracts) :
             \/ contracts'[a].code = contracts[a].code
             \/ \E d \in Migrated(a)' : contracts'[a].code = call'[d].message.code
      BY <3>2, <3>3, <3>4
    <3> QED
      BY <1>1, <2>1, <2>4, <3>2, <3>5 DEF CallsStay, readVars
  <2> QED
    BY <1>5, <2>5, <2>6 DEF IsExecuted
<1>6. ASSUME NEW r \in Reads, Reader(r) PROVE CallsStay
  BY <1>2, <1>6, ReaderLeavesCalls DEF CallsStay, CodesStay
<1>7. ASSUME OthersAct PROVE CallsStay
  <2>1. ContractsStay /\ CodesStay
    BY <1>1, <1>7, OthersKeepContracts DEF OthersAct
  <2> QED
    BY <1>7, <2>1 DEF OthersAct, CallsStay, CodesStay, callVars, readVars
<1>8. ASSUME UNCHANGED vars PROVE CallsStay
  BY <1>2, <1>8 DEF vars, callVars, chainVars, readVars, CallsStay, CodesStay
<1>9. ASSUME NEW c \in Calls, Client(c) PROVE MethodCalled(c) \/ PromiseMoves(c)
  BY <1>9 DEF Client, MethodCalled, PromiseMoves
<1> QED
  BY <1>3, <1>4, <1>5, <1>6, <1>7, <1>8, <1>9 DEF Next

\* Only the execution of its own message makes a call succeed.
LEMMA OnlyExecutionSucceeds ==
    ASSUME IInv, [Next]_vars, NEW c \in Calls, fate[c] # "success", fate'[c] = "success"
    PROVE  /\ call[c] # NoCall /\ call'[c] = call[c] /\ ~ IsEmpty(call[c].message)
           /\ \E nested \in BOOLEAN : Chain!Execute(c, call[c].message, nested)
<1>1. fate' # fate /\ fate \in [Calls -> {"none", "success", "failure"}]
  BY DEF IInv, TypeOK
<1>2. ASSUME NEW d \in Calls, Client(d) PROVE FALSE
  <2>1. MethodCalled(d) \/ PromiseMoves(d)
    BY <1>2 DEF Client, MethodCalled, PromiseMoves
  <2> QED
    BY <1>1, <2>1, MethodsBuild
    DEF Call, PromiseMoves, Signs, IsRefused, IsLost, IsDelivered, Ends
<1>3. ASSUME NEW r \in Reads, Reader(r) PROVE FALSE
  BY <1>1, <1>3, ReaderLeavesCalls
<1>4. ~ OthersAct /\ ~ UNCHANGED vars
  BY <1>1 DEF OthersAct, vars, callVars
<1>5. PICK d \in Calls : IsExecuted(d)
  BY <1>2, <1>3, <1>4 DEF Next
<1>6. d = c
  BY <1>1, <1>5 DEF IsExecuted
<1> QED
  BY <1>1, <1>5, <1>6 DEF IsExecuted, IInv, FateInv

LEMMA NextKeepsMessages ==
    ASSUME IInv, MessageInv, [Next]_vars
    PROVE  MessageInv'
<1>1. call \in [Calls -> {NoCall} \cup [method : Methods, message : Message]]
  BY DEF IInv, TypeOK
<1>2. call' = call => MessageInv'
  BY DEF MessageInv
<1>3. ASSUME NEW c \in Calls, MethodCalled(c) PROVE MessageInv'
  <2> DEFINE Fits(method, message) ==
          /\ method = "executeMultiple" =>
                \E addresses \in SUBSET Contracts : message = MsgsExecuteContract(addresses)
          /\ method = "clearAdmin" => \E a \in Contracts : message = MsgClearAdmin(a)
          /\ method = "updateAdmin" => \E a \in Contracts : message = MsgUpdateAdmin(a, "other")
          /\ method = "migrate" =>
                \E a \in Contracts, k \in CodeIds : message = MsgMigrateContract(a, k)
  <2>1. PICK method, message : Call(c, method, message) /\ Fits(method, message)
    <3>1. CASE SendTokens(c)
      BY <3>1 DEF SendTokens
    <3>2. CASE Upload(c)
      BY <3>2 DEF Upload
    <3>3. CASE Instantiate(c)
      BY <3>3 DEF Instantiate
    <3>4. CASE UploadAndInstantiate(c)
      BY <3>4 DEF UploadAndInstantiate
    <3>5. CASE UpdateAdmin(c)
      BY <3>5 DEF UpdateAdmin
    <3>6. CASE ClearAdmin(c)
      BY <3>6 DEF ClearAdmin
    <3>7. CASE Migrate(c)
      BY <3>7 DEF Migrate
    <3>8. CASE ExecuteMultiple(c)
      BY <3>8 DEF ExecuteMultiple
    <3> QED
      BY <1>3, <3>1, <3>2, <3>3, <3>4, <3>5, <3>6, <3>7, <3>8 DEF MethodCalled
  <2>2. ASSUME NEW d \in Calls PROVE
           call'[d] = IF d = c THEN [method |-> method, message |-> message] ELSE call[d]
    BY <1>1, <2>1 DEF Call
  <2> QED
    BY <2>1, <2>2 DEF MessageInv
<1>4. ASSUME NEW c \in Calls, PromiseMoves(c) \/ IsExecuted(c) PROVE MessageInv'
  BY <1>2, <1>4 DEF PromiseMoves, Signs, IsRefused, IsLost, IsDelivered, Ends, IsExecuted
<1>5. ASSUME NEW r \in Reads, Reader(r) PROVE MessageInv'
  BY <1>2, <1>5, ReaderLeavesCalls
<1>6. OthersAct \/ UNCHANGED vars => MessageInv'
  BY <1>2 DEF OthersAct, vars, callVars
<1>7. ASSUME NEW c \in Calls, Client(c) PROVE MethodCalled(c) \/ PromiseMoves(c)
  BY <1>7 DEF Client, MethodCalled, PromiseMoves
<1> QED
  BY <1>3, <1>4, <1>5, <1>6, <1>7 DEF Next

LEMMA NextKeepsDone ==
    ASSUME IInv, MessageInv, DoneInv, [Next]_vars
    PROVE  DoneInv'
<1>1. CallsStay
  BY NextKeepsCalls
<1>2. /\ Len(codes) \in Nat /\ Len(codes') \in Nat
      /\ Len(contracts) \in Nat /\ Len(contracts') \in Nat
  <2>1. IInv'
    BY NextInv
  <2> QED
    BY <2>1, LenProperties DEF IInv, TypeOK
<1>3. \A d \in Calls : fate[d] = "success" => call[d] # NoCall
  BY DEF DoneInv
<1>4. ASSUME NEW c \in Calls, fate'[c] = "success",
             NEW method, NEW message, method = call'[c].method, message = call'[c].message
      PROVE  call'[c] # NoCall /\ Done(c, method, message)'
  <2>1. CASE fate[c] = "success"
    <3>1. call'[c] = call[c] /\ call[c] # NoCall /\ Done(c, method, message)
      BY <1>1, <1>4, <2>1 DEF CallsStay, DoneInv
    <3>2. Done(c, method, message)'
      BY <1>1, <1>2, <1>3, <3>1, DoneStays
    <3> QED
      BY <3>1, <3>2
  <2>2. CASE fate[c] # "success"
    <3>1. /\ call[c] # NoCall /\ call'[c] = call[c] /\ ~ IsEmpty(message)
          /\ \E nested \in BOOLEAN : Chain!Execute(c, message, nested)
      BY <1>4, <2>2, OnlyExecutionSucceeds
    <3>2. method = call[c].method /\ message = call[c].message
      BY <1>4, <3>1
    <3>3. Done(c, method, message)'
      BY <1>4, <3>1, <3>2, ExecutionIsDone
    <3> QED
      BY <3>1, <3>3
  <2> QED
    BY <2>1, <2>2
<1> SUFFICES ASSUME NEW c \in Calls, fate'[c] = "success"
             PROVE  (call[c] # NoCall /\ Done(c, call[c].method, call[c].message))'
  BY DEF DoneInv
<1>5. PICK method, message : method = call'[c].method /\ message = call'[c].message
  OBVIOUS
<1>6. call'[c] # NoCall /\ Done(c, method, message)'
  BY <1>4, <1>5
<1> QED
  BY <1>5, <1>6 DEF Done

LEMMA DoneInvariant == Spec => []OInv
<1>1. Init => OInv
  <2>1. Init => MessageInv /\ DoneInv
    BY DEF Init, MessageInv, DoneInv
  <2> QED
    BY <2>1, InitInv DEF OInv
<1>2. OInv /\ [Next]_vars => OInv'
  BY NextInv, NextKeepsMessages, NextKeepsDone DEF OInv
<1> QED
  BY <1>1, <1>2, PTL DEF Spec

\* Whatever else is signed, executed or asked meanwhile: when the promise of a
\* method resolves, all the caller asked for is done and stays done, but for a
\* migration, which only another one replaces.
THEOREM WhatResolvesIsDone == Spec => []ResolvedMeansDone
<1>1. OInv => ResolvedMeansDone
  <2> SUFFICES ASSUME OInv, NEW c \in Resolved
               PROVE  fate[c] = "success" /\ c \in Calls
    BY DEF OInv, DoneInv, ResolvedMeansDone
  <2>1. c \in Calls /\ Outcome(c) = "resolved"
    BY DEF Resolved
  <2>2. promise[c] = "success"
    BY <2>1 DEF Outcome, OInv, IInv, TypeOK
  <2> QED
    BY <2>1, <2>2 DEF OInv, IInv, FateInv
<1> QED
  BY <1>1, DoneInvariant, PTL

\* An error that leaves open what became of the transaction means that all the
\* caller asked for is done, or nothing: all of it if the log could not be read, and
\* after a timeout or a lost answer all of it as soon as there is any trace.
THEOREM UnclearErrorsMeanAllOrNothing == Spec => []UnclearErrorsAreAllOrNothing
<1>1. OInv => UnclearErrorsAreAllOrNothing
  <2> SUFFICES ASSUME OInv, NEW c \in Calls,
                      Outcome(c) = "LogUnreadable" \/ LeftTrace(c)
               PROVE  fate[c] = "success"
    BY DEF OInv, DoneInv, UnclearErrorsAreAllOrNothing
  <2>1. CASE Outcome(c) = "LogUnreadable"
    <3>1. promise[c] = "success"
      BY <2>1 DEF Outcome, OInv, IInv, TypeOK
    <3> QED
      BY <3>1 DEF OInv, IInv, FateInv
  <2>2. CASE LeftTrace(c)
    BY <2>2 DEF OInv, IInv, TraceInv
  <2> QED
    BY <2>1, <2>2
<1> QED
  BY <1>1, DoneInvariant, PTL

-----------------------------------------------------------------------------
(* The queries                                                             *)

\* What a query remembers and was answered stays true.
LEMMA AnswersStay ==
    ASSUME OInv, [Next]_vars, NEW q \in QueryRecord, StageOk(q), AnswerOk(q)
    PROVE  StageOk(q)' /\ AnswerOk(q)'
<1>1. CallsStay
  BY NextKeepsCalls DEF OInv
<1>2. \A c \in q.after : fate[c] = "success" /\ fate'[c] = "success" /\ call'[c] = call[c]
  BY <1>1 DEF CallsStay, StageOk, OInv, DoneInv
<1>3. DoneBefore(q)' = DoneBefore(q) /\ ClearedBefore(q)' = ClearedBefore(q)
  BY <1>2 DEF DoneBefore, ClearedBefore
<1>4. /\ Len(contracts) \in Nat /\ Len(contracts') \in Nat
      /\ Len(contracts) <= Len(contracts')
      /\ q.about \in Nat
  <2>1. IInv'
    BY NextInv DEF OInv
  <2>2. CodeIds \cup Contracts \subseteq Nat
    BY ContractCallsAssumption DEF CodeIds, Contracts
  <2> QED
    BY <1>1, <2>1, <2>2, LenProperties
    DEF OInv, IInv, TypeOK, CallsStay, ContractsStay, QueryRecord
<1>5. q.about <= Len(contracts) => q.about <= Len(contracts')
  BY <1>4
<1>6. StageOk(q)'
  BY <1>1, <1>2, <1>5 DEF StageOk, CallsStay
<1>7. AnswerOk(q)'
  BY <1>1, <1>3, <1>5 DEF AnswerOk, CallsStay, Chain!Nobody
<1> QED
  BY <1>6, <1>7

\* What a call did can be seen on the chain by a query that remembers it.
LEMMA WhatIsSeen ==
    ASSUME OInv, NEW q \in QueryRecord, StageOk(q)
    PROVE  /\ DoneBefore(q) # {} =>
                q.about \in 1..Len(contracts) /\ contracts[q.about].written # {}
           /\ ClearedBefore(q) # {} =>
                q.about \in 1..Len(contracts) /\ contracts[q.about].admin = Chain!Nobody
<1>1. ASSUME NEW c \in DoneBefore(q)
      PROVE  q.about \in 1..Len(contracts) /\ contracts[q.about].written # {}
  <2>1. fate[c] = "success" /\ c \in Calls
    BY DEF DoneBefore, StageOk
  <2>2. call[c].method = "executeMultiple" /\ q.about \in call[c].message.contracts
    BY DEF DoneBefore
  <2>3. Done(c, call[c].method, call[c].message)
    BY <2>1 DEF OInv, DoneInv
  <2> QED
    BY <2>2, <2>3 DEF Done
<1>2. ASSUME NEW c \in ClearedBefore(q)
      PROVE  q.about \in 1..Len(contracts) /\ contracts[q.about].admin = Chain!Nobody
  <2>1. fate[c] = "success" /\ c \in Calls
    BY DEF ClearedBefore, StageOk
  <2>2. call[c].method = "clearAdmin" /\ call[c].message.contract = q.about
    BY DEF ClearedBefore
  <2>3. Done(c, call[c].method, call[c].message)
    BY <2>1 DEF OInv, DoneInv
  <2> QED
    BY <2>2, <2>3 DEF Done
<1> QED
  BY <1>1, <1>2

\* A query starts with what the application knows, and no answer that could be
\* wrong.
LEMMA StartsOk ==
    ASSUME OInv, NEW r \in Reads,
           GetCodeDetails(r) \/ GetContract(r) \/ QueryContractRaw(r) \/ QueryContractSmart(r)
    PROVE  \E q \in QueryRecord : query' = [query EXCEPT ![r] = q] /\ StageOk(q) /\ AnswerOk(q)
<1>1. ASSUME NEW c \in Resolved PROVE fate[c] = "success" /\ c \in Calls
  <2>1. c \in Calls /\ Outcome(c) = "resolved"
    BY DEF Resolved
  <2>2. promise[c] = "success"
    BY <2>1 DEF Outcome, OInv, IInv, TypeOK
  <2> QED
    BY <2>1, <2>2 DEF OInv, IInv, FateInv
<1>2. \A w \in Wasms : w \notin {"none", "data", "empty"}
  BY ContractCallsAssumption
<1>3. PICK method, about, stage, answer :
        /\ Query(r, method, about, stage, answer)
        /\ method \in {"getCodeDetails", "getContract", "queryContractRaw",
                       "queryContractSmart"}
        /\ about \in CodeIds \cup Contracts
        /\ stage \in {"getCode", "getContractInfo", "queryContractSmart", "done"}
        /\ answer \in Wasms \cup {"none"}
        /\ stage = "queryContractSmart" => method # "getContract"
        /\ stage = "done" => method # "getContract"
  <2>1. CASE GetCodeDetails(r)
    <3>1. codesCache \in [CodeIds -> Wasms \cup {"none"}]
      BY DEF OInv, IInv, TypeOK
    <3>2. PICK k \in CodeIds :
            \/ Query(r, "getCodeDetails", k, "done", codesCache[k])
            \/ Query(r, "getCodeDetails", k, "getCode", "none")
      BY <2>1 DEF GetCodeDetails
    <3> QED
      BY <3>1, <3>2
  <2>2. CASE GetContract(r)
    BY <2>2 DEF GetContract
  <2>3. CASE QueryContractRaw(r)
    BY <2>3 DEF QueryContractRaw
  <2>4. CASE QueryContractSmart(r)
    BY <2>4 DEF QueryContractSmart
  <2> QED
    BY <2>1, <2>2, <2>3, <2>4
<1> DEFINE q == [method |-> method, about |-> about, stage |-> stage, answer |-> answer,
                 after |-> Resolved]
<1>4. query' = [query EXCEPT ![r] = q]
  BY <1>3 DEF Query
<1>5. q \in QueryRecord
  BY <1>1, <1>3 DEF QueryRecord, Answers
<1>6. StageOk(q)
  BY <1>1, <1>3 DEF StageOk
<1>7. AnswerOk(q)
  BY <1>2, <1>3 DEF AnswerOk
<1> QED
  BY <1>4, <1>5, <1>6, <1>7

\* What a query is answered is true of the chain as it is, or as it was if the
\* node is behind.
LEMMA AnswersOk ==
    ASSUME OInv, NEW r \in Reads, query[r] # NoQuery, query[r].stage # "done",
           StageOk(query[r]),
           QueryFails(r) \/ OnCode(r) \/ OnContract(r) \/ OnRawData(r) \/ OnSmartData(r)
    PROVE  \E stage, answer :
              /\ Answer(r, stage, answer)
              /\ stage \in {"queryContractRaw", "done"}
              /\ stage = "queryContractRaw" =>
                    query[r].method # "getContract" /\ query[r].about <= Len(contracts)
              /\ stage = "done" =>
                    /\ answer \in {"data", "empty"} => query[r].about <= Len(contracts)
                    /\ answer = "empty" /\ ~ lagging => DoneBefore(query[r]) = {}
                    /\ query[r].method = "getContract" /\ ~ lagging
                          /\ ClearedBefore(query[r]) # {} =>
                              answer \in {Chain!Nobody, "error"}
<1> DEFINE q == query[r]
<1>1. q \in QueryRecord /\ QueryInv
  BY DEF OInv, IInv, TypeOK
<1>2. \A w \in Wasms : w \notin {"data", "empty", "error"}
  BY ContractCallsAssumption
<1>3. /\ DoneBefore(q) # {} =>
           q.about \in 1..Len(contracts) /\ contracts[q.about].written # {}
      /\ ClearedBefore(q) # {} =>
           q.about \in 1..Len(contracts) /\ contracts[q.about].admin = Chain!Nobody
  BY <1>1, WhatIsSeen
<1>4. /\ q.about \in Nat \ {0} /\ Len(contracts) \in Nat
      /\ contracts \in Seq(Chain!ContractInfo)
  BY <1>1, LenProperties, ContractCallsAssumption
  DEF OInv, IInv, TypeOK, QueryRecord, CodeIds, Contracts
<1>5. CASE QueryFails(r)
  BY <1>5 DEF QueryFails
<1>6. CASE OnCode(r)
  <2>1. PICK answer \in CodeAnswers(q.about) : StoreCode(r, answer)
    BY <1>6 DEF OnCode
  <2>2. q.method = "getCodeDetails" /\ q.about \in CodeIds
    BY <1>1, <1>6 DEF OnCode, QueryInv
  <2>3. answer \in Wasms \cup {"incomplete"}
    <3>1. q.about <= Len(codes) => codes[q.about] \in Chain!CodeInfo
      <4>1. codes \in Seq(Chain!CodeInfo) /\ Len(codes) \in Nat
        BY LenProperties DEF OInv, IInv, TypeOK
      <4> QED
        BY <1>4, <4>1, ElementOfSeq
    <3> QED
      BY <2>1, <3>1 DEF CodeAnswers, Chain!CodeInfo
  <2>4. PICK told \in Wasms \cup {"error"} : Answer(r, "done", told)
    BY <2>1, <2>3 DEF StoreCode
  <2> QED
    BY <1>2, <2>2, <2>4
<1>7. CASE OnContract(r)
  <2>1. PICK answer \in ContractAnswers(q.about) :
          IF answer = "missing" THEN Answer(r, "done", "error")
          ELSE IF q.method = "getContract" THEN Answer(r, "done", answer)
          ELSE Answer(r, "queryContractRaw", "none")
    BY <1>7 DEF OnContract
  <2>2. q.about <= Len(contracts) =>
          contracts[q.about].admin \in Chain!Admins \cup {Chain!Nobody}
    <3>1. q.about <= Len(contracts) => contracts[q.about] \in Chain!ContractInfo
      BY <1>4, ElementOfSeq
    <3> QED
      BY <3>1 DEF Chain!ContractInfo
  <2>3. answer # "missing" =>
          /\ q.about <= Len(contracts)
          /\ answer \in Chain!Admins \cup {Chain!Nobody}
          /\ ~ lagging => answer = contracts[q.about].admin
    BY <2>1, <2>2 DEF ContractAnswers
  <2>4. \A x \in Chain!Admins \cup {Chain!Nobody} : x \notin {"data", "empty"}
    BY DEF Chain!Admins, Chain!Nobody
  <2>5. CASE answer = "missing"
    BY <2>1, <2>5
  <2>6. CASE answer # "missing" /\ q.method = "getContract"
    BY <1>3, <2>1, <2>3, <2>4, <2>6
  <2>7. CASE answer # "missing" /\ q.method # "getContract"
    BY <2>1, <2>3, <2>7
  <2> QED
    BY <2>5, <2>6, <2>7
<1>8. CASE OnRawData(r) \/ OnSmartData(r)
  <2>1. PICK answer \in DataAnswers(q.about) : Answer(r, "done", answer)
    BY <1>8 DEF OnRawData, OnSmartData
  <2>2. q.method # "getContract" /\ q.about <= Len(contracts)
    BY <1>8 DEF OnRawData, OnSmartData, StageOk
  <2>3. answer = "empty" /\ ~ lagging => contracts[q.about].written = {}
    BY <2>1, <2>2 DEF DataAnswers
  <2> QED
    BY <1>3, <2>1, <2>2, <2>3
<1> QED
  BY <1>5, <1>6, <1>7, <1>8

\* The record of a query that started or was answered in this step.
LEMMA ReaderAsksOrAnswers ==
    ASSUME OInv, ReadInv, NEW r \in Reads, Reader(r)
    PROVE  \E q \in QueryRecord : query' = [query EXCEPT ![r] = q] /\ StageOk(q) /\ AnswerOk(q)
<1>1. CASE GetCodeDetails(r) \/ GetContract(r) \/ QueryContractRaw(r) \/ QueryContractSmart(r)
  BY <1>1, StartsOk
<1>2. CASE QueryFails(r) \/ OnCode(r) \/ OnContract(r) \/ OnRawData(r) \/ OnSmartData(r)
  <2>1. query[r] # NoQuery /\ query[r].stage # "done"
    BY <1>2 DEF QueryFails, OnCode, OnContract, OnRawData, OnSmartData, NoQuery
  <2>2. StageOk(query[r])
    BY <2>1 DEF ReadInv
  <2>3. PICK stage, answer :
          /\ Answer(r, stage, answer)
          /\ stage \in {"queryContractRaw", "done"}
          /\ stage = "queryContractRaw" =>
                query[r].method # "getContract" /\ query[r].about <= Len(contracts)
          /\ stage = "done" =>
                /\ answer \in {"data", "empty"} => query[r].about <= Len(contracts)
                /\ answer = "empty" /\ ~ lagging => DoneBefore(query[r]) = {}
                /\ query[r].method = "getContract" /\ ~ lagging
                      /\ ClearedBefore(query[r]) # {} => answer \in {Chain!Nobody, "error"}
    BY <1>2, <2>1, <2>2, AnswersOk
  <2> DEFINE q == [query[r] EXCEPT !.stage = stage, !.answer = answer]
  <2>4. query' = [query EXCEPT ![r] = q]
    BY <2>3 DEF Answer
  <2>5. query[r] \in QueryRecord /\ query'[r] = q
    BY <2>1, <2>4 DEF OInv, IInv, TypeOK
  <2>6. query' \in [Reads -> {NoQuery} \cup QueryRecord]
    BY NextInv DEF OInv, IInv, TypeOK, Next
  <2>7. /\ q.method = query[r].method /\ q.about = query[r].about
        /\ q.after = query[r].after /\ q.stage = stage /\ q.answer = answer
    BY <2>5 DEF QueryRecord
  <2>8. q \in QueryRecord
    <3>1. q.method # "none"
      BY <1>2, <2>7 DEF QueryFails, OnCode, OnContract, OnRawData, OnSmartData
    <3>2. NoQuery.method = "none"
      BY DEF NoQuery
    <3>3. query'[r] \in {NoQuery} \cup QueryRecord
      BY <2>6
    <3> HIDE DEF q
    <3> QED
      BY <2>5, <3>1, <3>2, <3>3
  <2> HIDE DEF q
  <2>9. DoneBefore(q) = DoneBefore(query[r]) /\ ClearedBefore(q) = ClearedBefore(query[r])
    BY <2>7 DEF DoneBefore, ClearedBefore
  <2>10. StageOk(q)
    BY <2>2, <2>3, <2>7 DEF StageOk
  <2>11. AnswerOk(q)
    BY <2>3, <2>7, <2>9 DEF AnswerOk
  <2> QED
    BY <2>4, <2>8, <2>10, <2>11
<1> QED
  BY <1>1, <1>2 DEF Reader

LEMMA NextKeepsReads ==
    ASSUME OInv, ReadInv, [Next]_vars
    PROVE  ReadInv'
<1>1. query \in [Reads -> {NoQuery} \cup QueryRecord]
  BY DEF OInv, IInv, TypeOK
<1>2. ASSUME NEW r \in Reads, query'[r] # NoQuery
      PROVE  \E q \in QueryRecord : query'[r] = q /\ StageOk(q) /\ AnswerOk(q)
  <2>1. CASE query'[r] = query[r]
    BY <1>1, <1>2, <2>1 DEF ReadInv
  <2>2. CASE query'[r] # query[r]
    <3>1. PICK d \in Reads : Reader(d)
      <4>1. ASSUME NEW c \in Calls, Client(c) \/ IsExecuted(c) PROVE query' = query
        <5>1. Client(c) => MethodCalled(c) \/ PromiseMoves(c)
          BY DEF Client, MethodCalled, PromiseMoves
        <5> QED
          BY <4>1, <5>1, MethodsBuild
          DEF Call, PromiseMoves, Signs, IsRefused, IsLost, IsDelivered, Ends, IsExecuted,
              readVars
      <4>2. OthersAct \/ UNCHANGED vars => query' = query
        BY DEF OthersAct, vars, readVars
      <4> QED
        BY <2>2, <4>1, <4>2 DEF Next
    <3>2. PICK q \in QueryRecord :
            query' = [query EXCEPT ![d] = q] /\ StageOk(q) /\ AnswerOk(q)
      BY <3>1, ReaderAsksOrAnswers
    <3> QED
      BY <1>1, <2>2, <3>2
  <2> QED
    BY <2>1, <2>2
<1> SUFFICES ASSUME NEW r \in Reads, query'[r] # NoQuery
             PROVE  (StageOk(query[r]) /\ AnswerOk(query[r]))'
  BY DEF ReadInv
<1>3. PICK q \in QueryRecord : query'[r] = q /\ StageOk(q) /\ AnswerOk(q)
  BY <1>2
<1>4. StageOk(q)' /\ AnswerOk(q)'
  BY <1>3, AnswersStay
<1> QED
  BY <1>3, <1>4 DEF StageOk, AnswerOk, DoneBefore, ClearedBefore

\* A query that starts after a call resolved sees what the call did, unless the
\* node that answers is behind; and no query finds data where no contract is.
THEOREM ReadsAreUpToDate == Spec => []ReadsSeeWhatResolved
<1>1. Init => ReadInv
  BY DEF Init, ReadInv
<1>2. OInv /\ ReadInv /\ [Next]_vars => ReadInv'
  BY NextKeepsReads
<1>3. ReadInv => ReadsSeeWhatResolved
  BY DEF ReadInv, AnswerOk, DoneBefore, ClearedBefore, ReadsSeeWhatResolved
<1> QED
  BY <1>1, <1>2, <1>3, DoneInvariant, PTL DEF Spec
=============================================================================
