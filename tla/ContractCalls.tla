--------------------------- MODULE ContractCalls ---------------------------
(***************************************************************************)
(* The high-level transactions of SigningFinschiaClient, from sendTokens   *)
(* to executeMultiple (signingfinschiaclient.ts 183-565), and the queries  *)
(* an application makes about what they did: getCodeDetails with its       *)
(* cache, getContract, queryContractRaw, queryContractSmart                *)
(* (finschiaclient.ts 434-549).                                            *)
(*                                                                         *)
(* A call builds one message, or some MsgExecuteContract, and hands it to  *)
(* signAndBroadcast.  Of that the module assumes what TxDelivery promises: *)
(* BroadcastFailed, QueryFailed and TimeoutError, which tell nothing of    *)
(* the transaction, are one outcome here.  Every call signs a transaction  *)
(* of its own (SigningClient shows that no two get one response).  The     *)
(* chain is WasmChain.                                                     *)
(***************************************************************************)
EXTENDS Naturals, Sequences, FiniteSets

CONSTANTS
    Calls,        \* calls of transactions
    Reads,        \* calls of queries
    Wasms,
    MaxCodes,
    MaxContracts,
    AdminOptions, \* the admins a new contract may be given
    MaxStarted    \* bound on the calls and queries of one behaviour

ASSUME ContractCallsAssumption ==
    /\ "elsewhere" \notin Calls /\ "nested" \notin Calls
    /\ \A w \in Wasms : w \notin {"none", "incomplete", "error", "data", "empty"}
    /\ MaxCodes \in Nat \ {0} /\ MaxContracts \in Nat \ {0}
    /\ AdminOptions \subseteq {"user", "nobody"}

VARIABLES
    promise,    \* the promise of each call's signAndBroadcast
    fate,       \* what the chain made of each call's transaction
    codes, contracts, log,  \* the variables of WasmChain
    call,       \* the method and the message of each call
    lagging,    \* the node that answers the queries is some blocks behind
    codesCache, \* the codesCache field: a checksum, or "none"
    query       \* what each query is and where it is

Chain == INSTANCE WasmChain WITH Authors <- Calls

chainVars == <<codes, contracts, log>>
callVars == <<promise, fate, call>>
readVars == <<lagging, codesCache, query>>
vars == <<callVars, chainVars, readVars>>

CodeIds == 1..MaxCodes
Contracts == 1..MaxContracts  \* instantiated already or not

\* "sendTokens" stands for the five methods whose message is about no contract;
\* they return the response of a failed execution, the others throw it.
\* "instantiate" is instantiate2 too, "executeMultiple" is execute.
Storing == {"upload", "uploadAndInstantiate"}
Instantiating == {"instantiate", "uploadAndInstantiate"}
Methods == Storing \cup Instantiating
               \cup {"sendTokens", "updateAdmin", "clearAdmin", "migrate", "executeMultiple"}

NoCall == [method |-> "none"]
NoQuery == [method |-> "none"]

Init ==
    /\ promise = [c \in Calls |-> "idle"]
    /\ fate = [c \in Calls |-> "none"]
    /\ \E w \in Wasms :
          codes \in {<<>>, <<[checksum |-> w, by |-> Chain!Elsewhere]>>}
    /\ contracts \in {<<Chain!NewContract(1, "user", Chain!Elsewhere)>> : k \in 1..Len(codes)}
                         \cup {<<>>}
    /\ log = [c \in Calls |-> Chain!NoLog]
    /\ call = [c \in Calls |-> NoCall]
    /\ lagging \in BOOLEAN
    /\ codesCache = [k \in CodeIds |-> "none"]
    /\ query = [r \in Reads |-> NoQuery]

-----------------------------------------------------------------------------
(* The messages *)

MsgPlain == [type |-> "Plain"]
MsgStoreCode(w) == [type |-> "StoreCode", wasm |-> w]
MsgInstantiateContract(k, admin) ==
    [type |-> "InstantiateContract", code |-> k, admin |-> admin]
MsgStoreCodeAndInstantiateContract(w, admin) ==
    [type |-> "StoreCodeAndInstantiateContract", wasm |-> w, admin |-> admin]
MsgUpdateAdmin(a, admin) == [type |-> "UpdateAdmin", contract |-> a, admin |-> admin]

\* Faulty variant: the message of updateAdmin, pasted.
MsgClearAdminPasted(a) == MsgUpdateAdmin(a, "user")

MsgClearAdmin(a) == [type |-> "ClearAdmin", contract |-> a]
MsgMigrateContract(a, k) ==
    [type |-> "MigrateContract", contract |-> a, code |-> k]
MsgsExecuteContract(addresses) ==
    [type |-> "ExecuteContract", contracts |-> addresses]

-----------------------------------------------------------------------------
(* The calls of the application *)

MayStart ==
    Cardinality({c \in Calls : call[c] # NoCall}) + Cardinality({r \in Reads : query[r] # NoQuery})
        < MaxStarted

Call(c, method, message) ==
    /\ call[c] = NoCall /\ MayStart
    /\ call' = [call EXCEPT ![c] = [method |-> method, message |-> message]]
    /\ UNCHANGED <<promise, fate, chainVars, readVars>>

SendTokens(c) == Call(c, "sendTokens", MsgPlain)

Upload(c) == \E w \in Wasms : Call(c, "upload", MsgStoreCode(w))

Instantiate(c) ==
    \E k \in CodeIds, admin \in AdminOptions :
        Call(c, "instantiate", MsgInstantiateContract(k, admin))

UploadAndInstantiate(c) ==
    \E w \in Wasms, admin \in AdminOptions :
        Call(c, "uploadAndInstantiate", MsgStoreCodeAndInstantiateContract(w, admin))

UpdateAdmin(c) ==
    \E a \in Contracts : Call(c, "updateAdmin", MsgUpdateAdmin(a, "other"))

ClearAdmin(c) == \E a \in Contracts : Call(c, "clearAdmin", MsgClearAdmin(a))

Migrate(c) ==
    \E a \in Contracts, k \in CodeIds :
        Call(c, "migrate", MsgMigrateContract(a, k))

\* execute is executeMultiple with one instruction; there may be none.
ExecuteMultiple(c) ==
    \E addresses \in SUBSET Contracts :
        Call(c, "executeMultiple", MsgsExecuteContract(addresses))

-----------------------------------------------------------------------------
(* signAndBroadcast *)

Ends(c, outcome) ==
    /\ promise' = [promise EXCEPT ![c] = outcome]
    /\ UNCHANGED <<fate, call, chainVars, readVars>>

\* Simulation, a query or the wallet fails; or the transaction is handed over.
Signs(c) ==
    /\ call[c] # NoCall /\ promise[c] = "idle"
    /\ \E p \in {"SigningFailed", "pending"} : Ends(c, p)

\* The node refuses the transaction, and has not got it from elsewhere.
IsRefused(c) ==
    /\ promise[c] = "pending" /\ fate[c] = "none"
    /\ Ends(c, "BroadcastTxError")

\* An answer is lost, a query fails, or the timeout comes first.
IsLost(c) == promise[c] = "pending" /\ Ends(c, "Unknown")

IsDelivered(c) ==
    /\ promise[c] = "pending" /\ fate[c] # "none"
    /\ Ends(c, fate[c])

IsEmpty(message) == message.type = "ExecuteContract" /\ message.contracts = {}

\* A block executes the transaction of a call, at any time after the broadcast,
\* whether or not the call is still waiting.  Without messages it is refused.
IsExecuted(c) ==
    /\ promise[c] \in {"pending", "Unknown"} /\ fate[c] = "none"
    /\ ~ IsEmpty(call[c].message)
    /\ \/ /\ fate' = [fate EXCEPT ![c] = "success"]
          /\ \E nested \in BOOLEAN : Chain!Execute(c, call[c].message, nested)
       \/ /\ fate' = [fate EXCEPT ![c] = "failure"]
          /\ UNCHANGED chainVars
    /\ UNCHANGED <<promise, call, readVars>>

OthersAct ==
    /\ Chain!ElsewhereStores \/ Chain!ElsewhereInstantiates
    /\ UNCHANGED <<callVars, readVars>>

-----------------------------------------------------------------------------
(* What the promise of a call settled with *)

\* Faulty variant: the last one.
LastAttribute(events) == events[Len(events)]

\* logs.findAttribute: the first attribute of that name.
FindAttribute(events) == Head(events)

Report(c) ==
    [code |-> IF call[c].method \in Storing THEN FindAttribute(log[c].codes) ELSE 0,
     contract |-> IF call[c].method \in Instantiating
                  THEN FindAttribute(log[c].contracts) ELSE 0]

Throws(c) == call[c].method # "sendTokens"

\* Faulty variant: every error after the response is told as a failed execution.
OutcomeUnread(c) ==
    CASE promise[c] = "failure" /\ Throws(c) -> "ExecutionFailed"
      [] promise[c] = "success" /\ Throws(c) ->
            IF log[c].read THEN "resolved" ELSE "ExecutionFailed"
      [] OTHER -> promise[c]

\* Faulty variant: the log is parsed before the code of the response is looked at.
OutcomeParsedFirst(c) ==
    CASE promise[c] \in {"success", "failure"} /\ Throws(c) /\ ~ log[c].read -> "LogUnreadable"
      [] promise[c] = "failure" /\ Throws(c) -> "ExecutionFailed"
      [] promise[c] = "success" /\ Throws(c) -> "resolved"
      [] OTHER -> promise[c]

\* After signAndBroadcast: a failed execution is an error that quotes the log;
\* parseRawLog throws on a log it cannot read, although the transaction was
\* executed.
Outcome(c) ==
    CASE promise[c] = "failure" /\ Throws(c) -> "ExecutionFailed"
      [] promise[c] = "success" /\ Throws(c) ->
            IF log[c].read THEN "resolved" ELSE "LogUnreadable"
      [] OTHER -> promise[c]

Resolved == {c \in Calls : Outcome(c) = "resolved"}

-----------------------------------------------------------------------------
(* The queries: one request each, but for queryContractRaw, which makes two. *)

Query(r, method, about, stage, answer) ==
    /\ query[r] = NoQuery /\ MayStart
    /\ query' = [query EXCEPT ![r] =
          [method |-> method, about |-> about, stage |-> stage, answer |-> answer,
           after |-> Resolved]]
    /\ UNCHANGED <<callVars, chainVars, lagging, codesCache>>

GetCodeDetails(r) ==
    \E k \in CodeIds :
        IF codesCache[k] # "none"
        THEN Query(r, "getCodeDetails", k, "done", codesCache[k])
        ELSE Query(r, "getCodeDetails", k, "getCode", "none")

GetContract(r) ==
    \E a \in Contracts : Query(r, "getContract", a, "getContractInfo", "none")

\* Faulty variant: without the test of the contract's existence.
QueryContractRawUnchecked(r) ==
    \E a \in Contracts : Query(r, "queryContractRaw", a, "queryContractRaw", "none")

QueryContractRaw(r) ==
    \E a \in Contracts : Query(r, "queryContractRaw", a, "getContractInfo", "none")

QueryContractSmart(r) ==
    \E a \in Contracts : Query(r, "queryContractSmart", a, "queryContractSmart", "none")

\* EXTERNAL: what the node may answer now.  A node that is behind answers from an
\* older block: there may be no such code, contract or data yet, or another admin.
\* A raw query of an address without contract may find no data instead of failing.
CodeAnswers(k) ==
    (IF k <= Len(codes) THEN {codes[k].checksum} ELSE {"incomplete"})
        \cup (IF lagging THEN {"incomplete"} ELSE {})

ContractAnswers(a) ==
    (IF a <= Len(contracts)
     THEN {contracts[a].admin} \cup (IF lagging THEN Chain!Admins ELSE {})
     ELSE {"missing"})
        \cup (IF lagging THEN {"missing"} ELSE {})

DataAnswers(a) ==
    IF a <= Len(contracts) /\ contracts[a].written # {}
    THEN {"data"} \cup (IF lagging THEN {"empty"} ELSE {})
    ELSE {"empty"}

Answer(r, stage, answer) ==
    query' = [query EXCEPT ![r].stage = stage, ![r].answer = answer]

\* The node fails, or the answer is not what the code asserts it to be.
QueryFails(r) ==
    /\ query[r].method # "none" /\ query[r].stage # "done"
    /\ Answer(r, "done", "error")
    /\ UNCHANGED <<callVars, chainVars, lagging, codesCache>>

\* Faulty variant: the answer is stored before it is found incomplete.
StoreCodeEarly(r, answer) ==
    /\ codesCache' = [codesCache EXCEPT ![query[r].about] = answer]
    /\ Answer(r, "done", IF answer = "incomplete" THEN "error" ELSE answer)

\* A complete answer is stored and returned, another one is an error.
StoreCode(r, answer) ==
    IF answer = "incomplete"
    THEN Answer(r, "done", "error") /\ UNCHANGED codesCache
    ELSE Answer(r, "done", answer)
         /\ codesCache' = [codesCache EXCEPT ![query[r].about] = answer]

OnCode(r) ==
    /\ query[r].method # "none" /\ query[r].stage = "getCode"
    /\ \E answer \in CodeAnswers(query[r].about) : StoreCode(r, answer)
    /\ UNCHANGED <<callVars, chainVars, lagging>>

\* Faulty variant: an answer without contract is not told from another.
OnContractUnchecked(r) ==
    /\ query[r].method # "none" /\ query[r].stage = "getContractInfo"
    /\ \E answer \in ContractAnswers(query[r].about) :
          IF query[r].method = "getContract" THEN Answer(r, "done", answer)
          ELSE Answer(r, "queryContractRaw", "none")
    /\ UNCHANGED <<callVars, chainVars, lagging, codesCache>>

OnContract(r) ==
    /\ query[r].method # "none" /\ query[r].stage = "getContractInfo"
    /\ \E answer \in ContractAnswers(query[r].about) :
          IF answer = "missing" THEN Answer(r, "done", "error")
          ELSE IF query[r].method = "getContract" THEN Answer(r, "done", answer)
          ELSE Answer(r, "queryContractRaw", "none")
    /\ UNCHANGED <<callVars, chainVars, lagging, codesCache>>

\* The data under the key, as bytes: none of them if there is no data.
OnRawData(r) ==
    /\ query[r].method # "none" /\ query[r].stage = "queryContractRaw"
    /\ \E answer \in DataAnswers(query[r].about) : Answer(r, "done", answer)
    /\ UNCHANGED <<callVars, chainVars, lagging, codesCache>>

\* The contract itself answers what it holds; where there is none, the error of
\* the node is told as "No contract found".
OnSmartData(r) ==
    /\ query[r].method # "none" /\ query[r].stage = "queryContractSmart"
    /\ query[r].about <= Len(contracts)
    /\ \E answer \in DataAnswers(query[r].about) : Answer(r, "done", answer)
    /\ UNCHANGED <<callVars, chainVars, lagging, codesCache>>

-----------------------------------------------------------------------------
Client(c) ==
    \/ SendTokens(c) \/ Upload(c) \/ Instantiate(c) \/ UploadAndInstantiate(c)
    \/ UpdateAdmin(c) \/ ClearAdmin(c) \/ Migrate(c) \/ ExecuteMultiple(c)
    \/ Signs(c) \/ IsRefused(c) \/ IsLost(c) \/ IsDelivered(c)

Reader(r) ==
    \/ GetCodeDetails(r) \/ GetContract(r) \/ QueryContractRaw(r)
    \/ QueryContractSmart(r)
    \/ QueryFails(r) \/ OnCode(r) \/ OnContract(r) \/ OnRawData(r) \/ OnSmartData(r)

Next ==
    \/ \E c \in Calls : Client(c) \/ IsExecuted(c)
    \/ \E r \in Reads : Reader(r)
    \/ OthersAct

Spec == Init /\ [][Next]_vars

-----------------------------------------------------------------------------
(* Properties *)

Message == UNION {
    {MsgPlain},
    {MsgStoreCode(w) : w \in Wasms},
    {MsgInstantiateContract(k, admin) : k \in CodeIds, admin \in AdminOptions},
    {MsgStoreCodeAndInstantiateContract(w, admin) :
        w \in Wasms, admin \in AdminOptions},
    {MsgUpdateAdmin(a, "other") : a \in Contracts},
    {MsgClearAdmin(a) : a \in Contracts},
    {MsgMigrateContract(a, k) : a \in Contracts, k \in CodeIds},
    {MsgsExecuteContract(addresses) : addresses \in SUBSET Contracts}}

Answers == Wasms \cup Chain!Admins \cup {Chain!Nobody, "data", "empty", "error", "none"}

QueryRecord ==
    [method : {"getCodeDetails", "getContract", "queryContractRaw", "queryContractSmart"},
     about : CodeIds \cup Contracts,
     stage : {"getCode", "getContractInfo", "queryContractRaw", "queryContractSmart", "done"},
     answer : Answers, after : SUBSET Calls]

\* Every variable has its type; what is stored, cached and answered is complete.
TypeOK ==
    /\ fate \in [Calls -> {"none", "success", "failure"}]
    /\ promise \in [Calls -> {"idle", "pending", "success", "failure", "SigningFailed",
                             "BroadcastTxError", "Unknown"}]
    /\ Len(codes) <= MaxCodes /\ codes \in Seq(Chain!CodeInfo)
    /\ Len(contracts) <= MaxContracts /\ contracts \in Seq(Chain!ContractInfo)
    /\ log \in [Calls -> Chain!Log]
    /\ call \in [Calls -> {NoCall} \cup [method : Methods, message : Message]]
    /\ codesCache \in [CodeIds -> Wasms \cup {"none"}]
    /\ query \in [Reads -> {NoQuery} \cup QueryRecord]

\* The code id and the address a method returns are those of the code and the
\* contract its own transaction made, however many transactions of others and
\* instantiations within contracts came between, and they are of the wasm and
\* the code the caller named (signingfinschiaclient.ts 294-298, 333-337, 416-424).
ReportsAreOwn ==
    \A c \in Resolved :
        LET message == call[c].message
            code == codes[Report(c).code]
            contract == contracts[Report(c).contract] IN
        /\ call[c].method \in Storing => code = [checksum |-> message.wasm, by |-> c]
        /\ call[c].method \in Instantiating => contract.by = c
        /\ call[c].method = "instantiate" => contract.origin = message.code
        /\ call[c].method = "uploadAndInstantiate" => contract.origin = Report(c).code

\* The calls that migrated contract a.
Migrated(a) ==
    {d \in Calls : /\ fate[d] = "success"
                   /\ call[d].message.type = "MigrateContract"
                   /\ call[d].message.contract = a}

\* Contract a was instantiated by call c, from code k.
Instantiated(c, k, a) == contracts[a].by = c /\ contracts[a].origin = k

\* All that call c asks for with its message is on the chain, and not undone: a
\* contract it migrated runs the code of one of its migrations.
Done(c, method, message) ==
    /\ method = "upload" =>
          \E k \in 1..Len(codes) : codes[k] = [checksum |-> message.wasm, by |-> c]
    /\ method = "instantiate" =>
          \E a \in 1..Len(contracts) : Instantiated(c, message.code, a)
    /\ method = "uploadAndInstantiate" =>
          \E k \in 1..Len(codes), a \in 1..Len(contracts) :
              codes[k] = [checksum |-> message.wasm, by |-> c] /\ Instantiated(c, k, a)
    /\ method = "executeMultiple" =>
          /\ message.contracts # {}
          /\ \A a \in message.contracts :
                a \in 1..Len(contracts) /\ c \in contracts[a].written
    /\ method \in {"clearAdmin", "updateAdmin", "migrate"} =>
          message.contract \in 1..Len(contracts)
    /\ method = "clearAdmin" => contracts[message.contract].admin = Chain!Nobody
    /\ method = "updateAdmin" => contracts[message.contract].admin = "other"
    /\ method = "migrate" =>
          \E d \in Migrated(message.contract) :
              contracts[message.contract].code = call[d].message.code

\* When the promise of a method resolves, everything the caller asked for is
\* done, and no call overlapping it undoes it: all contracts of an
\* executeMultiple are executed, a cleared admin stays cleared, a replaced one
\* does not come back, and a migrated contract runs what a migration gave it.
ResolvedMeansDone ==
    \A c \in Resolved : Done(c, call[c].method, call[c].message)

LeftTrace(c) ==
    \/ \E k \in 1..Len(codes) : codes[k].by = c
    \/ \E a \in 1..Len(contracts) : contracts[a].by = c \/ c \in contracts[a].written

\* A call that failed to sign, that the node refused, or whose execution failed
\* left nothing behind; a caller may repeat it.  The error of an unreadable log
\* is none of these, although the message of both comes from the same method.
ErrorsLeaveNoTrace ==
    \A c \in Calls :
        Outcome(c) \in {"SigningFailed", "BroadcastTxError", "ExecutionFailed"} =>
            ~ LeftTrace(c)

\* The other errors do not say what became of the transaction, but a caller can
\* rely on this.  After a log that could not be read, all it asked for is done
\* (a method looks at the code of the response before it parses the log, 291-294).
\* After a timeout or a lost answer (290), all of it is done as soon as any of it
\* is: there is no code without its contract, and no part of an executeMultiple.
UnclearErrorsAreAllOrNothing ==
    \A c \in Calls :
        \/ Outcome(c) = "LogUnreadable"
        \/ Outcome(c) = "Unknown" /\ LeftTrace(c)
        => Done(c, call[c].method, call[c].message)

\* Whatever queries overlap and whatever the node answers, the cache of
\* getCodeDetails holds and the method returns the code that is on the chain
\* (finschiaclient.ts 434-451).
CodeDetailsAreTrue ==
    /\ \A k \in CodeIds : codesCache[k] # "none" =>
          k <= Len(codes) /\ codesCache[k] = codes[k].checksum
    /\ \A r \in Reads :
          query[r] # NoQuery /\ query[r].method = "getCodeDetails" /\ query[r].answer \in Wasms
              => query[r].about <= Len(codes) /\ query[r].answer = codes[query[r].about].checksum

\* queryContractRaw finds no data only in a contract that exists ("Promise is
\* rejected when contract does not exist"); and a query a caller makes of an up
\* to date node after a call resolved sees what the call did, although the query
\* has two steps (finschiaclient.ts 514-526).
ReadsSeeWhatResolved ==
    \A r \in Reads :
        query[r] # NoQuery /\ query[r].stage = "done" =>
            LET done == {c \in query[r].after : query[r].about \in
                           (IF call[c].method = "executeMultiple"
                            THEN call[c].message.contracts ELSE {})}
                cleared == {c \in query[r].after : call[c].method = "clearAdmin"
                              /\ call[c].message.contract = query[r].about} IN
            /\ query[r].answer \in {"data", "empty"} => query[r].about <= Len(contracts)
            /\ query[r].answer = "empty" /\ ~ lagging => done = {}
            /\ query[r].method = "getContract" /\ ~ lagging /\ cleared # {} =>
                  query[r].answer \in {Chain!Nobody, "error"}
=============================================================================
