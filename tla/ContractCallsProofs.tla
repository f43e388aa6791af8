------------------------ MODULE ContractCallsProofs ------------------------
(***************************************************************************)
(* Proofs about ContractCalls, for any calls, queries, wasm codes and      *)
(* bounds: what the methods report is what their own transaction made, the *)
(* cache of getCodeDetails is true to the chain, and errors that say that  *)
(* nothing was done say so rightly.                                        *)
(*                                                                         *)
(* All of it rests on one fact about the chain: codes and contracts are    *)
(* only added, and neither the author nor the origin of one ever changes   *)
(* (lemmas Executed and OthersOnlyAdd).                                    *)
(***************************************************************************)
EXTENDS ContractCalls, SequenceTheorems, TLAPS

\* What the chain keeps of the codes and contracts that are there.
ChainGrows ==
    /\ codes' \in Seq(Chain!CodeInfo)
    /\ Len(codes) <= Len(codes') /\ Len(codes') <= MaxCodes
    /\ \A k \in 1..Len(codes) : codes'[k] = codes[k]
    /\ contracts' \in Seq(Chain!ContractInfo)
    /\ Len(contracts) <= Len(contracts') /\ Len(contracts') <= MaxContracts
    /\ \A a \in 1..Len(contracts) :
          /\ contracts'[a].by = contracts[a].by
          /\ contracts'[a].origin = contracts[a].origin

\* What is new on the chain is of the author c.
OnlyMarks(c) ==
    /\ \A k \in 1..Len(codes') : k > Len(codes) => codes'[k].by = c
    /\ \A a \in 1..Len(contracts') : a > Len(contracts) =>
          contracts'[a].by \in {c, Chain!Nested} /\ contracts'[a].written = {}
    /\ \A a \in 1..Len(contracts) :
          contracts'[a].written \subseteq contracts[a].written \cup {c}

\* What was there is changed as the message says, and not otherwise.
Changes(c, m) ==
    \A a \in 1..Len(contracts) : contracts'[a] = Chain!Changed(c, m, a)

\* The message of a method is the one it builds.
MethodInv ==
    \A c \in Calls : call[c] # NoCall =>
        /\ call[c].method = "upload" => call[c].message.type = "StoreCode"
        /\ call[c].method = "instantiate" => call[c].message.type = "InstantiateContract"
        /\ call[c].method = "uploadAndInstantiate" =>
              call[c].message.type = "StoreCodeAndInstantiateContract"

\* A promise tells no fate the chain has not decided, and what was not signed
\* is not executed.
FateInv ==
    \A c \in Calls :
        /\ call[c] = NoCall => promise[c] = "idle"
        /\ promise[c] \in {"idle", "SigningFailed", "BroadcastTxError"} => fate[c] = "none"
        /\ promise[c] \in {"success", "failure"} => fate[c] = promise[c]
        /\ fate[c] # "success" => log[c] = Chain!NoLog

\* The first events of a transaction are of the code it stored and of the
\* contract it instantiated.
EventInv ==
    \A c \in Calls : call[c] # NoCall /\ log[c].read =>
        LET message == call[c].message
            k == Head(log[c].codes)
            a == Head(log[c].contracts) IN
        /\ call[c].method \in Storing =>
              k \in 1..Len(codes) /\ codes[k] = [checksum |-> message.wasm, by |-> c]
        /\ call[c].method \in Instantiating =>
              a \in 1..Len(contracts) /\ contracts[a].by = c
        /\ call[c].method = "instantiate" => contracts[a].origin = message.code
        /\ call[c].method = "uploadAndInstantiate" => contracts[a].origin = k

\* Only getCodeDetails asks for a code.
QueryInv ==
    \A r \in Reads : query[r] # NoQuery =>
        /\ query[r].stage = "getCode" =>
              query[r].method = "getCodeDetails" /\ query[r].about \in CodeIds
        /\ query[r].method = "getCodeDetails" => query[r].stage \in {"getCode", "done"}

\* Only an executed transaction left something on the chain.
TraceInv == \A c \in Calls : fate[c] # "success" => ~ LeftTrace(c)

IInv ==
    /\ TypeOK
    /\ TraceInv
    /\ QueryInv
    /\ MethodInv
    /\ FateInv
    /\ EventInv
    /\ CodeDetailsAreTrue

-----------------------------------------------------------------------------
(* The chain *)

LEMMA MessageTypes ==
  ASSUME NEW m \in Message
  PROVE  /\ m.type \in {"Plain", "StoreCode", "InstantiateContract",
                        "StoreCodeAndInstantiateContract", "UpdateAdmin", "ClearAdmin",
                        "MigrateContract", "ExecuteContract"}
         /\ Chain!Stores(m) => m.wasm \in Wasms
         /\ Chain!Instantiates(m) => m.admin \in Chain!Admins \cup {Chain!Nobody}
         /\ m.type = "InstantiateContract" => m.code \in CodeIds
         /\ m.type = "UpdateAdmin" => m.admin \in Chain!Admins
         /\ m.type = "MigrateContract" => m.code \in CodeIds
<1>1. AdminOptions \subseteq Chain!Admins \cup {Chain!Nobody}
  BY ContractCallsAssumption DEF Chain!Admins, Chain!Nobody
<1>2. CASE m = MsgPlain
  BY <1>2 DEF MsgPlain, Chain!Stores, Chain!Instantiates
<1>3. CASE \E w \in Wasms : m = MsgStoreCode(w)
  BY <1>3 DEF MsgStoreCode, Chain!Stores, Chain!Instantiates
<1>4. CASE \E k \in CodeIds, admin \in AdminOptions : m = MsgInstantiateContract(k, admin)
  BY <1>1, <1>4 DEF MsgInstantiateContract, Chain!Stores, Chain!Instantiates
<1>5. CASE \E w \in Wasms, admin \in AdminOptions :
             m = MsgStoreCodeAndInstantiateContract(w, admin)
  BY <1>1, <1>5 DEF MsgStoreCodeAndInstantiateContract, Chain!Stores, Chain!Instantiates
<1>6. CASE \E a \in Contracts : m = MsgUpdateAdmin(a, "other")
  BY <1>6 DEF MsgUpdateAdmin, Chain!Stores, Chain!Instantiates, Chain!Admins
<1>7. CASE \E a \in Contracts : m = MsgClearAdmin(a)
  BY <1>7 DEF MsgClearAdmin, Chain!Stores, Chain!Instantiates
<1>8. CASE \E a \in Contracts, k \in CodeIds : m = MsgMigrateContract(a, k)
  BY <1>8 DEF MsgMigrateContract, Chain!Stores, Chain!Instantiates
<1>9. CASE \E addresses \in SUBSET Contracts : m = MsgsExecuteContract(addresses)
  BY <1>9 DEF MsgsExecuteContract, Chain!Stores, Chain!Instantiates
<1> QED
  BY <1>2, <1>3, <1>4, <1>5, <1>6, <1>7, <1>8, <1>9 DEF Message

\* Codes and contracts that are appended leave the others where they are.
LEMMA Appended ==
  ASSUME NEW S, NEW s \in Seq(S), NEW t \in Seq(S)
  PROVE  /\ s \o t \in Seq(S)
         /\ Len(s \o t) = Len(s) + Len(t)
         /\ \A i \in 1..Len(s) : (s \o t)[i] = s[i]
         /\ \A i \in 1..Len(s \o t) : i > Len(s) =>
               i - Len(s) \in 1..Len(t) /\ (s \o t)[i] = t[i - Len(s)]
         /\ t # <<>> => (s \o t)[Len(s) + 1] = t[1]
BY ConcatProperties, LenProperties, EmptySeq

LEMMA OthersOnlyAdd ==
  ASSUME TypeOK, Chain!ElsewhereStores \/ Chain!ElsewhereInstantiates
  PROVE  ChainGrows
<1> USE DEF TypeOK
<1>1. CASE Chain!ElsewhereStores
  <2>1. PICK w \in Wasms :
          codes' = Append(codes, [checksum |-> w, by |-> Chain!Elsewhere])
    BY <1>1 DEF Chain!ElsewhereStores
  <2>2. [checksum |-> w, by |-> Chain!Elsewhere] \in Chain!CodeInfo
    BY DEF Chain!CodeInfo
  <2>3. contracts' = contracts /\ Len(codes) < MaxCodes
    BY <1>1 DEF Chain!ElsewhereStores
  <2> QED
    BY <2>1, <2>2, <2>3, ContractCallsAssumption DEF ChainGrows
<1>2. CASE Chain!ElsewhereInstantiates
  <2>1. PICK k \in 1..Len(codes) :
          contracts' = Append(contracts, Chain!NewContract(k, "other", Chain!Elsewhere))
    BY <1>2 DEF Chain!ElsewhereInstantiates
  <2>2. Chain!NewContract(k, "other", Chain!Elsewhere) \in Chain!ContractInfo
    BY DEF Chain!ContractInfo, Chain!NewContract, Chain!Admins
  <2>3. codes' = codes /\ Len(contracts) < MaxContracts
    BY <1>2 DEF Chain!ElsewhereInstantiates
  <2> QED
    BY <2>1, <2>2, <2>3, ContractCallsAssumption DEF ChainGrows
<1> QED
  BY <1>1, <1>2

\* A message changes neither the author nor the origin of a contract.
LEMMA ChangedKeeps ==
  ASSUME NEW c \in Calls, NEW m \in Message, NEW a \in 1..Len(contracts),
         contracts \in Seq(Chain!ContractInfo)
  PROVE  /\ Chain!Changed(c, m, a) \in Chain!ContractInfo
         /\ Chain!Changed(c, m, a).by = contracts[a].by
         /\ Chain!Changed(c, m, a).origin = contracts[a].origin
         /\ Chain!Changed(c, m, a).written \subseteq contracts[a].written \cup {c}
<1>1. contracts[a] \in Chain!ContractInfo
  BY ElementOfSeq
<1>2. CodeIds \subseteq Nat
  BY ContractCallsAssumption DEF CodeIds
<1> QED
  BY <1>1, <1>2, MessageTypes
  DEF Chain!Changed, Chain!ContractInfo, Chain!Nobody, Chain!Admins

\* What the execution of a message adds: the code and the contract of the
\* message come first, under the next numbers, and its log says so.
LEMMA Executed ==
  ASSUME TypeOK, NEW c \in Calls, NEW m \in Message, NEW nested \in BOOLEAN,
         Chain!Execute(c, m, nested)
  PROVE  /\ ChainGrows
         /\ Chain!Stores(m) =>
              /\ Len(codes') = Len(codes) + 1
              /\ codes'[Len(codes) + 1] = [checksum |-> m.wasm, by |-> c]
         /\ Chain!Instantiates(m) =>
              /\ Len(contracts) + 1 <= Len(contracts')
              /\ contracts'[Len(contracts) + 1].by = c
              /\ contracts'[Len(contracts) + 1].origin = Chain!CodeOf(m)
         /\ OnlyMarks(c)
         /\ Changes(c, m)
         /\ log' \in [Calls -> Chain!Log]
         /\ \A d \in Calls : d # c => log'[d] = log[d]
         /\ log'[c] # Chain!NoLog =>
              /\ Chain!Stores(m) => Head(log'[c].codes) = Len(codes) + 1
              /\ Chain!Instantiates(m) => Head(log'[c].contracts) = Len(contracts) + 1
<1> DEFINE contract == Chain!NewContract(Chain!CodeOf(m), m.admin, c)
           added == IF Chain!Instantiates(m) THEN Chain!WithNested(contract, nested) ELSE <<>>
           stored == IF Chain!Stores(m) THEN <<[checksum |-> m.wasm, by |-> c]>> ELSE <<>>
           kept == [a \in 1..Len(contracts) |-> Chain!Changed(c, m, a)]
           ids == IF Chain!Stores(m) THEN <<Len(codes) + 1>> ELSE <<>>
           logged == Chain!Logged(ids, Chain!Addresses(Len(added)))
<1>1. /\ codes \in Seq(Chain!CodeInfo) /\ Len(codes) <= MaxCodes
      /\ contracts \in Seq(Chain!ContractInfo) /\ Len(contracts) <= MaxContracts
      /\ Len(codes) \in Nat /\ Len(contracts) \in Nat
  BY LenProperties DEF TypeOK
<1>2. /\ Chain!Possible(m) /\ Len(contracts) + Len(added) <= MaxContracts
      /\ codes' = codes \o stored
      /\ contracts' = kept \o added
      /\ \E l \in {logged, Chain!NoLog} : log' = [log EXCEPT ![c] = l]
  BY DEF Chain!Execute
<1>3. Chain!CodeOf(m) \in Nat /\ (Chain!Instantiates(m) => contract \in Chain!ContractInfo)
  <2>1. CodeIds \subseteq Nat
    BY ContractCallsAssumption DEF CodeIds
  <2>2. Chain!CodeOf(m) \in Nat
    <3>1. m.type = "InstantiateContract" => m.code \in Nat
      BY <2>1, MessageTypes
    <3> QED
      BY <1>1, <3>1 DEF Chain!CodeOf
  <2> QED
    BY <2>2, MessageTypes DEF Chain!ContractInfo, Chain!NewContract
<1>4. /\ stored \in Seq(Chain!CodeInfo) /\ Len(stored) \in {0, 1}
      /\ Chain!Stores(m) => Len(stored) = 1 /\ stored[1] = [checksum |-> m.wasm, by |-> c]
      /\ ~ Chain!Stores(m) => Len(stored) = 0
      /\ \A i \in 1..Len(stored) : stored[i].by = c
  <2>1. Chain!Stores(m) => [checksum |-> m.wasm, by |-> c] \in Chain!CodeInfo
    BY MessageTypes DEF Chain!CodeInfo
  <2> QED
    BY <2>1
<1>5. /\ added \in Seq(Chain!ContractInfo) /\ Len(added) \in Nat
      /\ Chain!Instantiates(m) => Len(added) >= 1 /\ added[1] = contract
      /\ \A i \in 1..Len(added) :
            added[i].by \in {c, Chain!Nested} /\ added[i].written = {}
  <2> DEFINE inner == [contract EXCEPT !.by = Chain!Nested]
  <2>1. /\ Chain!Instantiates(m) => inner \in Chain!ContractInfo
        /\ inner.by = Chain!Nested /\ inner.written = {}
        /\ contract.by = c /\ contract.written = {}
    BY <1>3 DEF Chain!ContractInfo, Chain!NewContract
  <2>2. Chain!WithNested(contract, nested) =
          IF nested THEN <<contract, inner>> ELSE <<contract>>
    BY DEF Chain!WithNested
  <2> HIDE DEF contract, inner
  <2> QED
    BY <1>3, <2>1, <2>2
<1>6. /\ kept \in Seq(Chain!ContractInfo) /\ Len(kept) = Len(contracts)
      /\ \A a \in 1..Len(contracts) :
            /\ kept[a].by = contracts[a].by /\ kept[a].origin = contracts[a].origin
            /\ kept[a].written \subseteq contracts[a].written \cup {c}
            /\ kept[a] = Chain!Changed(c, m, a)
  <2>1. kept \in [1..Len(contracts) -> Chain!ContractInfo]
    BY <1>1, ChangedKeeps
  <2>2. kept \in Seq(Chain!ContractInfo)
    BY <1>1, <2>1, SeqDef
  <2>3. Len(kept) = Len(contracts)
    BY <1>1, <2>1, <2>2
  <2> QED
    BY <1>1, <2>2, <2>3, ChangedKeeps
<1> HIDE DEF contract, added, stored, kept
<1>7. /\ codes' \in Seq(Chain!CodeInfo) /\ Len(codes') = Len(codes) + Len(stored)
      /\ \A k \in 1..Len(codes) : codes'[k] = codes[k]
      /\ stored # <<>> => codes'[Len(codes) + 1] = stored[1]
      /\ \A i \in 1..Len(codes') : i > Len(codes) =>
            i - Len(codes) \in 1..Len(stored) /\ codes'[i] = stored[i - Len(codes)]
  BY <1>1, <1>2, <1>4, Appended
<1>8. /\ contracts' \in Seq(Chain!ContractInfo) /\ Len(contracts') = Len(contracts) + Len(added)
      /\ \A a \in 1..Len(contracts) : contracts'[a] = kept[a]
      /\ added # <<>> => contracts'[Len(contracts) + 1] = added[1]
      /\ \A i \in 1..Len(contracts') : i > Len(contracts) =>
            i - Len(contracts) \in 1..Len(added) /\ contracts'[i] = added[i - Len(contracts)]
  <2>1. kept \o added = contracts'
    BY <1>2
  <2>2. contracts \in Seq(Chain!ContractInfo)
    BY <1>1
  <2>3. /\ kept \o added \in Seq(Chain!ContractInfo)
        /\ Len(kept \o added) = Len(kept) + Len(added)
        /\ \A a \in 1..Len(kept) : (kept \o added)[a] = kept[a]
        /\ added # <<>> => (kept \o added)[Len(kept) + 1] = added[1]
        /\ \A i \in 1..Len(kept \o added) : i > Len(kept) =>
              i - Len(kept) \in 1..Len(added) /\ (kept \o added)[i] = added[i - Len(kept)]
    <3>1. kept \in Seq(Chain!ContractInfo) /\ added \in Seq(Chain!ContractInfo)
      BY <1>5, <1>6
    <3> QED
      BY <3>1, Appended
  <2>4. Len(kept) = Len(contracts)
    BY <1>6
  <2> QED
    BY <2>1, <2>3, <2>4
<1>9. Chain!Stores(m) => Len(codes) < MaxCodes
  BY <1>2 DEF Chain!Possible, Chain!Stores
<1>10. ChainGrows
  <2>1. Len(codes) <= Len(codes') /\ Len(codes') <= MaxCodes
    <3>1. /\ Len(codes) \in Nat /\ Len(codes) <= MaxCodes /\ MaxCodes \in Nat
          /\ Len(codes') = Len(codes) + Len(stored)
      BY <1>1, <1>7, ContractCallsAssumption
    <3>2. CASE Chain!Stores(m)
      <4>1. Len(stored) = 1 /\ Len(codes) < MaxCodes
        BY <1>4, <1>9, <3>2
      <4> QED
        BY <3>1, <4>1
    <3>3. CASE ~ Chain!Stores(m)
      <4>1. Len(stored) = 0
        BY <1>4, <3>3
      <4> QED
        BY <3>1, <4>1
    <3> QED
      BY <3>2, <3>3
  <2>2. Len(contracts) <= Len(contracts') /\ Len(contracts') <= MaxContracts
    BY <1>1, <1>2, <1>5, <1>8, ContractCallsAssumption
  <2> QED
    BY <1>6, <1>7, <1>8, <2>1, <2>2 DEF ChainGrows
<1>11. Chain!Stores(m) =>
         /\ Len(codes') = Len(codes) + 1
         /\ codes'[Len(codes) + 1] = [checksum |-> m.wasm, by |-> c]
  <2>1. Chain!Stores(m) => stored # <<>>
    BY <1>4, EmptySeq
  <2> QED
    BY <1>4, <1>7, <2>1
<1>12. Chain!Instantiates(m) =>
         /\ Len(contracts) + 1 <= Len(contracts')
         /\ contracts'[Len(contracts) + 1].by = c
         /\ contracts'[Len(contracts) + 1].origin = Chain!CodeOf(m)
  <2>1. contract.by = c /\ contract.origin = Chain!CodeOf(m)
    BY DEF contract, Chain!NewContract
  <2> QED
    BY <1>1, <1>5, <1>8, <2>1
<1>13. /\ logged \in Chain!Log
       /\ Chain!Stores(m) => Head(logged.codes) = Len(codes) + 1
       /\ Chain!Instantiates(m) => Head(logged.contracts) = Len(contracts) + 1
  <2>1. Chain!Addresses(Len(added)) = [i \in 1..Len(added) |-> Len(contracts) + i]
    BY DEF Chain!Addresses
  <2>2. /\ Chain!Addresses(Len(added)) \in Seq(Nat)
        /\ Chain!Instantiates(m) => Head(Chain!Addresses(Len(added))) = Len(contracts) + 1
    <3>1. Chain!Addresses(Len(added)) \in [1..Len(added) -> Nat]
      BY <1>1, <1>5, <2>1
    <3>2. Chain!Addresses(Len(added)) \in Seq(Nat)
      BY <1>5, <3>1, SeqDef
    <3>3. Chain!Instantiates(m) => Len(added) >= 1
      BY <1>5
    <3>4. Head(Chain!Addresses(Len(added))) = Chain!Addresses(Len(added))[1]
      BY <3>2
    <3> QED
      BY <1>1, <1>5, <2>1, <3>2, <3>3, <3>4
  <2>3. ids \in Seq(Nat) /\ (Chain!Stores(m) => Head(ids) = Len(codes) + 1)
    BY <1>1
  <2> QED
    BY <2>2, <2>3 DEF Chain!Logged, Chain!Log
<1>14. /\ log' \in [Calls -> Chain!Log]
       /\ \A d \in Calls : d # c => log'[d] = log[d]
       /\ log'[c] # Chain!NoLog =>
            /\ Chain!Stores(m) => Head(log'[c].codes) = Len(codes) + 1
            /\ Chain!Instantiates(m) => Head(log'[c].contracts) = Len(contracts) + 1
  <2>1. log \in [Calls -> Chain!Log]
    BY DEF TypeOK
  <2>2. PICK l \in {logged, Chain!NoLog} : log' = [log EXCEPT ![c] = l]
    BY <1>2
  <2>3. Chain!NoLog \in Chain!Log
    BY EmptySeq DEF Chain!NoLog, Chain!Log
  <2> HIDE DEF logged
  <2>4. log'[c] = l /\ l \in Chain!Log
    BY <1>13, <2>1, <2>2, <2>3
  <2> QED
    BY <1>13, <2>1, <2>2, <2>4
<1>15. OnlyMarks(c)
  <2>1. \A k \in 1..Len(codes') : k > Len(codes) => codes'[k].by = c
    BY <1>4, <1>7
  <2>2. \A a \in 1..Len(contracts') : a > Len(contracts) =>
          contracts'[a].by \in {c, Chain!Nested} /\ contracts'[a].written = {}
    BY <1>5, <1>8
  <2>3. \A a \in 1..Len(contracts) :
          contracts'[a].written \subseteq contracts[a].written \cup {c}
    BY <1>6, <1>8
  <2> QED
    BY <2>1, <2>2, <2>3 DEF OnlyMarks
<1>16. Changes(c, m)
  BY <1>6, <1>8 DEF Changes
<1> QED
  BY <1>10, <1>11, <1>12, <1>14, <1>15, <1>16

-----------------------------------------------------------------------------
(* The inductive invariant *)

LEMMA AtMostOne ==
  ASSUME NEW S, NEW e \in S, NEW s \in {<<>>, <<e>>}, NEW n \in Nat \ {0}
  PROVE  s \in Seq(S) /\ Len(s) <= n
<1>1. CASE s = <<>>
  <2>1. <<>> \in Seq(S) /\ Len(<<>>) = 0
    BY EmptySeq
  <2> QED
    BY <1>1, <2>1
<1>2. CASE s = <<e>>
  <2>1. <<e>> \in Seq(S) /\ Len(<<e>>) = 1
    OBVIOUS
  <2> QED
    BY <1>2, <2>1
<1> QED
  BY <1>1, <1>2

LEMMA InitInv == Init => IInv
<1> SUFFICES ASSUME Init PROVE IInv
  OBVIOUS
<1> USE ContractCallsAssumption DEF Init, NoCall, NoQuery
<1>1. codes \in Seq(Chain!CodeInfo) /\ Len(codes) <= MaxCodes
  <2>1. PICK w \in Wasms : codes \in {<<>>, <<[checksum |-> w, by |-> Chain!Elsewhere]>>}
    OBVIOUS
  <2>2. [checksum |-> w, by |-> Chain!Elsewhere] \in Chain!CodeInfo
    BY DEF Chain!CodeInfo
  <2>3. MaxCodes \in Nat \ {0}
    OBVIOUS
  <2> QED
    BY ONLY <2>1, <2>2, <2>3, AtMostOne
<1>2. contracts \in Seq(Chain!ContractInfo) /\ Len(contracts) <= MaxContracts
  <2>1. Chain!NewContract(1, "user", Chain!Elsewhere) \in Chain!ContractInfo
    BY DEF Chain!NewContract, Chain!ContractInfo, Chain!Admins
  <2>2. contracts \in {<<>>, <<Chain!NewContract(1, "user", Chain!Elsewhere)>>}
    OBVIOUS
  <2>3. MaxContracts \in Nat \ {0}
    OBVIOUS
  <2> QED
    BY ONLY <2>1, <2>2, <2>3, AtMostOne
<1>3. TypeOK
  <2>1. Chain!NoLog \in Chain!Log
    BY EmptySeq DEF Chain!NoLog, Chain!Log
  <2> QED
    BY <1>1, <1>2, <2>1 DEF TypeOK
<1>4. MethodInv /\ QueryInv
  BY DEF MethodInv, QueryInv
<1>5. FateInv
  BY DEF FateInv
<1>8. TraceInv
  <2>1. \A k \in 1..Len(codes) : codes[k].by = Chain!Elsewhere
    OBVIOUS
  <2>2. \A a \in 1..Len(contracts) :
           contracts[a].by = Chain!Elsewhere /\ contracts[a].written = {}
    <3>1. contracts = <<>> \/ contracts = <<Chain!NewContract(1, "user", Chain!Elsewhere)>>
      OBVIOUS
    <3> QED
      BY ONLY <3>1 DEF Chain!NewContract
  <2>3. \A c \in Calls : c # Chain!Elsewhere
    BY DEF Chain!Elsewhere
  <2> QED
    BY <2>1, <2>2, <2>3 DEF TraceInv, LeftTrace
<1>6. EventInv
  BY DEF EventInv
<1>7. CodeDetailsAreTrue
  BY DEF CodeDetailsAreTrue
<1> QED
  BY <1>3, <1>4, <1>5, <1>6, <1>7, <1>8 DEF IInv

\* The message each method builds.
MethodFits(method, message) ==
    /\ method = "upload" => message.type = "StoreCode"
    /\ method = "instantiate" => message.type = "InstantiateContract"
    /\ method = "uploadAndInstantiate" => message.type = "StoreCodeAndInstantiateContract"

MethodCalled(c) ==
    \/ SendTokens(c) \/ Upload(c) \/ Instantiate(c) \/ UploadAndInstantiate(c)
    \/ UpdateAdmin(c) \/ ClearAdmin(c) \/ Migrate(c) \/ ExecuteMultiple(c)

LEMMA MethodsBuild ==
  ASSUME NEW c \in Calls, MethodCalled(c)
  PROVE  \E method \in Methods, message \in Message :
            Call(c, method, message) /\ MethodFits(method, message)
<1> USE DEF MethodFits, Methods, Storing, Instantiating
<1>1. CASE SendTokens(c)
  <2>1. MsgPlain \in Message
    BY DEF Message
  <2> QED
    BY <1>1, <2>1 DEF SendTokens
<1>2. CASE Upload(c)
  <2>1. \A w \in Wasms : MsgStoreCode(w) \in Message
    BY DEF Message
  <2> QED
    BY <1>2, <2>1 DEF Upload, MsgStoreCode
<1>3. CASE Instantiate(c)
  <2>1. \A k \in CodeIds, admin \in AdminOptions : MsgInstantiateContract(k, admin) \in Message
    BY DEF Message
  <2> QED
    BY <1>3, <2>1 DEF Instantiate, MsgInstantiateContract
<1>4. CASE UploadAndInstantiate(c)
  <2>1. \A w \in Wasms, admin \in AdminOptions :
           MsgStoreCodeAndInstantiateContract(w, admin) \in Message
    BY DEF Message
  <2> QED
    BY <1>4, <2>1 DEF UploadAndInstantiate, MsgStoreCodeAndInstantiateContract
<1>5. CASE UpdateAdmin(c)
  <2>1. \A a \in Contracts : MsgUpdateAdmin(a, "other") \in Message
    BY DEF Message
  <2> QED
    BY <1>5, <2>1 DEF UpdateAdmin
<1>6. CASE ClearAdmin(c)
  <2>1. \A a \in Contracts : MsgClearAdmin(a) \in Message
    BY DEF Message
  <2> QED
    BY <1>6, <2>1 DEF ClearAdmin
<1>7. CASE Migrate(c)
  <2>1. \A a \in Contracts, k \in CodeIds : MsgMigrateContract(a, k) \in Message
    BY DEF Message
  <2> QED
    BY <1>7, <2>1 DEF Migrate
<1>8. CASE ExecuteMultiple(c)
  <2>1. \A addresses \in SUBSET Contracts : MsgsExecuteContract(addresses) \in Message
    BY DEF Message
  <2> QED
    BY <1>8, <2>1 DEF ExecuteMultiple
<1> QED
  BY <1>1, <1>2, <1>3, <1>4, <1>5, <1>6, <1>7, <1>8 DEF MethodCalled

\* A step that leaves the chain and the queries alone keeps the reports and the
\* cache true if it keeps the message of each call that has a log.
LEMMA QuietStep ==
  ASSUME IInv, UNCHANGED <<chainVars, readVars>>,
         \A c \in Calls : log[c].read => call'[c] = call[c],
         \A c \in Calls : call'[c] = NoCall => call[c] = NoCall
  PROVE  /\ EventInv' /\ CodeDetailsAreTrue' /\ QueryInv'
         /\ (\A c \in Calls : fate[c] = "success" => fate'[c] = "success") => TraceInv'
<1> USE DEF chainVars, readVars
<1>1. EventInv'
  BY DEF IInv, EventInv
<1>2. CodeDetailsAreTrue' /\ QueryInv'
  BY DEF IInv, CodeDetailsAreTrue, QueryInv
<1>3. ASSUME \A c \in Calls : fate[c] = "success" => fate'[c] = "success"
      PROVE  TraceInv'
  BY <1>3 DEF IInv, TraceInv, LeftTrace
<1> QED
  BY <1>1, <1>2, <1>3

LEMMA MethodStep ==
  ASSUME IInv, NEW c \in Calls, MethodCalled(c)
  PROVE  IInv'
<1>1. PICK method \in Methods, message \in Message :
        Call(c, method, message) /\ MethodFits(method, message)
  BY MethodsBuild
<1>2. /\ call[c] = NoCall
      /\ call' = [call EXCEPT ![c] = [method |-> method, message |-> message]]
      /\ UNCHANGED <<promise, fate, chainVars, readVars>>
  BY <1>1 DEF Call
<1>3. TypeOK'
  <2>1. call' \in [Calls -> {NoCall} \cup [method : Methods, message : Message]]
    BY <1>2 DEF IInv, TypeOK
  <2> QED
    BY <1>2, <2>1 DEF IInv, TypeOK, chainVars, readVars
<1>4. MethodInv'
  BY <1>1, <1>2 DEF IInv, TypeOK, MethodInv, MethodFits
<1>5. FateInv'
  BY <1>2 DEF IInv, TypeOK, FateInv, chainVars, NoCall
<1>6. EventInv' /\ CodeDetailsAreTrue' /\ QueryInv' /\ TraceInv'
  <2>1. \A d \in Calls : log[d].read => call'[d] = call[d]
    <3>1. ~ log[c].read
      BY <1>2 DEF IInv, FateInv, Chain!NoLog
    <3> QED
      BY <1>2, <3>1 DEF IInv, TypeOK
  <2>2. \A d \in Calls : call'[d] = NoCall => call[d] = NoCall
    BY <1>2 DEF IInv, TypeOK
  <2> QED
    BY <1>2, <2>1, <2>2, QuietStep
<1> QED
  BY <1>3, <1>4, <1>5, <1>6 DEF IInv

\* The steps of signAndBroadcast after the message is built.
PromiseMoves(c) == Signs(c) \/ IsRefused(c) \/ IsLost(c) \/ IsDelivered(c)

LEMMA PromiseStep ==
  ASSUME IInv, NEW c \in Calls, PromiseMoves(c)
  PROVE  IInv'
<1>1. PICK p : /\ Ends(c, p)
               /\ call[c] # NoCall
               /\ \/ p \in {"SigningFailed", "BroadcastTxError"} /\ fate[c] = "none"
                  \/ p \in {"pending", "Unknown"}
                  \/ p \in {"success", "failure"} /\ fate[c] = p
  <2>1. CASE Signs(c)
    BY <2>1 DEF Signs, IInv, FateInv
  <2>2. CASE IsRefused(c)
    BY <2>2 DEF IsRefused, IInv, FateInv
  <2>3. CASE IsLost(c)
    BY <2>3 DEF IsLost, IInv, FateInv
  <2>4. CASE IsDelivered(c)
    BY <2>4 DEF IsDelivered, IInv, TypeOK, FateInv
  <2> QED
    BY <2>1, <2>2, <2>3, <2>4 DEF PromiseMoves
<1>2. /\ promise' = [promise EXCEPT ![c] = p]
      /\ UNCHANGED <<fate, call, chainVars, readVars>>
  BY <1>1 DEF Ends
<1>3. TypeOK'
  <2>1. promise' \in [Calls -> {"idle", "pending", "success", "failure", "SigningFailed",
                               "BroadcastTxError", "Unknown"}]
    BY <1>1, <1>2 DEF IInv, TypeOK
  <2> QED
    BY <1>2, <2>1 DEF IInv, TypeOK, chainVars, readVars
<1>4. MethodInv'
  BY <1>2 DEF IInv, MethodInv
<1>5. FateInv'
  BY <1>1, <1>2 DEF IInv, TypeOK, FateInv, chainVars
<1>6. EventInv' /\ CodeDetailsAreTrue' /\ QueryInv' /\ TraceInv'
  BY <1>2, QuietStep
<1> QED
  BY <1>3, <1>4, <1>5, <1>6 DEF IInv

-----------------------------------------------------------------------------
(* The steps of the chain *)

\* Whatever the chain adds, cached and returned code details stay true.
LEMMA DetailsStayTrue ==
  ASSUME IInv, ChainGrows, UNCHANGED readVars
  PROVE  CodeDetailsAreTrue' /\ QueryInv'
<1>1. Len(codes) \in Nat /\ Len(codes') \in Nat
  BY LenProperties DEF IInv, TypeOK, ChainGrows
<1>2. \A k \in Nat \ {0} : k <= Len(codes) => k <= Len(codes') /\ codes'[k] = codes[k]
  BY <1>1 DEF ChainGrows
<1>3. CodeIds \subseteq Nat \ {0} /\ Contracts \subseteq Nat \ {0}
  BY ContractCallsAssumption DEF CodeIds, Contracts
<1>4. \A r \in Reads : query[r] # NoQuery => query[r].about \in Nat \ {0}
  BY <1>3 DEF IInv, TypeOK, QueryRecord
<1>5. CodeDetailsAreTrue'
  BY <1>2, <1>3, <1>4 DEF IInv, CodeDetailsAreTrue, readVars
<1> QED
  BY <1>5 DEF IInv, QueryInv, readVars

\* The step of an author leaves no trace of a call but its own.
LEMMA NoTraceOfOthers ==
  ASSUME TypeOK, NEW c \in Calls,
         \/ Chain!ElsewhereStores \/ Chain!ElsewhereInstantiates
         \/ \E d \in Calls \ {c}, m \in Message, nested \in BOOLEAN : Chain!Execute(d, m, nested),
         ~ LeftTrace(c)
  PROVE  ~ LeftTrace(c)'
<1>1. /\ c \notin {Chain!Elsewhere, Chain!Nested}
      /\ codes \in Seq(Chain!CodeInfo) /\ contracts \in Seq(Chain!ContractInfo)
      /\ Len(codes) \in Nat /\ Len(contracts) \in Nat
  BY ContractCallsAssumption, LenProperties DEF TypeOK, Chain!Elsewhere, Chain!Nested
<1>2. CASE Chain!ElsewhereStores
  <2>1. PICK w \in Wasms :
          codes' = Append(codes, [checksum |-> w, by |-> Chain!Elsewhere])
    BY <1>2 DEF Chain!ElsewhereStores
  <2>2. contracts' = contracts
    BY <1>2 DEF Chain!ElsewhereStores
  <2>3. \A k \in 1..Len(codes') : codes'[k].by # c
    BY <1>1, <2>1 DEF LeftTrace
  <2> QED
    BY <2>2, <2>3 DEF LeftTrace
<1>3. CASE Chain!ElsewhereInstantiates
  <2>1. PICK k \in 1..Len(codes) :
          contracts' = Append(contracts, Chain!NewContract(k, "other", Chain!Elsewhere))
    BY <1>3 DEF Chain!ElsewhereInstantiates
  <2>2. codes' = codes
    BY <1>3 DEF Chain!ElsewhereInstantiates
  <2>3. \A a \in 1..Len(contracts') : contracts'[a].by # c /\ c \notin contracts'[a].written
    BY <1>1, <2>1 DEF LeftTrace, Chain!NewContract
  <2> QED
    BY <2>2, <2>3 DEF LeftTrace
<1>4. ASSUME NEW d \in Calls \ {c}, NEW m \in Message, NEW nested \in BOOLEAN,
             Chain!Execute(d, m, nested)
      PROVE  ~ LeftTrace(c)'
  <2>1. ChainGrows /\ OnlyMarks(d)
    <3>1. d \in Calls
      BY <1>4
    <3> QED
      BY ONLY TypeOK, <1>4, <3>1, Executed
  <2>2. Len(codes') \in Nat /\ Len(contracts') \in Nat
    BY <2>1, LenProperties DEF ChainGrows
  <2>3. \A k \in 1..Len(codes') : codes'[k].by # c
    <3> SUFFICES ASSUME NEW k \in 1..Len(codes') PROVE codes'[k].by # c
      OBVIOUS
    <3>1. CASE k > Len(codes)
      BY <1>4, <2>1, <3>1 DEF OnlyMarks
    <3>2. CASE k \in 1..Len(codes)
      BY <2>1, <3>2 DEF ChainGrows, LeftTrace, OnlyMarks
    <3> QED
      BY <1>1, <2>2, <3>1, <3>2
  <2>4. \A a \in 1..Len(contracts') : contracts'[a].by # c /\ c \notin contracts'[a].written
    <3> SUFFICES ASSUME NEW a \in 1..Len(contracts')
                 PROVE  contracts'[a].by # c /\ c \notin contracts'[a].written
      OBVIOUS
    <3>1. CASE a > Len(contracts)
      BY <1>1, <1>4, <2>1, <3>1 DEF OnlyMarks
    <3>2. CASE a \in 1..Len(contracts)
      BY <1>4, <2>1, <3>2 DEF ChainGrows, LeftTrace, OnlyMarks
    <3> QED
      BY <1>1, <2>2, <3>1, <3>2
  <2> QED
    BY <2>3, <2>4 DEF LeftTrace
<1> QED
  BY <1>2, <1>3, <1>4

\* What is true of the events of a call stays true when the chain grows.
LEMMA EventsStayTrue ==
  ASSUME IInv, ChainGrows, NEW c \in Calls, call[c] # NoCall, log[c].read,
         call'[c] = call[c], log'[c] = log[c]
  PROVE  LET message == call'[c].message
             k == Head(log'[c].codes)
             a == Head(log'[c].contracts) IN
         /\ call'[c].method \in Storing =>
               k \in 1..Len(codes') /\ codes'[k] = [checksum |-> message.wasm, by |-> c]
         /\ call'[c].method \in Instantiating =>
               a \in 1..Len(contracts') /\ contracts'[a].by = c
         /\ call'[c].method = "instantiate" => contracts'[a].origin = message.code
         /\ call'[c].method = "uploadAndInstantiate" => contracts'[a].origin = k
<1>1. /\ Len(codes) \in Nat /\ Len(codes') \in Nat
      /\ Len(contracts) \in Nat /\ Len(contracts') \in Nat
  BY LenProperties DEF IInv, TypeOK, ChainGrows
<1>2. \A k \in 1..Len(codes) : k \in 1..Len(codes') /\ codes'[k] = codes[k]
  BY <1>1 DEF ChainGrows
<1>3. \A a \in 1..Len(contracts) :
        /\ a \in 1..Len(contracts')
        /\ contracts'[a].by = contracts[a].by /\ contracts'[a].origin = contracts[a].origin
  BY <1>1 DEF ChainGrows
<1> DEFINE message == call[c].message
           k == Head(log[c].codes)
           a == Head(log[c].contracts)
<1>4. /\ call[c].method \in Storing =>
            k \in 1..Len(codes) /\ codes[k] = [checksum |-> message.wasm, by |-> c]
      /\ call[c].method \in Instantiating =>
            a \in 1..Len(contracts) /\ contracts[a].by = c
      /\ call[c].method = "instantiate" => contracts[a].origin = message.code
      /\ call[c].method = "uploadAndInstantiate" => contracts[a].origin = k
  BY DEF IInv, EventInv
<1> HIDE DEF message, k, a
<1>5. call[c].method \in Storing =>
        k \in 1..Len(codes') /\ codes'[k] = [checksum |-> message.wasm, by |-> c]
  BY ONLY <1>2, <1>4
<1>6. call[c].method \in Instantiating =>
        a \in 1..Len(contracts') /\ contracts'[a].by = c
  BY ONLY <1>3, <1>4
<1>7. /\ call[c].method = "instantiate" => contracts'[a].origin = message.code
      /\ call[c].method = "uploadAndInstantiate" => contracts'[a].origin = k
  BY ONLY <1>3, <1>4 DEF Instantiating
<1> QED
  BY <1>5, <1>6, <1>7 DEF message, k, a

LEMMA OthersStep ==
  ASSUME IInv, OthersAct
  PROVE  IInv'
<1>1. /\ ChainGrows
      /\ UNCHANGED <<callVars, readVars, log>>
  BY OthersOnlyAdd DEF OthersAct, IInv, Chain!ElsewhereStores, Chain!ElsewhereInstantiates
<1>2. TypeOK'
  BY <1>1 DEF IInv, TypeOK, ChainGrows, callVars, readVars
<1>3. MethodInv' /\ FateInv'
  BY <1>1 DEF IInv, MethodInv, FateInv, callVars
<1>4. EventInv'
  BY <1>1, EventsStayTrue DEF EventInv, callVars
<1>5. TraceInv'
  BY <1>1, NoTraceOfOthers DEF OthersAct, IInv, TraceInv, callVars
<1> QED
  BY <1>1, <1>2, <1>3, <1>4, <1>5, DetailsStayTrue DEF IInv

LEMMA ExecutedStep ==
  ASSUME IInv, NEW c \in Calls, IsExecuted(c)
  PROVE  IInv'
<1>1. /\ promise[c] \in {"pending", "Unknown"} /\ fate[c] = "none"
      /\ call[c] # NoCall
      /\ UNCHANGED <<promise, call, readVars>>
  BY DEF IsExecuted, IInv, FateInv
<1>2. call[c].method \in Methods /\ call[c].message \in Message
  BY <1>1 DEF IInv, TypeOK
<1>3. CASE fate' = [fate EXCEPT ![c] = "failure"] /\ UNCHANGED chainVars
  <2>1. TypeOK'
    BY <1>1, <1>3 DEF IInv, TypeOK, chainVars, readVars
  <2>2. MethodInv' /\ FateInv'
    BY <1>1, <1>3 DEF IInv, TypeOK, MethodInv, FateInv, chainVars
  <2>3. EventInv' /\ CodeDetailsAreTrue' /\ QueryInv' /\ TraceInv'
    <3>1. \A d \in Calls : fate[d] = "success" => fate'[d] = "success"
      BY <1>1, <1>3 DEF IInv, TypeOK
    <3> QED
      BY <1>1, <1>3, <3>1, QuietStep
  <2> QED
    BY <2>1, <2>2, <2>3 DEF IInv
<1>4. CASE /\ fate' = [fate EXCEPT ![c] = "success"]
           /\ \E nested \in BOOLEAN : Chain!Execute(c, call[c].message, nested)
  <2> DEFINE m == call[c].message
  <2>1. PICK nested \in BOOLEAN : Chain!Execute(c, m, nested)
    BY <1>4
  <2>2. /\ ChainGrows
        /\ Chain!Stores(m) =>
             /\ Len(codes') = Len(codes) + 1
             /\ codes'[Len(codes) + 1] = [checksum |-> m.wasm, by |-> c]
        /\ Chain!Instantiates(m) =>
             /\ Len(contracts) + 1 <= Len(contracts')
             /\ contracts'[Len(contracts) + 1].by = c
             /\ contracts'[Len(contracts) + 1].origin = Chain!CodeOf(m)
        /\ log' \in [Calls -> Chain!Log]
        /\ \A d \in Calls : d # c => log'[d] = log[d]
        /\ log'[c] # Chain!NoLog =>
             /\ Chain!Stores(m) => Head(log'[c].codes) = Len(codes) + 1
             /\ Chain!Instantiates(m) => Head(log'[c].contracts) = Len(contracts) + 1
    BY <1>2, <2>1, Executed DEF IInv
  <2>4. TypeOK'
    BY <1>1, <1>4, <2>2 DEF IInv, TypeOK, ChainGrows, readVars
  <2>5. MethodInv'
    BY <1>1 DEF IInv, MethodInv
  <2>6. FateInv'
    BY <1>1, <1>4, <2>2 DEF IInv, TypeOK, FateInv
  <2>7. EventInv'
    <3> SUFFICES ASSUME NEW d \in Calls, call'[d] # NoCall, log'[d].read
                 PROVE  LET message == call'[d].message
                            k == Head(log'[d].codes)
                            a == Head(log'[d].contracts) IN
                        /\ call'[d].method \in Storing =>
                              k \in 1..Len(codes') /\ codes'[k] = [checksum |-> message.wasm, by |-> d]
                        /\ call'[d].method \in Instantiating =>
                              a \in 1..Len(contracts') /\ contracts'[a].by = d
                        /\ call'[d].method = "instantiate" => contracts'[a].origin = message.code
                        /\ call'[d].method = "uploadAndInstantiate" => contracts'[a].origin = k
      BY DEF EventInv
    <3>1. CASE d # c
      <4>1. log'[d] = log[d] /\ call'[d] = call[d]
        BY <1>1, <2>2, <3>1
      <4> QED
        BY <2>2, <4>1, EventsStayTrue
    <3>2. CASE d = c
      <4>3. log'[c] # Chain!NoLog
        BY <3>2 DEF Chain!NoLog
      <4>4. Len(codes) \in Nat /\ Len(contracts) \in Nat /\ Len(contracts') \in Nat
        BY <2>2, LenProperties DEF IInv, TypeOK, ChainGrows
      <4>5. /\ call[c].method \in Storing => Chain!Stores(m)
            /\ call[c].method \in Instantiating => Chain!Instantiates(m)
            /\ call[c].method = "instantiate" => Chain!CodeOf(m) = m.code
            /\ call[c].method = "uploadAndInstantiate" => Chain!CodeOf(m) = Len(codes) + 1
        BY <1>1 DEF IInv, MethodInv, Storing, Instantiating, Chain!Stores,
             Chain!Instantiates, Chain!CodeOf
      <4>6. call'[c] = call[c]
        BY <1>1
      <4>7. call[c].method \in Storing =>
              Head(log'[c].codes) \in 1..Len(codes')
              /\ codes'[Head(log'[c].codes)] = [checksum |-> m.wasm, by |-> c]
        BY <2>2, <4>3, <4>4, <4>5
      <4>8. call[c].method \in Instantiating =>
              /\ Head(log'[c].contracts) \in 1..Len(contracts')
              /\ contracts'[Head(log'[c].contracts)].by = c
              /\ contracts'[Head(log'[c].contracts)].origin = Chain!CodeOf(m)
        BY <2>2, <4>3, <4>4, <4>5
      <4>9. call[c].method = "uploadAndInstantiate" =>
              Head(log'[c].codes) = Len(codes) + 1
        BY <2>2, <4>3, <4>5 DEF Storing
      <4> QED
        BY <3>2, <4>5, <4>6, <4>7, <4>8, <4>9 DEF Storing, Instantiating
    <3> QED
      BY <3>1, <3>2
  <2>8. CodeDetailsAreTrue' /\ QueryInv'
    BY <1>1, <2>2, DetailsStayTrue
  <2>9. TraceInv'
    <3> SUFFICES ASSUME NEW d \in Calls, fate'[d] # "success"
                 PROVE  ~ LeftTrace(d)'
      BY DEF TraceInv
    <3>1. d # c /\ fate'[d] = fate[d]
      BY <1>4 DEF IInv, TypeOK
    <3>2. ~ LeftTrace(d) /\ TypeOK
      BY <3>1 DEF IInv, TraceInv
    <3>3. c \in Calls \ {d} /\ m \in Message
      BY <1>2, <3>1
    <3> HIDE DEF m
    <3> QED
      BY ONLY <2>1, <3>2, <3>3, NoTraceOfOthers
  <2> QED
    BY <2>4, <2>5, <2>6, <2>7, <2>8, <2>9 DEF IInv
<1> QED
  BY <1>3, <1>4 DEF IsExecuted

-----------------------------------------------------------------------------
(* The queries *)

\* A step of one query that leaves everything else alone, but for the cache.
LEMMA ReadStep ==
  ASSUME IInv, NEW r \in Reads, NEW q,
         query' = [query EXCEPT ![r] = q],
         UNCHANGED <<callVars, chainVars, lagging>>,
         q \in QueryRecord,
         q.stage = "getCode" => q.method = "getCodeDetails" /\ q.about \in CodeIds,
         q.method = "getCodeDetails" => q.stage \in {"getCode", "done"},
         q.method = "getCodeDetails" /\ q.answer \in Wasms =>
            q.about <= Len(codes) /\ q.answer = codes[q.about].checksum,
         codesCache' \in [CodeIds -> Wasms \cup {"none"}],
         \A k \in CodeIds : codesCache'[k] # "none" =>
            k <= Len(codes) /\ codesCache'[k] = codes[k].checksum
  PROVE  IInv'
<1> USE DEF callVars, chainVars
<1>1. query' \in [Reads -> {NoQuery} \cup QueryRecord]
  BY DEF IInv, TypeOK
<1>2. TypeOK'
  BY <1>1 DEF IInv, TypeOK
<1>3. QueryInv'
  BY DEF IInv, TypeOK, QueryInv
<1>4. CodeDetailsAreTrue'
  BY DEF IInv, TypeOK, CodeDetailsAreTrue
<1>5. MethodInv' /\ FateInv' /\ EventInv' /\ TraceInv'
  BY DEF IInv, MethodInv, FateInv, EventInv, TraceInv, LeftTrace
<1> QED
  BY <1>2, <1>3, <1>4, <1>5 DEF IInv

LEMMA ReaderStep ==
  ASSUME IInv, NEW r \in Reads, Reader(r)
  PROVE  IInv'
<1>1. /\ codesCache \in [CodeIds -> Wasms \cup {"none"}]
      /\ \A k \in CodeIds : codesCache[k] # "none" =>
            k <= Len(codes) /\ codesCache[k] = codes[k].checksum
  BY DEF IInv, TypeOK, CodeDetailsAreTrue
<1>2. \A w \in Wasms : w \notin {"none", "incomplete", "error"}
  BY ContractCallsAssumption
<1>3. Resolved \subseteq Calls
  BY DEF Resolved
<1>4. {"none", "error", "data", "empty"} \subseteq Answers /\ Wasms \subseteq Answers
      /\ Chain!Admins \cup {Chain!Nobody} \subseteq Answers
  BY DEF Answers
<1>5. CASE GetCodeDetails(r) \/ GetContract(r) \/ QueryContractRaw(r) \/ QueryContractSmart(r)
  <2>1. PICK method, about, stage, answer :
          /\ Query(r, method, about, stage, answer)
          /\ method \in {"getCodeDetails", "getContract", "queryContractRaw",
                         "queryContractSmart"}
          /\ about \in CodeIds \cup Contracts
          /\ stage \in {"getCode", "getContractInfo", "queryContractSmart", "done"}
          /\ answer \in Wasms \cup {"none"}
          /\ stage = "getCode" => method = "getCodeDetails" /\ about \in CodeIds
          /\ method = "getCodeDetails" => stage \in {"getCode", "done"}
          /\ answer \in Wasms => about <= Len(codes) /\ answer = codes[about].checksum
    <3>1. CASE GetCodeDetails(r)
      <4>1. PICK k \in CodeIds :
              \/ /\ codesCache[k] # "none"
                 /\ Query(r, "getCodeDetails", k, "done", codesCache[k])
              \/ Query(r, "getCodeDetails", k, "getCode", "none")
        BY <3>1 DEF GetCodeDetails
      <4> QED
        BY <1>1, <1>2, <4>1
    <3>2. CASE GetContract(r)
      BY <1>2, <3>2 DEF GetContract
    <3>3. CASE QueryContractRaw(r)
      BY <1>2, <3>3 DEF QueryContractRaw
    <3>4. CASE QueryContractSmart(r)
      BY <1>2, <3>4 DEF QueryContractSmart
    <3> QED
      BY <1>5, <3>1, <3>2, <3>3, <3>4
  <2> DEFINE q == [method |-> method, about |-> about, stage |-> stage, answer |-> answer,
                   after |-> Resolved]
  <2>2. /\ query' = [query EXCEPT ![r] = q]
        /\ UNCHANGED <<callVars, chainVars, lagging, codesCache>>
    BY <2>1 DEF Query, callVars, chainVars
  <2>3. q \in QueryRecord
    BY <1>3, <1>4, <2>1 DEF QueryRecord
  <2>4. /\ q.method = method /\ q.about = about /\ q.stage = stage /\ q.answer = answer
    OBVIOUS
  <2> HIDE DEF q
  <2> QED
    BY <1>1, <2>1, <2>2, <2>3, <2>4, ReadStep
<1>6. CASE QueryFails(r) \/ OnCode(r) \/ OnContract(r) \/ OnRawData(r) \/ OnSmartData(r)
  <2>1. PICK stage, answer :
          /\ Answer(r, stage, answer)
          /\ UNCHANGED <<callVars, chainVars, lagging>>
          /\ query[r].method # "none"
          /\ stage \in {"queryContractRaw", "done"} /\ answer \in Answers
          /\ query[r].method = "getCodeDetails" =>
                /\ stage = "done"
                /\ answer \in Wasms => query[r].about <= Len(codes)
                                       /\ answer = codes[query[r].about].checksum
          /\ codesCache' \in [CodeIds -> Wasms \cup {"none"}]
          /\ \A k \in CodeIds : codesCache'[k] # "none" =>
                k <= Len(codes) /\ codesCache'[k] = codes[k].checksum
    <3>1. CASE QueryFails(r)
      BY <1>1, <1>2, <1>4, <3>1 DEF QueryFails, callVars, chainVars
    <3>2. CASE OnCode(r)
      <4>1. PICK answer \in CodeAnswers(query[r].about) : StoreCode(r, answer)
        BY <3>2 DEF OnCode
      <4>2. /\ query[r].method = "getCodeDetails" /\ query[r].about \in CodeIds
            /\ query[r] # NoQuery
            /\ UNCHANGED <<callVars, chainVars, lagging>>
        BY <3>2 DEF OnCode, IInv, QueryInv, NoQuery, callVars, chainVars
      <4>3. CASE answer = "incomplete"
        BY <1>1, <1>2, <1>4, <4>1, <4>2, <4>3 DEF StoreCode
      <4>4. CASE answer # "incomplete"
        <5>1. query[r].about <= Len(codes) /\ answer = codes[query[r].about].checksum
          BY <4>1, <4>4 DEF CodeAnswers
        <5>2. answer \in Wasms
          <6>1. query[r].about \in 1..Len(codes) /\ codes \in Seq(Chain!CodeInfo)
            BY <4>2, <5>1, LenProperties, ContractCallsAssumption DEF IInv, TypeOK, CodeIds
          <6>2. codes[query[r].about] \in Chain!CodeInfo
            BY <6>1, ElementOfSeq
          <6> QED
            BY <5>1, <6>2 DEF Chain!CodeInfo
        <5>3. /\ Answer(r, "done", answer)
              /\ codesCache' = [codesCache EXCEPT ![query[r].about] = answer]
          BY <4>1, <4>4 DEF StoreCode
        <5> QED
          BY <1>1, <1>4, <4>2, <5>1, <5>2, <5>3
      <4> QED
        BY <4>3, <4>4
    <3>3. CASE OnContract(r)
      <4>1. PICK answer \in ContractAnswers(query[r].about) :
              IF answer = "missing" THEN Answer(r, "done", "error")
              ELSE IF query[r].method = "getContract" THEN Answer(r, "done", answer)
              ELSE Answer(r, "queryContractRaw", "none")
        BY <3>3 DEF OnContract
      <4>2. /\ query[r].method \notin {"none", "getCodeDetails"}
            /\ query[r] # NoQuery
            /\ UNCHANGED <<callVars, chainVars, lagging, codesCache>>
        BY <3>3 DEF OnContract, IInv, QueryInv, NoQuery, callVars, chainVars
      <4>3. answer # "missing" => answer \in Answers
        <5>1. query[r].about <= Len(contracts) =>
                contracts[query[r].about].admin \in Chain!Admins \cup {Chain!Nobody}
          <6>1. query[r].about \in Nat \ {0} /\ contracts \in Seq(Chain!ContractInfo)
            BY <4>2, ContractCallsAssumption DEF IInv, TypeOK, CodeIds, Contracts, QueryRecord
          <6>2. query[r].about <= Len(contracts) =>
                  contracts[query[r].about] \in Chain!ContractInfo
            BY <6>1, ElementOfSeq, LenProperties
          <6> QED
            BY <6>2 DEF Chain!ContractInfo
        <5> QED
          BY <1>4, <4>1, <5>1 DEF ContractAnswers
      <4> QED
        BY <1>1, <1>4, <4>1, <4>2, <4>3
    <3>4. CASE OnRawData(r)
      <4>1. PICK answer \in DataAnswers(query[r].about) : Answer(r, "done", answer)
        BY <3>4 DEF OnRawData
      <4>2. /\ query[r].method \notin {"none", "getCodeDetails"}
            /\ UNCHANGED <<callVars, chainVars, lagging, codesCache>>
        BY <3>4 DEF OnRawData, IInv, QueryInv, NoQuery, callVars, chainVars
      <4> QED
        BY <1>1, <1>4, <4>1, <4>2 DEF DataAnswers
    <3>5. CASE OnSmartData(r)
      <4>1. PICK answer \in DataAnswers(query[r].about) : Answer(r, "done", answer)
        BY <3>5 DEF OnSmartData
      <4>2. /\ query[r].method \notin {"none", "getCodeDetails"}
            /\ UNCHANGED <<callVars, chainVars, lagging, codesCache>>
        BY <3>5 DEF OnSmartData, IInv, QueryInv, NoQuery, callVars, chainVars
      <4> QED
        BY <1>1, <1>4, <4>1, <4>2 DEF DataAnswers
    <3> QED
      BY <1>6, <3>1, <3>2, <3>3, <3>4, <3>5
  <2> DEFINE q == [query[r] EXCEPT !.stage = stage, !.answer = answer]
  <2>2. /\ query[r] \in QueryRecord
        /\ query \in [Reads -> {NoQuery} \cup QueryRecord]
    BY <2>1 DEF IInv, TypeOK, NoQuery
  <2>3. query' = [query EXCEPT ![r] = q]
    BY <2>1, <2>2 DEF Answer
  <2>4. /\ q.method = query[r].method /\ q.about = query[r].about
        /\ q.stage = stage /\ q.answer = answer
        /\ q \in QueryRecord
    BY <2>1, <2>2 DEF QueryRecord
  <2> HIDE DEF q
  <2> QED
    BY <2>1, <2>3, <2>4, ReadStep
<1> QED
  BY <1>5, <1>6 DEF Reader

-----------------------------------------------------------------------------
(* The theorems *)

LEMMA NextInv == IInv /\ [Next]_vars => IInv'
<1> SUFFICES ASSUME IInv, [Next]_vars PROVE IInv'
  OBVIOUS
<1>1. CASE \E c \in Calls : Client(c) \/ IsExecuted(c)
  <2>1. PICK c \in Calls : Client(c) \/ IsExecuted(c)
    BY <1>1
  <2>2. Client(c) => MethodCalled(c) \/ PromiseMoves(c)
    BY DEF Client, MethodCalled, PromiseMoves
  <2> QED
    BY <2>1, <2>2, MethodStep, PromiseStep, ExecutedStep
<1>2. CASE \E r \in Reads : Reader(r)
  BY <1>2, ReaderStep
<1>3. CASE OthersAct
  BY <1>3, OthersStep
<1>4. CASE UNCHANGED vars
  <2>1. UNCHANGED <<callVars, chainVars, readVars, promise, fate, call, log, codes, contracts,
                    lagging, codesCache, query>>
    BY <1>4 DEF vars, callVars, chainVars, readVars
  <2>2. TypeOK' /\ MethodInv' /\ FateInv'
    BY <2>1 DEF IInv, TypeOK, MethodInv, FateInv
  <2> QED
    BY <2>1, <2>2, QuietStep DEF IInv
<1> QED
  BY <1>1, <1>2, <1>3, <1>4 DEF Next

LEMMA InductiveInvariant == Spec => []IInv
BY InitInv, NextInv, PTL DEF Spec

\* The variables of the calls, the chain, the cache and the queries keep their
\* types, the bounds on what the chain stores included.
THEOREM CallsTypeCorrect == Spec => []TypeOK
<1>1. IInv => TypeOK
  BY DEF IInv
<1> QED
  BY <1>1, InductiveInvariant, PTL

\* upload, instantiate and uploadAndInstantiate report the code and the contract
\* their own transaction made, of the wasm and the code they were called with.
THEOREM MethodsReportTheirOwn == Spec => []ReportsAreOwn
<1>1. IInv => ReportsAreOwn
  <2> SUFFICES ASSUME IInv, NEW c \in Resolved
               PROVE  LET message == call[c].message
                          code == codes[Report(c).code]
                          contract == contracts[Report(c).contract] IN
                      /\ call[c].method \in Storing => code = [checksum |-> message.wasm, by |-> c]
                      /\ call[c].method \in Instantiating => contract.by = c
                      /\ call[c].method = "instantiate" => contract.origin = message.code
                      /\ call[c].method = "uploadAndInstantiate" =>
                            contract.origin = Report(c).code
    BY DEF ReportsAreOwn
  <2>1. c \in Calls /\ Outcome(c) = "resolved"
    BY DEF Resolved
  <2>2. promise[c] = "success" /\ log[c].read
    BY <2>1 DEF Outcome, IInv, TypeOK
  <2>3. call[c] # NoCall
    BY <2>1, <2>2 DEF IInv, FateInv
  <2> QED
    BY <2>1, <2>2, <2>3 DEF IInv, EventInv, Report, FindAttribute, Storing, Instantiating
<1> QED
  BY <1>1, InductiveInvariant, PTL

\* The cache of getCodeDetails never holds, and the method never returns, what
\* is not the code on the chain.
THEOREM CodeDetailsStayTrue == Spec => []CodeDetailsAreTrue
<1>1. IInv => CodeDetailsAreTrue
  BY DEF IInv
<1> QED
  BY <1>1, InductiveInvariant, PTL

\* A call that failed to sign, was refused or failed on the chain left no code,
\* no contract and no data.
THEOREM ErrorsLeaveNothing == Spec => []ErrorsLeaveNoTrace
<1>1. IInv => ErrorsLeaveNoTrace
  <2> SUFFICES ASSUME IInv, NEW c \in Calls,
                      Outcome(c) \in {"SigningFailed", "BroadcastTxError", "ExecutionFailed"}
               PROVE  fate[c] # "success"
    BY DEF IInv, TraceInv, ErrorsLeaveNoTrace
  <2>1. promise[c] \in {"SigningFailed", "BroadcastTxError", "failure"}
    BY DEF Outcome, IInv, TypeOK
  <2> QED
    BY <2>1 DEF IInv, FateInv
<1> QED
  BY <1>1, InductiveInvariant, PTL
=============================================================================
