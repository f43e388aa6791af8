----------------------------- MODULE WasmChain -----------------------------
(***************************************************************************)
(* EXTERNAL: the wasm module of the chain, as far as the contract calls of *)
(* SigningFinschiaClient depend on it (signingfinschiaclient.ts 273-565):  *)
(* codes and contracts numbered in the order of their execution, the       *)
(* admin of a contract, and the events of a transaction.                   *)
(*                                                                         *)
(* A message is a record with its type; the messages of an                 *)
(* executeMultiple are one record with the contracts they execute.         *)
(***************************************************************************)
EXTENDS Naturals, Sequences

CONSTANTS
    Authors,       \* who stores and instantiates: the calls of the client
    Wasms,         \* wasm codes, as good as their checksums
    MaxCodes,      \* bounds of what is stored
    MaxContracts

VARIABLES
    codes,     \* the stored codes, by code id
    contracts, \* the contracts, by address
    log        \* the events of each executed transaction

chainVars == <<codes, contracts, log>>

Elsewhere == "elsewhere"  \* another client
Nested == "nested"        \* a contract that a contract instantiated

Admins == {"user", "other"}
Nobody == "nobody"

CodeInfo == [checksum : Wasms, by : Authors \cup {Elsewhere}]

\* origin is the code a contract was instantiated from, written holds who put
\* data under its key.
ContractInfo == [code : Nat, origin : Nat, admin : Admins \cup {Nobody},
                 by : Authors \cup {Elsewhere, Nested}, written : SUBSET Authors]

\* The events "store_code" and "instantiate" of a log, in their order.
Log == [read : BOOLEAN, codes : Seq(Nat), contracts : Seq(Nat)]
NoLog == [read |-> FALSE, codes |-> <<>>, contracts |-> <<>>]
Logged(ids, addresses) == [read |-> TRUE, codes |-> ids, contracts |-> addresses]

NewContract(code, admin, author) ==
    [code |-> code, origin |-> code, admin |-> admin, by |-> author, written |-> {}]

\* A contract may instantiate another one while it is instantiated: its own
\* event comes first.
WithNested(contract, nested) ==
    IF nested THEN <<contract, [contract EXCEPT !.by = Nested]>> ELSE <<contract>>

\* The addresses of n new contracts.
Addresses(n) == [i \in 1..n |-> Len(contracts) + i]

-----------------------------------------------------------------------------
Stores(m) == m.type \in {"StoreCode", "StoreCodeAndInstantiateContract"}
Instantiates(m) == m.type \in {"InstantiateContract", "StoreCodeAndInstantiateContract"}

\* The message of an account "user" can be executed.
Possible(m) ==
    CASE Stores(m) -> Len(codes) < MaxCodes
      [] m.type = "InstantiateContract" -> m.code <= Len(codes)
      [] m.type \in {"UpdateAdmin", "ClearAdmin"} ->
            m.contract <= Len(contracts) /\ contracts[m.contract].admin = "user"
      [] m.type = "MigrateContract" ->
            /\ m.contract <= Len(contracts) /\ contracts[m.contract].admin = "user"
            /\ m.code <= Len(codes)
      [] m.type = "ExecuteContract" -> \A a \in m.contracts : a <= Len(contracts)
      [] OTHER -> TRUE

\* The code a new contract runs: the one of the message, or the one just stored.
CodeOf(m) == IF m.type = "InstantiateContract" THEN m.code ELSE Len(codes) + 1

\* What a message does to a contract that is there.
Changed(author, m, a) ==
    LET contract == contracts[a] IN
    CASE m.type = "UpdateAdmin" /\ m.contract = a -> [contract EXCEPT !.admin = m.admin]
      [] m.type = "ClearAdmin" /\ m.contract = a -> [contract EXCEPT !.admin = Nobody]
      [] m.type = "MigrateContract" /\ m.contract = a -> [contract EXCEPT !.code = m.code]
      [] m.type = "ExecuteContract" /\ a \in m.contracts ->
            [contract EXCEPT !.written = @ \cup {author}]
      [] OTHER -> contract

\* The messages of a transaction are executed, all of them: new codes and
\* contracts get the next numbers.  The node may give a log that cannot be read,
\* or none, of which the client makes an empty text (finschiaclient.ts 575): taken
\* here for one that parseRawLog may throw on.
Execute(author, m, nested) ==
    LET added == IF Instantiates(m)
                 THEN WithNested(NewContract(CodeOf(m), m.admin, author), nested)
                 ELSE <<>>
        stored == IF Stores(m) THEN <<[checksum |-> m.wasm, by |-> author]>> ELSE <<>>
        logged == Logged(IF Stores(m) THEN <<Len(codes) + 1>> ELSE <<>>,
                         Addresses(Len(added))) IN
    /\ Possible(m) /\ Len(contracts) + Len(added) <= MaxContracts
    /\ codes' = codes \o stored
    /\ contracts' = [a \in 1..Len(contracts) |-> Changed(author, m, a)] \o added
    /\ \E l \in {logged, NoLog} : log' = [log EXCEPT ![author] = l]

\* Another client stores a code or instantiates one.
ElsewhereStores ==
    /\ Len(codes) < MaxCodes
    /\ \E w \in Wasms : codes' = Append(codes, [checksum |-> w, by |-> Elsewhere])
    /\ UNCHANGED <<contracts, log>>

ElsewhereInstantiates ==
    /\ Len(contracts) < MaxContracts
    /\ \E k \in 1..Len(codes) :
          contracts' = Append(contracts, NewContract(k, "other", Elsewhere))
    /\ UNCHANGED <<codes, log>>
=============================================================================
