# A TLA+ model of Finschia JS

Finschia JS (`packages/finschia`) is a client library for the Finschia chain: an
application gives it messages, it has them signed by a wallet, broadcasts the
transaction to a node and polls until the chain has executed it. This directory
models what is hard in it: calls that interleave at every `await`, timers that race
with answers, a node that loses, delays and repeats, an account sequence shared by
calls that do not know of each other, two conversions of a message that must be
inverse to each other, and results read from the events of a chain others use too.

Paths and lines are those of `src/packages/finschia/src/` unless they say otherwise.

## The system

| component | source | state | operations | modules |
|---|---|---|---|---|
| broadcast and polling | `finschiaclient.ts` 317-320, 338-404, 565-635 | per call: timer, request, promise | `broadcastTx`, `pollForTxResult`, `getTx` | `TxPolling`, `ChainNode`, `TxDelivery`, `TxPollingProofs` |
| signing client | `signingfinschiaclient.ts` 119-181, 645-781 | signer, cached chain id; per call: sequence read, document | `signAndBroadcast`, `sign`, `simulate` | `SigningClient` (composes `TxPolling`), `SigningClientProofs`, `SigningOutcomeProofs` |
| Amino layer | `signingfinschiaclient.ts` 698-740, `types.ts`, `modules/*/aminomessages.ts` | tables of converters | `signAmino`, `toAmino`, `fromAmino` | `AminoSigning`, `FinschiaTypes`, `AminoSigningProofs` |
| swap and bridge | `signingfinschiaclient.ts` 567-643 | per call: swap, balance and amounts | `swapAndBridge` | `SwapAndBridge`, `SwapAndBridgeProofs` |
| paged queries | `finschiaclient.ts` 277-299, 412-432, 459-471 | per call: pages so far, next key | `getBalanceStaked`, `getCodes`, `getContracts` | `Listing`, `ListingProofs` |
| high-level transactions | `signingfinschiaclient.ts` 183-565 | per call: message, promise | `sendTokens`, `upload`, `instantiate`, `uploadAndInstantiate`, `updateAdmin`, `clearAdmin`, `migrate`, `execute`, ... | `ContractCalls` (with `WasmChain`), `ContractCallsProofs`, `ContractOutcomeProofs` |
| cached queries | `finschiaclient.ts` 205-214, 434-451 | `chainId`, `codesCache` | `getChainId`, `getCodeDetails` | `SigningClient`, `ContractCalls` |
| simple queries | `finschiaclient.ts` | none | `getContract`, `queryContractRaw`, `queryContractSmart`; `getAccount`, `getBlock`, ... | the first three in `ContractCalls` |
| conversions | `utils.ts`, `modules/wasmplus/aminomessages.ts` | none | durations, decimals, documents, access types | `Conversions`, `AminoSigningProofs` |
| message types | `modules/*/messages.ts` | tables | registries, makers of proposals and policies, type guards | `FinschiaTypes`, `AminoSigning`, `Conversions` |
| query extensions | `modules/*/queries.ts` | none | one request each | not modelled |

How they interact: a high-level method calls `signAndBroadcast`, as `swapAndBridge`
calls `sign` and `broadcastTx`, and reads its result from the log of the response;
`sign` awaits `getSequence` and `getChainId`, then the wallet; `signAmino` goes through the Amino
layer before and after the wallet. The signed bytes go to `broadcastTx` (or to
`broadcastTxAsync`, whose hash the application may give to `pollForTxResult`), which
awaits the node and then polls `getTx`. Everything runs on one event loop: between two
awaits a call runs without interruption, so an action of the model is what runs from
one await (or timer callback) to the next. Nothing is persisted: a client that
restarts begins anew, and the crashes the models have are the node's.

What makes each component correct, and what is hard about it:

- *Broadcast and polling.* A response is the execution of the call's own transaction;
  the error tells what may have happened on the chain; every promise settles; the
  timer is checked at one place and raced by answers; a broadcast whose answer was lost
  may have been accepted.
- *Signing client.* What is sent is what the wallet signed; calls that overlap use one
  sequence, and identical calls even one hash; a caller that repeats a call must not
  pay twice.
- *Amino layer.* Converting to Amino and back loses and confuses nothing, and a
  message that cannot be converted back fails before the wallet is asked.
- *Swap and bridge.* Amounts computed from two earlier queries still hold when the
  chain executes them.
- *Paged queries.* Nothing stable is lost or repeated while the list changes; the loop
  ends.
- *Conversions.* A value is the same after the two conversions, or is refused before the
  wallet is asked; strings of digits are joined and split by position, in 64 bits.
- *High-level transactions.* The code id and address reported are those the call's own
  transaction made, among the codes and contracts of others; what resolved is done, and
  only some errors mean that nothing was done.
- *Queries of contracts.* The cache never keeps a wrong answer, and "no data" is said of
  a contract that exists.

`PROJECT.json` lists the hazards at their lines, with the properties that cover them.

## The modules

### `ChainNode`, `TxPolling`, `TxDelivery`

`ChainNode` is the external node: for each transaction a status (`unknown`, `pooled`,
`included`, `indexed`) and the code of its execution. It may drop a pooled transaction,
and it indexes a transaction some time after the block.

`TxPolling` has one record of state per call (`phase`, `timer`, `rpc`, `outcome`), for
any number of calls on one client:

| action | code |
|---|---|
| `BroadcastTx`, `PollForTxResult` | the call up to its first await; in offline mode `broadcastTx` throws with its timer armed |
| `TimerFires` | the callback that sets `timedOut` (354-357, 592-595) |
| `OnBroadcastAnswer` | the continuation of `broadcastTxSync` (385-404): `BroadcastTxError`, an error, or the loop |
| `PollForTx` | the head of `pollForTx` (359-368): the timeout check, then the sleep. It runs in the callback that leads to it |
| `WakeUp` | the end of the sleep and the query of `getTx` |
| `OnQueryAnswer` | the continuation of `getTx` (369-383) |
| `NodeAdmits`, `NodeRefuses`, `NodeSearches`, `RpcFails`, `NodeStep` | the node and the network (external) |

An admitted broadcast may be answered with an error (the answer was lost), and a
transaction the node already has is answered with an RPC error, as Tendermint's cache
does.

`TxDelivery` is the abstract promise: a call waits for a transaction, the chain decides
its fate, and the call settles once, with that fate if the chain decided, with a
`TimeoutError` only after its deadline, or with an error. `TxPolling` implements it
under the mapping `watched <- target`, `promise <- Promise`, `fate <- code`,
`expired <- {c : timer[c] = "fired"}`.

### `SigningClient`

Concurrent calls for one account. `Poll == INSTANCE TxPolling` gives it the broadcast:
a call that reaches `broadcastTx` continues with the actions of `TxPolling`, while the
node is narrowed to one that protects the account's sequence. A transaction is its
message, its sequence and whether the wallet edited the document, so two calls with the
same message and sequence are the same bytes. `policy` is how the application calls:
`free` (whenever it likes), `await` (the only user of the account, after the response of
every earlier call), `retry` (it repeats a message only after an error raised before the
broadcast or a `BroadcastTxError`). Calls with explicit signer data (`CallExplicit`), asynchronous
broadcasts (`OnAsyncAnswer`) and the polling of their hash (`PollHash`) are actions of
their own. `aminoSigner` is the kind of wallet; `Lossy` are the messages `fromAmino`
cannot take back, which `AminoSigning` explains.

### `AminoSigning`, `FinschiaTypes`

`AminoSigning` is `signAmino` for any tables: `toAmino` of every message, the wallet,
`fromAmino`, the registry. A message is its type URL, the type of the `Any` it carries,
the messages a `MsgSubmitProposal` wraps, and its converted fields; the fields a
converter copies under another name are left out. `Made` are the proposals of
`createMsgSubmitProposal`, which encodes with a registry of its own, and of
`createMakeSwapProposal`. `FinschiaTypes` has the library's tables: every converter
of every module, the inner tables of `MsgSubmitProposal`, the `Any` types of `MsgGrant`
and `MsgUpdateDecisionPolicy`, and the registry of `types.ts`.

### `Conversions`

The fields that are not copied. A string of digits is the number it spells, and the
definitions say where a sign or a missing digit moves the split: `ProtoDurationToJson`
(`protoDurationToJson`, 14-23) puts nine digits of nanoseconds behind the seconds, in a
signed `Long` (`Signed`, modulo `Wrap`), `JsonDurationToProto` splits it again;
`ProtoDecimalToJson` and `JsonDecimalToProto` move the decimal point. The document of a
`MsgStoreCodeAndInstantiateContract` goes through `JSON.parse` and `JSON.stringify`, and
its permission through the names of the access types. `Carried` is what Amino has room
for.

### `ContractCalls`, `WasmChain`

One action per method of `SigningFinschiaClient` that builds a message, with
`sendTokens` for the five whose message concerns no contract, then `Signs`,
`IsRefused`, `IsLost` or `IsDelivered` for what `signAndBroadcast` settles with. The
code after the `await` has no step of its own, since it runs in the callback that
settles the promise: `Outcome` is what the method returns or throws, `Report` the code
id and address it reads from the log. What the module assumes of broadcasting is what
`TxDelivery` promises, which `TxPolling` is shown to implement. Errors after which the
transaction may still be executed are one promise, `Unknown`. `Done` is what a caller
asks for with each method, as the chain then shows it.

The queries are actions too: `getCodeDetails` looks at `codesCache`, then asks;
`queryContractRaw` asks for the contract, then for its data. `after` remembers the calls
that had resolved when a query was made. A node may be some blocks behind (`lagging`).

`WasmChain` is external: codes and contracts get the next number when a transaction is
executed, a contract may instantiate another one while it is instantiated (its event
comes second), only the admin changes a contract, and a log may be missing or
unreadable. A missing one arrives as the empty text (`getTx`, `finschiaclient.ts` 575).
Whether `parseRawLog`, a dependency, throws on it or finds no logs in it depends on its
version; the methods that look for an attribute throw either way, and for the others
the model allows the error.

### `SwapAndBridge`

One action per await of `swapAndBridge`: `OnSwaps`, `OnBalance` (all the computation
and its errors), `OnSequence`, then the signed transaction reaches the chain
(`Broadcast`) and is executed: fee first, then both messages or none. Meanwhile other
clients use the account, tokens arrive, and governance sets the rate. Amounts are small
integers and `Atomics` is 10 where the code has 10^18, so that 15 is the fractional rate
1.5, which `BigInt("1.5")` throws on. How the promise settles is the subject of
`TxPolling`; here `fate` is what becomes of the transaction. The history variable
`since` records what happened after a call had read the value it concerns.

### `Listing`

The do-while loops of the three paged queries. The node answers with a page of the entries
at or behind the key asked for: in order, in front of the rest, full if there is a rest
(`IsPage`), and with the first key of the rest (`NextKey`). The list changes
between pages: codes and contracts are added, delegations come, grow, shrink, go, and
move to another validator.

## The runs

| run | question | bounds |
|---|---|---|
| `polling_safety` | what outcomes mean, timers, late queries | 2 calls, 2 transactions |
| `polling_liveness` | every promise settles; an indexed transaction is reported; refinement of `TxDelivery` with its liveness | 2 calls, 1 transaction |
| `polling_doc` | violated: see below | 2 calls, 1 transaction |
| `signing_calls` | what is sent is what was signed in that call; one execution never answers two calls; calls that wait for each other never meet a wrong sequence | 2 calls, 2 messages (one asynchronous and not convertible), a wallet that edits, explicit sequences ahead of the chain |
| `signing_retry_live` | an application that repeats with care has a message executed once, and each of its calls ends unless the wallet waits | 2 calls, 2 messages, 1 foreign transaction, a mempool that loses transactions |
| `amino_tables` | rebuilt as requested, fields included; lost only for the known reasons; a proposal the library made is never lost | every registered message and every proposal of one, alone and in pairs; periods around zero, around a second and beyond a `Long`, decimals, documents and permissions of each kind |
| `amino_shared_type`, `amino_proposal` | violated: see below | one message |
| `swap_calls` | undisturbed calls succeed; a swap of everything leaves nothing but what a fee in another denomination was mistaken for; a transfer takes what the swap paid | 2 calls, 5 kinds of fee (a `StdFee` in either denomination), 3 rates, balances up to 5, 1 outside event |
| `swap_unfunded` | violated: see below | 1 call |
| `contract_calls` | reports are the call's own; what resolved is done; which errors leave nothing, and which leave all or nothing; what the cache and the queries tell | 2 calls or queries of any kind, 2 wasms, 2 codes, 2 contracts, another client, nested instantiations |
| `listing_pages` | stable entries once, bounded sum, the loop ends | 4 keys, pages of 2, 2 changes |

Why the bounds are enough. Calls of `TxPolling` meet only at the node, through the
status of a transaction: two calls on one transaction and two on different ones are the
cases there are (and the theorems below hold for any number). Two signing calls suffice
for every overlap of a pair, and a call and its repetition are two. In `contract_calls` two
calls, a call and a query, or two queries overlap (`MaxStarted`), on two codes and two
contracts: one of another client before, between or behind those of the calls, or one of
each call. One outside event falls before, between or behind any two
awaits of the swap calls, and the second call is itself another user of the account. The
widths of `Conversions` are small (`Unit` 100 where the code has 10^9, a `Long` of
12 bits), with values on both sides of each limit; the theorems hold for any
width. `MaxSeq` leaves a sequence for every call and every foreign
transaction. A page boundary before, at and behind the changed key exists with four keys
and pages of two. Every run that could need it allows each kind of failure at every
await. Symmetry is used in safety runs only, over calls, queries, wasms and transactions,
which no definition tells apart.

`CHECK_DEADLOCK FALSE` is stated where the system may stop: all calls and queries have
ended and the chain has nothing left to do.

Fairness. The event loop runs a timer or sleep that elapsed and the continuation of an
answer that arrived; a request is answered or fails (the connection is given up). Hence
weak fairness of `TimerFires`, `WakeUp`, `OnBroadcastAnswer`, `OnQueryAnswer` and of the
answers to each call, and of the queries of `SigningClient` and `Listing`. Nothing is
assumed of the chain, which may never include a transaction, nor of the user of a
wallet, who may never answer.

Limits the runs brought out, kept as assumptions of the properties:

- `ResponsesAreDistinct` needs a mempool that loses nothing (`Drops = FALSE`). If the
  first of two identical transactions is lost, the second is admitted, and its one
  execution answers both calls, since they poll one hash.
- `RetriesExecuteOnce` needs a caller that does not repeat after a `TimeoutError`, a
  failed query or a failed broadcast request: in all three the transaction may still be
  executed, and a new sequence makes the repetition another transaction.
- `ListingEnds` needs answers with pagination in `getCodes` (`MayOmit`): its loop goes
  on while the key is undefined (422), where `getContracts` (468) and
  `getBalanceStaked` (287) stop. With `getCodes` in `MayOmit` it starts over with the
  first page for ever.
- `RebuiltAsRequested` is about what Amino can carry (`Carried`). Nanoseconds below
  zero throw before the wallet is asked; a period of more than 292 years wraps around in
  its 64 bits and is signed as another, or, wrapped to a fraction of a second below
  zero, throws after the wallet has signed; a document that is not
  spelled as `JSON.stringify` would is signed as another spelling.
- `ErrorsLeaveNoTrace` is not about the error of an unreadable log, nor about the errors
  after which the transaction may still be executed. What a caller knows after those is
  `UnclearErrorsAreAllOrNothing`: after an unreadable log everything is done, so a
  repetition does it twice; after a timeout or a lost answer everything or nothing is,
  or will be.
- `ReadsSeeWhatResolved` is, but for "no data", about a node that is not behind. With
  one that is, a query right after a resolved call may miss what the call did.
- In `ResolvedMeansDone`, a new admin is another account, whose own changes to the
  contract are outside the model; and what a migration did another one replaces, so a
  migrated contract runs the code of one of its migrations.
- With `amount` left out, `swapAndBridge` leaves nothing in the account only if the fee
  is paid in the coins that are swapped. A `StdFee` in another denomination is
  subtracted all the same (604), the chain takes it from other coins, and that amount of
  the swapped coins stays. `LeavesOnlyForeignFee` states both cases; it is about calls
  during which nothing arrives and nothing is spent.
- `UndisturbedSwapSucceeds` is about calls whose balance and rate stay as they were read
  and whose sequence no other call uses. The cap the chain puts on a swap and the status
  of its bridge, for which a transaction may fail as well, are outside the model.
  `BridgesWhatItSwaps` is about calls during which the rate is not set; if it is, the
  transfer takes the amount of the former rate.
- The sum of `getBalanceStaked` lies between the least and the largest weights, but
  need not be the total of any one moment: a redelegation between two pages counts
  twice or not at all.

## What the violated runs show

- `polling_doc`: the comment on `broadcastTx` (344-347) keeps `TimeoutError` for a
  transaction that is not in a block before the timeout. The timer starts before the
  broadcast and the flag is looked at before the next query, so a transaction that is in
  a block, even indexed, can be reported as a timeout. What does hold is
  `IndexedDuringSleepIsReported`.
- `amino_shared_type`: both `MsgRevokeOperator` of token and of collection have the
  type `lbm-sdk/MsgRevokeOperator`. `fromAmino` finds two and throws, after the wallet
  has signed.
- `amino_proposal`: `MsgSubmitProposal` converts wrapped messages of all modules to
  Amino, but searches the foundation's converters only on the way back.
- `swap_unfunded`: `swapAndBridge` without an amount, and with a balance below the fee,
  has a swap of a negative amount signed; "no enough balance" is raised only when an
  amount is given.

## What is proved

`TxPollingProofs` holds for every set of calls and transactions. The only assumption is
`NoTxAssumption`: the placeholder of a call without a transaction is not a transaction.

The properties are not inductive: that a response is on the chain depends on what an
answer under way says, and what an error tells depends on where the loop has been
entered. `IInv` adds to `TypeOK` and the properties

- `CodeInv`: a transaction has no code before a block includes it;
- `PhaseInv`: a call has an outcome exactly when it is done, and an idle call has done
  nothing;
- `AnswerInv`: a result on its way to a call is already in the index, with that code;
- `AdmissionInv`: a `broadcastTx` call is in its loop only after its transaction was
  admitted, and not before its answer says so;
- `LateInv`: a late query needs a timer that fired, and ends the sleeping.

`InitIInv` and `NextIInv` (one step per action, one below per conjunct it disturbs) give
`InductiveInvariant`; from it follow `TypeCorrect`, `ResponsesAreOnChain`,
`TimersAreReleased`, `OutcomesTellAdmission` and `LateQueriesAreBounded`.
`PollingImplementsDelivery` shows that every step maps to a step of `TxDelivery` or
to a stutter, under the invariant.

`SigningClientProofs` holds for every set of calls, messages, edits and policies, and
for any bounds, under the assumptions on the constants in `SigningClient`.
`SigningRefinesPolling` is `Spec => Poll!Spec`: whatever the signing client does is a
step of `TxPolling` or leaves its variables alone. It needs `ClientInv` (the types, and
that a call that was made has a message), because only then is what the wallet signs a
transaction of `TxPolling`. `SignedIsSent` is the safety property `OnlySignedIsSent`. It
is not inductive: that a failed call sent nothing is so because a call has no target
before it is handed over (`UntargetedInv`), and because the hand-over is the one step
from `signing` to `broadcast` (`HandOverInv`); a call that only polls a hash never
becomes a signing call. `PollKeepsTarget` says that no later step of a call changes its
target.

`SigningOutcomeProofs` proves what the outcomes mean for the account. Since the calls of
`SigningClient` are calls of `TxPolling`, the invariant of `TxPollingProofs` holds of
them (`CallsPollCorrectly`) and is not proved again; `ControlInv` says which steps a call
has behind it (it broadcasts at most one transaction, after the wallet signed). On the
two rest

- `AnswersAreDistinct`, under `~ Drops`. `DistinctInv`: what was admitted stays known to
  the node, so the same bytes are never admitted for a second call. With a mempool that
  loses transactions this is false, as said above;
- `RetriesAreSafe`. Two invariants: whatever of the application's is on the chain, or on
  its way, some call sent (`SourceInv`), and of two calls with one message one is dead
  (`RetryInv`), that is, it ended with an error that promises that nothing was sent. A
  transaction of a message has then one possible sender, and a sender signs once;
- `AwaitingIsSafe`. `AwaitInv`: one call is open at a time, nothing is in the mempool
  while it reads the sequence, and so the sequence read is the current one until the
  transaction is executed.

`AminoSigningProofs` holds for any tables of converters, messages and widths, under
`TablesAssumption` and `MessagesAssumption` (the tables are finite sets of entries, the
messages have the shape of messages) and `ConversionsAssumption` (a `Long` has an even
number of values, a second more than nine nanoseconds). `DurationsSurvive`: a period
that fits is the same after the two conversions, by division with remainder on each side
of zero (`SplitUp`, `SplitDown`). `FieldsSurvive` does the same for every field, and
`MessageSurvives` for a message, whose Amino type leads back to one converter only if
the tables say so (`UrlFound`, `TypeFound`, `OneEntry`). `MessagesAreRebuilt` is
`RebuiltAsRequested`, through `SigningInvariant`: what the wallet holds is the
conversion of what was asked.

Signatures are lost where the tables do not fit each other, so the theorems on lost
signatures have hypotheses on them. `LossesHaveReasons` (`LostOnlyForKnownReasons`) needs
`TablesFit`: the converters inside a proposal are among all converters, and whatever has
a converter has a registry type. `MadeProposalsComeBack` (`MadeProposalsAreNotLost`)
needs `ProposalTablesFit` too: what `createMsgSubmitProposal` can encode and the client
can convert is found on the way back. `MCAminoSigning` assumes both of the tables of the
library (`LibraryTablesFit`), so TLC evaluates them: a converter whose type is missing
in the registry makes that assumption false. The argument is the way back run forward
(`PlainReadsBack`, `InnerReadsBack`, `MessageReadsBack`): what was converted is read back
unless one of the reasons holds.

`ContractCallsProofs` holds for any number of calls, queries, wasms, codes and
contracts, under `ContractCallsAssumption` (the names the model uses itself, among them
the answers of the queries, are not calls or wasms). `IInv` adds to `TypeOK` and `CodeDetailsAreTrue`

- `TraceInv`: a call whose transaction did not succeed left no code, contract or data;
- `MethodInv`: the message of a call is one its method builds;
- `FateInv`: a promise of success or failure is what the chain decided, and a call that
  was not handed over, or was refused, has no fate;
- `EventInv`: the first event in a log that can be read is the code or contract its own
  transaction made, of the wasm and the code its message names;
- `QueryInv`: a query in a stage is of a method that has that stage.

The argument is that the chain only adds (`ChainGrows`): no step changes the checksum,
author or origin of what is stored, so a report stays true whatever others execute
(`Executed`, `OthersOnlyAdd`, `EventsStayTrue`), and no step but its own leaves a trace
of a call (`NoTraceOfOthers`). From it follow `CallsTypeCorrect`,
`MethodsReportTheirOwn`, `CodeDetailsStayTrue` and `ErrorsLeaveNothing`.

`ContractOutcomeProofs` has the properties about what stays. `WhatResolvesIsDone`
(`ResolvedMeansDone`) needs the message each method builds (`MessageInv`), and that a
message that was executed is done from then on, resolved or not (`DoneInv`): execution
does what the message says (`ExecutionIsDone`), no execution takes back a code, a
contract, what was written or an admin that is not the user, and only a migration
changes the code a contract runs (`ContractsStay`, `CallsStay`, `DoneStays`).
`UnclearErrorsMeanAllOrNothing` (`UnclearErrorsAreAllOrNothing`) follows from the same
invariant, with `FateInv` for the error of an unreadable log, which only an execution
that succeeded can lead to, and `TraceInv` for the others: a trace means success.
`ReadsAreUpToDate` (`ReadsSeeWhatResolved`) is about a query of two requests. `ReadInv`:
between the two it remembers only calls that were executed, and asks for data only of a
contract that exists; what an up to date node answered stays a possible answer, since
calls that resolve later do not join `after` (`AnswersStay`).

`SwapAndBridgeProofs` holds for any number of calls, any whole and fractional rates, fees
and amounts. For each thing a call has read, `CallInv` says that it is still true on the
chain or that its change is in `since`: the rate (`RateOk`), the balance against the
amounts planned (`PlanOk`), the sequence (`SequenceOk`). `Bystander`: a step of one call
or of others keeps the invariant of every call it is noted for. With a whole rate, the
division of the chain gives the product of the code (`WholeRateConverts`). The four
properties are read off the invariant: `SwapTypeCorrect` (no balance gets negative),
`UndisturbedSucceeds`, `OnlyForeignFeeIsLeft`, `SwappedIsBridged`.

`ListingProofs` holds for any finite set of keys, any size of the pages and any number of
changes between them. `StableEntriesOnce` is not inductive: `PagesInv` adds that what has
been collected is in order and in front of the next key, and that a stable entry is
collected or not in front of it. `StakedSumIsBounded` needs `WeightInv`, that an entry has
a weight its delegation had since the call, and facts about sums. Those need induction
over data, for which the library's theorems, with an operator as parameter, cannot be
used here; but a set can stand for the operator. `FirstKey` (any keys have a first one)
is the library's well-foundedness of the natural numbers, which is about sets, and
`SubsetInduction` follows from it: a set `Good` that contains every subset all of whose
parts with one element less it contains, contains all subsets. With it a sum exists
(`SumExists`), any fold computes it (`LoopSums`, `TotalIsSum`, `StakedIsSum`), and sums
are compared element by element (`SumsCompare`, `SumOfPart`).

So the invariants of the passing runs are theorems, the action property
`AtMostOneLateQuery` too, the safety part of the refinement of `TxDelivery` by
`TxPolling`, and the refinement of `TxPolling` by `SigningClient`. Only model-checked are
the liveness properties and the liveness part of the refinement of `TxDelivery` by
`TxPolling` (`EveryCallSettles`, `IndexedDuringSleepIsReported`, `EveryCallEnds`,
`ListingEnds`, the fair part of `ImplementsDelivery`): TLAPS proves nothing under
fairness here. What the theorems assume of the constants, the runs evaluate.

## Not modelled

- The fields of messages that are copied under another name, and the wording of errors
  (among it the text of `TimeoutError`, which divides milliseconds by 10000 and says
  seconds, 363, and `getLastLineOfError`, which cuts the text of a failed smart query).
- Cryptography and encoding; the WebSocket and HTTP clients of CosmJS, except as the
  answers and failures of requests.
- The query extensions and the other simple queries: each passes one request on and maps
  its answer, with no state or decision of its own that an interleaving could reach.
- Type guards, constants, paths and re-exports.
- Two calls that find the chain id unset and both ask for it: a network does not change
  its id under a client, so `SigningClient` has one flag for it.
- The maker of a swap proposal (`fswap/messages.ts` 42) wraps a `MsgSetSwap`, which has
  no Amino converter: with an Amino signer the call is rejected before the wallet is
  asked, which `AminoSigning` has as `RejectUnsupported`.
- The doc of `queryContractRaw` (`finschiaclient.ts` 515) promises `null` for a key
  without data. The response always holds bytes, so `?? null` never applies, and the
  test (`finschiaclient.spec.ts` 583) expects empty bytes. `OnRawData` returns them, as
  the code does.

## Plan

Done: `ChainNode`, `TxDelivery`, `TxPolling`, `SigningClient`, `ContractCalls` with
`WasmChain`, `AminoSigning` with `FinschiaTypes` and `Conversions`, `SwapAndBridge` and
`Listing`, each with proofs of its safety properties. What is left, in this order:

1. `ContractCalls` over `SigningClient` itself instead of its abstract promise, for the
   account sequence shared by overlapping methods.
2. The refinements between the proofs: `ContractCalls` to `SigningClient`, once (1) is
   there, so that what is proved of outcomes carries over to the methods.
