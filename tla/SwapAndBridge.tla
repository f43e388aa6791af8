---------------------------- MODULE SwapAndBridge ----------------------------
(***************************************************************************)
(* SigningFinschiaClient.swapAndBridge (signingfinschiaclient.ts 567-643): *)
(* it queries the swap, then the balance, computes the two messages from   *)
(* what the queries said, and signs and broadcasts them in one             *)
(* transaction.  The chain moves on between all of these.                  *)
(*                                                                         *)
(* How the promise of the call settles once the transaction is signed is   *)
(* the subject of SigningClient and TxPolling: here fate says what becomes *)
(* of the transaction on the chain.                                        *)
(***************************************************************************)
EXTENDS Integers, FiniteSets

CONSTANTS
    Calls,
    Atomics,     \* 10^18 in the code: the atomics of the swap rate 1
    Rates,       \* the swap rates governance sets, in atomics
    Fees,        \* what callers pass as `gas`
    DefaultGas,  \* 150_000 in the code
    Amounts,     \* what callers pass as `amount`
    All,         \* `amount` left out
    MaxBalance,  \* bound: coins the sender holds at first or receives
    MaxEvents    \* bound: steps of the account's other users and governance

ASSUME SwapAssumption ==
    /\ Atomics \in Nat \ {0}
    /\ Rates \subseteq Nat \ {0}
    /\ Fees \subseteq [kind : {"gas", "std"}, value : Nat, denom : {"from", "other", "none"}]
    /\ \A f \in Fees : f.kind = "gas" => f.denom = "from"
    /\ DefaultGas \in Nat
    /\ Amounts \subseteq Nat /\ All \notin Amounts
    /\ MaxBalance \in Nat /\ MaxEvents \in Nat

VARIABLES
    rate,        \* the rate of swaps[0] on the chain, in atomics; NoSwap if none
    balance,     \* the sender's balance of swaps[0].fromDenom
    bridgeable,  \* its balance of swaps[0].toDenom
    sequence,    \* its sequence in the last block
    step,        \* the await each call is at
    options,     \* the arguments of each call
    rateRead,    \* `swap` in each call
    plan,        \* the amounts each call puts in its messages and its fee
    signedFor,   \* the sequence it signs for
    fate,        \* what became of its transaction
    since,       \* history: what happened since the call read it
    after,       \* history: balances when its transaction was executed
    events       \* counts the environment's steps

chainVars == <<rate, balance, bridgeable, sequence>>
callVars == <<step, options, rateRead, plan, signedFor, fate, after>>
vars == <<chainVars, callVars, since, events>>

NoSwap == 0
NoPlan == [swap |-> 0, bridge |-> 0, fee |-> 0, denom |-> "none"]
Steps == {"idle", "swaps", "balance", "sequence", "signing", "done"}
Fates == {"none", "rejected", "refused", "pending", "succeeded", "failed"}

Init ==
    /\ rate \in Rates \cup {NoSwap}
    /\ balance \in 0..MaxBalance
    /\ bridgeable \in 0..1
    /\ sequence = 0
    /\ step = [c \in Calls |-> "idle"]
    /\ options \in [Calls -> [fee : Fees, amount : Amounts \cup {All}]]
    /\ rateRead = [c \in Calls |-> NoSwap]
    /\ plan = [c \in Calls |-> NoPlan]
    /\ signedFor = [c \in Calls |-> 0]
    /\ fate = [c \in Calls |-> "none"]
    /\ since = [c \in Calls |-> {}]
    /\ after = [c \in Calls |-> [from |-> 0, change |-> 0]]
    /\ events = 0

Pending == {c \in Calls : fate[c] = "pending"}
Open == {c \in Calls : fate[c] \in {"none", "pending"}}

\* Who has read the rate, the balance, the sequence, and is not done with it.
HaveRate == {c \in Open : step[c] \notin {"idle", "swaps"}}
HaveBalance == HaveRate \ {c \in Calls : step[c] = "balance"}
HaveSequence == HaveBalance \ {c \in Calls : step[c] = "sequence"}

Note(calls, event) ==
    [c \in Calls |-> since[c] \cup IF c \in calls THEN {event} ELSE {}]

-----------------------------------------------------------------------------
(* The computations between the queries and the signature.                 *)

\* usedFee: gas * 0.015 is given to coins(), which throws unless it is an
\* integer; of a StdFee the first coin is used, which need not be there.
HasFee(f) ==
    IF f.kind = "gas" THEN (15 * f.value) % 1000 = 0 ELSE f.denom # "none"

UsedFee(f) ==
    IF f.kind = "gas"
    THEN [amount |-> (15 * f.value) \div 1000, denom |-> "from"]
    ELSE [amount |-> f.value, denom |-> f.denom]

\* Faulty variant: the fee is forgotten.
HasFundsWithoutFee(o, fee, funds) == o.amount # All => o.amount <= funds

HasFunds(o, fee, funds) == o.amount # All => o.amount + fee.amount <= funds

\* Faulty variant: the default fee is set aside, whatever the caller pays.
SwapAmountMinusDefaultFee(o, fee, funds) ==
    IF o.amount = All THEN funds - (15 * DefaultGas) \div 1000 ELSE o.amount

SwapAmount(o, fee, funds) == IF o.amount = All THEN funds - fee.amount ELSE o.amount

\* BigInt(swapRate.toString()) throws on the point of a fractional rate.
HasWholeRate(r) == r % Atomics = 0

\* Faulty variant: the amount before the swap is transferred.
BridgeAmountUnconverted(swap, r) == swap

BridgeAmount(swap, r) == swap * (r \div Atomics)

Plan(o, fee, funds, r) ==
    LET swap == SwapAmount(o, fee, funds)
    IN  [swap |-> swap, bridge |-> BridgeAmount(swap, r),
         fee |-> fee.amount, denom |-> fee.denom]

-----------------------------------------------------------------------------
(* The call.                                                               *)

Start(c) ==
    /\ step[c] = "idle"
    /\ step' = [step EXCEPT ![c] = "swaps"]
    /\ UNCHANGED <<chainVars, options, rateRead, plan, signedFor, fate, since, after, events>>

\* Faulty variant: the call ends with an outcome of its own.
RejectRaw(c) ==
    /\ step' = [step EXCEPT ![c] = "done"]
    /\ fate' = [fate EXCEPT ![c] = "Error"]
    /\ UNCHANGED <<chainVars, options, rateRead, plan, signedFor, since, after, events>>

Reject(c) ==
    /\ step' = [step EXCEPT ![c] = "done"]
    /\ fate' = [fate EXCEPT ![c] = "rejected"]
    /\ UNCHANGED <<chainVars, options, rateRead, plan, signedFor, since, after, events>>

\* A query fails (also: no v4 client), the account lookup fails, or the user
\* of the wallet declines.
Throw(c) ==
    /\ step[c] \in {"swaps", "balance", "sequence", "signing"}
    /\ Reject(c)

OnSwaps(c) ==
    /\ step[c] = "swaps"
    /\ \/ rate = NoSwap /\ Reject(c)
       \/ /\ rate # NoSwap
          /\ rateRead' = [rateRead EXCEPT ![c] = rate]
          /\ step' = [step EXCEPT ![c] = "balance"]
          /\ UNCHANGED <<chainVars, options, plan, signedFor, fate, since, after, events>>

\* The checks in front of the signature (585-614).
Accepts(o, funds, r) ==
    /\ funds # 0
    /\ HasFee(o.fee)
    /\ HasFunds(o, UsedFee(o.fee), funds)
    /\ HasWholeRate(r)

OnBalance(c) ==
    /\ step[c] = "balance"
    /\ LET o == options[c]
       IN  \/ ~Accepts(o, balance, rateRead[c]) /\ Reject(c)
           \/ /\ Accepts(o, balance, rateRead[c])
              /\ plan' = [plan EXCEPT ![c] = Plan(o, UsedFee(o.fee), balance, rateRead[c])]
              /\ step' = [step EXCEPT ![c] = "sequence"]
              /\ UNCHANGED <<chainVars, options, rateRead, signedFor, fate, since,
                             after, events>>

\* The last block knows nothing of the transactions in the mempool.
OnSequence(c) ==
    /\ step[c] = "sequence"
    /\ signedFor' = [signedFor EXCEPT ![c] = sequence]
    /\ step' = [step EXCEPT ![c] = "signing"]
    /\ since' = IF Pending = {} THEN since ELSE Note({c}, "overlap")
    /\ UNCHANGED <<chainVars, options, rateRead, plan, fate, after, events>>

-----------------------------------------------------------------------------
(* The chain: CheckTx, the ante handler and the two messages.              *)

PaysFee(c) == plan[c].denom = "from" => plan[c].fee <= balance
FeeTaken(c) == IF plan[c].denom = "from" THEN plan[c].fee ELSE 0

\* The signed transaction reaches the node.
Broadcast(c) ==
    /\ step[c] = "signing"
    /\ step' = [step EXCEPT ![c] = "done"]
    /\ IF /\ signedFor[c] = sequence + Cardinality(Pending)
          /\ plan[c].swap > 0
          /\ PaysFee(c)
       THEN /\ fate' = [fate EXCEPT ![c] = "pending"]
            /\ since' = Note(HaveSequence \ {c}, "overlap")
       ELSE /\ fate' = [fate EXCEPT ![c] = "refused"]
            /\ UNCHANGED since
    /\ UNCHANGED <<chainVars, options, rateRead, plan, signedFor, after, events>>

\* In a block the fee is taken first; the messages take effect both or not
\* at all.
Execute(c) ==
    LET left == balance - FeeTaken(c)
        swapped == (plan[c].swap * rate) \div Atomics
    IN  /\ fate[c] = "pending"
        /\ signedFor[c] = sequence
        /\ PaysFee(c)
        /\ sequence' = sequence + 1
        /\ since' = Note(HaveBalance \ {c}, "spent")
        /\ IF plan[c].swap <= left /\ plan[c].bridge <= bridgeable + swapped
           THEN /\ balance' = left - plan[c].swap
                /\ bridgeable' = bridgeable + swapped - plan[c].bridge
                /\ fate' = [fate EXCEPT ![c] = "succeeded"]
           ELSE /\ balance' = left
                /\ fate' = [fate EXCEPT ![c] = "failed"]
                /\ UNCHANGED bridgeable
        /\ after' = [after EXCEPT ![c] = [from |-> balance',
                                          change |-> bridgeable' - bridgeable]]
        /\ UNCHANGED <<rate, step, options, rateRead, plan, signedFor, events>>

\* Another use of the account made the pending transaction invalid.
Evict(c) ==
    /\ fate[c] = "pending"
    /\ signedFor[c] < sequence \/ ~PaysFee(c)
    /\ fate' = [fate EXCEPT ![c] = "refused"]
    /\ since' = Note(HaveSequence \ {c}, "overlap")
    /\ UNCHANGED <<chainVars, step, options, rateRead, plan, signedFor, after, events>>

\* Another client of the same account spends: a transaction of its own.
SpentElsewhere(n) ==
    /\ events < MaxEvents
    /\ n <= balance
    /\ balance' = balance - n
    /\ sequence' = sequence + 1
    /\ since' = [c \in Calls |-> since[c]
                    \cup (IF c \in HaveBalance THEN {"spent"} ELSE {})
                    \cup (IF c \in HaveSequence THEN {"overlap"} ELSE {})]
    /\ events' = events + 1
    /\ UNCHANGED <<rate, bridgeable, callVars>>

Received(n) ==
    /\ events < MaxEvents
    /\ balance + n <= MaxBalance
    /\ balance' = balance + n
    /\ since' = Note(HaveBalance, "received")
    /\ events' = events + 1
    /\ UNCHANGED <<rate, bridgeable, sequence, callVars>>

\* Governance sets the swap (MsgSetSwap).
SetSwap(r) ==
    /\ events < MaxEvents
    /\ r # rate
    /\ rate' = r
    /\ since' = Note(HaveRate, "rate")
    /\ events' = events + 1
    /\ UNCHANGED <<balance, bridgeable, sequence, callVars>>

-----------------------------------------------------------------------------
CallStep(c) ==
    \/ Start(c) \/ Throw(c) \/ OnSwaps(c) \/ OnBalance(c) \/ OnSequence(c)
    \/ Broadcast(c) \/ Execute(c) \/ Evict(c)

Elsewhere ==
    \/ \E n \in 1..MaxBalance : SpentElsewhere(n) \/ Received(n)
    \/ \E r \in Rates : SetSwap(r)

Next == (\E c \in Calls : CallStep(c)) \/ Elsewhere

Spec == Init /\ [][Next]_vars

-----------------------------------------------------------------------------
(* Properties.                                                             *)

\* What the variables hold (the state of swapAndBridge's locals).
TypeOK ==
    /\ rate \in Rates \cup {NoSwap}
    /\ balance \in Nat /\ bridgeable \in Nat /\ sequence \in Nat
    /\ step \in [Calls -> Steps]
    /\ rateRead \in [Calls -> Rates \cup {NoSwap}]
    /\ plan \in [Calls -> [swap : Int, bridge : Int, fee : Nat,
                           denom : {"from", "other", "none"}]]
    /\ signedFor \in [Calls -> Nat]
    /\ fate \in [Calls -> Fates]
    /\ \A c \in Calls : since[c] \subseteq {"spent", "received", "rate", "overlap"}

\* Nothing but the account's other uses, a new swap rate or a swap of nothing
\* (`amount` 0, or left out and a balance the fee uses up) makes the
\* transaction of swapAndBridge fail: the amounts it computes from its two
\* queries (574-614) are what the chain accepts.  The limits the chain has of its
\* own, the cap of a swap and the status of the bridge, are outside the model.
UndisturbedSwapSucceeds ==
    \A c \in Calls :
        fate[c] \in {"refused", "failed"} /\ since[c] \cap {"spent", "rate", "overlap"} = {}
        => plan[c].swap <= 0

\* What a call leaves behind with `amount` left out (604): nothing if the fee is
\* paid in the coins that are swapped.  A StdFee in another denomination is
\* subtracted all the same, the chain takes it elsewhere, and so many coins stay in
\* the account.  Coins received or spent after the balance was read are another
\* matter.
LeavesOnlyForeignFee ==
    \A c \in Calls :
        /\ fate[c] = "succeeded"
        /\ options[c].amount = All
        /\ since[c] \cap {"spent", "received"} = {}
        => after[c].from = IF options[c].fee.denom = "from" THEN 0 ELSE options[c].fee.value

\* The transfer takes exactly what the swap in front of it paid out (612-632):
\* unless the rate is set in between, the sender's other tokens are neither bridged away
\* nor added to, whatever else happens to the account.
BridgesWhatItSwaps ==
    \A c \in Calls :
        fate[c] = "succeeded" /\ "rate" \notin since[c] => after[c].change = 0

\* The error "no enough balance" of line 607: a balance that does not cover
\* the fee is an error of the call, and never gets as far as a signature.
DocSignsOnlyFunded ==
    \A c \in Calls : step[c] = "sequence" => plan[c].swap >= 0
=============================================================================
