------------------------- MODULE SwapAndBridgeProofs -------------------------
(***************************************************************************)
(* Proofs about SwapAndBridge, for any number of calls, any rates, fees    *)
(* and amounts, and without the bounds the runs put on balances and        *)
(* events: the amounts swapAndBridge computes from two queries are the     *)
(* ones the chain accepts, unless something the history variable `since`   *)
(* has noted came between.                                                 *)
(*                                                                         *)
(* The invariant says, for each thing a call has read, that it is still    *)
(* true on the chain or that its change was noted (CallInv).  Most steps   *)
(* are another's business for all calls but one: lemma Bystander.          *)
(***************************************************************************)
EXTENDS SwapAndBridge, FiniteSetTheorems, TLAPS

\* The types, those of the arguments and of the history included.
TypeInv ==
    /\ TypeOK
    /\ options \in [Calls -> [fee : Fees, amount : Amounts \cup {All}]]
    /\ after \in [Calls -> [from : Int, change : Int]]

\* The outcome of a call is decided after its last step, and what is pending
\* swaps something.
FateOk(c) ==
    /\ step[c] # "done" <=> fate[c] = "none"
    /\ fate[c] = "pending" => plan[c].swap > 0

\* The rate read is the rate, or was set since.
RateOk(c) ==
    c \in HaveRate =>
        rateRead[c] \in Rates /\ ("rate" \in since[c] \/ rateRead[c] = rate)

\* The amounts in the messages fit together and the balance that was read: it
\* is there still, or something was spent since.
PlanOk(c) ==
    c \in HaveBalance =>
        /\ HasWholeRate(rateRead[c])
        /\ plan[c].bridge = BridgeAmount(plan[c].swap, rateRead[c])
        /\ plan[c].fee = UsedFee(options[c].fee).amount
        /\ plan[c].denom = UsedFee(options[c].fee).denom
        /\ "spent" \in since[c] \/ plan[c].swap + plan[c].fee <= balance
        /\ options[c].amount = All =>
              since[c] \cap {"spent", "received"} # {}
                  \/ plan[c].swap + plan[c].fee = balance

\* The sequence read is the next one, with no transaction in front, or another
\* use of the account was noted.
SequenceOk(c) ==
    c \in HaveSequence =>
        "overlap" \in since[c] \/ (signedFor[c] = sequence /\ Pending \subseteq {c})

\* What the properties say of one call.
OutcomeOk(c) ==
    /\ fate[c] \in {"refused", "failed"} /\ since[c] \cap {"spent", "rate", "overlap"} = {}
          => plan[c].swap <= 0
    /\ fate[c] = "succeeded" /\ options[c].amount = All
          /\ since[c] \cap {"spent", "received"} = {} =>
                after[c].from = IF options[c].fee.denom = "from" THEN 0
                                ELSE options[c].fee.value
    /\ fate[c] = "succeeded" /\ "rate" \notin since[c] => after[c].change = 0

CallInv(c) == FateOk(c) /\ RateOk(c) /\ PlanOk(c) /\ SequenceOk(c) /\ OutcomeOk(c)

IInv == TypeInv /\ \A c \in Calls : CallInv(c)

-----------------------------------------------------------------------------
(* Arithmetic                                                              *)

\* What is swapped at a whole rate is the amount the transfer takes.
LEMMA WholeRateConverts ==
    ASSUME NEW swap \in Int, NEW r \in Nat, HasWholeRate(r)
    PROVE  (swap * r) \div Atomics = BridgeAmount(swap, r)
<1>1. Atomics \in Nat /\ Atomics > 0
  BY SwapAssumption
<1> DEFINE q == r \div Atomics
<1>2. r = Atomics * q /\ q \in Int
  BY <1>1 DEF HasWholeRate
<1> HIDE DEF q
<1>3. swap * r = Atomics * (swap * q) /\ swap * q \in Int
  BY <1>1, <1>2
<1>4. \A n \in Int : (Atomics * n) \div Atomics = n
  BY <1>1
<1> QED
  BY <1>3, <1>4 DEF BridgeAmount, q

\* The checks of the amounts let pass only what the balance they were made for
\* covers (589-614).
LEMMA AcceptedPlan ==
    ASSUME NEW o \in [fee : Fees, amount : Amounts \cup {All}], NEW funds \in Nat,
           NEW r \in Rates, Accepts(o, funds, r)
    PROVE  LET p == Plan(o, UsedFee(o.fee), funds, r) IN
           /\ p \in [swap : Int, bridge : Int, fee : Nat, denom : {"from", "other", "none"}]
           /\ p.bridge = BridgeAmount(p.swap, r)
           /\ p.fee = UsedFee(o.fee).amount /\ p.denom = UsedFee(o.fee).denom
           /\ p.swap + p.fee <= funds
           /\ o.amount = All => p.swap + p.fee = funds
<1> DEFINE fee == UsedFee(o.fee)
           swap == SwapAmount(o, fee, funds)
<1>1. o.fee \in [kind : {"gas", "std"}, value : Nat, denom : {"from", "other", "none"}]
  BY SwapAssumption
<1>2. fee.amount \in Nat /\ fee.denom \in {"from", "other", "none"}
  <2>1. (15 * o.fee.value) \div 1000 \in Nat
    BY <1>1
  <2> QED
    BY <1>1, <2>1 DEF UsedFee
<1>3. /\ swap \in Int /\ swap + fee.amount <= funds
      /\ o.amount = All => swap + fee.amount = funds
  <2>1. o.amount # All => o.amount \in Nat
    BY SwapAssumption
  <2> QED
    BY <1>2, <2>1 DEF Accepts, HasFunds, SwapAmount
<1>4. BridgeAmount(swap, r) \in Int
  <2>1. r \in Nat /\ Atomics \in Nat /\ Atomics > 0
    BY SwapAssumption
  <2>2. r \div Atomics \in Int
    BY <2>1
  <2> QED
    BY <1>3, <2>2 DEF BridgeAmount
<1> HIDE DEF fee, swap
<1>5. Plan(o, fee, funds, r) = [swap |-> swap, bridge |-> BridgeAmount(swap, r),
                                fee |-> fee.amount, denom |-> fee.denom]
  BY DEF Plan, swap
<1> QED
  BY <1>2, <1>3, <1>4, <1>5 DEF fee

-----------------------------------------------------------------------------
(* Steps of others                                                         *)

\* A step of another leaves a call alone, and what it changes of what the call
\* has read is noted.
Passes(c) ==
    /\ step'[c] = step[c] /\ options'[c] = options[c] /\ rateRead'[c] = rateRead[c]
    /\ plan'[c] = plan[c] /\ signedFor'[c] = signedFor[c] /\ fate'[c] = fate[c]
    /\ after'[c] = after[c]
    /\ since[c] \subseteq since'[c]
    /\ c \in HaveRate /\ "rate" \notin since'[c] => rate' = rate
    /\ c \in HaveBalance /\ "spent" \notin since'[c] => balance <= balance'
    /\ c \in HaveBalance /\ since'[c] \cap {"spent", "received"} = {} => balance' = balance
    /\ c \in HaveSequence /\ "overlap" \notin since'[c] /\ Pending \subseteq {c} =>
          sequence' = sequence /\ Pending' \subseteq {c}

LEMMA Bystander ==
    ASSUME TypeInv, TypeInv', NEW c \in Calls, CallInv(c), Passes(c)
    PROVE  CallInv(c)'
<1>1. /\ (c \in HaveRate)' => c \in HaveRate
      /\ (c \in HaveBalance)' => c \in HaveBalance
      /\ (c \in HaveSequence)' => c \in HaveSequence
  BY DEF Passes, Open, HaveRate, HaveBalance, HaveSequence
<1>2. FateOk(c)' /\ RateOk(c)' /\ SequenceOk(c)'
  BY <1>1 DEF CallInv, Passes, FateOk, RateOk, SequenceOk
<1>3. PlanOk(c)'
  <2>1. plan[c].swap \in Int /\ plan[c].fee \in Nat /\ balance \in Nat /\ balance' \in Nat
    BY DEF TypeInv, TypeOK
  <2> QED
    BY <1>1, <2>1 DEF CallInv, Passes, PlanOk
<1>4. OutcomeOk(c)'
  BY DEF CallInv, Passes, OutcomeOk
<1> QED
  BY <1>2, <1>3, <1>4 DEF CallInv

\* What a step of the call c has to keep.
Keeps(c) == TypeInv' /\ CallInv(c)' /\ \A d \in Calls \ {c} : Passes(d)

LEMMA KeepsIInv ==
    ASSUME IInv, NEW c \in Calls, Keeps(c)
    PROVE  IInv'
BY Bystander DEF IInv, Keeps

-----------------------------------------------------------------------------
(* Steps of the call, until the signature                                  *)

LEMMA StartStep ==
    ASSUME IInv, NEW c \in Calls, Start(c)
    PROVE  Keeps(c)
<1>1. TypeInv'
  BY DEF IInv, TypeInv, TypeOK, Start, chainVars, Steps
<1>2. CallInv(c)'
  BY DEF IInv, TypeInv, TypeOK, Start, chainVars, CallInv, FateOk, RateOk, PlanOk, SequenceOk,
     OutcomeOk, Open, HaveRate, HaveBalance, HaveSequence
<1>3. ASSUME NEW d \in Calls \ {c} PROVE Passes(d)
  BY DEF IInv, TypeInv, TypeOK, Start, chainVars, Passes, Pending
<1> QED
  BY <1>1, <1>2, <1>3 DEF Keeps

LEMMA RejectStep ==
    ASSUME IInv, NEW c \in Calls, Reject(c), step[c] # "done"
    PROVE  Keeps(c)
<1>1. TypeInv'
  BY DEF IInv, TypeInv, TypeOK, Reject, chainVars, Steps, Fates
<1>2. CallInv(c)'
  BY DEF IInv, TypeInv, TypeOK, Reject, chainVars, CallInv, FateOk, RateOk, PlanOk, SequenceOk,
     OutcomeOk, Open, HaveRate, HaveBalance, HaveSequence
<1>3. ASSUME NEW d \in Calls \ {c} PROVE Passes(d)
  <2>1. Pending' \subseteq Pending
    BY DEF IInv, TypeInv, TypeOK, Reject, Pending
  <2> QED
    BY <2>1 DEF IInv, TypeInv, TypeOK, Reject, chainVars, Passes
<1> QED
  BY <1>1, <1>2, <1>3 DEF Keeps

LEMMA SwapsStep ==
    ASSUME IInv, NEW c \in Calls, OnSwaps(c)
    PROVE  Keeps(c)
<1>1. CASE Reject(c)
  BY <1>1, RejectStep DEF OnSwaps
<1>2. CASE ~ Reject(c)
  <2> USE DEF NoSwap
  <2>0. /\ step[c] = "swaps" /\ rate # NoSwap
        /\ rateRead' = [rateRead EXCEPT ![c] = rate]
        /\ step' = [step EXCEPT ![c] = "balance"]
        /\ UNCHANGED <<chainVars, options, plan, signedFor, fate, since, after, events>>
    BY <1>2 DEF OnSwaps
  <2>1. TypeInv'
    BY <2>0 DEF IInv, TypeInv, TypeOK, chainVars, Steps
  <2>2. CallInv(c)'
    BY <2>0 DEF IInv, TypeInv, TypeOK, chainVars, CallInv, FateOk, RateOk, PlanOk, SequenceOk,
       OutcomeOk, Open, HaveRate, HaveBalance, HaveSequence
  <2>3. ASSUME NEW d \in Calls \ {c} PROVE Passes(d)
    BY <2>0 DEF IInv, TypeInv, TypeOK, chainVars, Passes, Pending
  <2> QED
    BY <2>1, <2>2, <2>3 DEF Keeps
<1> QED
  BY <1>1, <1>2

LEMMA BalanceStep ==
    ASSUME IInv, NEW c \in Calls, OnBalance(c)
    PROVE  Keeps(c)
<1> DEFINE o == options[c]
           p == Plan(o, UsedFee(o.fee), balance, rateRead[c])
<1>1. CASE Reject(c)
  BY <1>1, RejectStep DEF OnBalance
<1>2. CASE ~ Reject(c)
  <2>1. /\ Accepts(o, balance, rateRead[c]) /\ step[c] = "balance"
        /\ plan' = [plan EXCEPT ![c] = p]
        /\ step' = [step EXCEPT ![c] = "sequence"]
        /\ UNCHANGED <<chainVars, options, rateRead, signedFor, fate, since, after, events>>
    BY <1>2 DEF OnBalance
  <2>2. o \in [fee : Fees, amount : Amounts \cup {All}] /\ balance \in Nat
    BY DEF IInv, TypeInv, TypeOK
  <2>3. rateRead[c] \in Rates /\ HasWholeRate(rateRead[c])
    BY <2>1 DEF Accepts, IInv, CallInv, FateOk, RateOk, Open, HaveRate
  <2>4. /\ p \in [swap : Int, bridge : Int, fee : Nat, denom : {"from", "other", "none"}]
        /\ p.bridge = BridgeAmount(p.swap, rateRead[c])
        /\ p.fee = UsedFee(o.fee).amount /\ p.denom = UsedFee(o.fee).denom
        /\ p.swap + p.fee <= balance
        /\ o.amount = All => p.swap + p.fee = balance
    BY <2>1, <2>2, <2>3, AcceptedPlan
  <2> HIDE DEF p
  <2>5. TypeInv'
    BY <2>1, <2>4 DEF IInv, TypeInv, TypeOK, chainVars, Steps
  <2>6. CallInv(c)'
    <3>1. plan'[c] = p /\ step'[c] = "sequence"
      BY <2>1 DEF IInv, TypeInv, TypeOK
    <3>2. FateOk(c)' /\ RateOk(c)' /\ SequenceOk(c)' /\ OutcomeOk(c)'
      BY <2>1, <3>1 DEF IInv, CallInv, chainVars, FateOk, RateOk, SequenceOk, OutcomeOk,
         Open, HaveRate, HaveBalance, HaveSequence
    <3>3. PlanOk(c)'
      BY <2>1, <2>3, <2>4, <3>1 DEF PlanOk, chainVars
    <3> QED
      BY <3>2, <3>3 DEF CallInv
  <2>7. ASSUME NEW d \in Calls \ {c} PROVE Passes(d)
    BY <2>1 DEF IInv, TypeInv, TypeOK, chainVars, Passes, Pending
  <2> QED
    BY <2>5, <2>6, <2>7 DEF Keeps
<1> QED
  BY <1>1, <1>2

LEMMA SequenceStep ==
    ASSUME IInv, NEW c \in Calls, OnSequence(c)
    PROVE  Keeps(c)
<1>1. TypeInv'
  BY DEF IInv, TypeInv, TypeOK, OnSequence, chainVars, Steps, Note
<1>2. /\ step[c] = "sequence" /\ step'[c] = "signing" /\ fate[c] = "none"
      /\ signedFor'[c] = sequence
      /\ Pending # {} => "overlap" \in since'[c]
      /\ \A d \in Calls : since[d] \subseteq since'[d]
      /\ \A d \in Calls \ {c} : since'[d] = since[d]
      /\ since'[c] \subseteq since[c] \cup {"overlap"}
      /\ UNCHANGED <<chainVars, options, rateRead, plan, fate, after, events>>
  BY DEF IInv, TypeInv, TypeOK, CallInv, FateOk, OnSequence, Note
<1>3. Pending' = Pending /\ c \notin Pending
  BY <1>2 DEF Pending
<1>4. CallInv(c)'
  <2>1. FateOk(c)' /\ RateOk(c)' /\ OutcomeOk(c)'
    BY <1>2 DEF IInv, CallInv, chainVars, FateOk, RateOk, OutcomeOk, Open, HaveRate
  <2>2. PlanOk(c)'
    <3>1. c \in HaveBalance
      BY <1>2 DEF HaveBalance, HaveRate, Open
    <3> QED
      BY <1>2, <3>1 DEF IInv, CallInv, chainVars, PlanOk
  <2>3. SequenceOk(c)'
    BY <1>2, <1>3 DEF SequenceOk, chainVars
  <2> QED
    BY <2>1, <2>2, <2>3 DEF CallInv
<1>5. ASSUME NEW d \in Calls \ {c} PROVE Passes(d)
  <2>1. step'[d] = step[d] /\ signedFor'[d] = signedFor[d]
    BY DEF IInv, TypeInv, TypeOK, OnSequence
  <2> QED
    BY <1>2, <1>3, <2>1 DEF IInv, TypeInv, TypeOK, chainVars, Passes
<1> QED
  BY <1>1, <1>4, <1>5 DEF Keeps

-----------------------------------------------------------------------------
(* Steps of the transaction                                                *)

\* A call that has read the sequence and was not overlapped is first in line.
LEMMA FirstInLine ==
    ASSUME IInv, NEW c \in Calls, c \in HaveSequence, "overlap" \notin since[c]
    PROVE  /\ step[c] = "signing" => signedFor[c] = sequence + Cardinality(Pending)
           /\ ~ signedFor[c] < sequence
<1>1. signedFor[c] = sequence /\ Pending \subseteq {c} /\ sequence \in Nat
  BY DEF IInv, TypeInv, TypeOK, CallInv, SequenceOk
<1>2. ASSUME step[c] = "signing" PROVE Cardinality(Pending) = 0
  <2>1. c \notin Pending
    BY <1>2 DEF IInv, CallInv, FateOk, Pending
  <2>2. Pending = {}
    BY <1>1, <2>1
  <2> QED
    BY <2>2, FS_EmptySet
<1> QED
  BY <1>1, <1>2

\* A call from whose account nothing was spent can pay its fee.
LEMMA CanPay ==
    ASSUME IInv, NEW c \in Calls, c \in HaveBalance, "spent" \notin since[c], plan[c].swap > 0
    PROVE  PaysFee(c) /\ plan[c].swap <= balance - FeeTaken(c)
<1>1. /\ plan[c].swap + plan[c].fee <= balance
      /\ plan[c].swap \in Int /\ plan[c].fee \in Nat /\ balance \in Nat
  BY DEF IInv, TypeInv, TypeOK, CallInv, PlanOk
<1> QED
  BY <1>1 DEF PaysFee, FeeTaken

LEMMA BroadcastStep ==
    ASSUME IInv, NEW c \in Calls, Broadcast(c)
    PROVE  Keeps(c)
<1>1. /\ step[c] = "signing" /\ fate[c] = "none"
      /\ step' = [step EXCEPT ![c] = "done"]
      /\ UNCHANGED <<chainVars, options, rateRead, plan, signedFor, after, events>>
  BY DEF Broadcast, IInv, CallInv, FateOk
<1>2. c \in HaveSequence /\ c \in HaveBalance /\ c \in HaveRate /\ c \notin Pending
  BY <1>1 DEF HaveSequence, HaveBalance, HaveRate, Open, Pending
<1>3. CASE /\ plan[c].swap > 0
           /\ fate' = [fate EXCEPT ![c] = "pending"]
           /\ since' = Note(HaveSequence \ {c}, "overlap")
  <2>1. TypeInv'
    BY <1>1, <1>3 DEF IInv, TypeInv, TypeOK, chainVars, Steps, Fates, Note
  <2>2. step'[c] = "done" /\ fate'[c] = "pending" /\ since'[c] = since[c]
    BY <1>1, <1>3 DEF IInv, TypeInv, TypeOK, Note
  <2>3. Pending' = Pending \cup {c}
    BY <1>3 DEF IInv, TypeInv, TypeOK, Pending
  <2>4. CallInv(c)'
    BY <1>1, <1>2, <1>3, <2>2, <2>3 DEF IInv, CallInv, chainVars, FateOk, RateOk, PlanOk,
       SequenceOk, OutcomeOk
  <2>5. ASSUME NEW d \in Calls \ {c} PROVE Passes(d)
    <3>1. /\ step'[d] = step[d] /\ fate'[d] = fate[d] /\ since[d] \subseteq since'[d]
          /\ d \in HaveSequence => "overlap" \in since'[d]
      BY <1>1, <1>3 DEF IInv, TypeInv, TypeOK, Note
    <3> QED
      BY <1>1, <3>1 DEF IInv, TypeInv, TypeOK, chainVars, Passes
  <2> QED
    BY <2>1, <2>4, <2>5 DEF Keeps
<1>4. CASE /\ fate' = [fate EXCEPT ![c] = "refused"] /\ since' = since
           /\ \/ signedFor[c] # sequence + Cardinality(Pending)
              \/ ~ plan[c].swap > 0 \/ ~ PaysFee(c)
  <2>1. TypeInv'
    BY <1>1, <1>4 DEF IInv, TypeInv, TypeOK, chainVars, Steps, Fates
  <2>2. step'[c] = "done" /\ fate'[c] = "refused"
    BY <1>1, <1>4 DEF IInv, TypeInv, TypeOK
  <2>3. Pending' = Pending
    BY <1>2, <1>4 DEF IInv, TypeInv, TypeOK, Pending
  <2>4. since[c] \cap {"spent", "rate", "overlap"} = {} => plan[c].swap <= 0
    <3>1. plan[c].swap \in Int
      BY DEF IInv, TypeInv, TypeOK
    <3> QED
      BY <1>1, <1>2, <1>4, <3>1, FirstInLine, CanPay
  <2>5. CallInv(c)'
    BY <1>1, <1>4, <2>2, <2>4 DEF CallInv, FateOk, RateOk, PlanOk, SequenceOk, OutcomeOk,
       Open, HaveRate, HaveBalance, HaveSequence
  <2>6. ASSUME NEW d \in Calls \ {c} PROVE Passes(d)
    <3>1. step'[d] = step[d] /\ fate'[d] = fate[d]
      BY <1>1, <1>4 DEF IInv, TypeInv, TypeOK
    <3> QED
      BY <1>1, <1>4, <2>3, <3>1 DEF IInv, TypeInv, TypeOK, chainVars, Passes
  <2> QED
    BY <2>1, <2>5, <2>6 DEF Keeps
<1> QED
  BY <1>3, <1>4 DEF Broadcast

LEMMA EvictStep ==
    ASSUME IInv, NEW c \in Calls, Evict(c)
    PROVE  Keeps(c)
<1>1. /\ fate[c] = "pending" /\ step[c] = "done" /\ plan[c].swap > 0
      /\ fate' = [fate EXCEPT ![c] = "refused"]
      /\ since' = Note(HaveSequence \ {c}, "overlap")
      /\ UNCHANGED <<chainVars, step, options, rateRead, plan, signedFor, after, events>>
  BY DEF Evict, IInv, CallInv, FateOk
<1>2. c \in HaveSequence /\ c \in HaveBalance /\ c \in HaveRate
  BY <1>1 DEF HaveSequence, HaveBalance, HaveRate, Open
<1>3. TypeInv'
  BY <1>1 DEF IInv, TypeInv, TypeOK, chainVars, Fates, Note
<1>4. fate'[c] = "refused" /\ since'[c] = since[c]
  BY <1>1 DEF IInv, TypeInv, TypeOK, Note
<1>5. since[c] \cap {"spent", "overlap"} # {}
  BY <1>1, <1>2, FirstInLine, CanPay DEF Evict
<1>6. CallInv(c)'
  BY <1>1, <1>4, <1>5 DEF CallInv, FateOk, RateOk, PlanOk, SequenceOk, OutcomeOk,
     Open, HaveRate, HaveBalance, HaveSequence
<1>7. ASSUME NEW d \in Calls \ {c} PROVE Passes(d)
  <2>1. /\ fate'[d] = fate[d] /\ since[d] \subseteq since'[d]
        /\ d \in HaveSequence => "overlap" \in since'[d]
    BY <1>1 DEF IInv, TypeInv, TypeOK, Note
  <2>2. rate' = rate /\ balance' = balance /\ balance \in Nat
    BY <1>1 DEF IInv, TypeInv, TypeOK, chainVars
  <2> QED
    BY <1>1, <2>1, <2>2 DEF Passes
<1> QED
  BY <1>3, <1>6, <1>7 DEF Keeps

LEMMA ExecuteStep ==
    ASSUME IInv, NEW c \in Calls, Execute(c)
    PROVE  Keeps(c)
<1> DEFINE left == balance - FeeTaken(c)
           swapped == (plan[c].swap * rate) \div Atomics
<1>1. /\ fate[c] = "pending" /\ step[c] = "done" /\ plan[c].swap > 0
      /\ sequence' = sequence + 1 /\ PaysFee(c)
      /\ since' = Note(HaveBalance \ {c}, "spent")
      /\ after' = [after EXCEPT ![c] = [from |-> balance', change |-> bridgeable' - bridgeable]]
      /\ UNCHANGED <<rate, step, options, rateRead, plan, signedFor, events>>
  BY DEF Execute, IInv, CallInv, FateOk
<1>2. /\ c \in HaveSequence /\ c \in HaveBalance /\ c \in HaveRate /\ c \in Pending
  BY <1>1 DEF HaveSequence, HaveBalance, HaveRate, Open, Pending
<1>3. /\ plan[c].swap \in Int /\ plan[c].bridge \in Int /\ plan[c].fee \in Nat
      /\ balance \in Nat /\ bridgeable \in Nat /\ rate \in Nat /\ sequence \in Nat
      /\ Atomics \in Nat /\ Atomics > 0
  <2>1. plan[c] \in [swap : Int, bridge : Int, fee : Nat, denom : {"from", "other", "none"}]
    BY DEF IInv, TypeInv, TypeOK
  <2>2. balance \in Nat /\ bridgeable \in Nat /\ sequence \in Nat
    BY DEF IInv, TypeInv, TypeOK
  <2>3. rate \in Nat /\ Atomics \in Nat /\ Atomics > 0
    BY SwapAssumption DEF IInv, TypeInv, TypeOK, NoSwap
  <2> QED
    BY <2>1, <2>2, <2>3
<1>4. left \in Nat /\ left <= balance
      /\ left = IF plan[c].denom = "from" THEN balance - plan[c].fee ELSE balance
  BY <1>1, <1>3 DEF PaysFee, FeeTaken
<1>5. swapped \in Int
  BY <1>3
<1>6. "rate" \notin since[c] => plan[c].bridge = swapped
  <2>1. ASSUME "rate" \notin since[c] PROVE plan[c].bridge = swapped
    <3>1. rateRead[c] = rate /\ HasWholeRate(rate)
          /\ plan[c].bridge = BridgeAmount(plan[c].swap, rate)
      BY <1>2, <2>1 DEF IInv, CallInv, RateOk, PlanOk
    <3> QED
      BY <1>3, <3>1, WholeRateConverts
  <2> QED
    BY <2>1
<1>7. /\ options[c].fee.denom = "from" => plan[c].denom = "from"
      /\ options[c].fee.denom # "from" =>
            plan[c].denom # "from" /\ plan[c].fee = options[c].fee.value
  <2>1. /\ plan[c].fee = UsedFee(options[c].fee).amount
        /\ plan[c].denom = UsedFee(options[c].fee).denom
    BY <1>2 DEF IInv, CallInv, PlanOk
  <2>2. options[c].fee.kind = "gas" => options[c].fee.denom = "from"
    BY SwapAssumption DEF IInv, TypeInv
  <2> QED
    BY <2>1, <2>2 DEF UsedFee
<1>8. /\ options[c].amount = All /\ since[c] \cap {"spent", "received"} = {} =>
            left - plan[c].swap = IF options[c].fee.denom = "from" THEN 0
                                  ELSE options[c].fee.value
      /\ "spent" \notin since[c] => plan[c].swap <= left
  <2>1. options[c].amount = All /\ since[c] \cap {"spent", "received"} = {} =>
           plan[c].swap + plan[c].fee = balance
    BY <1>2 DEF IInv, CallInv, PlanOk
  <2> QED
    BY <1>1, <1>2, <1>3, <1>4, <1>7, <2>1, CanPay
<1> HIDE DEF left, swapped
<1>9. \/ /\ balance' = left - plan[c].swap /\ balance' \in Nat
         /\ bridgeable' = bridgeable + swapped - plan[c].bridge /\ bridgeable' \in Nat
         /\ fate' = [fate EXCEPT ![c] = "succeeded"]
      \/ /\ ~ (plan[c].swap <= left /\ plan[c].bridge <= bridgeable + swapped)
         /\ balance' = left /\ bridgeable' = bridgeable
         /\ fate' = [fate EXCEPT ![c] = "failed"]
  <2>1. IF plan[c].swap <= left /\ plan[c].bridge <= bridgeable + swapped
        THEN /\ balance' = left - plan[c].swap
             /\ bridgeable' = bridgeable + swapped - plan[c].bridge
             /\ fate' = [fate EXCEPT ![c] = "succeeded"]
        ELSE /\ balance' = left
             /\ fate' = [fate EXCEPT ![c] = "failed"]
             /\ UNCHANGED bridgeable
    BY DEF Execute, left, swapped
  <2> QED
    BY <1>3, <1>4, <1>5, <2>1
<1>10. TypeInv'
  <2>1. balance' \in Nat /\ bridgeable' \in Nat /\ sequence' \in Nat
    BY <1>1, <1>3, <1>4, <1>9
  <2>2. [from |-> balance', change |-> bridgeable' - bridgeable] \in [from : Int, change : Int]
    BY <1>3, <2>1
  <2> QED
    BY <1>1, <1>9, <2>1, <2>2 DEF IInv, TypeInv, TypeOK, Fates, Note
<1>11. /\ since'[c] = since[c] /\ fate'[c] \in {"succeeded", "failed"}
       /\ after'[c] = [from |-> balance', change |-> bridgeable' - bridgeable]
  BY <1>1, <1>9 DEF IInv, TypeInv, TypeOK, Note
<1>12. OutcomeOk(c)'
  <2>1. CASE fate'[c] = "succeeded"
    <3>1. /\ balance' = left - plan[c].swap
          /\ bridgeable' = bridgeable + swapped - plan[c].bridge
      BY <1>9, <2>1 DEF IInv, TypeInv, TypeOK
    <3>2. after'[c].from = left - plan[c].swap
          /\ ("rate" \notin since[c] => after'[c].change = 0)
      BY <1>3, <1>5, <1>6, <1>11, <3>1
    <3> QED
      BY <1>1, <1>8, <1>11, <2>1, <3>2 DEF OutcomeOk
  <2>2. CASE fate'[c] = "failed"
    <3>1. ~ (plan[c].swap <= left /\ plan[c].bridge <= bridgeable + swapped)
      BY <1>9, <2>2 DEF IInv, TypeInv, TypeOK
    <3>2. since[c] \cap {"spent", "rate"} # {}
      BY <1>3, <1>5, <1>6, <1>8, <3>1
    <3> QED
      BY <1>11, <2>2, <3>2 DEF OutcomeOk
  <2> QED
    BY <1>11, <2>1, <2>2
<1>13. CallInv(c)'
  BY <1>1, <1>11, <1>12 DEF CallInv, FateOk, RateOk, PlanOk, SequenceOk,
     Open, HaveRate, HaveBalance, HaveSequence
<1>14. ASSUME NEW d \in Calls \ {c} PROVE Passes(d)
  <2>1. /\ fate'[d] = fate[d] /\ after'[d] = after[d] /\ since[d] \subseteq since'[d]
        /\ d \in HaveBalance => "spent" \in since'[d]
        /\ ~ Pending \subseteq {d}
    BY <1>1, <1>2, <1>9 DEF IInv, TypeInv, TypeOK, Note
  <2> QED
    BY <1>1, <2>1 DEF Passes
<1> QED
  BY <1>10, <1>13, <1>14 DEF Keeps

-----------------------------------------------------------------------------
(* Steps of others                                                         *)

LEMMA ElsewhereStep ==
    ASSUME IInv, Elsewhere
    PROVE  IInv'
<1>1. ASSUME TypeInv', \A c \in Calls : Passes(c) PROVE IInv'
  BY <1>1, Bystander DEF IInv
<1>2. balance \in Nat /\ sequence \in Nat /\ MaxBalance \in Nat
  BY SwapAssumption DEF IInv, TypeInv, TypeOK
<1>3. ASSUME NEW n \in 1..MaxBalance, SpentElsewhere(n) PROVE IInv'
  <2>1. TypeInv'
    BY <1>2, <1>3 DEF IInv, TypeInv, TypeOK, SpentElsewhere, callVars
  <2>2. ASSUME NEW c \in Calls PROVE Passes(c)
    <3>1. /\ since[c] \subseteq since'[c]
          /\ c \in HaveBalance => "spent" \in since'[c]
          /\ c \in HaveSequence => "overlap" \in since'[c]
      BY <1>3 DEF SpentElsewhere
    <3> QED
      BY <1>3, <3>1 DEF SpentElsewhere, callVars, Passes
  <2> QED
    BY <1>1, <2>1, <2>2
<1>4. ASSUME NEW n \in 1..MaxBalance, Received(n) PROVE IInv'
  <2>1. TypeInv'
    BY <1>2, <1>4 DEF IInv, TypeInv, TypeOK, Received, callVars, Note
  <2>2. ASSUME NEW c \in Calls PROVE Passes(c)
    <3>1. /\ since[c] \subseteq since'[c]
          /\ c \in HaveBalance => "received" \in since'[c]
          /\ Pending' = Pending /\ balance <= balance'
      BY <1>2, <1>4 DEF Received, callVars, Note, Pending
    <3> QED
      BY <1>4, <3>1 DEF Received, callVars, Passes
  <2> QED
    BY <1>1, <2>1, <2>2
<1>5. ASSUME NEW r \in Rates, SetSwap(r) PROVE IInv'
  <2>1. TypeInv'
    BY <1>5 DEF IInv, TypeInv, TypeOK, SetSwap, callVars, Note
  <2>2. ASSUME NEW c \in Calls PROVE Passes(c)
    <3>1. /\ since[c] \subseteq since'[c]
          /\ c \in HaveRate => "rate" \in since'[c]
          /\ Pending' = Pending /\ balance <= balance'
      BY <1>2, <1>5 DEF SetSwap, callVars, Note, Pending
    <3> QED
      BY <1>5, <3>1 DEF SetSwap, callVars, Passes
  <2> QED
    BY <1>1, <2>1, <2>2
<1> QED
  BY <1>3, <1>4, <1>5 DEF Elsewhere

-----------------------------------------------------------------------------
(* The theorems                                                            *)

LEMMA InitInv == Init => IInv
<1> SUFFICES ASSUME Init PROVE IInv
  OBVIOUS
<1>1. TypeInv
  <2>1. MaxBalance \in Nat
    BY SwapAssumption
  <2> QED
    BY <2>1 DEF Init, TypeInv, TypeOK, NoSwap, NoPlan, Steps, Fates
<1>2. ASSUME NEW c \in Calls PROVE CallInv(c)
  BY DEF Init, CallInv, FateOk, RateOk, PlanOk, SequenceOk, OutcomeOk, HaveRate, HaveBalance,
     HaveSequence
<1> QED
  BY <1>1, <1>2 DEF IInv

LEMMA NextInv == IInv /\ [Next]_vars => IInv'
<1> SUFFICES ASSUME IInv, [Next]_vars PROVE IInv'
  OBVIOUS
<1>1. ASSUME NEW c \in Calls, CallStep(c) PROVE IInv'
  <2>1. CASE Throw(c)
    <3>1. step[c] # "done" /\ Reject(c)
      BY <2>1 DEF Throw
    <3> QED
      BY <3>1, RejectStep, KeepsIInv
  <2> QED
    BY <1>1, <2>1, StartStep, SwapsStep, BalanceStep, SequenceStep, BroadcastStep,
       ExecuteStep, EvictStep, KeepsIInv DEF CallStep
<1>2. CASE UNCHANGED vars
  <2>1. TypeInv'
    BY <1>2 DEF vars, chainVars, callVars, IInv, TypeInv, TypeOK
  <2>2. ASSUME NEW c \in Calls PROVE CallInv(c)'
    <3>1. CallInv(c)
      BY DEF IInv
    <3>2. HaveRate' = HaveRate /\ HaveBalance' = HaveBalance /\ HaveSequence' = HaveSequence
          /\ Pending' = Pending
      BY <1>2 DEF vars, chainVars, callVars, HaveRate, HaveBalance, HaveSequence, Open, Pending
    <3> QED
      BY <1>2, <3>1, <3>2 DEF vars, chainVars, callVars, CallInv, FateOk, RateOk, PlanOk,
         SequenceOk, OutcomeOk
  <2> QED
    BY <2>1, <2>2 DEF IInv
<1> QED
  BY <1>1, <1>2, ElsewhereStep DEF Next

LEMMA InductiveInvariant == Spec => []IInv
BY InitInv, NextInv, PTL DEF Spec

\* Every variable keeps its type: no balance gets negative, whatever the calls
\* computed from balances and rates that are gone.
THEOREM SwapTypeCorrect == Spec => []TypeOK
<1>1. IInv => TypeOK
  BY DEF IInv, TypeInv
<1> QED
  BY <1>1, InductiveInvariant, PTL

\* The chain refuses or fails a transaction of swapAndBridge only if the account
\* was used meanwhile, the rate was set, or there was nothing to swap.
THEOREM UndisturbedSucceeds == Spec => []UndisturbedSwapSucceeds
<1>1. IInv => UndisturbedSwapSucceeds
  BY DEF IInv, CallInv, OutcomeOk, UndisturbedSwapSucceeds
<1> QED
  BY <1>1, InductiveInvariant, PTL

\* Left to choose the amount, a call that nothing interferes with leaves nothing of
\* the coins it swaps, but for the amount of a fee that is paid in others.
THEOREM OnlyForeignFeeIsLeft == Spec => []LeavesOnlyForeignFee
<1>1. IInv => LeavesOnlyForeignFee
  BY DEF IInv, CallInv, OutcomeOk, LeavesOnlyForeignFee
<1> QED
  BY <1>1, InductiveInvariant, PTL

\* While the rate stands, what the swap pays out is what the transfer takes,
\* whatever else happens to the account.
THEOREM SwappedIsBridged == Spec => []BridgesWhatItSwaps
<1>1. IInv => BridgesWhatItSwaps
  BY DEF IInv, CallInv, OutcomeOk, BridgesWhatItSwaps
<1> QED
  BY <1>1, InductiveInvariant, PTL
=============================================================================
