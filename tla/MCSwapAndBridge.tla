-------------------------- MODULE MCSwapAndBridge --------------------------
(* TLC instances of SwapAndBridge: one or two calls for one account.       *)
EXTENDS SwapAndBridge, TLC

CONSTANTS c1, c2

OneCall == {c1}
TwoCalls == {c1, c2}

\* One decimal: the rates 1, 2 and the fractional 1.5.
AllRates == {10, 15, 20}

Gas(n) == [kind |-> "gas", value |-> n, denom |-> "from"]
Std(n, d) == [kind |-> "std", value |-> n, denom |-> d]

\* Gas 200 costs 3; of gas 100 the fee is no integer; a StdFee in the coins that
\* are swapped, in another denomination, and without a coin.
AllFees == {Gas(100), Gas(200), Std(1, "from"), Std(1, "other"), Std(0, "none")}

SomeAmounts == {0, 1}

Symmetry == Permutations(Calls)
=============================================================================
