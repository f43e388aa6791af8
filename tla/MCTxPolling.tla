---------------------------- MODULE MCTxPolling ----------------------------
(* TLC instances of TxPolling: small sets of calls and transactions. *)
EXTENDS TxPolling, TLC

CONSTANTS c1, c2, c3, t1, t2

TwoCalls == {c1, c2}
ThreeCalls == {c1, c2, c3}
OneTx == {t1}
TwoTxs == {t1, t2}

\* Calls and transactions are interchangeable in the specification.
Symmetry == Permutations(Calls) \cup Permutations(Txs)
=============================================================================
