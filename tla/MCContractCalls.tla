-------------------------- MODULE MCContractCalls --------------------------
(* Small instances of ContractCalls. *)
EXTENDS ContractCalls, TLC

Symmetry == Permutations(Calls) \cup Permutations(Reads)
                \cup Permutations(Wasms)
=============================================================================
