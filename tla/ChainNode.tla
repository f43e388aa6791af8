----------------------------- MODULE ChainNode -----------------------------
(***************************************************************************)
(* EXTERNAL: the Finschia node behind the Tendermint RPC endpoint, as far  *)
(* as the client in packages/finschia depends on it.  The client reaches   *)
(* it through broadcast_tx_sync, broadcast_tx_async and tx_search          *)
(* (finschiaclient.ts 385, 566; signingfinschiaclient.ts 636).             *)
(*                                                                         *)
(* A transaction is admitted to the mempool by CheckTx, may be dropped     *)
(* from it (eviction, recheck, a node restart), is included in a block     *)
(* with the code of its execution, and is found by tx_search only once     *)
(* the indexer has seen that block.                                        *)
(***************************************************************************)
CONSTANT Txs

VARIABLES
    status,  \* where each transaction is on the node
    code     \* the DeliverTx code of each included transaction

nodeVars == <<status, code>>

Status == {"unknown", "pooled", "included", "indexed"}

\* The two kinds of DeliverTx code the client tells apart.
Codes == {"success", "failure"}

NodeTypeOK ==
    /\ status \in [Txs -> Status]
    /\ code \in [Txs -> Codes \cup {"none"}]

NodeInit ==
    /\ status = [t \in Txs |-> "unknown"]
    /\ code = [t \in Txs |-> "none"]

\* The transaction is in a block.
Included(t) == status[t] \in {"included", "indexed"}

\* CheckTx passes: the transaction enters the mempool.  A transaction the
\* node already holds is answered from its cache and never admitted twice.
Admit(t) ==
    /\ status[t] = "unknown"
    /\ status' = [status EXCEPT ![t] = "pooled"]
    /\ UNCHANGED code

\* The mempool loses the transaction: eviction, recheck or a restart.
Drop(t) ==
    /\ status[t] = "pooled"
    /\ status' = [status EXCEPT ![t] = "unknown"]
    /\ UNCHANGED code

\* A block includes the transaction and executes it.
Include(t, result) ==
    /\ status[t] = "pooled"
    /\ status' = [status EXCEPT ![t] = "included"]
    /\ code' = [code EXCEPT ![t] = result]

\* The indexer reaches the block: tx_search finds the transaction from now on.
Index(t) ==
    /\ status[t] = "included"
    /\ status' = [status EXCEPT ![t] = "indexed"]
    /\ UNCHANGED code
=============================================================================
