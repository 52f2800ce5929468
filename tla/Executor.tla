------------------------------- MODULE Executor -------------------------------
(***************************************************************************)
(* The execution of a block, as far as its transactions' nonces decide it. *)
(* The execution pipeline (greth) is external to the repository: this is   *)
(* the Ethereum rule that a transaction executes if and only if its nonce  *)
(* is the next one of its sender, applied in block order, and the reading  *)
(* of ExecutionResult.txs_info that mysticeti.rs has: the transactions     *)
(* that were mined.                                                        *)
(***************************************************************************)
EXTENDS Integers, Sequences, FiniteSets, SequencesExt

\* The account nonces after each number of transactions of a list.
NoncesAfter(nonces, transactions) ==
    LET after[n \in 0..Len(transactions)] ==
            IF n = 0 THEN nonces
            ELSE [after[n - 1] EXCEPT ![transactions[n].sender] =
                     IF transactions[n].nonce = @ THEN @ + 1 ELSE @]
    IN  after

\* The transactions of the list that execute from these account nonces.
Executed(nonces, transactions) ==
    LET after == NoncesAfter(nonces, transactions)
    IN  {transactions[i] : i \in {j \in DOMAIN transactions :
            transactions[j].nonce = after[j - 1][transactions[j].sender]}}

\* The account nonces after a set of transactions that executed.
Advance(nonces, executed) ==
    [s \in DOMAIN nonces |->
        nonces[s] + Cardinality({tx \in executed : tx.sender = s})]

\* The senders of a log of committed sub-DAGs.
Senders(log) ==
    {tx.sender : tx \in UNION {Range(log[i].transactions) : i \in DOMAIN log}}
=============================================================================
