---------------------------- MODULE ConsensusPool ----------------------------
(***************************************************************************)
(* The pool of committed sub-DAGs that the execution client's RPC handler  *)
(* fills and its consensus loop drains                                     *)
(* (execution-client/src/consensus/pool.rs).                               *)
(*                                                                         *)
(* The module gives the pool's state, its methods, and a specification     *)
(* with a single caller at a time and arbitrary arguments.  The steps in   *)
(* which concurrent callers take the pool's locks are in PipelineConsensus,*)
(* which is built from the same operators.                                 *)
(***************************************************************************)
EXTENDS ProposalOrder

CONSTANTS
    committed_subdags_per_block,  \* commits that make one block (a usize)
    Subdags,                      \* the sub-DAGs the RPC may hand over
    None                          \* Option::None

ASSUME BatchSizeIsNat == committed_subdags_per_block \in Nat

\* A sub-DAG, as far as the pool can tell: commit_ref.round, the commit's
\* timestamp and the decoded transactions.
ASSUME SubdagsHaveRounds ==
    /\ \A s \in Subdags : s.round \in Nat /\ s.timestamp_ms \in Nat
    /\ None \notin Subdags /\ None \notin Nat /\ None \notin Subdags \X Subdags

\* A nonce is a u64.
ASSUME SubdagsHaveTransactions ==
    \A s \in Subdags :
        /\ s.transactions \in Seq(Range(s.transactions))
        /\ \A tx \in Range(s.transactions) : tx.nonce \in Nat

VARIABLES
    next_committed_index,    \* first commit of the next block
    first_committed_subdag,  \* first sub-DAG ever added (written, never read)
    commited_queue,          \* BTreeMap: round -> sub-DAG
    pending_transactions,    \* drained but not yet mined, in proposal order
    drained,                 \* history: every transaction taken off the queue
    mined                    \* history: every transaction reported as mined

poolVars == <<next_committed_index, first_committed_subdag, commited_queue,
              pending_transactions, drained, mined>>

K == committed_subdags_per_block

-----------------------------------------------------------------------------
(* The methods, as functions of the fields they read.                      *)

\* The rounds of the batch that starts at index.
BatchRounds(index) == index .. (index + K - 1)

HasBatch(index, queue) == BatchRounds(index) \subseteq DOMAIN queue

Batch(index, queue) == [i \in 1..K |-> queue[index + i - 1]]

\* Faulty: the newest sub-DAG instead of the oldest.
NewestCommittedSubdag(queue) ==
    LET stamped == {r \in DOMAIN queue : queue[r].timestamp_ms > 0}
    IN  IF stamped = {} THEN None ELSE queue[Max(stamped)]

\* Lowest queued sub-DAG with a timestamp, for the first, empty block.
get_fist_committed_subdag(queue) ==
    LET stamped == {r \in DOMAIN queue : queue[r].timestamp_ms > 0}
    IN  IF stamped = {} THEN None ELSE queue[Min(stamped)]

\* (first, last) of the next batch, or None while a sub-DAG of it is missing.
next_committed_subdag_batch(index, queue) ==
    IF K > 0 /\ HasBatch(index, queue)
    THEN <<queue[index], queue[index + K - 1]>>
    ELSE None

\* The early return of get_proposal_transactions counts the queue's entries,
\* whichever rounds they have ...
ProposalHasEnough(queue) == Cardinality(DOMAIN queue) >= K

\* ... and its assert! wants the rounds of the batch.
get_proposal_transactions(index, queue, pending) ==
    create_proposal_transactions(pending, Batch(index, queue))

\* Rounds inserted in the order of the vector: the last one of a round stays.
WithSubdags(queue, v) ==
    LET Of(r) == {i \in DOMAIN v : v[i].round = r}
    IN  [r \in DOMAIN queue \cup {v[i].round : i \in DOMAIN v} |->
            IF Of(r) = {} THEN queue[r] ELSE v[Max(Of(r))]]

\* Faulty: the transactions that were mined are kept.
UnminedUnfiltered(proposal, tx_hashes) == proposal

\* Faulty: only they are kept.
UnminedInverted(proposal, tx_hashes) == Without(proposal, Range(proposal) \ tx_hashes)

\* What update_mined_block leaves pending of the proposal it recomputes.
Unmined(proposal, tx_hashes) == Without(proposal, tx_hashes)

-----------------------------------------------------------------------------
PoolInit ==
    /\ next_committed_index = 1
    /\ first_committed_subdag = None
    /\ commited_queue = << >>
    /\ pending_transactions = << >>
    /\ drained = {}
    /\ mined = {}

add_committed_subdags(v) ==
    /\ v # << >>
    /\ first_committed_subdag' = IF first_committed_subdag = None
                                 THEN Head(v) ELSE first_committed_subdag
    /\ commited_queue' = WithSubdags(commited_queue, v)
    /\ UNCHANGED <<next_committed_index, pending_transactions, drained, mined>>

\* The call returns only if the whole batch is queued; otherwise it panics on
\* its assert!, which the single caller below avoids by asking for the batch
\* before it builds a block.
update_mined_block(tx_hashes) ==
    LET batch == Batch(next_committed_index, commited_queue)
    IN  /\ HasBatch(next_committed_index, commited_queue)
        /\ commited_queue' = Restrict(commited_queue,
                DOMAIN commited_queue \ BatchRounds(next_committed_index))
        /\ \E proposal \in {create_proposal_transactions(pending_transactions, batch)} :
              pending_transactions' = Unmined(proposal, tx_hashes)
        /\ next_committed_index' = next_committed_index + K
        /\ drained' = drained \cup Range(BatchTransactions(batch))
        /\ mined' = mined \cup tx_hashes
        /\ UNCHANGED first_committed_subdag

\* A block of the proposal was executed, and some of it was mined.
MineProposal ==
    /\ next_committed_subdag_batch(next_committed_index, commited_queue) # None
    /\ \E tx_hashes \in SUBSET Range(get_proposal_transactions(
              next_committed_index, commited_queue, pending_transactions)) :
          update_mined_block(tx_hashes)

\* Every transaction that the pool may be given.
GivenTxs == UNION {Range(s.transactions) : s \in Subdags}

PoolTypeOK ==
    /\ next_committed_index \in Nat \ {0}
    /\ first_committed_subdag \in Subdags \cup {None}
    /\ DOMAIN commited_queue \subseteq Nat
    /\ \A r \in DOMAIN commited_queue :
          commited_queue[r] \in Subdags /\ commited_queue[r].round = r
    /\ pending_transactions \in Seq(GivenTxs)
    /\ Range(pending_transactions) \subseteq drained

\* No committed transaction disappears: every key taken off the queue has
\* been mined or is still pending ("All committed subdags and pending
\* transactions are kept", pool.rs module comment).
NothingDisappears ==
    Keys(drained) \subseteq Keys(mined) \cup Keys(Range(pending_transactions))

\* What waits is held in a form the next proposal can use as it is: one
\* transaction per key, each sender's nonces increasing.
PendingInNonceOrder == NonceOrder(pending_transactions)

\* Pending is what was drained and not mined, in the form the next proposal needs.
PendingIsTheRest == PoolTypeOK /\ NothingDisappears /\ PendingInNonceOrder
=============================================================================
