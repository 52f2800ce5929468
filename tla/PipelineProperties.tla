-------------------------- MODULE PipelineProperties --------------------------
(***************************************************************************)
(* What is expected of PipelineConsensus.                                  *)
(***************************************************************************)
EXTENDS PipelineConsensus

MainPcs == {"tick", "batch", "proposal", "locked", "push", "dead"}
PullPcs == {"pull", "update", "drain", "finish", "events", "dead"}

TypeOK ==
    /\ next_committed_index \in Nat \ {0}
    /\ canonical_block_number \in Nat
    /\ epoch \in Nat /\ chainEpoch \in Nat
    /\ last_ordered_block \in [number : Nat, id : Nat \X Nat] \cup {None}
    /\ mainPc \in MainPcs /\ pullPc \in PullPcs
    /\ batchIndex \in Nat /\ proposalIndex \in Nat
    /\ lastSubdag \in Subdags \cup {None}
    /\ poisoned \in BOOLEAN
    /\ submitted \in 0..Len(commits)
    /\ DOMAIN commited_queue \subseteq Nat
    /\ \A r \in DOMAIN commited_queue : commited_queue[r] \in Subdags

-----------------------------------------------------------------------------
(* Safety, whatever the timing of the puller.                              *)

\* The pipeline receives the blocks 1, 2, 3, ... and each names the block
\* pushed before it as its parent, also when pushes fail and are repeated.
ChainLinked ==
    \A n \in DOMAIN chain :
        /\ chain[n].number = n
        /\ chain[n].parent = IF n = 1 THEN GenesisId ELSE chain[n - 1].id

\* A block is pushed only once its predecessor was executed, so the pipeline
\* never holds two, and the canonical block number says which it holds.
OneBlockInFlight ==
    /\ Len(inPipeline) <= 1
    /\ canonical_block_number + Len(inPipeline) = Len(chain)

\* The update for the last executed block is still under way, or it panicked.
Late == pullPc \in {"update", "drain", "finish", "dead"}

\* Blocks whose result has updated the pool: all executed ones but the first,
\* less a late one.
UpdatedBlocks ==
    IF canonical_block_number <= 1 THEN 0
    ELSE canonical_block_number - (IF Late THEN 2 ELSE 1)

\* The pool's index and the chain agree: every executed block consumed one
\* batch, no more and no less.
IndexFollowsChain == next_committed_index = 1 + K * UpdatedBlocks

\* The damage a late puller can do is bounded: block n carries the batch that
\* is its turn, the one of the block before it, or no transactions at all.
StaleByAtMostOneBatch ==
    \A n \in DOMAIN chain : n > 1 =>
        chain[n].index \in {0, 1 + K * (n - 2), 1 + K * (n - 3)}

\* A committed transaction taken off the queue is mined or pending, although
\* the blocks may have been built from another batch than the one drained.
\* (A puller that panics in the middle of a batch loses what it had taken.)
NoDrainedTxLost ==
    pullPc \notin {"finish", "dead"} =>
        Keys(drained) \subseteq Keys(mined) \cup Keys(Range(pending_transactions))

\* What the two tasks know of each other stays right however late the puller is: how many blocks
\* are under way, how far the pool is, and what it still owes.
HoweverLate == TypeOK /\ OneBlockInFlight /\ IndexFollowsChain /\ NoDrainedTxLost

-----------------------------------------------------------------------------
(* What holds while the puller is done with a result before the next tick. *)

\* Each commit is in exactly one block: block n carries the (n-1)-th batch.
EveryCommitInOneBlock ==
    \A n \in DOMAIN chain : n > 1 => chain[n].index = 1 + K * (n - 2)

\* The last block proposed transactions and the pool does not know yet which of
\* them were mined.
Unsettled == Len(chain) > 1 /\ (inPipeline # << >> \/ pullPc \in {"update", "drain", "finish"})

\* The transactions of the last block that execute, or did.
LastMined ==
    IF inPipeline # << >> THEN Executed(accountNonce, Last(chain).transactions)
    ELSE result.txs

LedgerBlocks ==
    [n \in 1..(Len(chain) - 1) |-> [transactions |-> chain[n + 1].transactions,
                                    timestamp |-> chain[n + 1].timestamp]]

\* The ledger executes a block as it orders it.
LedgerPending ==
    IF Unsettled THEN Without(Last(chain).transactions, LastMined)
    ELSE pending_transactions

LedgerNonces ==
    IF Len(chain) > 1 /\ inPipeline # << >>
    THEN Advance(accountNonce, LastMined) ELSE accountNonce

\* The ordered blocks are those of the abstract ledger, transactions and
\* timestamps included, with resubmitted commits and failed pushes.
Ledger == INSTANCE OrderedLedger WITH
    BatchSize <- K,
    ledger <- LedgerBlocks, pending <- LedgerPending, nonces <- LedgerNonces

ImplementsLedger == Ledger!Spec

\* Neither task panics: the asserts on the rounds of a batch
\* (pool.rs:304, 337) hold.
NoPanic == mainPc # "dead" /\ pullPc # "dead"

\* No transaction is in two commits, and none competes for its nonce with one of another commit.
NoRivals ==
    \A i, j \in DOMAIN commits :
        i # j => Keys(Range(commits[i].transactions)) \cap Keys(Range(commits[j].transactions)) = {}

\* What is pending waits for an ancestor ("not included into last payload due to missing of
\* ancestors", pool.rs:49): its nonce lies above the next one of its sender.  With rivals in the log
\* it need not: what was mined is dropped from pending by hash, and once only.
PendingMissesAncestor ==
    NoRivals /\ pullPc = "pull" /\ inPipeline = << >> =>
        \A tx \in Range(pending_transactions) : tx.nonce > accountNonce[tx.sender]

\* With every executed block accounted for, what is pending cannot run yet:
\* no pending transaction has the next nonce of its sender.
ReadyIsMined ==
    pullPc = "pull" /\ inPipeline = << >> =>
        \A tx \in Range(pending_transactions) : tx.nonce # accountNonce[tx.sender]

\* Whatever the log, pending transactions wait for a reason that only a later commit removes.
PendingWaits == ReadyIsMined /\ PendingMissesAncestor

\* Block timestamps never go back.  The first block takes its own from
\* whichever sub-DAG with a timestamp is queued lowest at the time: when
\* submissions of the first batch were lost and come again only later, or the
\* batch ends in a commit without one, the second block may lie before it.
TimestampsNeverGoBack ==
    \A n \in DOMAIN chain :
        /\ n > 1
        /\ n = 2 => lost = 0 /\ commits[K].timestamp_ms > 0
        => chain[n].timestamp >= chain[n - 1].timestamp

\* A block carries the epoch its parent's execution left the chain in
\* ("Fetch epoch using the parent block number", mysticeti.rs:527).
EpochOfParent == [][chain' # chain => Last(chain').epoch = chainEpoch]_vars

\* The main loop goes on: it never waits for the index lock while the puller,
\* which holds it, waits for the main loop's queue lock.
NoLockCycle == ~(mainPc = "locked" /\ pullPc = "drain")

-----------------------------------------------------------------------------
(* Liveness *)

CompleteBatches == IF K = 0 THEN 0 ELSE Len(commits) \div K

\* The commits of the first n blocks but the synthetic one were submitted: they
\* are queued, or were taken off the queue.
BatchesArrived(n) ==
    K > 0 /\ 1..(K * n) \subseteq DOMAIN commited_queue \cup 1..(next_committed_index - 1)

\* A batch whose commits and whose predecessors' have arrived becomes a block,
\* whatever is lost behind it.  (What arrived stays so, and so does the chain:
\* this is one leads-to for every batch, in a form that is cheap to check.)
EveryBatchOrdered ==
    []<>(\A n \in DOMAIN commits : BatchesArrived(n) => Len(chain) > n)

\* The keys of the complete batches whose ancestors are all there.
Executable ==
    LET keys == Keys(UNION {Range(commits[i].transactions) : i \in 1..(K * CompleteBatches)})
    IN  {k \in keys : \A n \in 0..k[2] : <<k[1], n>> \in keys}

\* Every committed transaction that can be executed is, if no commit is lost.
EveryExecutableMined ==
    []<>(BatchesArrived(CompleteBatches) => Executable \subseteq Keys(mined))
=============================================================================
