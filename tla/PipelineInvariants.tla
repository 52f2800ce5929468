-------------------------- MODULE PipelineInvariants --------------------------
(***************************************************************************)
(* Inductive invariants of PipelineConsensus, each a conjunction of named  *)
(* parts.  ControlInv holds whatever the timing of the tasks; PromptInv    *)
(* adds what holds when the puller is done with a result before the next   *)
(* tick.                                                                   *)
(***************************************************************************)
EXTENDS PipelineProperties

\* A tick is under way.
Building == mainPc \in {"batch", "proposal", "locked", "push"}

Height == Len(chain)

\* The last ordered block is the tip of the chain, and the chain is linked.
ChainInv ==
    /\ chain \in Seq(Range(chain))
    /\ \A n \in 1..Height : chain[n].id \in Nat \X Nat
    /\ ChainLinked
    /\ last_ordered_block =
          IF chain = << >> THEN None
          ELSE [number |-> Height, id |-> chain[Height].id]

\* The pipeline is empty, or holds the tip; it is empty during a tick that
\* builds a block.
PipelineInv ==
    /\ canonical_block_number \in Nat
    /\ \/ inPipeline = << >> /\ canonical_block_number = Height
       \/ /\ Height > 0
          /\ inPipeline = <<chain[Height]>>
          /\ canonical_block_number = Height - 1
    /\ Building => inPipeline = << >>
    /\ mainPc \in {"batch", "proposal", "locked"} => Height > 0

\* The puller's program counter, and what it says about the canonical block.
PullerInv ==
    /\ mainPc \in MainPcs /\ pullPc \in PullPcs
    /\ poisoned = (pullPc = "dead")
    /\ Late => canonical_block_number > 1

\* The proposal under construction starts at the batch that is next, or at the
\* one the puller has not drained yet.
ProposalInv ==
    /\ mainPc # "push" => proposalIndex = 0
    /\ mainPc \in {"proposal", "locked", "push"} => lastSubdag \in Subdags
    /\ proposalIndex \in {0, 1 + K * (Height - 1), 1 + K * (Height - 2)}

\* The values that come from the commits and from the executed chain.
DataInv ==
    /\ commits \in CommitLogs
    /\ next_committed_index \in Nat \ {0} /\ batchIndex \in Nat
    /\ DOMAIN commited_queue \subseteq Nat
    /\ \A r \in DOMAIN commited_queue : commited_queue[r] \in Subdags

ControlInv ==
    /\ DataInv
    /\ ChainInv
    /\ PipelineInv
    /\ PullerInv
    /\ IndexFollowsChain
    /\ ProposalInv
    /\ StaleByAtMostOneBatch

\* The rest of the types, of fields no control decision depends on.
TypeInv ==
    /\ TypeOK
    /\ pullPc \notin {"pull", "dead"} => result.epoch \in Nat \cup {None}

\* What was drained is mined, pending, or in the puller's hands.
KeptInv ==
    /\ pending_transactions \in Seq(GivenTxs)
    /\ pullPc = "finish" => batch \in [1..K -> Subdags]
    /\ pullPc # "dead" =>
          Keys(drained) \subseteq
              UNION {Keys(mined), Keys(Range(pending_transactions)),
                     IF pullPc = "finish" THEN Keys(Range(BatchTransactions(batch))) ELSE {}}

\* The cached epoch is the chain's, or is about to be set to it.
EpochInv ==
    /\ pullPc = "pull" => epoch = chainEpoch
    /\ pullPc \notin {"pull", "dead"} =>
          chainEpoch = IF result.epoch = None THEN epoch ELSE result.epoch

-----------------------------------------------------------------------------
\* A batch is wanted from the moment a tick has found it until the puller has
\* drained it.
BatchWanted ==
    \/ mainPc \in {"proposal", "locked"}
    \/ mainPc = "push" /\ Height > 0
    \/ Height > 1 /\ inPipeline # << >>
    \/ pullPc \in {"update", "drain"}

PromptInv ==
    /\ NoPanic
    /\ pullPc # "pull" => inPipeline = << >> /\ ~Building
    /\ IsFiniteSet(DOMAIN commited_queue)
    /\ mainPc \in {"batch", "proposal", "locked"} => batchIndex = next_committed_index
    /\ BatchWanted => HasBatch(next_committed_index, commited_queue)
    /\ mainPc = "push" /\ Height > 0 => proposalIndex = next_committed_index
    /\ EveryCommitInOneBlock

-----------------------------------------------------------------------------
(* What the blocks are made of, with a prompt puller.                      *)

\* The queue holds commits of the log.
QueueInv ==
    \A r \in DOMAIN commited_queue :
        r \in 1..Len(commits) /\ commited_queue[r] = commits[r]

\* A block but the first was made of a complete batch.
BatchesInv == Height > 1 => K > 0 /\ K * (Height - 1) <= Len(commits)

\* What the main loop holds of the block it builds.
BuildInv ==
    /\ mainPc \in {"proposal", "locked"} =>
          K > 0 /\ lastSubdag = commits[batchIndex + K - 1]
    /\ IF mainPc = "push" /\ Height > 0
       THEN /\ K > 0
            /\ lastSubdag = commits[next_committed_index + K - 1]
            /\ proposal = create_proposal_transactions(
                              pending_transactions, Batch(next_committed_index, commits))
       ELSE proposal = << >>

\* What has yet to be settled is the batch of the last block.
SettleInv ==
    /\ pullPc = "finish" => batch = Batch(next_committed_index, commits)
    /\ Unsettled => chain[Height].transactions =
          create_proposal_transactions(pending_transactions,
                                       Batch(next_committed_index, commits))

\* The first block is empty, and leaves the accounts as they were.
FirstBlockInv ==
    /\ Height > 0 => chain[1].transactions = << >>
    /\ Height <= 1 => accountNonce = [s \in Senders(commits) |-> 0]

LedgerInv == QueueInv /\ BatchesInv /\ BuildInv /\ SettleInv /\ FirstBlockInv

-----------------------------------------------------------------------------
(* Where the timestamps come from.                                         *)

\* The second of the first commit of the log that has a timestamp.
FirstStamp(log, secs) ==
    \E r \in 1..Len(log) :
        /\ log[r].timestamp_ms > 0
        /\ secs = Secs(log[r].timestamp_ms)
        /\ \A q \in 1..(r - 1) : log[q].timestamp_ms = 0

\* As long as no block was ordered and nothing was lost, the queue is the log
\* up to some commit.
NoGaps ==
    Height = 0 /\ lost = 0 =>
        /\ 1..submitted \subseteq DOMAIN commited_queue
        /\ \A r \in DOMAIN commited_queue : 1..r \subseteq DOMAIN commited_queue

StampInv ==
    /\ lost \in Nat
    /\ NoGaps
    /\ Height = 0 /\ mainPc = "push" /\ lost = 0 =>
          FirstStamp(commits, Secs(lastSubdag.timestamp_ms))
    /\ Height > 0 /\ lost = 0 => FirstStamp(commits, chain[1].timestamp)
    /\ \A n \in 2..Height : chain[n].timestamp = Secs(commits[K * (n - 1)].timestamp_ms)

\* The core's commits come in the order of their timestamps.
StampsOrdered ==
    \A log \in CommitLogs : \A i, j \in 1..Len(log) :
        i <= j => log[i].timestamp_ms <= log[j].timestamp_ms

-----------------------------------------------------------------------------
(* What can stop the tasks.                                                *)

\* The main loop has a step to make: a tick whose gate is open, or the rest of one.
MainReady ==
    \/ /\ Tick /\ last_ordered_block = None
       /\ get_fist_committed_subdag(commited_queue) # None
    \/ Tick /\ last_ordered_block # None /\ LastBlockExecuted /\ ~IndexWriteLocked
    \/ mainPc \in {"batch", "proposal", "push"}
    \/ mainPc = "locked" /\ ~IndexWriteLocked

\* The puller has a result to pull, or a result at hand and the locks it needs.
PullerReady ==
    \/ pullPc = "pull" /\ inPipeline # << >>
    \/ pullPc \in {"update", "finish", "events"}
    \/ pullPc = "drain" /\ ~QueueReadLocked

\* Nothing was ordered and nothing that is queued has a timestamp to start from.
NothingToStartFrom ==
    chain = << >> /\ get_fist_committed_subdag(commited_queue) = None

\* One of the tasks goes on, unless nothing has arrived to start from.
GoesOn == MainReady \/ PullerReady \/ NothingToStartFrom

\* The commits of the next block are queued; the first block wants one with a timestamp.
NextBatchQueued ==
    IF chain = << >> THEN get_fist_committed_subdag(commited_queue) # None
    ELSE K > 0 /\ HasBatch(1 + K * (Height - 1), commited_queue)

\* The steps of the two tasks up to the push of the next block, with a prompt puller.
StepsLeft ==
    CASE mainPc = "push"     -> 1
      [] mainPc = "locked"   -> 2
      [] mainPc = "proposal" -> 3
      [] mainPc = "batch"    -> 4
      [] OTHER ->
           CASE pullPc = "events" -> 6
             [] pullPc = "finish" -> 7
             [] pullPc = "drain"  -> 8
             [] pullPc = "update" -> 9
             [] OTHER -> IF inPipeline # << >> THEN 10 ELSE 5

\* Once its commits are queued the next block comes nearer with every step of the tasks; what the
\* feed does in between neither delays it nor takes its commits away.
NextBlockNears ==
    [][NextBatchQueued =>
          \/ chain' # chain
          \/ PushFails
          \/ NextBatchQueued' /\ (MainLoop \/ Puller) /\ StepsLeft' < StepsLeft
          \/ NextBatchQueued' /\ Feed /\ StepsLeft' = StepsLeft]_vars
=============================================================================
