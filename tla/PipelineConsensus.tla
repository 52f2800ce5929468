-------------------------- MODULE PipelineConsensus --------------------------
(***************************************************************************)
(* MysticetiConsensus in pipeline mode                                     *)
(* (execution-client/src/consensus/mysticeti.rs, start_with_pipeline_api): *)
(*                                                                         *)
(*   main loop    builds the next ordered block from the pool and pushes   *)
(*                it to the execution pipeline;                            *)
(*   puller       a task of its own: pulls execution results, moves the    *)
(*                canonical block number, then updates the pool;           *)
(*   RPC          adds the sub-DAGs the consensus client submits.          *)
(*                                                                         *)
(* The three share the pool, whose fields are each behind a std RwLock.  A *)
(* step below runs from one lock acquisition that can block, or one read of*)
(* shared state, to the next.  A read lock released within its statement is*)
(* part of its step; the locks held across steps are                       *)
(*   next_committed_index, write: by the puller in "drain" and "finish";   *)
(*   commited_queue, read:        by the main loop in "locked".            *)
(*                                                                         *)
(* The execution pipeline (greth) and the consensus core are external: the *)
(* first executes pushed blocks one by one, the second hands over the      *)
(* commits 1, 2, ... in order.                                             *)
(***************************************************************************)
EXTENDS ConsensusPool, Executor

CONSTANTS
    CommitLogs,      \* the logs of commits Mysticeti may produce
    PromptPuller,    \* TRUE: no tick while the puller handles a result
    MaxLost,         \* bound: submissions that fail for good
    MaxReplays,      \* bound: restarts of the consensus client
    MaxPushFailures, \* bound: push_ordered_block answering None
    MaxEpoch         \* bound: the last epoch the chain enters

ASSUME PipelineConstants ==
    /\ PromptPuller \in BOOLEAN
    /\ {MaxLost, MaxReplays, MaxPushFailures, MaxEpoch} \subseteq Nat
    /\ None \notin [number : Nat, id : Nat \X Nat]
    /\ \A log \in CommitLogs :
          /\ log \in Seq(Subdags)
          /\ \A i \in 1..Len(log) : log[i].round = i

VARIABLES
    \* MysticetiConsensus
    canonical_block_number,
    epoch,
    last_ordered_block,  \* None, or [number, id] of the last block pushed
    \* the main loop: program counter and the locals alive across its steps
    mainPc, batchIndex, lastSubdag, proposal, proposalIndex,
    \* the puller: program counter, the result at hand, the drained batch
    pullPc, result, batch,
    poisoned,            \* the puller panicked with the pool's locks held
    \* external: the commits, what was submitted of them, the pipeline
    commits, submitted, lost, replays, pushFailures,
    inPipeline,          \* blocks pushed and not yet executed
    accountNonce,        \* the chain's next nonce of each sender
    chainEpoch,          \* the epoch the executed chain is in
    chain                \* history: every block accepted by the pipeline

consensusVars == <<canonical_block_number, epoch, last_ordered_block>>
mainVars == <<mainPc, batchIndex, lastSubdag, proposal, proposalIndex>>
pullVars == <<pullPc, result, batch, poisoned>>
feedVars == <<commits, submitted, lost, replays>>
execVars == <<accountNonce, chainEpoch>>
pipeVars == <<inPipeline, pushFailures, chain>>

vars == <<poolVars, consensusVars, mainVars, pullVars, feedVars, execVars, pipeVars>>

-----------------------------------------------------------------------------
(* Blocks *)

\* keccak256(number, timestamp): injective, so the pair itself.
BlockId(number, timestamp) == <<number, timestamp>>

GenesisId == BlockId(0, 0)

Secs(timestamp_ms) == timestamp_ms \div 1000

\* The block after last_ordered_block, or after the canonical block.  The
\* index is a history field: the commit the transactions start from, 0 when
\* the block was built without any.
build_ordered_block(txs, subdag, index) ==
    LET number == 1 + IF last_ordered_block = None
                      THEN canonical_block_number
                      ELSE last_ordered_block.number
        timestamp == Secs(subdag.timestamp_ms)
    IN  [number |-> number,
         parent |-> IF last_ordered_block = None
                    THEN GenesisId ELSE last_ordered_block.id,
         id |-> BlockId(number, timestamp),
         timestamp |-> timestamp,
         epoch |-> epoch,
         transactions |-> txs,
         index |-> index]

-----------------------------------------------------------------------------
Init ==
    /\ PoolInit
    /\ canonical_block_number = 0
    /\ epoch = 1
    /\ last_ordered_block = None
    /\ mainPc = "tick" /\ batchIndex = 0 /\ lastSubdag = None
    /\ proposal = << >> /\ proposalIndex = 0
    /\ pullPc = "pull" /\ result = None /\ batch = << >>
    /\ poisoned = FALSE
    /\ commits \in CommitLogs
    /\ submitted = 0 /\ lost = 0 /\ replays = 0 /\ pushFailures = 0
    /\ inPipeline = << >>
    /\ accountNonce = [s \in Senders(commits) |-> 0]
    /\ chainEpoch = 1
    /\ chain = << >>

-----------------------------------------------------------------------------
(* RPC: submit_committed_subdag.  The consensus client submits its commits *)
(* in order, one call at a time; a failed call is logged and forgotten.    *)

QueueReadLocked == mainPc = "locked"

SubmitCommittedSubdag ==
    /\ submitted < Len(commits)
    /\ ~QueueReadLocked
    /\ ~poisoned
    /\ submitted' = submitted + 1
    /\ add_committed_subdags(<<commits[submitted + 1]>>)
    /\ UNCHANGED <<commits, lost, replays, consensusVars, mainVars, pullVars,
                   execVars, pipeVars>>

\* The call fails on the way, or in the handler: on a poisoned queue lock the
\* handler panics in every call.
LoseSubmission ==
    /\ submitted < Len(commits)
    /\ submitted' = submitted + 1
    /\ \/ poisoned /\ UNCHANGED lost
       \/ lost < MaxLost /\ lost' = lost + 1
    /\ UNCHANGED <<commits, replays, poolVars, consensusVars, mainVars, pullVars,
                   execVars, pipeVars>>

\* The consensus client restarts with CommitConsumer::new(0): the core hands
\* over every commit again, from the first.
ReplayCommits ==
    /\ submitted > 0
    /\ replays < MaxReplays
    /\ replays' = replays + 1
    /\ submitted' = 0
    /\ UNCHANGED <<commits, lost, poolVars, consensusVars, mainVars, pullVars,
                   execVars, pipeVars>>

-----------------------------------------------------------------------------
(* Main loop *)

IndexWriteLocked == pullPc \in {"drain", "finish"}

\* Faulty: no gate.
LastBlockUnchecked == TRUE

\* A block is in the pipeline until its result has been pulled.
LastBlockExecuted ==
    last_ordered_block # None => last_ordered_block.number <= canonical_block_number

Tick == mainPc = "tick" /\ (PromptPuller => pullPc = "pull")

\* No block was ordered yet: an empty block for the first commit that has a
\* timestamp.  A poisoned lock would panic here, but nothing was executed yet.
BuildFirstBlock ==
    LET subdag == get_fist_committed_subdag(commited_queue)
    IN  /\ Tick
        /\ last_ordered_block = None
        /\ subdag # None
        /\ mainPc' = "push"
        /\ lastSubdag' = subdag
        /\ UNCHANGED <<batchIndex, proposal, proposalIndex, poolVars, consensusVars,
                       pullVars, feedVars, execVars, pipeVars>>

\* The gate on the canonical block number, then next_committed_subdag_batch
\* up to its read of the index.
ReadNextIndex ==
    /\ Tick
    /\ last_ordered_block # None
    /\ LastBlockExecuted
    /\ ~IndexWriteLocked
    /\ IF poisoned
       THEN mainPc' = "dead" /\ UNCHANGED batchIndex
       ELSE mainPc' = "batch" /\ batchIndex' = next_committed_index
    /\ UNCHANGED <<lastSubdag, proposal, proposalIndex, poolVars, consensusVars,
                   pullVars, feedVars, execVars, pipeVars>>

\* next_committed_subdag_batch from its read of the queue.
ReadBatch ==
    LET found == next_committed_subdag_batch(batchIndex, commited_queue)
    IN  /\ mainPc = "batch"
        /\ IF poisoned
           THEN mainPc' = "dead" /\ UNCHANGED <<batchIndex, lastSubdag>>
           ELSE IF found = None
           THEN mainPc' = "tick" /\ batchIndex' = 0 /\ UNCHANGED lastSubdag
           ELSE mainPc' = "proposal" /\ lastSubdag' = found[2] /\ UNCHANGED batchIndex
        /\ UNCHANGED <<proposal, proposalIndex, poolVars, consensusVars, pullVars,
                       feedVars, execVars, pipeVars>>

\* get_proposal_transactions takes the queue's read lock, and keeps it unless
\* the queue is too short.
LockQueue ==
    /\ mainPc = "proposal"
    /\ mainPc' = IF poisoned THEN "dead"
                 ELSE IF ProposalHasEnough(commited_queue) THEN "locked"
                 ELSE "push"
    /\ UNCHANGED <<batchIndex, lastSubdag, proposal, proposalIndex, poolVars,
                   consensusVars, pullVars, feedVars, execVars, pipeVars>>

\* The rest of get_proposal_transactions: it reads the index with the queue
\* locked, and panics on its assert! if a round of the batch is missing.
ReadProposal ==
    /\ mainPc = "locked"
    /\ ~IndexWriteLocked
    /\ IF HasBatch(next_committed_index, commited_queue)
       THEN /\ mainPc' = "push"
            /\ proposal' = get_proposal_transactions(
                               next_committed_index, commited_queue, pending_transactions)
            /\ proposalIndex' = next_committed_index
       ELSE mainPc' = "dead" /\ UNCHANGED <<proposal, proposalIndex>>
    /\ UNCHANGED <<batchIndex, lastSubdag, poolVars, consensusVars, pullVars,
                   feedVars, execVars, pipeVars>>

NextBlock == build_ordered_block(proposal, lastSubdag, proposalIndex)

MainDone ==
    /\ mainPc' = "tick"
    /\ batchIndex' = 0 /\ lastSubdag' = None
    /\ proposal' = << >> /\ proposalIndex' = 0

\* Faulty: the block accepted does not become the last ordered one.
PushForgotten ==
    /\ mainPc = "push"
    /\ inPipeline' = Append(inPipeline, NextBlock)
    /\ chain' = Append(chain, NextBlock)
    /\ MainDone
    /\ UNCHANGED <<consensusVars, pushFailures, poolVars, pullVars, feedVars, execVars>>

PushOrderedBlock ==
    /\ mainPc = "push"
    /\ inPipeline' = Append(inPipeline, NextBlock)
    /\ chain' = Append(chain, NextBlock)
    /\ last_ordered_block' = [number |-> NextBlock.number, id |-> NextBlock.id]
    /\ MainDone
    /\ UNCHANGED <<canonical_block_number, epoch, pushFailures, poolVars, pullVars,
                   feedVars, execVars>>

\* Faulty: a block that was not accepted becomes the last ordered one.
PushFailsUnnoticed ==
    /\ mainPc = "push"
    /\ pushFailures < MaxPushFailures
    /\ pushFailures' = pushFailures + 1
    /\ last_ordered_block' = [number |-> NextBlock.number, id |-> NextBlock.id]
    /\ MainDone
    /\ UNCHANGED <<inPipeline, chain, poolVars, canonical_block_number, epoch,
                   pullVars, feedVars, execVars>>

\* push_ordered_block answers None: the block is forgotten and built again at
\* the next tick.
PushFails ==
    /\ mainPc = "push"
    /\ pushFailures < MaxPushFailures
    /\ pushFailures' = pushFailures + 1
    /\ MainDone
    /\ UNCHANGED <<inPipeline, chain, poolVars, consensusVars, pullVars, feedVars,
                   execVars>>

-----------------------------------------------------------------------------
(* Puller *)

\* Faulty: the synthetic block takes a batch too.
UpdatesPoolAlways(block_number) == block_number > 0

\* The first block is synthetic, for the timestamp and the epoch: it takes
\* nothing off the pool.
UpdatesPool(block_number) == block_number > 1

\* The pipeline executes its next block, which may end the epoch, and the
\* puller gets the result: it moves the canonical block number at once.
PullExecutedBlock ==
    /\ pullPc = "pull"
    /\ inPipeline # << >>
    /\ LET block    == Head(inPipeline)
           executed == Executed(accountNonce, block.transactions)
       IN  /\ inPipeline' = Tail(inPipeline)
           /\ accountNonce' = Advance(accountNonce, executed)
           /\ chainEpoch' \in {chainEpoch} \cup {e \in {chainEpoch + 1} : e <= MaxEpoch}
           /\ result' = [block_number |-> block.number, txs |-> executed,
                         epoch |-> IF chainEpoch' = chainEpoch THEN None ELSE chainEpoch']
           /\ canonical_block_number' = block.number
           /\ pullPc' = IF UpdatesPool(block.number) THEN "update" ELSE "events"
    /\ UNCHANGED <<batch, poisoned, epoch, last_ordered_block, pushFailures, chain,
                   poolVars, mainVars, feedVars>>

\* update_mined_block: the write lock on the index, held to its end.
LockNextIndex ==
    /\ pullPc = "update"
    /\ pullPc' = "drain"
    /\ UNCHANGED <<result, batch, poisoned, poolVars, consensusVars, mainVars,
                   feedVars, execVars, pipeVars>>

\* The queue's write lock and the removal of the batch.
DrainBatch ==
    /\ pullPc = "drain"
    /\ ~QueueReadLocked
    /\ HasBatch(next_committed_index, commited_queue)
    /\ batch' = Batch(next_committed_index, commited_queue)
    /\ commited_queue' = Restrict(commited_queue,
            DOMAIN commited_queue \ BatchRounds(next_committed_index))
    /\ drained' = drained \cup Range(BatchTransactions(batch'))
    /\ pullPc' = "finish"
    /\ UNCHANGED <<result, poisoned, next_committed_index, first_committed_subdag,
                   pending_transactions, mined, consensusVars, mainVars, feedVars,
                   execVars, pipeVars>>

\* A round is missing: the rounds before it are gone, the assert! panics with
\* both locks held and the task ends.
DrainPanics ==
    LET missing == BatchRounds(next_committed_index) \ DOMAIN commited_queue
        removed == next_committed_index .. (Min(missing) - 1)
    IN  /\ pullPc = "drain"
        /\ ~QueueReadLocked
        /\ missing # {}
        /\ commited_queue' = Restrict(commited_queue, DOMAIN commited_queue \ removed)
        /\ drained' = drained \cup
              UNION {Range(commited_queue[r].transactions) : r \in removed}
        /\ poisoned' = TRUE
        /\ pullPc' = "dead"
        /\ UNCHANGED <<result, batch, next_committed_index, first_committed_subdag,
                       pending_transactions, mined, consensusVars, mainVars, feedVars,
                       execVars, pipeVars>>

\* The recomputed proposal without the mined transactions becomes pending, and
\* the index moves past the batch.
FinishUpdate ==
    /\ pullPc = "finish"
    /\ \E settled \in {create_proposal_transactions(pending_transactions, batch)} :
          pending_transactions' = Unmined(settled, result.txs)
    /\ next_committed_index' = next_committed_index + K
    /\ mined' = mined \cup result.txs
    /\ batch' = << >>
    /\ pullPc' = "events"
    /\ UNCHANGED <<result, poisoned, first_committed_subdag, commited_queue, drained,
                   consensusVars, mainVars, feedVars, execVars, pipeVars>>

\* Faulty: the event is ignored.
EpochNotUpdated == epoch

\* The cached epoch after the events of a result.
EpochAfterEvents == IF result.epoch = None THEN epoch ELSE result.epoch

\* GravityEvent::NewEpoch, after the pool was updated.
HandleEvents ==
    /\ pullPc = "events"
    /\ epoch' = EpochAfterEvents
    /\ result' = None
    /\ pullPc' = "pull"
    /\ UNCHANGED <<batch, poisoned, canonical_block_number, last_ordered_block,
                   poolVars, mainVars, feedVars, execVars, pipeVars>>

-----------------------------------------------------------------------------
Feed == SubmitCommittedSubdag \/ LoseSubmission \/ ReplayCommits

MainLoop ==
    \/ BuildFirstBlock \/ ReadNextIndex \/ ReadBatch \/ LockQueue \/ ReadProposal
    \/ PushOrderedBlock \/ PushFails

Puller ==
    \/ PullExecutedBlock \/ LockNextIndex \/ DrainBatch \/ DrainPanics
    \/ FinishUpdate \/ HandleEvents

Next == Feed \/ MainLoop \/ Puller

Spec == Init /\ [][Next]_vars

\* The main loop and the puller are tasks of the runtime and keep running;
\* commits keep being submitted.
FairSpec == Spec /\ WF_vars(MainLoop) /\ WF_vars(Puller) /\ WF_vars(SubmitCommittedSubdag)
=============================================================================
