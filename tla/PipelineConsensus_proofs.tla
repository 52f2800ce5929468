------------------------ MODULE PipelineConsensus_proofs ------------------------
(***************************************************************************)
(* Proofs about PipelineConsensus for every batch size, log of commits and *)
(* bound: first what holds however late the puller is, then what the       *)
(* pipeline guarantees when no tick falls into the handling of a result.   *)
(***************************************************************************)
EXTENDS PipelineInvariants, ConsensusPool_proofs

-----------------------------------------------------------------------------
(* What each step leaves alone.                                            *)

\* Only a successful push touches the chain and the last ordered block.
LEMMA ChainFrame ==
    ASSUME [Next]_vars, ~PushOrderedBlock
    PROVE  UNCHANGED <<chain, last_ordered_block>>
<1>1. CASE Feed
  BY <1>1 DEF Feed, SubmitCommittedSubdag, LoseSubmission, ReplayCommits,
              consensusVars, pipeVars
<1>2. CASE MainLoop
  BY <1>2 DEF MainLoop, BuildFirstBlock, ReadNextIndex, ReadBatch, LockQueue,
              ReadProposal, PushFails, consensusVars, pipeVars
<1>3. CASE Puller
  BY <1>3 DEF Puller, PullExecutedBlock, LockNextIndex, DrainBatch, DrainPanics,
              FinishUpdate, HandleEvents, consensusVars, pipeVars
<1>4. CASE UNCHANGED vars
  BY <1>4 DEF vars, consensusVars, pipeVars
<1> QED BY <1>1, <1>2, <1>3, <1>4 DEF Next

\* Appending to a sequence of any elements.
LEMMA Appending ==
    ASSUME NEW s, s \in Seq(Range(s)), NEW e
    PROVE  /\ Append(s, e) \in Seq(Range(Append(s, e)))
           /\ Len(Append(s, e)) = Len(s) + 1
           /\ \A i \in 1..Len(s) : Append(s, e)[i] = s[i]
           /\ Append(s, e)[Len(s) + 1] = e
           /\ Append(s, e) # << >>
           /\ Len(s) \in Nat
<1> DEFINE S == Range(s) \cup {e}
<1>1. s \in Seq(S)
  BY SeqMonotonic
<1>2. e \in S
  OBVIOUS
<1>3. /\ Append(s, e) \in Seq(S)
      /\ Len(Append(s, e)) = Len(s) + 1
      /\ \A i \in 1..Len(s) : Append(s, e)[i] = s[i]
      /\ Append(s, e)[Len(s) + 1] = e
      /\ Append(s, e) # << >>
  BY <1>1, <1>2, AppendProperties
<1>4. Append(s, e) \in Seq(Range(Append(s, e)))
  BY <1>3, SeqOfRange
<1> QED BY <1>1, <1>3, <1>4, LenProperties

-----------------------------------------------------------------------------
(* The parts of ControlInv, one lemma each.                                *)

\* The next block extends the tip.
LEMMA NextBlockExtendsTip ==
    ASSUME ControlInv, mainPc = "push"
    PROVE  /\ NextBlock.number = Height + 1
           /\ NextBlock.parent = IF Height = 0 THEN GenesisId ELSE chain[Height].id
           /\ NextBlock.id \in Nat \X Nat
           /\ NextBlock.index = proposalIndex
           /\ Height \in Nat
           /\ canonical_block_number = Height
           /\ inPipeline = << >>
<1>1. Height \in Nat /\ (Height = 0 <=> chain = << >>)
  BY LenProperties, EmptySeq DEF ControlInv, ChainInv, Height
<1>2. inPipeline = << >> /\ canonical_block_number = Height
  BY DEF ControlInv, PipelineInv, Building
<1>3. last_ordered_block = None <=> chain = << >>
  BY <1>1, PipelineConstants DEF ControlInv, ChainInv
<1>4. NextBlock.number = Height + 1
  BY <1>1, <1>2, <1>3 DEF NextBlock, build_ordered_block, ControlInv, ChainInv
<1>5. NextBlock.parent = IF Height = 0 THEN GenesisId ELSE chain[Height].id
  BY <1>1, <1>3 DEF NextBlock, build_ordered_block, ControlInv, ChainInv
<1>6. lastSubdag.timestamp_ms \in Nat
  BY SubdagsHaveRounds DEF ControlInv, ProposalInv
<1>7. NextBlock.id = <<NextBlock.number, Secs(lastSubdag.timestamp_ms)>>
  BY DEF NextBlock, build_ordered_block, BlockId
<1>8. Secs(lastSubdag.timestamp_ms) \in Nat
  BY <1>6 DEF Secs
<1>9. NextBlock.index = proposalIndex
  BY DEF NextBlock, build_ordered_block
<1> QED BY <1>1, <1>2, <1>4, <1>5, <1>7, <1>8, <1>9

\* A push makes the block accepted the last ordered one, and nothing else
\* moves either, so the chain stays linked (mysticeti.rs:388-409).
LEMMA ChainStep ==
    ASSUME ControlInv, [Next]_vars
    PROVE  ChainInv'
<1>1. CASE PushOrderedBlock
  <2>1. mainPc = "push" /\ chain' = Append(chain, NextBlock)
        /\ last_ordered_block' = [number |-> NextBlock.number, id |-> NextBlock.id]
    BY <1>1 DEF PushOrderedBlock
  <2>2. /\ chain' \in Seq(Range(chain'))
        /\ Height' = Height + 1
        /\ \A i \in 1..Height : chain'[i] = chain[i]
        /\ chain'[Height + 1] = NextBlock
        /\ chain' # << >>
        /\ Height \in Nat
    BY <2>1, Appending DEF ControlInv, ChainInv, Height
  <2>3. DOMAIN chain = 1..Height /\ DOMAIN chain' = 1..(Height + 1)
    BY <2>2, LenProperties DEF ControlInv, ChainInv, Height
  <2>4. /\ NextBlock.number = Height + 1
        /\ NextBlock.parent = IF Height = 0 THEN GenesisId ELSE chain[Height].id
        /\ NextBlock.id \in Nat \X Nat
    BY <2>1, NextBlockExtendsTip
  <2>5. ASSUME NEW n \in 1..(Height + 1)
        PROVE  /\ chain'[n].id \in Nat \X Nat
               /\ chain'[n].number = n
               /\ chain'[n].parent =
                     IF n = 1 THEN GenesisId ELSE chain'[n - 1].id
    <3>1. CASE n \in 1..Height
      <4>1. chain[n].id \in Nat \X Nat
        BY <3>1 DEF ControlInv, ChainInv
      <4>2. /\ chain[n].number = n
            /\ chain[n].parent = IF n = 1 THEN GenesisId ELSE chain[n - 1].id
        BY <3>1, <2>3 DEF ControlInv, ChainInv, ChainLinked
      <4>3. n # 1 => n - 1 \in 1..Height
        BY <3>1, <2>2
      <4> QED BY <4>1, <4>2, <4>3, <3>1, <2>2
    <3>2. CASE n = Height + 1
      <4>1. n - 1 = Height /\ (n # 1 => Height \in 1..Height)
        BY <3>2, <2>2
      <4>2. n = 1 <=> Height = 0
        BY <3>2, <2>2
      <4>3. chain'[n] = NextBlock
        BY <3>2, <2>2
      <4> QED BY <4>1, <4>2, <4>3, <3>2, <2>2, <2>4
    <3> QED BY <3>1, <3>2, <2>2
  <2>7. (\A n \in 1..Height : chain[n].id \in Nat \X Nat)' /\ ChainLinked'
    BY <2>2, <2>3, <2>5 DEF ChainLinked
  <2>6. last_ordered_block' = [number |-> Height', id |-> chain'[Height'].id]
    BY <2>1, <2>2, <2>4
  <2> QED BY <2>2, <2>6, <2>7 DEF ChainInv
<1>2. CASE ~PushOrderedBlock
  BY <1>2, ChainFrame DEF ControlInv, ChainInv, ChainLinked, Height
<1> QED BY <1>1, <1>2

\* Only the puller removes blocks from the pipeline and moves the canonical
\* block number.
LEMMA PipelineFrame ==
    ASSUME [Next]_vars, ~PushOrderedBlock, ~PullExecutedBlock
    PROVE  UNCHANGED <<inPipeline, canonical_block_number>>
<1>1. CASE Feed
  BY <1>1 DEF Feed, SubmitCommittedSubdag, LoseSubmission, ReplayCommits,
              consensusVars, pipeVars
<1>2. CASE MainLoop
  BY <1>2 DEF MainLoop, BuildFirstBlock, ReadNextIndex, ReadBatch, LockQueue,
              ReadProposal, PushFails, consensusVars, pipeVars
<1>3. CASE Puller
  BY <1>3 DEF Puller, LockNextIndex, DrainBatch, DrainPanics, FinishUpdate,
              HandleEvents, consensusVars, pipeVars
<1>4. CASE UNCHANGED vars
  BY <1>4 DEF vars, consensusVars, pipeVars
<1> QED BY <1>1, <1>2, <1>3, <1>4 DEF Next

\* The main loop's variables are its own.
LEMMA MainFrame ==
    ASSUME [Next]_vars, ~MainLoop
    PROVE  UNCHANGED mainVars
<1>1. CASE Feed
  BY <1>1 DEF Feed, SubmitCommittedSubdag, LoseSubmission, ReplayCommits
<1>2. CASE Puller
  BY <1>2 DEF Puller, PullExecutedBlock, LockNextIndex, DrainBatch, DrainPanics,
              FinishUpdate, HandleEvents
<1>3. CASE UNCHANGED vars
  BY <1>3 DEF vars
<1> QED BY <1>1, <1>2, <1>3 DEF Next

\* And so are the puller's, with the canonical block number and the index.
LEMMA PullerFrame ==
    ASSUME [Next]_vars, ~Puller
    PROVE  UNCHANGED <<pullVars, canonical_block_number, epoch, next_committed_index>>
<1>1. CASE Feed
  BY <1>1 DEF Feed, SubmitCommittedSubdag, LoseSubmission, ReplayCommits,
              add_committed_subdags, consensusVars, poolVars
<1>2. CASE MainLoop
  BY <1>2 DEF MainLoop, BuildFirstBlock, ReadNextIndex, ReadBatch, LockQueue,
              ReadProposal, PushOrderedBlock, PushFails, consensusVars, poolVars
<1>3. CASE UNCHANGED vars
  BY <1>3 DEF vars, consensusVars, poolVars
<1> QED BY <1>1, <1>2, <1>3 DEF Next

\* The commits and what was submitted of them belong to the feed.
LEMMA FeedFrame ==
    ASSUME [Next]_vars, ~Feed
    PROVE  UNCHANGED feedVars
<1>1. CASE MainLoop
  BY <1>1 DEF MainLoop, BuildFirstBlock, ReadNextIndex, ReadBatch, LockQueue,
              ReadProposal, PushOrderedBlock, PushFails
<1>2. CASE Puller
  BY <1>2 DEF Puller, PullExecutedBlock, LockNextIndex, DrainBatch, DrainPanics,
              FinishUpdate, HandleEvents
<1>3. CASE UNCHANGED vars
  BY <1>3 DEF vars
<1> QED BY <1>1, <1>2, <1>3 DEF Next

\* Only an execution moves the chain to another epoch.
LEMMA ChainEpochFrame ==
    ASSUME [Next]_vars, ~PullExecutedBlock
    PROVE  chainEpoch' = chainEpoch
<1>1. CASE Feed
  BY <1>1 DEF Feed, SubmitCommittedSubdag, LoseSubmission, ReplayCommits, execVars
<1>2. CASE MainLoop
  BY <1>2 DEF MainLoop, BuildFirstBlock, ReadNextIndex, ReadBatch, LockQueue,
              ReadProposal, PushOrderedBlock, PushFails, execVars
<1>3. CASE Puller
  BY <1>3 DEF Puller, LockNextIndex, DrainBatch, DrainPanics, FinishUpdate,
              HandleEvents, execVars
<1>4. CASE UNCHANGED vars
  BY <1>4 DEF vars, execVars
<1> QED BY <1>1, <1>2, <1>3, <1>4 DEF Next

\* A pull executes the tip, the only block in flight.
LEMMA PullTakesTip ==
    ASSUME ControlInv, PullExecutedBlock
    PROVE  /\ Height \in Nat \ {0}
           /\ canonical_block_number = Height - 1
           /\ canonical_block_number' = Height
           /\ inPipeline' = << >>
           /\ ~Building
           /\ pullPc = "pull"
           /\ pullPc' = IF Height > 1 THEN "update" ELSE "events"
           /\ UNCHANGED <<chain, mainVars, poisoned, next_committed_index>>
<1>1. Height \in Nat /\ DOMAIN chain = 1..Height
  BY LenProperties DEF ControlInv, ChainInv, Height
<1>2. inPipeline # << >>
  BY DEF PullExecutedBlock
<1>3. /\ Height > 0
      /\ inPipeline = <<chain[Height]>>
      /\ canonical_block_number = Height - 1
      /\ ~Building
  BY <1>2 DEF ControlInv, PipelineInv
<1>4. Head(inPipeline) = chain[Height] /\ Tail(inPipeline) = << >>
  BY <1>3
<1>5. Head(inPipeline).number = Height
  BY <1>1, <1>3, <1>4 DEF ControlInv, ChainInv, ChainLinked
<1>6. /\ inPipeline' = Tail(inPipeline)
      /\ canonical_block_number' = Head(inPipeline).number
      /\ pullPc = "pull"
      /\ pullPc' = IF Head(inPipeline).number > 1 THEN "update" ELSE "events"
      /\ UNCHANGED <<chain, mainVars, poisoned, next_committed_index>>
  BY DEF PullExecutedBlock, UpdatesPool, poolVars
<1> QED BY <1>1, <1>3, <1>4, <1>5, <1>6

\* A push fills the empty pipeline, a pull empties it and catches the
\* canonical block number up (mysticeti.rs:348, 388, 454).
LEMMA PipelineStep ==
    ASSUME ControlInv, [Next]_vars
    PROVE  PipelineInv'
<1>1. CASE PushOrderedBlock
  <2>1. /\ mainPc = "push" /\ mainPc' = "tick"
        /\ chain' = Append(chain, NextBlock)
        /\ inPipeline' = Append(inPipeline, NextBlock)
        /\ canonical_block_number' = canonical_block_number
    BY <1>1 DEF PushOrderedBlock, MainDone
  <2>2. Height \in Nat /\ canonical_block_number = Height /\ inPipeline = << >>
    BY <2>1, NextBlockExtendsTip
  <2>3. Height' = Height + 1 /\ chain'[Height'] = NextBlock
    BY <2>1, <2>2, Appending DEF ControlInv, ChainInv, Height
  <2>4. inPipeline' = <<chain'[Height']>>
    BY <2>1, <2>2, <2>3
  <2>5. ~Building'
    BY <2>1 DEF Building
  <2> QED BY <2>1, <2>2, <2>3, <2>4, <2>5 DEF PipelineInv, Building
<1>2. CASE PullExecutedBlock
  <2>1. mainPc' = mainPc /\ Height' = Height
    BY <1>2, PullTakesTip DEF mainVars, Height
  <2> QED BY <1>2, <2>1, PullTakesTip DEF PipelineInv, Building
<1>3. CASE ~PushOrderedBlock /\ ~PullExecutedBlock
  <2>1. UNCHANGED <<chain, last_ordered_block, inPipeline, canonical_block_number>>
    BY <1>3, ChainFrame, PipelineFrame
  <2>2. Height' = Height
    BY <2>1 DEF Height
  <2>3. Height \in Nat /\ (Height = 0 <=> chain = << >>)
    BY LenProperties, EmptySeq DEF ControlInv, ChainInv, Height
  <2>4. last_ordered_block = None <=> Height = 0
    BY <2>3, PipelineConstants DEF ControlInv, ChainInv
  <2>5. CASE BuildFirstBlock
    <3>1. Height = 0 /\ mainPc' = "push"
      BY <2>4, <2>5 DEF BuildFirstBlock
    <3>2. inPipeline = << >>
      BY <3>1 DEF ControlInv, PipelineInv
    <3> QED BY <3>1, <3>2, <2>1, <2>2 DEF ControlInv, PipelineInv, Building
  <2>6. CASE ReadNextIndex
    <3>1. Height > 0 /\ LastBlockExecuted /\ last_ordered_block # None
      BY <2>3, <2>4, <2>6 DEF ReadNextIndex
    <3>2. Height <= canonical_block_number
      BY <3>1, <2>4 DEF LastBlockExecuted, ControlInv, ChainInv
    <3>3. inPipeline = << >>
      BY <3>2, <2>3 DEF ControlInv, PipelineInv
    <3> QED BY <3>1, <3>3, <2>1, <2>2 DEF ControlInv, PipelineInv, Building
  <2>7. CASE ReadBatch \/ LockQueue \/ ReadProposal \/ PushFails
    <3>1. Building /\ inPipeline = << >>
      BY <2>7 DEF ReadBatch, LockQueue, ReadProposal, PushFails, Building,
                  ControlInv, PipelineInv
    <3>2. mainPc' \in {"batch", "proposal", "locked"}
             => mainPc \in {"batch", "proposal", "locked"}
      BY <2>7 DEF ReadBatch, LockQueue, ReadProposal, PushFails, MainDone
    <3> QED BY <3>1, <3>2, <2>1, <2>2 DEF ControlInv, PipelineInv, Building
  <2>8. CASE mainPc' = mainPc
    BY <2>8, <2>1, <2>2 DEF ControlInv, PipelineInv, Building
  <2>9. \/ BuildFirstBlock \/ ReadNextIndex \/ mainPc' = mainPc
        \/ ReadBatch \/ LockQueue \/ ReadProposal \/ PushFails
    BY <1>3, MainFrame DEF MainLoop, mainVars
  <2> QED BY <2>5, <2>6, <2>7, <2>8, <2>9
<1> QED BY <1>1, <1>2, <1>3

\* The puller goes through its steps in order and dies only with the locks
\* poisoned; an update follows a block above 1 only (mysticeti.rs:349).
LEMMA PullerStep ==
    ASSUME ControlInv, [Next]_vars
    PROVE  PullerInv'
<1>1. (mainPc \in MainPcs)'
  <2>1. CASE MainLoop
    BY <2>1 DEF MainLoop, BuildFirstBlock, ReadNextIndex, ReadBatch, LockQueue,
                ReadProposal, PushOrderedBlock, PushFails, MainDone, MainPcs
  <2> QED BY <2>1, MainFrame DEF MainLoop, mainVars, ControlInv, PullerInv
<1>2. CASE PullExecutedBlock
  BY <1>1, <1>2, PullTakesTip DEF PullerInv, ControlInv, PullPcs, Late
<1>3. CASE LockNextIndex \/ DrainBatch \/ DrainPanics \/ FinishUpdate \/ HandleEvents
  <2>1. canonical_block_number' = canonical_block_number
    BY <1>3 DEF LockNextIndex, DrainBatch, DrainPanics, FinishUpdate, HandleEvents,
                consensusVars
  <2>2. pullPc' \in {"drain", "finish", "dead"} => pullPc \in {"update", "drain"}
    BY <1>3 DEF LockNextIndex, DrainBatch, DrainPanics, FinishUpdate, HandleEvents
  <2>3. pullPc' # "update"
    BY <1>3 DEF LockNextIndex, DrainBatch, DrainPanics, FinishUpdate, HandleEvents
  <2>4. pullPc' \in PullPcs
    BY <1>3 DEF LockNextIndex, DrainBatch, DrainPanics, FinishUpdate, HandleEvents,
                PullPcs
  <2>5. poisoned' = (pullPc' = "dead")
    <3>1. CASE DrainPanics
      BY <3>1 DEF DrainPanics
    <3>2. CASE ~DrainPanics
      <4>1. poisoned' = poisoned /\ pullPc # "dead" /\ pullPc' # "dead"
        BY <1>3, <3>2 DEF LockNextIndex, DrainBatch, FinishUpdate, HandleEvents
      <4> QED BY <4>1 DEF ControlInv, PullerInv
    <3> QED BY <3>1, <3>2
  <2> QED BY <1>1, <2>1, <2>2, <2>3, <2>4, <2>5 DEF ControlInv, PullerInv, Late
<1>4. CASE UNCHANGED pullVars /\ UNCHANGED canonical_block_number
  BY <1>1, <1>4 DEF ControlInv, PullerInv, pullVars, Late
<1>5. \/ PullExecutedBlock
      \/ LockNextIndex \/ DrainBatch \/ DrainPanics \/ FinishUpdate \/ HandleEvents
      \/ UNCHANGED pullVars /\ UNCHANGED canonical_block_number
  BY PullerFrame DEF Puller
<1> QED BY <1>2, <1>3, <1>4, <1>5

\* The index is a whole number of batches: one more batch is K more commits.
LEMMA OneMoreBatch ==
    ASSUME NEW n \in Int
    PROVE  1 + K * (n + 1) = 1 + K * n + K
BY BatchSizeIsNat DEF K

\* The index moves by one batch exactly when an update ends (pool.rs:325-378).
LEMMA IndexStep ==
    ASSUME ControlInv, [Next]_vars
    PROVE  IndexFollowsChain'
<1>1. canonical_block_number \in Nat /\ canonical_block_number' \in Nat
  BY PipelineStep DEF ControlInv, PipelineInv
<1>2. UpdatedBlocks = IF canonical_block_number <= 1 THEN 0
                      ELSE canonical_block_number - (IF Late THEN 2 ELSE 1)
  BY DEF UpdatedBlocks
<1>3. UpdatedBlocks' = IF canonical_block_number' <= 1 THEN 0
                       ELSE canonical_block_number' - (IF Late' THEN 2 ELSE 1)
  BY DEF UpdatedBlocks
<1>4. Late => canonical_block_number > 1
  BY DEF ControlInv, PullerInv
<1>7. CASE PullExecutedBlock
  <2>1. /\ ~Late
        /\ canonical_block_number' = canonical_block_number + 1
        /\ Late' <=> canonical_block_number' > 1
        /\ next_committed_index' = next_committed_index
    BY <1>1, <1>7, PullTakesTip DEF Late
  <2>2. UpdatedBlocks' = UpdatedBlocks
    BY <2>1, <1>1, <1>2, <1>3
  <2> QED BY <2>1, <2>2 DEF ControlInv, IndexFollowsChain
<1>8. CASE FinishUpdate
  <2>1. /\ Late /\ ~Late'
        /\ canonical_block_number' = canonical_block_number
        /\ next_committed_index' = next_committed_index + K
    BY <1>8 DEF FinishUpdate, consensusVars, Late
  <2>2. UpdatedBlocks' = UpdatedBlocks + 1 /\ UpdatedBlocks \in Int
    BY <2>1, <1>1, <1>2, <1>3, <1>4
  <2> QED BY <2>1, <2>2, OneMoreBatch DEF ControlInv, IndexFollowsChain
<1>9. CASE LockNextIndex \/ DrainBatch \/ DrainPanics \/ HandleEvents \/ ~Puller
  <2>1. Late' <=> Late
    BY <1>9, PullerFrame DEF LockNextIndex, DrainBatch, DrainPanics, HandleEvents,
                             pullVars, Late
  <2>2. /\ canonical_block_number' = canonical_block_number
        /\ next_committed_index' = next_committed_index
    BY <1>9, PullerFrame DEF LockNextIndex, DrainBatch, DrainPanics, HandleEvents,
                             consensusVars, poolVars
  <2>3. UpdatedBlocks' = UpdatedBlocks
    BY <2>1, <2>2, <1>1, <1>2, <1>3
  <2> QED BY <2>2, <2>3 DEF ControlInv, IndexFollowsChain
<1> QED BY <1>7, <1>8, <1>9 DEF Puller

\* While a tick builds on a chain of Height blocks, the index is at the next
\* batch, or at the one before it if the puller has yet to drain that.
LEMMA IndexWhileBuilding ==
    ASSUME ControlInv, Building, Height > 0, ~IndexWriteLocked
    PROVE  next_committed_index \in {1 + K * (Height - 1), 1 + K * (Height - 2)}
<1>1. canonical_block_number = Height
  BY DEF ControlInv, PipelineInv
<1>2. canonical_block_number \in Nat
  BY DEF ControlInv, PipelineInv
<1>3. UpdatedBlocks \in {Height - 1, Height - 2}
  BY <1>1, <1>2 DEF UpdatedBlocks
<1> QED BY <1>3 DEF ControlInv, IndexFollowsChain

\* The first block takes its timestamp from a queued sub-DAG.
LEMMA FirstIsQueued ==
    ASSUME NEW queue, DOMAIN queue \subseteq Nat,
           \A r \in DOMAIN queue : queue[r] \in Subdags,
           get_fist_committed_subdag(queue) # None
    PROVE  get_fist_committed_subdag(queue) \in Subdags
<1> DEFINE stamped == {r \in DOMAIN queue : queue[r].timestamp_ms > 0}
<1>1. stamped # {} /\ get_fist_committed_subdag(queue) = queue[Min(stamped)]
  BY DEF get_fist_committed_subdag
<1>2. Min(stamped) \in stamped
  BY <1>1, LeastOf
<1> QED BY <1>1, <1>2

\* A proposal read while the puller is late starts one batch early, never
\* earlier (pool.rs:290-313).
LEMMA ProposalStep ==
    ASSUME ControlInv, [Next]_vars
    PROVE  ProposalInv'
<1>1. CASE PushOrderedBlock \/ PushFails
  BY <1>1 DEF PushOrderedBlock, PushFails, MainDone, ProposalInv
<1>2. CASE ~PushOrderedBlock /\ ~PushFails
  <2>1. Height' = Height
    BY <1>2, ChainFrame DEF Height
  <2>2. CASE ReadProposal
    <3>1. Height > 0 /\ mainPc = "locked" /\ ~IndexWriteLocked
      BY <2>2 DEF ReadProposal, ControlInv, PipelineInv
    <3>2. next_committed_index \in {1 + K * (Height - 1), 1 + K * (Height - 2)}
      BY <3>1, IndexWhileBuilding DEF Building
    <3>3. lastSubdag' = lastSubdag /\ lastSubdag \in Subdags /\ proposalIndex = 0
      BY <2>2 DEF ReadProposal, ControlInv, ProposalInv
    <3>4. \/ mainPc' = "push" /\ proposalIndex' = next_committed_index
          \/ mainPc' = "dead" /\ proposalIndex' = proposalIndex
      BY <2>2 DEF ReadProposal
    <3> QED BY <2>1, <3>2, <3>3, <3>4 DEF ProposalInv
  <2>3. CASE BuildFirstBlock
    <3>1. get_fist_committed_subdag(commited_queue) \in Subdags
      BY <2>3, FirstIsQueued DEF BuildFirstBlock, ControlInv, DataInv
    <3>2. /\ mainPc = "tick" /\ mainPc' = "push"
          /\ lastSubdag' = get_fist_committed_subdag(commited_queue)
          /\ proposalIndex' = proposalIndex
      BY <2>3 DEF BuildFirstBlock, Tick
    <3> QED BY <2>1, <3>1, <3>2 DEF ControlInv, ProposalInv
  <2>4. CASE ReadBatch
    <3>1. mainPc = "batch" /\ proposalIndex' = proposalIndex
          /\ mainPc' \in {"dead", "tick", "proposal"}
      BY <2>4 DEF ReadBatch
    <3>2. ASSUME mainPc' = "proposal" PROVE lastSubdag' \in Subdags
      <4>1. /\ next_committed_subdag_batch(batchIndex, commited_queue) # None
            /\ lastSubdag' = next_committed_subdag_batch(batchIndex, commited_queue)[2]
        BY <2>4, <3>2 DEF ReadBatch
      <4>2. HasBatch(batchIndex, commited_queue) /\ K > 0
            /\ lastSubdag' = commited_queue[batchIndex + K - 1]
        BY <4>1 DEF next_committed_subdag_batch
      <4>3. batchIndex + K - 1 \in BatchRounds(batchIndex)
        BY <4>2, BatchSizeIsNat DEF BatchRounds, K, ControlInv, DataInv
      <4> QED BY <4>2, <4>3 DEF HasBatch, ControlInv, DataInv
    <3> QED BY <2>1, <3>1, <3>2 DEF ControlInv, ProposalInv
  <2>5. CASE ReadNextIndex \/ LockQueue
    <3>1. /\ mainPc # "push" /\ lastSubdag' = lastSubdag
          /\ proposalIndex' = proposalIndex
          /\ mainPc' \in {"proposal", "locked", "push"} => mainPc = "proposal"
      BY <2>5 DEF ReadNextIndex, LockQueue, Tick
    <3> QED BY <2>1, <3>1 DEF ControlInv, ProposalInv
  <2>6. CASE UNCHANGED mainVars
    BY <2>1, <2>6 DEF mainVars, ControlInv, ProposalInv
  <2> QED BY <1>2, <2>2, <2>3, <2>4, <2>5, <2>6, MainFrame DEF MainLoop
<1> QED BY <1>1, <1>2

\* Only a push adds a block, and it carries the proposal read in its tick.
LEMMA StaleStep ==
    ASSUME ControlInv, [Next]_vars
    PROVE  StaleByAtMostOneBatch'
<1>1. CASE PushOrderedBlock
  <2>1. mainPc = "push" /\ chain' = Append(chain, NextBlock)
    BY <1>1 DEF PushOrderedBlock
  <2>2. NextBlock.index = proposalIndex /\ Height \in Nat
    BY <2>1, NextBlockExtendsTip
  <2>3. /\ \A i \in 1..Height : chain'[i] = chain[i]
        /\ chain'[Height + 1] = NextBlock
        /\ DOMAIN chain = 1..Height /\ DOMAIN chain' = 1..(Height + 1)
    BY <2>1, Appending, LenProperties DEF ControlInv, ChainInv, Height
  <2>4. proposalIndex \in {0, 1 + K * (Height - 1), 1 + K * (Height - 2)}
    BY DEF ControlInv, ProposalInv
  <2>5. ASSUME NEW n \in 1..(Height + 1), n > 1
        PROVE  chain'[n].index \in {0, 1 + K * (n - 2), 1 + K * (n - 3)}
    <3>1. CASE n \in 1..Height
      BY <3>1, <2>3, <2>5 DEF ControlInv, StaleByAtMostOneBatch
    <3>2. CASE n = Height + 1
      <4>1. n - 2 = Height - 1 /\ n - 3 = Height - 2
        BY <3>2, <2>2
      <4> QED BY <4>1, <3>2, <2>2, <2>3, <2>4
    <3> QED BY <3>1, <3>2, <2>2
  <2> QED BY <2>3, <2>5 DEF StaleByAtMostOneBatch
<1>2. CASE ~PushOrderedBlock
  BY <1>2, ChainFrame DEF ControlInv, StaleByAtMostOneBatch
<1> QED BY <1>1, <1>2

\* The commit a submission carries.
LEMMA Submitted ==
    ASSUME commits \in CommitLogs, submitted \in Nat, submitted < Len(commits)
    PROVE  commits[submitted + 1] \in Subdags /\ commits[submitted + 1].round \in Nat
<1>1. commits \in Seq(Subdags)
  BY PipelineConstants
<1>2. submitted + 1 \in 1..Len(commits)
  BY <1>1, LenProperties
<1> QED BY <1>1, <1>2, ElementOfSeq, SubdagsHaveRounds

\* How a step changes the queue: a submission adds a round, a drain removes
\* rounds, and nothing else touches it.
LEMMA QueueFrame ==
    ASSUME [Next]_vars, ~SubmitCommittedSubdag, ~DrainBatch, ~DrainPanics
    PROVE  commited_queue' = commited_queue
<1>1. CASE Feed
  BY <1>1 DEF Feed, LoseSubmission, ReplayCommits, poolVars
<1>2. CASE MainLoop
  BY <1>2 DEF MainLoop, BuildFirstBlock, ReadNextIndex, ReadBatch, LockQueue,
              ReadProposal, PushOrderedBlock, PushFails, poolVars
<1>3. CASE Puller
  BY <1>3 DEF Puller, PullExecutedBlock, LockNextIndex, FinishUpdate, HandleEvents,
              poolVars
<1>4. CASE UNCHANGED vars
  BY <1>4 DEF vars, poolVars
<1> QED BY <1>1, <1>2, <1>3, <1>4 DEF Next

\* Every step keeps the queue a finite map from rounds to sub-DAGs, and only
\* a drain shortens it.
LEMMA QueueStep ==
    ASSUME ControlInv, TypeOK, [Next]_vars
    PROVE  /\ (DOMAIN commited_queue)' \subseteq Nat
           /\ \A r \in DOMAIN commited_queue' : commited_queue'[r] \in Subdags
           /\ ~DrainBatch /\ ~DrainPanics
                 => DOMAIN commited_queue \subseteq DOMAIN commited_queue'
           /\ IsFiniteSet(DOMAIN commited_queue)
                 => IsFiniteSet(DOMAIN commited_queue')
<1> USE DEF ControlInv, DataInv
<1>1. CASE SubmitCommittedSubdag
  <2> DEFINE s == commits[submitted + 1]
  <2>1. s \in Subdags /\ s.round \in Nat
    BY <1>1, Submitted, LenProperties, PipelineConstants
       DEF SubmitCommittedSubdag, TypeOK
  <2>2. commited_queue' = WithSubdags(commited_queue, <<s>>)
    BY <1>1 DEF SubmitCommittedSubdag, add_committed_subdags
  <2> HIDE DEF s
  <2>3. /\ DOMAIN commited_queue' = DOMAIN commited_queue \cup {s.round}
        /\ \A r \in DOMAIN commited_queue' :
              commited_queue'[r] = IF r = s.round THEN s ELSE commited_queue[r]
    <3> DEFINE with == WithSubdags(commited_queue, <<s>>)
    <3>1. /\ DOMAIN with = DOMAIN commited_queue \cup {s.round}
          /\ \A r \in DOMAIN with :
                with[r] = IF r = s.round THEN s ELSE commited_queue[r]
      BY <2>1, AddingOne, Zenon
    <3> QED BY <3>1, <2>2, Zenon
  <2>4. IsFiniteSet(DOMAIN commited_queue)
           => IsFiniteSet(DOMAIN commited_queue \cup {s.round})
    BY FS_AddElement
  <2> QED BY <2>1, <2>3, <2>4
<1>2. CASE DrainBatch \/ DrainPanics
  <2>1. PICK T : /\ T \subseteq DOMAIN commited_queue
                 /\ commited_queue' = [r \in T |-> commited_queue[r]]
    BY <1>2 DEF DrainBatch, DrainPanics, Restrict
  <2> QED BY <1>2, <2>1, FS_Subset
<1>3. CASE ~SubmitCommittedSubdag /\ ~DrainBatch /\ ~DrainPanics
  BY <1>3, QueueFrame
<1> QED BY <1>1, <1>2, <1>3

\* The commits are fixed, and the indices read and written are numbers.
LEMMA DataStep ==
    ASSUME ControlInv, TypeOK, [Next]_vars
    PROVE  DataInv'
<1>1. commits' = commits
  <2>1. CASE Feed
    BY <2>1 DEF Feed, SubmitCommittedSubdag, LoseSubmission, ReplayCommits
  <2> QED BY <2>1, FeedFrame DEF feedVars
<1>2. next_committed_index' \in Nat \ {0}
  <2>1. \/ next_committed_index' = next_committed_index
        \/ next_committed_index' = next_committed_index + K
    <3>1. CASE Puller
      BY <3>1 DEF Puller, PullExecutedBlock, LockNextIndex, DrainBatch, DrainPanics,
                  FinishUpdate, HandleEvents, poolVars
    <3> QED BY <3>1, PullerFrame
  <2> QED BY <2>1, BatchSizeIsNat DEF K, ControlInv, DataInv
<1>3. batchIndex' \in Nat
  <2>1. batchIndex' \in {batchIndex, 0, next_committed_index}
    <3>1. CASE MainLoop
      BY <3>1 DEF MainLoop, BuildFirstBlock, ReadNextIndex, ReadBatch, LockQueue,
                  ReadProposal, PushOrderedBlock, PushFails, MainDone
    <3> QED BY <3>1, MainFrame DEF mainVars
  <2> QED BY <2>1 DEF ControlInv, DataInv
<1> QED BY <1>1, <1>2, <1>3, QueueStep DEF ControlInv, DataInv

\* ControlInv is inductive, given the types.
LEMMA ControlStep ==
    ASSUME ControlInv, TypeOK, [Next]_vars
    PROVE  ControlInv'
BY DataStep, ChainStep, PipelineStep, PullerStep, IndexStep, ProposalStep, StaleStep
   DEF ControlInv

\* TypeInv is inductive, given ControlInv.
LEMMA TypeStep ==
    ASSUME ControlInv, TypeInv, [Next]_vars
    PROVE  TypeInv'
<1>1. (epoch \in Nat /\ chainEpoch \in Nat
         /\ (pullPc \notin {"pull", "dead"} => result.epoch \in Nat \cup {None}))'
  <2>1. CASE PullExecutedBlock
    <3>1. /\ chainEpoch' \in {chainEpoch, chainEpoch + 1}
          /\ result'.epoch \in {None, chainEpoch'}
          /\ epoch' = epoch
      BY <2>1 DEF PullExecutedBlock
    <3> QED BY <3>1 DEF TypeInv, TypeOK
  <2>2. CASE HandleEvents
    <3>1. /\ pullPc = "events" /\ pullPc' = "pull"
          /\ epoch' = IF result.epoch = None THEN epoch ELSE result.epoch
          /\ chainEpoch' = chainEpoch
      BY <2>2 DEF HandleEvents, EpochAfterEvents, execVars
    <3> QED BY <3>1 DEF TypeInv, TypeOK
  <2>3. CASE LockNextIndex \/ DrainBatch \/ DrainPanics \/ FinishUpdate
    <3>1. /\ pullPc \notin {"pull", "dead"}
          /\ UNCHANGED <<epoch, chainEpoch, result>>
      BY <2>3 DEF LockNextIndex, DrainBatch, DrainPanics, FinishUpdate,
                  consensusVars, execVars
    <3> QED BY <3>1 DEF TypeInv, TypeOK
  <2>4. CASE ~Puller
    <3>1. UNCHANGED <<epoch, result, pullPc>>
      BY <2>4, PullerFrame DEF pullVars
    <3>2. chainEpoch' = chainEpoch
      BY <2>4, ChainEpochFrame DEF Puller
    <3> QED BY <3>1, <3>2 DEF TypeInv, TypeOK
  <2> QED BY <2>1, <2>2, <2>3, <2>4 DEF Puller
<1>2. last_ordered_block' \in [number : Nat, id : Nat \X Nat] \cup {None}
  <2>1. ChainInv'
    BY ChainStep
  <2>2. Height' \in Nat /\ (chain' # << >> => Height' \in 1..Height')
    BY <2>1, LenProperties, EmptySeq DEF ChainInv, Height
  <2> QED BY <2>1, <2>2 DEF ChainInv
<1>3. proposalIndex' \in Nat
  <2>1. proposalIndex' \in {proposalIndex, 0, next_committed_index}
    <3>1. CASE MainLoop
      BY <3>1 DEF MainLoop, BuildFirstBlock, ReadNextIndex, ReadBatch, LockQueue,
                  ReadProposal, PushOrderedBlock, PushFails, MainDone
    <3> QED BY <3>1, MainFrame DEF mainVars
  <2> QED BY <2>1 DEF TypeInv, TypeOK
<1>4. lastSubdag' \in Subdags \cup {None}
  <2>1. ProposalInv'
    BY ProposalStep
  <2>2. CASE mainPc' \in {"proposal", "locked", "push"}
    BY <2>1, <2>2 DEF ProposalInv
  <2>3. CASE mainPc' \notin {"proposal", "locked", "push"}
    <3>1. lastSubdag' \in {lastSubdag, None}
      <4>1. CASE MainLoop
        BY <4>1, <2>3 DEF MainLoop, BuildFirstBlock, ReadNextIndex, ReadBatch,
                    LockQueue, ReadProposal, PushOrderedBlock, PushFails, MainDone
      <4> QED BY <4>1, MainFrame DEF mainVars
    <3> QED BY <3>1 DEF TypeInv, TypeOK
  <2> QED BY <2>2, <2>3
<1>5. submitted' \in 0..Len(commits')
  <2>1. Len(commits) \in Nat
    BY PipelineConstants, LenProperties DEF ControlInv, DataInv
  <2>2. submitted \in 0..Len(commits)
    BY DEF TypeInv, TypeOK
  <2>3. CASE SubmitCommittedSubdag \/ LoseSubmission
    <3>1. /\ commits' = commits
          /\ submitted < Len(commits) /\ submitted' = submitted + 1
      BY <2>3 DEF SubmitCommittedSubdag, LoseSubmission
    <3> QED BY <3>1, <2>1, <2>2
  <2>4. CASE ReplayCommits
    BY <2>1, <2>4 DEF ReplayCommits
  <2>5. CASE ~Feed
    BY <2>2, <2>5, FeedFrame DEF feedVars
  <2> QED BY <2>3, <2>4, <2>5 DEF Feed
<1>6. poisoned' \in BOOLEAN
  BY PullerStep DEF PullerInv
<1>7. (canonical_block_number \in Nat /\ mainPc \in MainPcs /\ pullPc \in PullPcs)'
  BY PipelineStep, PullerStep DEF PipelineInv, PullerInv
<1>8. DataInv'
  BY DataStep DEF TypeInv
<1> QED BY <1>1, <1>2, <1>3, <1>4, <1>5, <1>6, <1>7, <1>8 DEF TypeInv, TypeOK, DataInv

\* Both hold when MysticetiConsensus starts (mysticeti.rs:170-194).
LEMMA InitialStates ==
    ASSUME Init
    PROVE  ControlInv /\ TypeInv
<1>1. chain = << >> /\ inPipeline = << >> /\ Height = 0
  BY EmptySeq DEF Init, Height
<1>2. ChainInv
  BY <1>1, EmptySeq DEF Init, ChainInv, ChainLinked
<1>3. UpdatedBlocks = 0 /\ IndexFollowsChain
  BY BatchSizeIsNat DEF Init, PoolInit, UpdatedBlocks, IndexFollowsChain, K
<1>4. StaleByAtMostOneBatch
  BY <1>1 DEF StaleByAtMostOneBatch
<1>5. DOMAIN commited_queue = {}
  BY DEF Init, PoolInit
<1>6. Len(commits) \in Nat
  BY PipelineConstants, LenProperties DEF Init
<1>7. DataInv /\ PipelineInv /\ ProposalInv
  BY <1>1, <1>5 DEF Init, PoolInit, DataInv, PipelineInv, Building, ProposalInv
<1>8. PullerInv
  BY DEF Init, PullerInv, Late, MainPcs, PullPcs
<1>9. TypeOK
  <2>1. /\ next_committed_index = 1 /\ canonical_block_number = 0
        /\ epoch = 1 /\ chainEpoch = 1
        /\ batchIndex = 0 /\ proposalIndex = 0 /\ submitted = 0
        /\ last_ordered_block = None /\ lastSubdag = None
    BY DEF Init, PoolInit
  <2>2. mainPc = "tick" /\ pullPc = "pull" /\ poisoned = FALSE
    BY DEF Init
  <2>3. mainPc \in MainPcs /\ pullPc \in PullPcs /\ poisoned \in BOOLEAN
    BY <2>2 DEF MainPcs, PullPcs
  <2>4. submitted \in 0..Len(commits)
    BY <2>1, <1>6
  <2> QED BY <2>1, <2>3, <2>4, <1>5 DEF TypeOK
<1>10. TypeInv
  BY <1>9 DEF Init, TypeInv
<1> QED BY <1>2, <1>3, <1>4, <1>7, <1>8, <1>10 DEF ControlInv

-----------------------------------------------------------------------------
(* What holds of every behaviour.                                          *)

\* The inductive invariant of the pipeline, whatever the timing of its tasks,
\* whatever is lost, repeated or fails (mysticeti.rs:307-432).
THEOREM Control == Spec => [](ControlInv /\ TypeInv)
<1>1. Init => ControlInv /\ TypeInv
  BY InitialStates
<1>2. (ControlInv /\ TypeInv) /\ [Next]_vars => (ControlInv /\ TypeInv)'
  BY ControlStep, TypeStep DEF TypeInv
<1> QED BY <1>1, <1>2, PTL DEF Spec

\* Type correctness: every field and every local of the two tasks keeps its type,
\* and no commit is submitted beyond the end of the log.
THEOREM TypeCorrect == Spec => []TypeOK
<1>1. ControlInv /\ TypeInv => TypeOK
  BY DEF TypeInv
<1> QED BY <1>1, Control, PTL

\* The pipeline receives blocks 1, 2, 3, ..., each the child of the one pushed
\* before it, whatever fails in between (mysticeti.rs:521-567, 409).
THEOREM ChainIsLinked == Spec => []ChainLinked
<1>1. ControlInv /\ TypeInv => ChainLinked
  BY DEF ControlInv, ChainInv
<1> QED BY <1>1, Control, PTL

\* The gate on the canonical block number keeps at most one block in the
\* pipeline (mysticeti.rs:450-457).
THEOREM AtMostOneInFlight == Spec => []OneBlockInFlight
<1>1. ControlInv /\ TypeInv => OneBlockInFlight
  <2> SUFFICES ASSUME ControlInv PROVE OneBlockInFlight
    OBVIOUS
  <2>1. Height \in Nat
    BY LenProperties DEF ControlInv, ChainInv, Height
  <2>2. CASE inPipeline = << >> /\ canonical_block_number = Height
    BY <2>1, <2>2 DEF OneBlockInFlight, Height
  <2>3. CASE inPipeline = <<chain[Height]>> /\ canonical_block_number = Height - 1
    <3>1. Len(inPipeline) = 1
      BY <2>3
    <3> QED BY <2>1, <2>3, <3>1 DEF OneBlockInFlight, Height
  <2> QED BY <2>2, <2>3 DEF ControlInv, PipelineInv
<1> QED BY <1>1, Control, PTL

\* Every executed block but the first consumed exactly one batch of commits,
\* also with lost, repeated and late submissions, and up to a panic.
THEOREM IndexTracksChain == Spec => []IndexFollowsChain
<1>1. ControlInv /\ TypeInv => IndexFollowsChain
  BY DEF ControlInv
<1> QED BY <1>1, Control, PTL

\* However late the puller is, a block repeats at most the batch before its own.
THEOREM StaleIsBounded == Spec => []StaleByAtMostOneBatch
<1>1. ControlInv /\ TypeInv => StaleByAtMostOneBatch
  BY DEF ControlInv
<1> QED BY <1>1, Control, PTL

-----------------------------------------------------------------------------
(* Nothing the pool has drained is lost, however late the puller is.       *)

LEMMA KeptFrame ==
    ASSUME [Next]_vars, ~Puller
    PROVE  UNCHANGED <<pending_transactions, drained, mined, batch, pullPc>>
<1>1. CASE SubmitCommittedSubdag
  BY <1>1 DEF SubmitCommittedSubdag, add_committed_subdags, pullVars
<1>2. CASE LoseSubmission \/ ReplayCommits
  BY <1>2 DEF LoseSubmission, ReplayCommits, poolVars, pullVars
<1>3. CASE MainLoop
  BY <1>3 DEF MainLoop, BuildFirstBlock, ReadNextIndex, ReadBatch, LockQueue,
              ReadProposal, PushOrderedBlock, PushFails, poolVars, pullVars
<1>4. CASE UNCHANGED vars
  BY <1>4 DEF vars, poolVars, pullVars
<1> QED BY <1>1, <1>2, <1>3, <1>4 DEF Next, Feed

\* The drained batch is in the puller's hands.
LEMMA DrainKeeps ==
    ASSUME KeptInv, DataInv, DrainBatch
    PROVE  KeptInv'
<1>1. /\ batch' = Batch(next_committed_index, commited_queue)
      /\ drained' = drained \cup Range(BatchTransactions(batch'))
      /\ pullPc = "drain" /\ pullPc' = "finish"
      /\ HasBatch(next_committed_index, commited_queue)
      /\ UNCHANGED <<pending_transactions, mined>>
  BY DEF DrainBatch
<1>2. batch' \in [1..K -> Subdags]
  <2>1. \A i \in 1..K : commited_queue[next_committed_index + i - 1] \in Subdags
    <3> SUFFICES ASSUME NEW i \in 1..K
                 PROVE  next_committed_index + i - 1 \in DOMAIN commited_queue
      BY DEF DataInv
    <3>1. next_committed_index + i - 1 \in BatchRounds(next_committed_index)
      BY BatchSizeIsNat DEF BatchRounds, DataInv, K
    <3> QED BY <1>1, <3>1 DEF HasBatch
  <2> QED BY <1>1, <2>1 DEF Batch
<1>3. PICK held : held = Range(BatchTransactions(batch'))
  OBVIOUS
<1>4. Keys(drained \cup held) \subseteq
          UNION {Keys(mined), Keys(Range(pending_transactions)), Keys(held)}
  BY <1>1 DEF KeptInv, Keys
<1> QED BY <1>1, <1>2, <1>3, <1>4 DEF KeptInv

\* What the proposal of the batch does not lose is pending or was mined.
LEMMA FinishKeeps ==
    ASSUME KeptInv, FinishUpdate
    PROVE  KeptInv'
<1>1. /\ pullPc = "finish" /\ pullPc' = "events"
      /\ pending_transactions' =
             Unmined(create_proposal_transactions(pending_transactions, batch), result.txs)
      /\ mined' = mined \cup result.txs
      /\ UNCHANGED drained
  BY DEF FinishUpdate
<1>2. K \in Nat
  BY BatchSizeIsNat DEF K
<1>3. batch = [i \in 1..K |-> batch[i]] /\ \A i \in 1..K : batch[i].transactions \in Seq(GivenTxs)
  BY <1>1, GivenTypes DEF KeptInv
<1>4. PICK held : held = Range(BatchTransactions(batch))
  OBVIOUS
<1>5. PICK left : left = Without(create_proposal_transactions(pending_transactions, batch),
                                 result.txs)
  OBVIOUS
<1>6. /\ left \in Seq(GivenTxs)
      /\ Keys(Range(pending_transactions) \cup held) \subseteq
             Keys(result.txs) \cup Keys(Range(left))
  BY <1>2, <1>3, <1>4, <1>5, GivenTypes, SettlesTheBatch DEF KeptInv
<1>7. pending_transactions' = left
  BY <1>1, <1>5 DEF Unmined
<1>8. Keys(drained) \subseteq
          UNION {Keys(mined), Keys(Range(pending_transactions)), Keys(held)}
  BY <1>1, <1>4 DEF KeptInv
<1>9. Keys(drained) \subseteq Keys(mined \cup result.txs) \cup Keys(Range(left))
  BY <1>6, <1>8 DEF Keys
<1> QED BY <1>1, <1>6, <1>7, <1>9 DEF KeptInv

LEMMA KeptStep ==
    ASSUME KeptInv, DataInv, [Next]_vars
    PROVE  KeptInv'
<1>1. CASE PullExecutedBlock \/ LockNextIndex \/ HandleEvents
  <2>1. /\ UNCHANGED <<pending_transactions, drained, mined>>
        /\ pullPc \notin {"finish", "dead"} /\ pullPc' \notin {"finish", "dead"}
    BY <1>1 DEF PullExecutedBlock, LockNextIndex, HandleEvents, poolVars
  <2> QED BY <2>1 DEF KeptInv
<1>2. CASE DrainBatch
  BY <1>2, DrainKeeps
<1>3. CASE DrainPanics
  <2>1. UNCHANGED pending_transactions /\ pullPc' = "dead"
    BY <1>3 DEF DrainPanics
  <2> QED BY <2>1 DEF KeptInv
<1>4. CASE FinishUpdate
  BY <1>4, FinishKeeps
<1>5. CASE ~Puller
  <2>1. UNCHANGED <<pending_transactions, drained, mined, batch, pullPc>>
    BY <1>5, KeptFrame
  <2> QED BY <2>1 DEF KeptInv
<1> QED BY <1>1, <1>2, <1>3, <1>4, <1>5 DEF Puller

\* Whatever the timing of the two tasks: one block at a time is under way, the
\* pool's index is where the chain says, and no transaction taken off the
\* queue is lost, also when the batch drained is not the one the block was
\* built from (mysticeti.rs:336-378, pool.rs:318-361).
THEOREM NothingLostHoweverLate == Spec => []HoweverLate
<1>1. Init => KeptInv
  <2> SUFFICES ASSUME Init PROVE KeptInv
    OBVIOUS
  <2>1. pending_transactions = << >> /\ drained = {} /\ pullPc = "pull"
    BY DEF Init, PoolInit
  <2>2. Keys({}) = {} /\ << >> \in Seq(GivenTxs)
    BY DEF Keys
  <2> QED BY <2>1, <2>2 DEF KeptInv
<1>2. (ControlInv /\ KeptInv) /\ [Next]_vars => KeptInv'
  BY KeptStep DEF ControlInv
<1>3. KeptInv => NoDrainedTxLost
  BY DEF KeptInv, NoDrainedTxLost
<1>4. TypeOK /\ OneBlockInFlight /\ IndexFollowsChain /\ NoDrainedTxLost => HoweverLate
  BY DEF HoweverLate
<1>5. Spec => [](ControlInv /\ KeptInv)
  BY <1>1, <1>2, Control, PTL DEF Spec
<1> QED BY <1>3, <1>4, <1>5, TypeCorrect, AtMostOneInFlight, IndexTracksChain, PTL

-----------------------------------------------------------------------------
(* No tick falls into the handling of a result: every commit is in exactly *)
(* one block, no assert! fails, and the chain is the abstract ledger's.    *)

\* A pipeline that has not started satisfies PromptInv.
LEMMA PromptInit ==
    ASSUME Init
    PROVE  PromptInv
<1>1. chain = << >> /\ inPipeline = << >> /\ Height = 0
  BY EmptySeq DEF Init, Height
<1>2. DOMAIN commited_queue = {}
  BY DEF Init, PoolInit
<1>3. IsFiniteSet(DOMAIN commited_queue)
  BY <1>2, FS_EmptySet
<1>4. ~BatchWanted
  BY <1>1 DEF Init, BatchWanted
<1>5. EveryCommitInOneBlock
  BY <1>1 DEF EveryCommitInOneBlock
<1> QED BY <1>1, <1>3, <1>4, <1>5 DEF Init, PromptInv, NoPanic, Building

\* The rounds both asserts want are queued when they are evaluated
\* (pool.rs:304, 337).
LEMMA PromptNoPanic ==
    ASSUME PromptPuller, ControlInv, TypeInv, PromptInv, [Next]_vars
    PROVE  NoPanic'
<1>1. poisoned = FALSE
  BY DEF ControlInv, PullerInv, PromptInv, NoPanic
<1>2. mainPc' # "dead"
  <2>1. CASE ReadProposal
    <3>1. mainPc = "locked"
      BY <2>1 DEF ReadProposal
    <3>2. HasBatch(next_committed_index, commited_queue)
      BY <3>1 DEF PromptInv, BatchWanted
    <3> QED BY <2>1, <3>2 DEF ReadProposal
  <2>2. CASE ReadNextIndex \/ ReadBatch \/ LockQueue
    BY <1>1, <2>2 DEF ReadNextIndex, ReadBatch, LockQueue
  <2>3. CASE BuildFirstBlock \/ PushOrderedBlock \/ PushFails
    BY <2>3 DEF BuildFirstBlock, PushOrderedBlock, PushFails, MainDone
  <2>4. CASE ~MainLoop
    BY <2>4, MainFrame DEF mainVars, PromptInv, NoPanic
  <2> QED BY <2>1, <2>2, <2>3, <2>4 DEF MainLoop
<1>3. pullPc' # "dead"
  <2>1. ~DrainPanics
    <3> SUFFICES ASSUME DrainPanics PROVE FALSE
      OBVIOUS
    <3>1. pullPc = "drain"
      BY DEF DrainPanics
    <3>2. HasBatch(next_committed_index, commited_queue)
      BY <3>1 DEF PromptInv, BatchWanted
    <3> QED BY <3>2 DEF DrainPanics, HasBatch
  <2>2. CASE Puller
    BY <2>1, <2>2 DEF Puller, PullExecutedBlock, LockNextIndex, DrainBatch,
                      FinishUpdate, HandleEvents
  <2>3. CASE ~Puller
    BY <2>3, PullerFrame DEF pullVars, PromptInv, NoPanic
  <2> QED BY <2>2, <2>3
<1> QED BY <1>2, <1>3 DEF NoPanic

\* A tick starts only when the puller waits for a result.
LEMMA PromptAlone ==
    ASSUME PromptPuller, ControlInv, TypeInv, PromptInv, [Next]_vars
    PROVE  (pullPc # "pull" => inPipeline = << >> /\ ~Building)'
<1>1. CASE MainLoop
  <2>1. pullPc = "pull"
    <3>1. Building \/ Tick
      BY <1>1 DEF MainLoop, BuildFirstBlock, ReadNextIndex, ReadBatch, LockQueue,
                  ReadProposal, PushOrderedBlock, PushFails, Building
    <3> QED BY <3>1 DEF Tick, PromptInv
  <2>2. pullPc' = pullPc
    BY <1>1 DEF MainLoop, BuildFirstBlock, ReadNextIndex, ReadBatch, LockQueue,
                ReadProposal, PushOrderedBlock, PushFails, pullVars
  <2> QED BY <2>1, <2>2
<1>2. CASE PullExecutedBlock
  BY <1>2, PullTakesTip DEF mainVars, Building
<1>3. CASE LockNextIndex \/ DrainBatch \/ DrainPanics \/ FinishUpdate \/ HandleEvents
  <2>1. pullPc # "pull" /\ UNCHANGED <<inPipeline, mainPc>>
    BY <1>3 DEF LockNextIndex, DrainBatch, DrainPanics, FinishUpdate, HandleEvents,
                pipeVars, mainVars
  <2> QED BY <2>1 DEF PromptInv, Building
<1>4. CASE ~MainLoop /\ ~Puller
  <2>1. UNCHANGED <<pullPc, mainPc, inPipeline>>
    BY <1>4, MainFrame, PullerFrame, PipelineFrame DEF MainLoop, Puller, mainVars, pullVars
  <2> QED BY <2>1 DEF PromptInv, Building
<1> QED BY <1>1, <1>2, <1>3, <1>4 DEF Puller

\* While a batch is wanted, only a drain moves the index or removes its rounds.
LEMMA WantedBatchStays ==
    ASSUME PromptPuller, ControlInv, TypeInv, PromptInv, [Next]_vars,
           HasBatch(next_committed_index, commited_queue),
           ~DrainBatch, ~FinishUpdate
    PROVE  HasBatch(next_committed_index, commited_queue)'
<1>1. ~DrainPanics
  BY DEF DrainPanics, HasBatch
<1>2. next_committed_index' = next_committed_index
  <2>1. CASE Puller
    BY <1>1, <2>1 DEF Puller, PullExecutedBlock, LockNextIndex, HandleEvents, poolVars
  <2> QED BY <2>1, PullerFrame
<1>3. DOMAIN commited_queue \subseteq DOMAIN commited_queue'
  BY <1>1, QueueStep DEF TypeInv
<1> QED BY <1>2, <1>3 DEF HasBatch, BatchRounds

\* A batch that a tick found stays queued until it is drained.
LEMMA PromptBatch ==
    ASSUME PromptPuller, ControlInv, TypeInv, PromptInv, [Next]_vars, BatchWanted'
    PROVE  HasBatch(next_committed_index, commited_queue)'
<1>1. ~DrainBatch /\ ~FinishUpdate
  <2> SUFFICES ASSUME DrainBatch \/ FinishUpdate PROVE FALSE
    OBVIOUS
  <2>1. /\ pullPc # "pull" /\ pullPc' \in {"finish", "events"}
        /\ UNCHANGED <<mainPc, inPipeline>>
    BY DEF DrainBatch, FinishUpdate, mainVars, pipeVars
  <2>2. inPipeline' = << >> /\ mainPc' \notin {"proposal", "locked", "push"}
    BY <2>1 DEF PromptInv, Building
  <2> QED BY <2>1, <2>2 DEF BatchWanted
<1>2. CASE BatchWanted
  BY <1>1, <1>2, WantedBatchStays DEF PromptInv
<1>3. CASE ~BatchWanted
  <2>1. CASE ReadBatch
    <3>1. mainPc = "batch" /\ batchIndex = next_committed_index
      BY <2>1 DEF ReadBatch, PromptInv
    <3>2. UNCHANGED <<pullPc, inPipeline, chain>>
      BY <2>1 DEF ReadBatch, pullVars, pipeVars
    <3>3. mainPc' = "proposal"
      BY <1>3, <2>1, <3>2 DEF BatchWanted, Height, ReadBatch
    <3>4. next_committed_subdag_batch(batchIndex, commited_queue) # None
      BY <2>1, <3>3 DEF ReadBatch
    <3>5. HasBatch(next_committed_index, commited_queue)
      BY <3>1, <3>4 DEF next_committed_subdag_batch
    <3> QED BY <1>1, <3>5, WantedBatchStays
  <2>2. CASE PullExecutedBlock
    <3>1. inPipeline # << >>
      BY <2>2 DEF PullExecutedBlock
    <3>2. Height <= 1 /\ Height \in Nat
      BY <1>3, <2>2, <3>1, PullTakesTip DEF BatchWanted
    <3>3. /\ pullPc' = "events" /\ inPipeline' = << >>
          /\ mainPc' = mainPc /\ Height' = Height
      BY <2>2, <3>2, PullTakesTip DEF mainVars, Height
    <3> QED BY <1>3, <3>2, <3>3 DEF BatchWanted
  <2>3. CASE PushOrderedBlock
    <3>1. mainPc = "push" /\ mainPc' = "tick" /\ pullPc' = pullPc
      BY <2>3 DEF PushOrderedBlock, MainDone, pullVars
    <3>2. Height \in Nat /\ Height = 0
      BY <1>3, <3>1, NextBlockExtendsTip DEF BatchWanted
    <3>3. Height' = 1
      BY <2>3, <3>2, Appending DEF PushOrderedBlock, Height, ControlInv, ChainInv
    <3> QED BY <1>3, <3>1, <3>3 DEF BatchWanted
  <2>4. CASE BuildFirstBlock
    <3>1. Height = 0
      BY <2>4, LenProperties, EmptySeq, PipelineConstants
         DEF BuildFirstBlock, ControlInv, ChainInv, Height
    <3>2. mainPc' = "push" /\ UNCHANGED <<pullPc, chain, inPipeline>>
      BY <2>4 DEF BuildFirstBlock, pullVars, pipeVars
    <3> QED BY <1>3, <3>1, <3>2 DEF BatchWanted, Height
  <2>5. CASE ReadNextIndex \/ LockQueue \/ ReadProposal \/ PushFails
    <3>1. UNCHANGED <<pullPc, chain, inPipeline>>
      BY <2>5 DEF ReadNextIndex, LockQueue, ReadProposal, PushFails, pullVars, pipeVars
    <3>2. mainPc' \in {"proposal", "locked", "push"} => mainPc \in {"proposal", "locked"}
      BY <2>5 DEF ReadNextIndex, LockQueue, ReadProposal, PushFails, MainDone
    <3> QED BY <1>3, <3>1, <3>2 DEF BatchWanted, Height
  <2>6. CASE LockNextIndex \/ DrainPanics \/ HandleEvents
    <3>1. UNCHANGED <<mainPc, chain, inPipeline>>
      BY <2>6 DEF LockNextIndex, DrainPanics, HandleEvents, mainVars, pipeVars
    <3>2. pullPc' \in {"update", "drain"} => pullPc \in {"update", "drain"}
      BY <2>6 DEF LockNextIndex, DrainPanics, HandleEvents
    <3> QED BY <1>3, <3>1, <3>2 DEF BatchWanted, Height
  <2>7. CASE ~MainLoop /\ ~Puller
    <3>1. UNCHANGED <<mainPc, pullPc, chain, inPipeline>>
      BY <2>7, MainFrame, PullerFrame, PipelineFrame, ChainFrame
         DEF MainLoop, Puller, mainVars, pullVars
    <3> QED BY <1>3, <3>1 DEF BatchWanted, Height
  <2> QED BY <1>1, <2>1, <2>2, <2>3, <2>4, <2>5, <2>6, <2>7 DEF MainLoop, Puller
<1> QED BY <1>2, <1>3

\* The main loop's view of the index stays right during a tick.
LEMMA PromptIndex ==
    ASSUME PromptPuller, ControlInv, TypeInv, PromptInv, [Next]_vars
    PROVE  /\ mainPc' \in {"batch", "proposal", "locked"}
                 => batchIndex' = next_committed_index'
           /\ mainPc' = "push" /\ Height' > 0
                 => proposalIndex' = next_committed_index'
<1>1. CASE MainLoop
  <2>1. next_committed_index' = next_committed_index
    BY <1>1 DEF MainLoop, BuildFirstBlock, ReadNextIndex, ReadBatch, LockQueue,
                ReadProposal, PushOrderedBlock, PushFails, poolVars
  <2>2. CASE PushOrderedBlock \/ PushFails
    BY <2>2 DEF PushOrderedBlock, PushFails, MainDone
  <2>3. CASE BuildFirstBlock
    <3>1. Height = 0
      BY <2>3, LenProperties, EmptySeq, PipelineConstants
         DEF BuildFirstBlock, ControlInv, ChainInv, Height
    <3>2. mainPc' = "push" /\ chain' = chain
      BY <2>3 DEF BuildFirstBlock, pipeVars
    <3> QED BY <3>1, <3>2 DEF Height
  <2>4. CASE LockQueue
    <3>1. mainPc = "proposal"
      BY <2>4 DEF LockQueue
    <3>2. HasBatch(next_committed_index, commited_queue)
      BY <3>1 DEF PromptInv, BatchWanted
    <3>3. ProposalHasEnough(commited_queue)
      BY <3>2, BatchIsEnough DEF ControlInv, DataInv, PromptInv
    <3>4. mainPc' \in {"dead", "locked"} /\ batchIndex' = batchIndex
      BY <2>4, <3>3 DEF LockQueue
    <3> QED BY <2>1, <3>1, <3>4 DEF PromptInv
  <2>5. CASE ReadProposal
    BY <2>1, <2>5 DEF ReadProposal
  <2>6. CASE ReadNextIndex
    BY <2>1, <2>6 DEF ReadNextIndex
  <2>7. CASE ReadBatch
    BY <2>1, <2>7 DEF ReadBatch, PromptInv
  <2> QED BY <1>1, <2>2, <2>3, <2>4, <2>5, <2>6, <2>7 DEF MainLoop
<1>2. CASE ~MainLoop
  <2>1. UNCHANGED mainVars /\ Height' = Height
    BY <1>2, MainFrame, ChainFrame DEF MainLoop, Height
  <2>2. CASE Building
    <3>1. ~FinishUpdate
      BY <2>2 DEF FinishUpdate, PromptInv
    <3>2. next_committed_index' = next_committed_index
      <4>1. CASE Puller
        BY <3>1, <4>1 DEF Puller, PullExecutedBlock, LockNextIndex, DrainBatch,
                          DrainPanics, HandleEvents, poolVars
      <4> QED BY <4>1, PullerFrame
    <3> QED BY <2>1, <3>2 DEF mainVars, PromptInv
  <2>3. CASE ~Building
    BY <2>1, <2>3 DEF mainVars, Building
  <2> QED BY <2>2, <2>3
<1> QED BY <1>1, <1>2

\* A block with transactions starts from the commit its number says.
LEMMA PromptChain ==
    ASSUME PromptPuller, ControlInv, TypeInv, PromptInv, [Next]_vars
    PROVE  EveryCommitInOneBlock'
<1>1. CASE PushOrderedBlock
  <2>1. mainPc = "push" /\ chain' = Append(chain, NextBlock)
    BY <1>1 DEF PushOrderedBlock
  <2>2. /\ NextBlock.index = proposalIndex
        /\ canonical_block_number = Height
        /\ Height \in Nat
    BY <2>1, NextBlockExtendsTip
  <2>3. /\ \A i \in 1..Height : chain'[i] = chain[i]
        /\ chain'[Height + 1] = NextBlock
        /\ DOMAIN chain = 1..Height /\ DOMAIN chain' = 1..(Height + 1)
    BY <2>1, Appending, LenProperties DEF ControlInv, ChainInv, Height
  <2>4. ASSUME Height > 0 PROVE proposalIndex = 1 + K * (Height - 1)
    <3>1. proposalIndex = next_committed_index /\ pullPc = "pull"
      BY <2>1, <2>4 DEF PromptInv, Building
    <3>2. UpdatedBlocks = Height - 1
      BY <2>2, <2>4, <3>1 DEF UpdatedBlocks, Late
    <3> QED BY <3>1, <3>2 DEF ControlInv, IndexFollowsChain
  <2>5. ASSUME NEW n \in 1..(Height + 1), n > 1
        PROVE  chain'[n].index = 1 + K * (n - 2)
    <3>1. CASE n \in 1..Height
      BY <2>3, <2>5, <3>1 DEF PromptInv, EveryCommitInOneBlock
    <3>2. CASE n = Height + 1
      <4>1. n - 2 = Height - 1 /\ Height > 0
        BY <2>2, <2>5, <3>2
      <4> QED BY <4>1, <2>2, <2>3, <2>4, <3>2
    <3> QED BY <2>2, <3>1, <3>2
  <2> QED BY <2>3, <2>5 DEF EveryCommitInOneBlock
<1>2. CASE ~PushOrderedBlock
  BY <1>2, ChainFrame DEF PromptInv, EveryCommitInOneBlock
<1> QED BY <1>1, <1>2

\* PromptInv is inductive, given ControlInv and TypeInv.
LEMMA PromptStep ==
    ASSUME PromptPuller, ControlInv, TypeInv, PromptInv, [Next]_vars
    PROVE  PromptInv'
<1>1. IsFiniteSet(DOMAIN commited_queue)'
  BY QueueStep DEF PromptInv, TypeInv
<1> QED BY <1>1, PromptNoPanic, PromptAlone, PromptIndex, PromptBatch, PromptChain
        DEF PromptInv

\* With a prompt puller, whatever is lost, repeated or fails to be pushed, each
\* commit is in exactly one block, in order, and neither task panics on the
\* asserts of pool.rs:304 and 337.
THEOREM PromptSafety ==
    PromptPuller => (Spec => [](EveryCommitInOneBlock /\ NoPanic))
<1> SUFFICES ASSUME PromptPuller
             PROVE  Spec => [](EveryCommitInOneBlock /\ NoPanic)
  OBVIOUS
<1> DEFINE Inv == ControlInv /\ TypeInv /\ PromptInv
<1>1. Init => Inv
  BY InitialStates, PromptInit
<1>2. Inv /\ [Next]_vars => Inv'
  BY ControlStep, TypeStep, PromptStep DEF TypeInv
<1>3. Inv => EveryCommitInOneBlock /\ NoPanic
  BY DEF PromptInv
<1> QED BY <1>1, <1>2, <1>3, PTL DEF Spec

\* The result a pull brings carries the epoch its execution ended in.
LEMMA EpochStep ==
    ASSUME TypeInv, EpochInv, [Next]_vars
    PROVE  EpochInv'
<1>1. CASE PullExecutedBlock
  <2>1. /\ pullPc = "pull" /\ pullPc' \in {"update", "events"}
        /\ epoch' = epoch
        /\ chainEpoch' \in {chainEpoch, chainEpoch + 1}
        /\ result'.epoch = IF chainEpoch' = chainEpoch THEN None ELSE chainEpoch'
    BY <1>1 DEF PullExecutedBlock
  <2>2. chainEpoch \in Nat /\ None \notin Nat
    BY SubdagsHaveRounds DEF TypeInv, TypeOK
  <2> QED BY <2>1, <2>2 DEF EpochInv
<1>2. CASE HandleEvents
  <2>1. /\ pullPc = "events" /\ pullPc' = "pull"
        /\ epoch' = IF result.epoch = None THEN epoch ELSE result.epoch
        /\ chainEpoch' = chainEpoch
    BY <1>2 DEF HandleEvents, EpochAfterEvents, execVars
  <2> QED BY <2>1 DEF EpochInv
<1>3. CASE LockNextIndex \/ DrainBatch \/ DrainPanics \/ FinishUpdate
  <2>1. /\ pullPc \notin {"pull", "dead"} /\ pullPc' # "pull"
        /\ UNCHANGED <<epoch, chainEpoch, result>>
    BY <1>3 DEF LockNextIndex, DrainBatch, DrainPanics, FinishUpdate,
                consensusVars, execVars
  <2> QED BY <2>1 DEF EpochInv
<1>4. CASE ~Puller
  <2>1. UNCHANGED <<epoch, result, pullPc>>
    BY <1>4, PullerFrame DEF pullVars
  <2>2. chainEpoch' = chainEpoch
    BY <1>4, ChainEpochFrame DEF Puller
  <2> QED BY <2>1, <2>2 DEF EpochInv
<1> QED BY <1>1, <1>2, <1>3, <1>4 DEF Puller

\* With a prompt puller, a block carries the epoch its parent's execution left
\* the chain in (mysticeti.rs:527-532).
THEOREM PromptEpoch ==
    PromptPuller => (Spec => EpochOfParent)
<1> SUFFICES ASSUME PromptPuller
             PROVE  Spec => EpochOfParent
  OBVIOUS
<1> DEFINE Inv == ControlInv /\ TypeInv /\ PromptInv /\ EpochInv
<1>1. Init => Inv
  <2>1. Init => EpochInv
    BY DEF Init, EpochInv
  <2> QED BY <2>1, InitialStates, PromptInit
<1>2. Inv /\ [Next]_vars => Inv'
  BY ControlStep, TypeStep, PromptStep, EpochStep DEF TypeInv
<1>3. Inv /\ [Next]_vars => [chain' # chain => Last(chain').epoch = chainEpoch]_vars
  <2> SUFFICES ASSUME ControlInv, TypeInv, PromptInv, EpochInv, [Next]_vars,
                      chain' # chain
               PROVE  Last(chain').epoch = chainEpoch
    OBVIOUS
  <2>1. PushOrderedBlock
    BY ChainFrame
  <2>2. mainPc = "push" /\ chain' = Append(chain, NextBlock)
    BY <2>1 DEF PushOrderedBlock
  <2>3. Last(chain') = NextBlock
    BY <2>2, Appending DEF Last, ControlInv, ChainInv
  <2>4. NextBlock.epoch = epoch
    BY DEF NextBlock, build_ordered_block
  <2>5. epoch = chainEpoch
    BY <2>2 DEF PromptInv, Building, EpochInv
  <2> QED BY <2>3, <2>4, <2>5
<1> QED BY <1>1, <1>2, <1>3, PTL DEF Spec, EpochOfParent

-----------------------------------------------------------------------------
(* What the blocks are made of.                                            *)

\* The log of commits is fixed.
LEMMA CommitsFrame ==
    ASSUME [Next]_vars
    PROVE  commits' = commits
<1>1. CASE Feed
  BY <1>1 DEF Feed, SubmitCommittedSubdag, LoseSubmission, ReplayCommits
<1> QED BY <1>1, FeedFrame DEF feedVars

\* Pending transactions change when a result is accounted for.
LEMMA PendingFrame ==
    ASSUME [Next]_vars, ~FinishUpdate
    PROVE  UNCHANGED <<pending_transactions, next_committed_index>>
<1>1. CASE Feed
  BY <1>1 DEF Feed, SubmitCommittedSubdag, LoseSubmission, ReplayCommits, poolVars,
              add_committed_subdags
<1>2. CASE MainLoop
  BY <1>2 DEF MainLoop, BuildFirstBlock, ReadNextIndex, ReadBatch, LockQueue,
              ReadProposal, PushOrderedBlock, PushFails, poolVars
<1>3. CASE Puller
  BY <1>3 DEF Puller, PullExecutedBlock, LockNextIndex, DrainBatch, DrainPanics,
              HandleEvents, poolVars
<1>4. CASE UNCHANGED vars
  BY <1>4 DEF vars, poolVars
<1> QED BY <1>1, <1>2, <1>3, <1>4 DEF Next

\* The accounts change when a block executes.
LEMMA NonceFrame ==
    ASSUME [Next]_vars, ~PullExecutedBlock
    PROVE  accountNonce' = accountNonce
<1>1. CASE Feed
  BY <1>1 DEF Feed, SubmitCommittedSubdag, LoseSubmission, ReplayCommits, execVars
<1>2. CASE MainLoop
  BY <1>2 DEF MainLoop, BuildFirstBlock, ReadNextIndex, ReadBatch, LockQueue,
              ReadProposal, PushOrderedBlock, PushFails, execVars
<1>3. CASE Puller
  BY <1>3 DEF Puller, LockNextIndex, DrainBatch, DrainPanics, FinishUpdate,
              HandleEvents, execVars
<1>4. CASE UNCHANGED vars
  BY <1>4 DEF vars, execVars
<1> QED BY <1>1, <1>2, <1>3, <1>4 DEF Next

\* The commit a submission carries is that of its round.
LEMMA SubmittedRound ==
    ASSUME commits \in CommitLogs, submitted \in Nat, submitted < Len(commits)
    PROVE  /\ submitted + 1 \in 1..Len(commits)
           /\ commits[submitted + 1].round = submitted + 1
<1>1. Len(commits) \in Nat
  BY PipelineConstants, LenProperties
<1>2. submitted + 1 \in 1..Len(commits)
  BY <1>1
<1> QED BY <1>2, PipelineConstants

\* A submission puts its commit into the queue.
LEMMA SubmitQueues ==
    ASSUME DataInv, TypeOK, SubmitCommittedSubdag
    PROVE  /\ submitted + 1 \in 1..Len(commits)
           /\ DOMAIN commited_queue' = DOMAIN commited_queue \cup {submitted + 1}
           /\ \A r \in DOMAIN commited_queue' : commited_queue'[r] =
                 IF r = submitted + 1 THEN commits[submitted + 1] ELSE commited_queue[r]
<1> DEFINE s == commits[submitted + 1]
<1>1. commits \in CommitLogs /\ submitted \in Nat /\ submitted < Len(commits)
  BY LenProperties, PipelineConstants DEF SubmitCommittedSubdag, TypeOK, DataInv
<1>2. s \in Subdags /\ s.round = submitted + 1 /\ submitted + 1 \in 1..Len(commits)
  BY <1>1, Submitted, SubmittedRound
<1>3. commited_queue' = WithSubdags(commited_queue, <<s>>)
  BY DEF SubmitCommittedSubdag, add_committed_subdags
<1> HIDE DEF s
<1> DEFINE with == WithSubdags(commited_queue, <<s>>)
<1>4. /\ DOMAIN with = DOMAIN commited_queue \cup {s.round}
      /\ \A r \in DOMAIN with :
            with[r] = IF r = s.round THEN s ELSE commited_queue[r]
  BY <1>2, AddingOne, Zenon
<1>5. /\ DOMAIN commited_queue' = DOMAIN commited_queue \cup {submitted + 1}
      /\ \A r \in DOMAIN commited_queue' : commited_queue'[r] =
            IF r = submitted + 1 THEN s ELSE commited_queue[r]
  <2> HIDE DEF with
  <2>1. commited_queue' = with
    BY <1>3 DEF with
  <2> QED BY <2>1, <1>2, <1>4
<1> QED BY <1>2, <1>5 DEF s

\* A drain only removes.
LEMMA DrainRemoves ==
    ASSUME DrainBatch \/ DrainPanics
    PROVE  /\ DOMAIN commited_queue' \subseteq DOMAIN commited_queue
           /\ \A r \in DOMAIN commited_queue' : commited_queue'[r] = commited_queue[r]
<1>1. PICK T : /\ T \subseteq DOMAIN commited_queue
               /\ commited_queue' = [r \in T |-> commited_queue[r]]
  BY DEF DrainBatch, DrainPanics, Restrict
<1> QED BY <1>1

\* The queue holds commits of the log.
LEMMA QueueOfLog ==
    ASSUME ControlInv, TypeOK, QueueInv, [Next]_vars
    PROVE  QueueInv'
<1>1. commits' = commits
  BY CommitsFrame
<1>2. CASE SubmitCommittedSubdag
  BY <1>1, <1>2, SubmitQueues DEF ControlInv, QueueInv
<1>3. CASE DrainBatch \/ DrainPanics
  BY <1>1, <1>3, DrainRemoves DEF QueueInv
<1>4. CASE ~SubmitCommittedSubdag /\ ~DrainBatch /\ ~DrainPanics
  BY <1>1, <1>4, QueueFrame DEF QueueInv
<1> QED BY <1>2, <1>3, <1>4

\* A batch of the queue is one of the log.
LEMMA BatchOfLog ==
    ASSUME QueueInv, NEW index \in Nat \ {0}, HasBatch(index, commited_queue)
    PROVE  /\ Batch(index, commited_queue) = Batch(index, commits)
           /\ K > 0 => /\ index + K - 1 \in 1..Len(commits)
                       /\ commited_queue[index + K - 1] = commits[index + K - 1]
<1>1. K \in Nat
  BY BatchSizeIsNat DEF K
<1>2. \A i \in 1..K : index + i - 1 \in BatchRounds(index)
  BY <1>1 DEF BatchRounds
<1>3. \A i \in 1..K : commited_queue[index + i - 1] = commits[index + i - 1]
  BY <1>2 DEF HasBatch, QueueInv
<1>4. K > 0 => index + K - 1 \in BatchRounds(index)
  BY <1>1 DEF BatchRounds
<1> QED BY <1>3, <1>4 DEF Batch, HasBatch, QueueInv

\* Where the index stands: at the batch of the next block while one is pushed,
\* and at that of the last block until this one is settled.
LEMMA IndexOfBlock ==
    ASSUME ControlInv, PromptInv
    PROVE  /\ Height \in Nat
           /\ mainPc = "push" => pullPc = "pull" /\ inPipeline = << >>
           /\ mainPc = "push" /\ Height > 0 => next_committed_index = 1 + K * (Height - 1)
           /\ Unsettled => next_committed_index = 1 + K * (Height - 2)
           /\ pullPc \in {"update", "drain", "finish"} =>
                 Unsettled /\ inPipeline = << >>
<1>1. Height \in Nat
  BY LenProperties DEF ControlInv, ChainInv, Height
<1>2. mainPc = "push" => pullPc = "pull" /\ inPipeline = << >>
  BY DEF PromptInv, Building, ControlInv, PipelineInv
<1>3. ASSUME mainPc = "push", Height > 0
      PROVE  next_committed_index = 1 + K * (Height - 1)
  <2>1. canonical_block_number = Height /\ pullPc = "pull"
    BY <1>2, <1>3 DEF ControlInv, PipelineInv
  <2>2. UpdatedBlocks = Height - 1
    BY <1>1, <1>3, <2>1 DEF UpdatedBlocks, Late
  <2> QED BY <2>2 DEF ControlInv, IndexFollowsChain
<1>4. ASSUME pullPc \in {"update", "drain", "finish"}
      PROVE  Unsettled /\ inPipeline = << >> /\ canonical_block_number = Height
  <2>1. inPipeline = << >> /\ canonical_block_number = Height
    BY <1>4 DEF PromptInv, ControlInv, PipelineInv
  <2>2. Height > 1
    BY <1>4, <2>1 DEF ControlInv, PullerInv, Late
  <2> QED BY <1>4, <2>1, <2>2 DEF Unsettled, Height
<1>5. ASSUME Unsettled PROVE next_committed_index = 1 + K * (Height - 2)
  <2>1. Height > 1
    BY <1>5 DEF Unsettled, Height
  <2>2. CASE inPipeline # << >>
    <3>1. canonical_block_number = Height - 1 /\ pullPc = "pull"
      BY <2>2 DEF ControlInv, PipelineInv, PromptInv
    <3>2. UpdatedBlocks = Height - 2
      BY <1>1, <2>1, <3>1 DEF UpdatedBlocks, Late
    <3> QED BY <3>2 DEF ControlInv, IndexFollowsChain
  <2>3. CASE inPipeline = << >>
    <3>1. pullPc \in {"update", "drain", "finish"} /\ canonical_block_number = Height
      BY <1>5, <2>3, <1>4 DEF Unsettled
    <3>2. UpdatedBlocks = Height - 2
      BY <1>1, <2>1, <3>1 DEF UpdatedBlocks, Late
    <3> QED BY <3>2 DEF ControlInv, IndexFollowsChain
  <2> QED BY <2>2, <2>3
<1> QED BY <1>1, <1>2, <1>3, <1>4, <1>5

\* The push of a block appends it.
LEMMA PushAppends ==
    ASSUME ControlInv, PushOrderedBlock
    PROVE  /\ mainPc = "push" /\ mainPc' = "tick"
           /\ Height' = Height + 1
           /\ \A i \in 1..Height : chain'[i] = chain[i]
           /\ chain'[Height + 1] = NextBlock
           /\ NextBlock.transactions = proposal
           /\ NextBlock.timestamp = Secs(lastSubdag.timestamp_ms)
           /\ inPipeline' # << >>
           /\ proposal' = << >>
           /\ UNCHANGED <<pullPc, poolVars, execVars, feedVars>>
<1>1. mainPc = "push" /\ chain' = Append(chain, NextBlock)
  BY DEF PushOrderedBlock
<1>2. /\ Height' = Height + 1
      /\ \A i \in 1..Height : chain'[i] = chain[i]
      /\ chain'[Height + 1] = NextBlock
  BY <1>1, Appending DEF ControlInv, ChainInv, Height
<1>3. /\ NextBlock.transactions = proposal
      /\ NextBlock.timestamp = Secs(lastSubdag.timestamp_ms)
  BY DEF NextBlock, build_ordered_block
<1>4. inPipeline' # << >>
  <2>1. inPipeline = << >>
    BY <1>1 DEF ControlInv, PipelineInv, Building
  <2>2. inPipeline' = <<NextBlock>>
    BY <2>1 DEF PushOrderedBlock
  <2> QED BY <2>2
<1> QED BY <1>1, <1>2, <1>3, <1>4 DEF PushOrderedBlock, MainDone, pullVars

\* A block but the first is made of a complete batch.
LEMMA BatchesStep ==
    ASSUME PromptPuller, ControlInv, TypeInv, PromptInv, LedgerInv, [Next]_vars
    PROVE  BatchesInv'
<1>1. commits' = commits
  BY CommitsFrame
<1>2. CASE PushOrderedBlock /\ Height > 0
  <2>1. mainPc = "push" /\ Height' = Height + 1
    BY <1>2, PushAppends
  <2>2. /\ K > 0 /\ K \in Nat
        /\ Height \in Nat /\ next_committed_index = 1 + K * (Height - 1)
    BY <1>2, <2>1, IndexOfBlock, BatchSizeIsNat DEF LedgerInv, BuildInv, K
  <2>3. HasBatch(next_committed_index, commited_queue)
    BY <1>2, <2>1 DEF PromptInv, BatchWanted
  <2>4. next_committed_index + K - 1 \in 1..Len(commits)
    BY <2>2, <2>3, BatchOfLog DEF LedgerInv, ControlInv, DataInv
  <2>5. next_committed_index + K - 1 = K * Height
    BY <2>2
  <2>6. Height' - 1 = Height
    BY <2>1, <2>2
  <2>7. K * Height <= Len(commits)
    BY <2>4, <2>5
  <2> QED BY <1>1, <2>2, <2>6, <2>7 DEF BatchesInv
<1>3. CASE PushOrderedBlock /\ ~(Height > 0)
  BY <1>3, PushAppends, IndexOfBlock DEF BatchesInv
<1>4. CASE ~PushOrderedBlock
  BY <1>1, <1>4, ChainFrame DEF LedgerInv, BatchesInv, Height
<1> QED BY <1>2, <1>3, <1>4

\* What the main loop holds is the batch at the index, and what is pending.
LEMMA BuildStep ==
    ASSUME PromptPuller, ControlInv, TypeInv, PromptInv, LedgerInv, [Next]_vars
    PROVE  BuildInv'
<1>1. commits' = commits
  BY CommitsFrame
<1>2. CASE PushOrderedBlock \/ PushFails
  BY <1>2 DEF PushOrderedBlock, PushFails, MainDone, BuildInv
<1>3. CASE BuildFirstBlock
  <2>1. Height' = 0
    BY <1>3, LenProperties, EmptySeq, PipelineConstants
       DEF BuildFirstBlock, ControlInv, ChainInv, Height, pipeVars
  <2>2. mainPc = "tick" /\ mainPc' = "push" /\ proposal' = proposal
    BY <1>3 DEF BuildFirstBlock, Tick
  <2> QED BY <2>1, <2>2 DEF BuildInv, LedgerInv
<1>4. CASE ReadNextIndex
  BY <1>4 DEF ReadNextIndex, Tick, BuildInv, LedgerInv
<1>5. CASE ReadBatch
  <2>1. mainPc = "batch" /\ mainPc' \in {"dead", "tick", "proposal"} /\ proposal' = proposal
    BY <1>5 DEF ReadBatch
  <2>2. ASSUME mainPc' = "proposal"
        PROVE  K > 0 /\ lastSubdag' = commits'[batchIndex' + K - 1]
    <3>1. /\ next_committed_subdag_batch(batchIndex, commited_queue) # None
          /\ lastSubdag' = next_committed_subdag_batch(batchIndex, commited_queue)[2]
          /\ batchIndex' = batchIndex
      BY <1>5, <2>2 DEF ReadBatch
    <3>2. HasBatch(batchIndex, commited_queue) /\ K > 0
          /\ lastSubdag' = commited_queue[batchIndex + K - 1]
      BY <3>1 DEF next_committed_subdag_batch
    <3>3. batchIndex \in Nat \ {0}
      BY <2>1 DEF PromptInv, ControlInv, DataInv
    <3> QED BY <1>1, <3>1, <3>2, <3>3, BatchOfLog DEF LedgerInv
  <2> QED BY <2>1, <2>2 DEF BuildInv, LedgerInv
<1>6. CASE LockQueue
  <2>1. mainPc = "proposal" /\ UNCHANGED <<batchIndex, lastSubdag, proposal>>
    BY <1>6 DEF LockQueue
  <2>2. HasBatch(next_committed_index, commited_queue)
    BY <2>1 DEF PromptInv, BatchWanted
  <2>3. ProposalHasEnough(commited_queue)
    BY <2>2, BatchIsEnough DEF ControlInv, DataInv, PromptInv
  <2>4. mainPc' \in {"dead", "locked"}
    BY <1>6, <2>3 DEF LockQueue
  <2> QED BY <1>1, <2>1, <2>4 DEF BuildInv, LedgerInv
<1>7. CASE ReadProposal
  <2>1. mainPc = "locked" /\ UNCHANGED <<batchIndex, lastSubdag, poolVars>>
    BY <1>7 DEF ReadProposal
  <2>2. HasBatch(next_committed_index, commited_queue)
    BY <2>1 DEF PromptInv, BatchWanted
  <2>3. /\ mainPc' = "push"
        /\ proposal' = create_proposal_transactions(
                           pending_transactions, Batch(next_committed_index, commited_queue))
    BY <1>7, <2>2 DEF ReadProposal, get_proposal_transactions
  <2>4. Batch(next_committed_index, commited_queue) = Batch(next_committed_index, commits)
    BY <2>2, BatchOfLog DEF LedgerInv, ControlInv, DataInv
  <2>5. K > 0 /\ lastSubdag = commits[next_committed_index + K - 1]
    BY <2>1 DEF LedgerInv, BuildInv, PromptInv
  <2>6. Height' > 0
    BY <1>7, <2>1, ChainFrame DEF ReadProposal, pipeVars, Height, ControlInv, PipelineInv
  <2> QED BY <1>1, <2>1, <2>3, <2>4, <2>5, <2>6 DEF BuildInv, poolVars
<1>8. CASE ~MainLoop
  <2>1. UNCHANGED mainVars /\ Height' = Height
    BY <1>8, MainFrame, ChainFrame DEF MainLoop, Height
  <2>2. CASE FinishUpdate
    <3>1. mainPc \notin {"proposal", "locked", "push"}
      BY <2>2 DEF FinishUpdate, PromptInv, Building
    <3> QED BY <2>1, <3>1 DEF mainVars, LedgerInv, BuildInv
  <2>3. CASE ~FinishUpdate
    BY <1>1, <2>1, <2>3, PendingFrame DEF mainVars, LedgerInv, BuildInv
  <2> QED BY <2>2, <2>3
<1> QED BY <1>2, <1>3, <1>4, <1>5, <1>6, <1>7, <1>8 DEF MainLoop

\* Until a block is settled its proposal is that of the pool.
LEMMA SettleStep ==
    ASSUME PromptPuller, ControlInv, TypeInv, PromptInv, LedgerInv, [Next]_vars
    PROVE  SettleInv'
<1>1. commits' = commits
  BY CommitsFrame
<1> DEFINE Settles == create_proposal_transactions(
                          pending_transactions, Batch(next_committed_index, commits))
<1>2. CASE PushOrderedBlock
  <2>1. /\ mainPc = "push" /\ Height \in Nat /\ Height' = Height + 1
        /\ chain'[Height + 1] = NextBlock /\ NextBlock.transactions = proposal
        /\ UNCHANGED <<pullPc, pending_transactions, next_committed_index>>
        /\ pullPc = "pull"
    BY <1>2, PushAppends, IndexOfBlock DEF poolVars
  <2>2. ASSUME Unsettled' PROVE chain'[Height'].transactions = Settles'
    <3>1. Height > 0
      BY <2>1, <2>2 DEF Unsettled, Height
    <3>2. proposal = Settles
      BY <2>1, <3>1 DEF LedgerInv, BuildInv
    <3>3. Settles' = Settles
      BY <1>1, <2>1 DEF Batch
    <3> QED BY <2>1, <3>2, <3>3
  <2> QED BY <2>1, <2>2 DEF SettleInv
<1>3. CASE PullExecutedBlock
  <2>1. Height > 1 => Unsettled
    BY <1>3 DEF PullExecutedBlock, Unsettled, Height
  <2>2. /\ UNCHANGED <<chain, pending_transactions, next_committed_index>>
        /\ pullPc' = IF Height > 1 THEN "update" ELSE "events"
        /\ inPipeline' = << >>
    BY <1>3, PullTakesTip DEF PullExecutedBlock, poolVars
  <2>3. Unsettled' => Height > 1
    BY <2>2 DEF Unsettled, Height
  <2>4. Settles' = Settles
    BY <1>1, <2>2 DEF Batch
  <2>5. Height' = Height /\ pullPc' # "finish"
    BY <2>2 DEF Height
  <2> QED BY <2>1, <2>2, <2>3, <2>4, <2>5 DEF SettleInv, LedgerInv
<1>4. CASE FinishUpdate
  <2>1. inPipeline' = << >> /\ pullPc' = "events"
    BY <1>4, IndexOfBlock DEF FinishUpdate, pipeVars
  <2> QED BY <2>1 DEF SettleInv, Unsettled
<1>5. CASE ~PushOrderedBlock /\ ~PullExecutedBlock /\ ~FinishUpdate
  <2>1. UNCHANGED <<chain, inPipeline, pending_transactions, next_committed_index, commits>>
    BY <1>1, <1>5, ChainFrame, PipelineFrame, PendingFrame
  <2>2. Settles' = Settles /\ Height' = Height
    BY <2>1 DEF Batch, Height
  <2>3. CASE LockNextIndex \/ HandleEvents \/ DrainPanics
    <3>1. /\ pullPc' # "finish"
          /\ pullPc' \in {"update", "drain", "finish"}
                => pullPc \in {"update", "drain", "finish"}
      BY <2>3 DEF LockNextIndex, HandleEvents, DrainPanics
    <3>2. Unsettled' => Unsettled
      BY <2>1, <3>1 DEF Unsettled
    <3> QED BY <2>1, <2>2, <3>1, <3>2 DEF SettleInv, LedgerInv
  <2>4. CASE DrainBatch
    <3>1. /\ pullPc = "drain"
          /\ HasBatch(next_committed_index, commited_queue)
          /\ batch' = Batch(next_committed_index, commited_queue)
      BY <2>4 DEF DrainBatch
    <3>2. batch' = Batch(next_committed_index, commits)
      BY <3>1, BatchOfLog DEF LedgerInv, ControlInv, DataInv
    <3>3. Batch(next_committed_index, commits)' = Batch(next_committed_index, commits)
      BY <2>1 DEF Batch
    <3>4. Unsettled
      BY <3>1, IndexOfBlock
    <3> QED BY <2>1, <2>2, <3>2, <3>3, <3>4 DEF SettleInv, LedgerInv
  <2>5. CASE ~Puller
    <3>1. UNCHANGED <<pullPc, batch>>
      BY <2>5, PullerFrame DEF pullVars
    <3>2. Unsettled' = Unsettled
      BY <2>1, <3>1 DEF Unsettled
    <3>3. Batch(next_committed_index, commits)' = Batch(next_committed_index, commits)
      BY <2>1 DEF Batch
    <3> QED BY <2>1, <2>2, <3>1, <3>2, <3>3 DEF SettleInv, LedgerInv
  <2> QED BY <1>5, <2>3, <2>4, <2>5 DEF Puller
<1> QED BY <1>2, <1>3, <1>4, <1>5

\* An empty block executes nothing.
LEMMA EmptyBlock ==
    ASSUME NEW nonces
    PROVE  Executed(nonces, << >>) = {}
<1>1. DOMAIN << >> = {}
  OBVIOUS
<1> QED BY <1>1 DEF Executed

LEMMA AdvanceByNothing ==
    ASSUME NEW S
    PROVE  Advance([s \in S |-> 0], {}) = [s \in S |-> 0]
<1>1. Cardinality({}) = 0
  BY FS_EmptySet
<1>2. \A s : {tx \in {} : tx.sender = s} = {}
  OBVIOUS
<1> QED BY <1>1, <1>2 DEF Advance

\* The first block is empty, and its execution leaves the accounts as they were.
LEMMA FirstBlockStep ==
    ASSUME PromptPuller, ControlInv, TypeInv, PromptInv, LedgerInv, [Next]_vars
    PROVE  FirstBlockInv'
<1>1. commits' = commits /\ Height \in Nat
  BY CommitsFrame, IndexOfBlock
<1>2. CASE PushOrderedBlock
  <2>1. /\ mainPc = "push" /\ Height' = Height + 1 /\ accountNonce' = accountNonce
        /\ \A i \in 1..Height : chain'[i] = chain[i]
        /\ chain'[Height + 1].transactions = proposal
    BY <1>2, PushAppends DEF execVars
  <2>2. chain'[1].transactions = << >>
    <3>1. CASE Height = 0
      BY <2>1, <3>1 DEF LedgerInv, BuildInv
    <3>2. CASE Height > 0
      BY <1>1, <2>1, <3>2 DEF LedgerInv, FirstBlockInv
    <3> QED BY <1>1, <3>1, <3>2
  <2>3. Height' <= 1 => accountNonce' = [s \in Senders(commits) |-> 0]
    BY <1>1, <2>1 DEF LedgerInv, FirstBlockInv
  <2> QED BY <1>1, <2>2, <2>3 DEF FirstBlockInv
<1>3. CASE PullExecutedBlock
  <2>1. Height > 0 /\ chain' = chain /\ Height' = Height
    BY <1>3, PullTakesTip DEF Height
  <2>2. ASSUME Height = 1 PROVE accountNonce' = [s \in Senders(commits) |-> 0]
    <3>1. inPipeline = <<chain[1]>>
      BY <1>3, <2>2 DEF PullExecutedBlock, ControlInv, PipelineInv
    <3>2. Head(inPipeline).transactions = << >>
      BY <2>2, <3>1 DEF LedgerInv, FirstBlockInv
    <3>3. accountNonce' = Advance(accountNonce, Executed(accountNonce, << >>))
      BY <1>3, <3>2 DEF PullExecutedBlock
    <3>4. accountNonce = [s \in Senders(commits) |-> 0]
      BY <2>2 DEF LedgerInv, FirstBlockInv
    <3> QED BY <3>3, <3>4, EmptyBlock, AdvanceByNothing
  <2> QED BY <1>1, <2>1, <2>2 DEF LedgerInv, FirstBlockInv
<1>4. CASE ~PushOrderedBlock /\ ~PullExecutedBlock
  BY <1>1, <1>4, ChainFrame, NonceFrame DEF LedgerInv, FirstBlockInv, Height
<1> QED BY <1>2, <1>3, <1>4

\* LedgerInv is inductive, given the other invariants.
LEMMA LedgerStep ==
    ASSUME PromptPuller, ControlInv, TypeInv, PromptInv, LedgerInv, [Next]_vars
    PROVE  LedgerInv'
BY QueueOfLog, BatchesStep, BuildStep, SettleStep, FirstBlockStep DEF LedgerInv, TypeInv

LEMMA LedgerStart ==
    ASSUME Init
    PROVE  LedgerInv
<1>1. chain = << >> /\ Height = 0 /\ DOMAIN commited_queue = {}
  BY EmptySeq DEF Init, PoolInit, Height
<1> QED BY <1>1 DEF Init, LedgerInv, QueueInv, BatchesInv, BuildInv, SettleInv,
                    FirstBlockInv, Unsettled

-----------------------------------------------------------------------------
(* The blocks are those of the abstract ledger.                            *)

\* The batch at the index of the n-th one is the ledger's n-th.
LEMMA LedgerBatch ==
    ASSUME NEW log, NEW n \in Nat
    PROVE  Batch(1 + K * (n - 1), log) = Ledger!BatchOf(log, n)
<1>1. K \in Nat
  BY BatchSizeIsNat DEF K
<1>2. \A i \in 1..K : 1 + K * (n - 1) + i - 1 = (n - 1) * K + i
  BY <1>1
<1>3. Ledger!BatchOf(log, n) = [i \in 1..K |-> log[(n - 1) * K + i]]
  BY DEF Ledger!BatchOf
<1> QED BY <1>2, <1>3 DEF Batch

\* A step that leaves the blocks alone, and what settles the last one.
LEMMA LedgerStutters ==
    ASSUME UNCHANGED <<commits, chain, inPipeline, accountNonce, pending_transactions>>,
           Unsettled' = Unsettled, Unsettled => LastMined' = LastMined
    PROVE  UNCHANGED Ledger!vars
<1>1. LedgerBlocks' = LedgerBlocks
  BY DEF LedgerBlocks
<1>2. LedgerPending' = LedgerPending
  BY DEF LedgerPending
<1>3. LedgerNonces' = LedgerNonces
  BY DEF LedgerNonces, Unsettled
<1> QED BY <1>1, <1>2, <1>3 DEF Ledger!vars

\* A push of a block with a batch orders the next block of the ledger.
LEMMA LedgerPush ==
    ASSUME PromptPuller, ControlInv, TypeInv, PromptInv, LedgerInv, [Next]_vars,
           PushOrderedBlock, Height > 0
    PROVE  Ledger!OrderNextBlock
<1>1. /\ mainPc = "push" /\ pullPc = "pull" /\ inPipeline = << >>
      /\ Height \in Nat /\ Height' = Height + 1
      /\ \A i \in 1..Height : chain'[i] = chain[i]
      /\ chain'[Height + 1].transactions = proposal
      /\ chain'[Height + 1].timestamp = Secs(lastSubdag.timestamp_ms)
      /\ inPipeline' # << >>
      /\ UNCHANGED <<commits, pending_transactions, accountNonce>>
      /\ next_committed_index = 1 + K * (Height - 1)
  BY PushAppends, IndexOfBlock DEF poolVars, execVars, feedVars
<1>2. /\ K > 0 /\ K \in Nat
      /\ lastSubdag = commits[next_committed_index + K - 1]
      /\ proposal = create_proposal_transactions(
                        pending_transactions, Batch(next_committed_index, commits))
  BY <1>1, BatchSizeIsNat DEF LedgerInv, BuildInv, K
<1> DEFINE batchOf == Ledger!BatchOf(commits, Height)
           block == [transactions |-> proposal,
                     timestamp |-> commits[Height * K].timestamp_ms \div 1000]
           executed == Executed(accountNonce, proposal)
<1>3. proposal = create_proposal_transactions(pending_transactions, batchOf)
  BY <1>1, <1>2, LedgerBatch
<1>4. next_committed_index + K - 1 = Height * K
  BY <1>1, <1>2
<1>5. Height * K <= Len(commits)
  <2>1. BatchesInv'
    BY BatchesStep
  <2>2. K * (Height' - 1) <= Len(commits)
    BY <1>1, <2>1 DEF BatchesInv
  <2> QED BY <1>1, <1>2, <2>2
<1>6. LedgerBlocks' = Append(LedgerBlocks, block) /\ Len(LedgerBlocks) = Height - 1
  <2>1. LedgerBlocks = [n \in 1..(Height - 1) |-> [transactions |-> chain[n + 1].transactions,
                                                  timestamp |-> chain[n + 1].timestamp]]
    BY DEF LedgerBlocks, Height
  <2>2. LedgerBlocks' = [n \in 1..Height |-> [transactions |-> chain'[n + 1].transactions,
                                             timestamp |-> chain'[n + 1].timestamp]]
    BY <1>1 DEF LedgerBlocks, Height
  <2>3. Len(LedgerBlocks) = Height - 1
    BY <1>1, <2>1
  <2>4. Append(LedgerBlocks, block) =
           [n \in 1..Height |-> IF n = Height THEN block ELSE LedgerBlocks[n]]
    BY <1>1, <2>1, <2>3
  <2>5. LedgerBlocks'[Height] = block
    BY <1>1, <1>2, <1>4, <2>2 DEF Secs
  <2>6. \A n \in 1..(Height - 1) : LedgerBlocks'[n] = LedgerBlocks[n]
    BY <1>1, <2>1, <2>2
  <2>7. \A n \in 1..Height : LedgerBlocks'[n] = IF n = Height THEN block ELSE LedgerBlocks[n]
    BY <1>1, <2>5, <2>6
  <2>8. LedgerBlocks' = [n \in 1..Height |-> LedgerBlocks'[n]]
    BY <2>2
  <2> HIDE DEF block
  <2> QED BY <2>3, <2>4, <2>7, <2>8
<1>7. LedgerPending = pending_transactions /\ LedgerNonces = accountNonce
  BY <1>1 DEF LedgerPending, LedgerNonces, Unsettled
<1>8. Len(chain') > 1 /\ Unsettled' /\ LastMined' = executed
  <2>1. Len(chain') > 1 /\ Last(chain') = chain'[Height + 1]
    BY <1>1 DEF Height, Last
  <2> QED BY <1>1, <2>1 DEF Unsettled, LastMined
<1>9. Last(chain').transactions = proposal
  BY <1>1 DEF Height, Last
<1>10. LedgerPending' = Without(proposal, executed)
  BY <1>8, <1>9 DEF LedgerPending
<1>11. LedgerNonces' = Advance(accountNonce, executed)
  BY <1>1, <1>8 DEF LedgerNonces
<1>12. Len(LedgerBlocks) + 1 = Height
  BY <1>1, <1>6
<1> HIDE DEF block
<1> QED BY <1>1, <1>2, <1>3, <1>5, <1>6, <1>7, <1>10, <1>11, <1>12
        DEF Ledger!OrderNextBlock, block

\* The execution of a block and the settling of it were the ledger's already.
LEMMA LedgerPull ==
    ASSUME PromptPuller, ControlInv, TypeInv, PromptInv, LedgerInv, [Next]_vars,
           PullExecutedBlock
    PROVE  UNCHANGED Ledger!vars
<1>1. /\ Height \in Nat \ {0} /\ inPipeline' = << >> /\ inPipeline # << >>
      /\ pullPc' = IF Height > 1 THEN "update" ELSE "events"
      /\ UNCHANGED <<chain, commits, pending_transactions>>
  BY PullTakesTip, CommitsFrame, PendingFrame
     DEF PullExecutedBlock, FinishUpdate
<1>2. Last(chain) = chain[Height] /\ Head(inPipeline) = chain[Height]
  BY <1>1 DEF Last, Height, ControlInv, PipelineInv
<1>3. LedgerBlocks' = LedgerBlocks
  BY <1>1 DEF LedgerBlocks
<1>4. CASE Height > 1
  <2>1. /\ Unsettled /\ Unsettled'
        /\ LastMined = Executed(accountNonce, chain[Height].transactions)
    BY <1>1, <1>2, <1>4 DEF Unsettled, LastMined, Height
  <2>2. result'.txs = LastMined /\ accountNonce' = Advance(accountNonce, LastMined)
    BY <1>2, <2>1 DEF PullExecutedBlock
  <2>3. LastMined' = LastMined
    BY <1>1, <2>2 DEF LastMined
  <2>4. LedgerPending' = LedgerPending
    BY <1>1, <2>1, <2>3 DEF LedgerPending
  <2>5. LedgerNonces' = LedgerNonces
    BY <1>1, <1>4, <2>2 DEF LedgerNonces, Height
  <2> QED BY <1>1, <1>3, <2>4, <2>5 DEF Ledger!vars
<1>5. CASE Height = 1
  <2>1. ~Unsettled /\ ~Unsettled' /\ ~(Len(chain) > 1) /\ ~(Len(chain') > 1)
    BY <1>1, <1>5 DEF Unsettled, Height
  <2>2. accountNonce' = accountNonce
    <3>1. FirstBlockInv'
      BY FirstBlockStep
    <3>2. Height' = Height
      BY <1>1 DEF Height
    <3> QED BY <1>1, <1>5, <3>1, <3>2 DEF LedgerInv, FirstBlockInv
  <2>3. LedgerPending' = LedgerPending /\ LedgerNonces' = LedgerNonces
    BY <1>1, <2>1, <2>2 DEF LedgerPending, LedgerNonces
  <2> QED BY <1>1, <1>3, <2>3 DEF Ledger!vars
<1> QED BY <1>1, <1>4, <1>5

LEMMA LedgerFinish ==
    ASSUME PromptPuller, ControlInv, TypeInv, PromptInv, LedgerInv, [Next]_vars,
           FinishUpdate
    PROVE  UNCHANGED Ledger!vars
<1>1. /\ Unsettled /\ inPipeline = << >> /\ pullPc' = "events"
      /\ Height \in Nat
      /\ UNCHANGED <<chain, commits, inPipeline, accountNonce, result>>
  BY IndexOfBlock, CommitsFrame DEF FinishUpdate, pipeVars, execVars
<1>2. Last(chain) = chain[Height] /\ ~Unsettled'
  BY <1>1 DEF Unsettled, Last, Height
<1>3. /\ pullPc = "finish"
      /\ pending_transactions' =
             Unmined(create_proposal_transactions(pending_transactions, batch), result.txs)
  BY DEF FinishUpdate
<1>4. chain[Height].transactions = create_proposal_transactions(pending_transactions, batch)
  BY <1>1, <1>3 DEF LedgerInv, SettleInv
<1>5. LastMined = result.txs
  BY <1>1 DEF LastMined
<1>6. LedgerPending' = LedgerPending
  BY <1>1, <1>2, <1>3, <1>4, <1>5 DEF LedgerPending, Unmined
<1>7. LedgerBlocks' = LedgerBlocks /\ LedgerNonces' = LedgerNonces
  BY <1>1 DEF LedgerBlocks, LedgerNonces
<1> QED BY <1>1, <1>6, <1>7 DEF Ledger!vars

\* Every step orders the next block of the ledger, or none.
LEMMA LedgerNext ==
    ASSUME PromptPuller, ControlInv, TypeInv, PromptInv, LedgerInv, [Next]_vars
    PROVE  [Ledger!OrderNextBlock]_(Ledger!vars)
<1>1. CASE PushOrderedBlock
  <2>1. CASE Height > 0
    BY <1>1, <2>1, LedgerPush
  <2>2. CASE Height = 0
    <3>1. /\ Height' = 1 /\ pullPc' = pullPc /\ mainPc = "push"
          /\ pullPc = "pull" /\ inPipeline = << >>
          /\ UNCHANGED <<commits, pending_transactions, accountNonce>>
      BY <1>1, <2>2, PushAppends, IndexOfBlock DEF poolVars, execVars, feedVars
    <3>2. ~Unsettled /\ ~Unsettled' /\ ~(Len(chain) > 1) /\ ~(Len(chain') > 1)
      BY <2>2, <3>1 DEF Unsettled, Height
    <3>3. LedgerPending' = LedgerPending /\ LedgerNonces' = LedgerNonces
      BY <3>1, <3>2 DEF LedgerPending, LedgerNonces
    <3>4. LedgerBlocks' = LedgerBlocks
      BY <2>2, <3>1 DEF LedgerBlocks, Height
    <3> QED BY <3>1, <3>3, <3>4 DEF Ledger!vars
  <2> QED BY <2>1, <2>2, IndexOfBlock
<1>2. CASE PullExecutedBlock
  BY <1>2, LedgerPull
<1>3. CASE FinishUpdate
  BY <1>3, LedgerFinish
<1>4. CASE ~PushOrderedBlock /\ ~PullExecutedBlock /\ ~FinishUpdate
  <2>1. UNCHANGED <<commits, chain, inPipeline, accountNonce, pending_transactions>>
    BY <1>4, CommitsFrame, ChainFrame, PipelineFrame, NonceFrame, PendingFrame
  <2>2. CASE LockNextIndex \/ DrainBatch
    <3>1. /\ {pullPc, pullPc'} \subseteq {"update", "drain", "finish"}
          /\ result' = result
      BY <2>2 DEF LockNextIndex, DrainBatch
    <3> QED BY <2>1, <3>1, LedgerStutters DEF Unsettled, LastMined
  <2>3. CASE HandleEvents
    <3>1. inPipeline = << >> /\ {pullPc, pullPc'} = {"events", "pull"}
      BY <2>3 DEF HandleEvents, PromptInv
    <3>2. ~Unsettled /\ ~Unsettled'
      BY <2>1, <3>1 DEF Unsettled
    <3>3. Unsettled' = Unsettled
      BY <3>2 DEF Unsettled
    <3> QED BY <2>1, <3>2, <3>3, LedgerStutters
  <2>4. CASE ~Puller
    <3>1. UNCHANGED <<pullPc, result>>
      BY <2>4, PullerFrame DEF pullVars
    <3> QED BY <2>1, <3>1, LedgerStutters DEF Unsettled, LastMined
  <2>5. ~DrainPanics
    BY DEF DrainPanics, HasBatch, PromptInv, BatchWanted
  <2> QED BY <1>4, <2>2, <2>3, <2>4, <2>5 DEF Puller
<1> QED BY <1>1, <1>2, <1>3, <1>4

\* With a prompt puller, whatever is lost, repeated or fails to be pushed, the
\* blocks ordered are those the abstract ledger makes of the log of commits.
THEOREM RefinesLedger ==
    PromptPuller => (Spec => ImplementsLedger)
<1> SUFFICES ASSUME PromptPuller
             PROVE  Spec => ImplementsLedger
  OBVIOUS
<1> DEFINE Inv == ControlInv /\ TypeInv /\ PromptInv /\ LedgerInv
<1>1. Init => Inv
  BY InitialStates, PromptInit, LedgerStart
<1>2. Inv /\ [Next]_vars => Inv'
  BY ControlStep, TypeStep, PromptStep, LedgerStep DEF TypeInv
<1>3. Init => Ledger!Init
  <2> SUFFICES ASSUME Init PROVE Ledger!Init
    OBVIOUS
  <2>1. chain = << >> /\ inPipeline = << >> /\ Len(chain) = 0
    BY EmptySeq DEF Init
  <2>2. LedgerBlocks = << >>
    BY <2>1 DEF LedgerBlocks
  <2>3. LedgerPending = << >> /\ LedgerNonces = accountNonce
    BY <2>1 DEF LedgerPending, LedgerNonces, Unsettled, Init, PoolInit
  <2> QED BY <2>2, <2>3 DEF Ledger!Init, Init
<1>4. Inv /\ [Next]_vars => [Ledger!OrderNextBlock]_(Ledger!vars)
  BY LedgerNext
<1> QED BY <1>1, <1>2, <1>3, <1>4, PTL DEF Spec, ImplementsLedger, Ledger!Spec

-----------------------------------------------------------------------------
(* Timestamps.                                                             *)

\* Without losses the queue of a client that has not ordered a block has no gaps.
LEMMA NoGapsStep ==
    ASSUME PromptPuller, ControlInv, TypeInv, PromptInv, LedgerInv, StampInv, [Next]_vars
    PROVE  lost' \in Nat /\ NoGaps'
<1>1. CASE SubmitCommittedSubdag
  <2>1. /\ submitted' = submitted + 1
        /\ UNCHANGED <<lost, chain>>
        /\ submitted \in Nat
    BY <1>1, PipelineConstants, LenProperties
       DEF SubmitCommittedSubdag, pipeVars, TypeInv, TypeOK, ControlInv, DataInv
  <2>2. DOMAIN commited_queue' = DOMAIN commited_queue \cup {submitted + 1}
    BY <1>1, SubmitQueues DEF ControlInv, TypeInv
  <2>3. ASSUME Height = 0, lost = 0
        PROVE  /\ 1..(submitted + 1) \subseteq DOMAIN commited_queue'
               /\ \A r \in DOMAIN commited_queue' : 1..r \subseteq DOMAIN commited_queue'
    <3>1. 1..submitted \subseteq DOMAIN commited_queue
      BY <2>3 DEF StampInv, NoGaps
    <3>2. 1..(submitted + 1) = 1..submitted \cup {submitted + 1}
      BY <2>1
    <3>3. \A r \in DOMAIN commited_queue : 1..r \subseteq DOMAIN commited_queue
      BY <2>3 DEF StampInv, NoGaps
    <3> QED BY <2>2, <3>1, <3>2, <3>3
  <2> QED BY <2>1, <2>3 DEF NoGaps, StampInv, Height
<1>2. CASE LoseSubmission
  <2>1. ~poisoned
    BY DEF ControlInv, PullerInv, PromptInv, NoPanic
  <2>2. lost' = lost + 1
    BY <1>2, <2>1 DEF LoseSubmission
  <2> QED BY <2>2 DEF NoGaps, StampInv
<1>3. CASE ReplayCommits
  <2>1. submitted' = 0 /\ UNCHANGED <<lost, chain, commited_queue>>
    BY <1>3 DEF ReplayCommits, pipeVars, poolVars
  <2>2. 1..0 = {}
    OBVIOUS
  <2> QED BY <2>1, <2>2 DEF NoGaps, StampInv, Height
<1>4. CASE ~Feed
  <2>1. UNCHANGED <<lost, submitted>>
    BY <1>4, FeedFrame DEF feedVars
  <2>2. CASE DrainBatch \/ DrainPanics
    <3>1. Unsettled /\ chain' = chain
      BY <2>2, IndexOfBlock DEF DrainBatch, DrainPanics, pipeVars
    <3>2. Height' # 0
      BY <3>1 DEF Unsettled, Height
    <3> QED BY <2>1, <3>2 DEF NoGaps, StampInv
  <2>3. CASE ~DrainBatch /\ ~DrainPanics
    <3>1. commited_queue' = commited_queue
      BY <1>4, <2>3, QueueFrame DEF Feed
    <3>2. Height' = 0 => Height = 0
      BY ChainFrame, PushAppends, IndexOfBlock DEF Height
    <3> QED BY <2>1, <3>1, <3>2 DEF NoGaps, StampInv
  <2> QED BY <2>2, <2>3
<1> QED BY <1>1, <1>2, <1>3, <1>4 DEF Feed

\* The lowest commit with a timestamp is the first of the log that has one.
LEMMA FirstOfQueue ==
    ASSUME ControlInv, QueueInv, NoGaps, Height = 0, lost = 0,
           get_fist_committed_subdag(commited_queue) # None
    PROVE  FirstStamp(commits, Secs(get_fist_committed_subdag(commited_queue).timestamp_ms))
<1> DEFINE stamped == {r \in DOMAIN commited_queue : commited_queue[r].timestamp_ms > 0}
           r == Min(stamped)
<1>1. stamped # {} /\ get_fist_committed_subdag(commited_queue) = commited_queue[r]
  BY DEF get_fist_committed_subdag
<1>2. r \in stamped /\ \A x \in stamped : r <= x
  BY <1>1, LeastOf DEF ControlInv, DataInv
<1>3. r \in 1..Len(commits) /\ commited_queue[r] = commits[r]
  BY <1>2 DEF QueueInv
<1>4. ASSUME NEW q \in 1..(r - 1) PROVE commits[q].timestamp_ms = 0
  <2>1. q \in 1..r /\ q < r
    BY <1>3
  <2>2. q \in DOMAIN commited_queue
    BY <1>2, <2>1 DEF NoGaps
  <2>3. q \notin stamped
    <3>1. q \in stamped => r <= q
      BY <1>2
    <3> HIDE DEF r
    <3> QED BY <1>3, <2>1, <3>1
  <2>4. commited_queue[q] \in Subdags /\ commited_queue[q] = commits[q]
    BY <2>2 DEF ControlInv, DataInv, QueueInv
  <2> QED BY <2>2, <2>3, <2>4, SubdagsHaveRounds
<1>5. commits[r].timestamp_ms > 0
  BY <1>2, <1>3
<1> HIDE DEF r, stamped
<1> QED BY <1>1, <1>3, <1>4, <1>5 DEF FirstStamp

\* StampInv is inductive, given the other invariants.
LEMMA StampStep ==
    ASSUME PromptPuller, ControlInv, TypeInv, PromptInv, LedgerInv, StampInv, [Next]_vars
    PROVE  StampInv'
<1>1. lost' \in Nat /\ NoGaps'
  BY NoGapsStep
<1>2. commits' = commits /\ Height \in Nat
  BY CommitsFrame, IndexOfBlock
<1>4. lost' = 0 => lost = 0
  <2>1. CASE LoseSubmission
    BY <2>1 DEF LoseSubmission, StampInv
  <2>2. CASE ~LoseSubmission
    BY <2>2, FeedFrame DEF Feed, SubmitCommittedSubdag, ReplayCommits, feedVars
  <2> QED BY <2>1, <2>2
<1>5. CASE PushOrderedBlock
  <2>1. /\ mainPc = "push" /\ mainPc' = "tick" /\ Height' = Height + 1
        /\ \A i \in 1..Height : chain'[i] = chain[i]
        /\ chain'[Height + 1].timestamp = Secs(lastSubdag.timestamp_ms)
    BY <1>5, PushAppends
  <2>2. ASSUME lost' = 0 PROVE FirstStamp(commits, chain'[1].timestamp)
    <3>1. CASE Height = 0
      BY <1>4, <2>1, <2>2, <3>1 DEF StampInv
    <3>2. CASE Height > 0
      <4>1. chain'[1] = chain[1]
        BY <1>2, <2>1, <3>2
      <4> QED BY <1>4, <2>2, <3>2, <4>1 DEF StampInv
    <3> QED BY <1>2, <3>1, <3>2
  <2>3. ASSUME NEW n \in 2..(Height + 1)
        PROVE  chain'[n].timestamp = Secs(commits[K * (n - 1)].timestamp_ms)
    <3>1. CASE n \in 2..Height
      BY <1>2, <2>1, <3>1 DEF StampInv
    <3>2. CASE n = Height + 1
      <4>1. Height > 0 /\ n - 1 = Height
        BY <1>2, <2>3, <3>2
      <4>2. /\ lastSubdag = commits[next_committed_index + K - 1]
            /\ next_committed_index = 1 + K * (Height - 1)
        BY <2>1, <4>1, IndexOfBlock DEF LedgerInv, BuildInv
      <4>3. next_committed_index + K - 1 = K * Height
        BY <1>2, <4>2, BatchSizeIsNat DEF K
      <4> QED BY <2>1, <3>2, <4>1, <4>2, <4>3
    <3> QED BY <1>2, <3>1, <3>2
  <2>4. Height' > 0 /\ 2..Height' = 2..(Height + 1)
    BY <1>2, <2>1
  <2> QED BY <1>1, <1>2, <2>1, <2>2, <2>3, <2>4 DEF StampInv
<1>6. CASE BuildFirstBlock
  <2>1. /\ get_fist_committed_subdag(commited_queue) # None
        /\ lastSubdag' = get_fist_committed_subdag(commited_queue)
        /\ UNCHANGED <<chain, lost>>
    BY <1>6 DEF BuildFirstBlock, pipeVars, feedVars
  <2>2. Height = 0 /\ lost = 0 => FirstStamp(commits, Secs(lastSubdag'.timestamp_ms))
    BY <2>1, FirstOfQueue DEF LedgerInv, StampInv
  <2> QED BY <1>1, <1>2, <2>1, <2>2 DEF StampInv, Height
<1>7. CASE ~PushOrderedBlock /\ ~BuildFirstBlock
  <2>1. chain' = chain /\ Height' = Height
    BY <1>7, ChainFrame DEF Height
  <2>2. mainPc' = "push" /\ Height = 0 => mainPc = "push" /\ lastSubdag' = lastSubdag
    <3>1. CASE MainLoop
      BY <1>7, <3>1, IndexOfBlock DEF MainLoop, ReadNextIndex, ReadBatch, LockQueue, ReadProposal,
                  PushFails, MainDone, ControlInv, PipelineInv
    <3> QED BY <3>1, MainFrame DEF mainVars
  <2>3. Height = 0 /\ mainPc' = "push" /\ lost' = 0 =>
           FirstStamp(commits, Secs(lastSubdag'.timestamp_ms))
    BY <1>4, <2>2 DEF StampInv
  <2> QED BY <1>1, <1>2, <1>4, <2>1, <2>3 DEF StampInv
<1> QED BY <1>5, <1>6, <1>7

LEMMA StampStart ==
    ASSUME Init
    PROVE  StampInv
<1>1. chain = << >> /\ Height = 0 /\ DOMAIN commited_queue = {} /\ 1..0 = {}
  BY EmptySeq DEF Init, PoolInit, Height
<1> QED BY <1>1 DEF Init, StampInv, NoGaps

\* Blocks made of ordered commits are in the order of their timestamps.
LEMMA StampsInOrder ==
    ASSUME StampsOrdered, ControlInv, BatchesInv, StampInv
    PROVE  TimestampsNeverGoBack
<1> SUFFICES ASSUME NEW n \in DOMAIN chain, n > 1,
                    n = 2 => lost = 0 /\ commits[K].timestamp_ms > 0
             PROVE  chain[n].timestamp >= chain[n - 1].timestamp
  BY DEF TimestampsNeverGoBack
<1>1. /\ Height \in Nat /\ n \in 2..Height /\ K \in Nat /\ K > 0
      /\ K * (Height - 1) <= Len(commits) /\ Len(commits) \in Nat
      /\ commits \in CommitLogs
  <2>1. Height \in Nat /\ DOMAIN chain = 1..Height
    BY LenProperties DEF ControlInv, ChainInv, Height
  <2>2. commits \in CommitLogs /\ Len(commits) \in Nat
    BY LenProperties, PipelineConstants DEF ControlInv, DataInv
  <2>3. K > 0 /\ K * (Height - 1) <= Len(commits)
    BY <2>1 DEF BatchesInv
  <2> QED BY <2>1, <2>2, <2>3, BatchSizeIsNat DEF K
<1> DEFINE last == K * (n - 1)
<1>2. last \in 1..Len(commits) /\ K <= last
  <2>1. K * (n - 1) <= K * (Height - 1) /\ K * 1 <= K * (n - 1)
    BY <1>1
  <2> QED BY <1>1, <2>1
<1>3. chain[n].timestamp = Secs(commits[last].timestamp_ms)
  BY <1>1 DEF StampInv
<1>4. \A i \in 1..Len(commits) : commits[i].timestamp_ms \in Nat
  BY <1>1, PipelineConstants, SubdagsHaveRounds, ElementOfSeq
<1>5. \A i, j \in 1..Len(commits) :
         i <= j => Secs(commits[i].timestamp_ms) <= Secs(commits[j].timestamp_ms)
  <2> SUFFICES ASSUME NEW i \in 1..Len(commits), NEW j \in 1..Len(commits), i <= j
               PROVE  Secs(commits[i].timestamp_ms) <= Secs(commits[j].timestamp_ms)
    OBVIOUS
  <2>1. commits[i].timestamp_ms <= commits[j].timestamp_ms
    BY <1>1 DEF StampsOrdered
  <2> QED BY <1>4, <2>1 DEF Secs
<1>6. CASE n > 2
  <2>1. chain[n - 1].timestamp = Secs(commits[K * (n - 2)].timestamp_ms)
    BY <1>1, <1>6 DEF StampInv
  <2>2. K * (n - 2) \in 1..Len(commits) /\ K * (n - 2) <= last
    <3>1. /\ K * (n - 2) <= K * (n - 1)
          /\ K * 1 <= K * (n - 2)
      BY <1>1, <1>6
    <3> QED BY <1>1, <1>2, <3>1
  <2>3. Secs(commits[K * (n - 2)].timestamp_ms) <= Secs(commits[last].timestamp_ms)
    BY <1>2, <1>5, <2>2
  <2> HIDE DEF last
  <2>4. \A i \in 1..Len(commits) : Secs(commits[i].timestamp_ms) \in Int
    BY <1>4 DEF Secs
  <2> QED BY <1>2, <1>3, <2>1, <2>2, <2>3, <2>4
<1>7. CASE n = 2
  <2>1. last = K /\ lost = 0 /\ commits[K].timestamp_ms > 0
    BY <1>1, <1>7
  <2>2. FirstStamp(commits, chain[1].timestamp)
    BY <1>1, <2>1 DEF StampInv
  <2>3. PICK r \in 1..Len(commits) :
           /\ commits[r].timestamp_ms > 0
           /\ chain[1].timestamp = Secs(commits[r].timestamp_ms)
           /\ \A q \in 1..(r - 1) : commits[q].timestamp_ms = 0
    BY <2>2 DEF FirstStamp
  <2>4. r <= K
    <3> SUFFICES ASSUME r > K PROVE FALSE
      BY <1>1
    <3>1. K \in 1..(r - 1)
      BY <1>1
    <3>2. commits[K].timestamp_ms = 0
      BY <2>3, <3>1
    <3> QED BY <2>1, <3>2
  <2>5. Secs(commits[r].timestamp_ms) <= Secs(commits[last].timestamp_ms)
    BY <1>2, <1>5, <2>1, <2>4
  <2>6. \A i \in 1..Len(commits) : Secs(commits[i].timestamp_ms) \in Int
    BY <1>4 DEF Secs
  <2> QED BY <1>2, <1>3, <1>7, <2>3, <2>5, <2>6
<1> QED BY <1>1, <1>6, <1>7

\* With a prompt puller and commits in the order of their timestamps, those of
\* the blocks never go back, the first one's aside if commits were lost or the
\* first batch ends in a commit without one.
THEOREM StampsNeverGoBack ==
    PromptPuller /\ StampsOrdered => (Spec => []TimestampsNeverGoBack)
<1> SUFFICES ASSUME PromptPuller, StampsOrdered
             PROVE  Spec => []TimestampsNeverGoBack
  OBVIOUS
<1> DEFINE Inv == ControlInv /\ TypeInv /\ PromptInv /\ LedgerInv /\ StampInv
<1>1. Init => Inv
  BY InitialStates, PromptInit, LedgerStart, StampStart
<1>2. Inv /\ [Next]_vars => Inv'
  BY ControlStep, TypeStep, PromptStep, LedgerStep, StampStep DEF TypeInv
<1>3. Inv => TimestampsNeverGoBack
  BY StampsInOrder DEF LedgerInv
<1> QED BY <1>1, <1>2, <1>3, PTL DEF Spec

-----------------------------------------------------------------------------
(* What is pending waits.                                                  *)

LEMMA LedgerWaitsFirst ==
    ASSUME Ledger!Init
    PROVE  LedgerWaits(commits, LedgerBlocks, LedgerPending, LedgerNonces)
<1>1. commits \in Seq(Subdags)
  BY PipelineConstants DEF Ledger!Init
<1> QED BY <1>1, LedgerWaitsAtFirst DEF Ledger!Init

LEMMA LedgerWaitsNext ==
    ASSUME LedgerWaits(commits, LedgerBlocks, LedgerPending, LedgerNonces),
           [Ledger!OrderNextBlock]_(Ledger!vars)
    PROVE  LedgerWaits(commits, LedgerBlocks, LedgerPending, LedgerNonces)'
<1>1. CASE UNCHANGED Ledger!vars
  BY <1>1 DEF Ledger!vars
<1>2. CASE Ledger!OrderNextBlock
  <2>1. PICK log, ledger, pending, nonces :
           /\ log = commits /\ ledger = LedgerBlocks
           /\ pending = LedgerPending /\ nonces = LedgerNonces
    OBVIOUS
  <2>2. PICK batchOf : batchOf = Ledger!BatchOf(log, Len(ledger) + 1)
    OBVIOUS
  <2>3. PICK proposed : proposed = create_proposal_transactions(pending, batchOf)
    OBVIOUS
  <2>4. PICK executed : executed = Executed(nonces, proposed)
    OBVIOUS
  <2>5. PICK block : LedgerBlocks' = Append(ledger, block)
    BY <1>2, <2>1 DEF Ledger!OrderNextBlock
  <2>6. /\ LedgerPending' = Without(proposed, executed)
        /\ LedgerNonces' = Advance(nonces, executed)
        /\ commits' = log /\ (Len(ledger) + 1) * K <= Len(log)
    BY <1>2, <2>1, <2>2, <2>3, <2>4 DEF Ledger!OrderNextBlock
  <2>7. LedgerWaits(log, ledger, pending, nonces)
    BY <2>1
  <2>8. Len(ledger) \in Nat
    BY <2>7 DEF LedgerWaits
  <2>9. batchOf = [i \in 1..K |-> log[Len(ledger) * K + i]]
    BY <2>2, <2>8 DEF Ledger!BatchOf
  <2>10. LedgerWaits(log, Append(ledger, block),
                     Without(proposed, executed), Advance(nonces, executed))
    BY <2>3, <2>4, <2>6, <2>7, <2>9, LedgerWaitsStep
  <2> QED BY <2>5, <2>6, <2>10
<1> QED BY <1>1, <1>2

\* A transaction that stays pending once every executed block is accounted for
\* has not the next nonce of its sender, whatever the log; and in a log without
\* rivals its nonce lies above, so that an ancestor is missing.
THEOREM PendingWaitsAlways ==
    PromptPuller => (Spec => []PendingWaits)
<1> SUFFICES ASSUME PromptPuller PROVE Spec => []PendingWaits
  OBVIOUS
<1> DEFINE Stands == LedgerWaits(commits, LedgerBlocks, LedgerPending, LedgerNonces)
<1>1. Stands => PendingWaits
  <2> SUFFICES ASSUME Stands, pullPc = "pull", inPipeline = << >>,
                      NEW tx \in Range(pending_transactions)
               PROVE  /\ tx.nonce # accountNonce[tx.sender]
                      /\ NoRivals => tx.nonce > accountNonce[tx.sender]
    BY DEF PendingWaits, ReadyIsMined, PendingMissesAncestor
  <2>1. LedgerPending = pending_transactions /\ LedgerNonces = accountNonce
    BY DEF LedgerPending, LedgerNonces, Unsettled
  <2>2. PICK m : Waits(commits, m, pending_transactions, accountNonce)
    BY <2>1 DEF LedgerWaits
  <2>3. /\ tx.nonce # accountNonce[tx.sender]
        /\ Unrivalled(commits) => tx.nonce >= accountNonce[tx.sender]
    BY <2>2 DEF Waits
  <2>4. NoRivals => Unrivalled(commits)
    BY DEF NoRivals, Unrivalled
  <2>5. /\ m \in 0..Len(commits) /\ commits \in Seq(Subdags)
        /\ CommittedBy(commits, m, tx) /\ accountNonce \in [Senders(commits) -> Nat]
    BY <2>2 DEF Waits, LedgerWaits
  <2>6. tx.nonce \in Nat /\ accountNonce[tx.sender] \in Nat
    BY <2>5, CommittedIsGiven
  <2> QED BY <2>3, <2>4, <2>6
<1>2. Ledger!Init => Stands
  BY LedgerWaitsFirst
<1>3. Stands /\ [Ledger!OrderNextBlock]_(Ledger!vars) => Stands'
  BY LedgerWaitsNext
<1>4. Spec => Ledger!Spec
  BY RefinesLedger DEF ImplementsLedger
<1> QED BY <1>1, <1>2, <1>3, <1>4, PTL DEF Ledger!Spec

-----------------------------------------------------------------------------
(* What the log decides.                                                   *)

LEMMA DecidedFirst ==
    ASSUME Ledger!Init
    PROVE  Decided(commits, LedgerBlocks, LedgerPending, LedgerNonces)
<1>1. Len(commits) \in Nat
  BY PipelineConstants, LenProperties DEF Ledger!Init
<1> QED BY <1>1, DecidedAtFirst DEF Ledger!Init

LEMMA DecidedNext ==
    ASSUME Decided(commits, LedgerBlocks, LedgerPending, LedgerNonces),
           [Ledger!OrderNextBlock]_(Ledger!vars)
    PROVE  Decided(commits, LedgerBlocks, LedgerPending, LedgerNonces)'
<1>1. CASE UNCHANGED Ledger!vars
  BY <1>1 DEF Ledger!vars
<1>2. CASE Ledger!OrderNextBlock
  <2>1. PICK log, ledger, pending, nonces :
           /\ log = commits /\ ledger = LedgerBlocks
           /\ pending = LedgerPending /\ nonces = LedgerNonces
    OBVIOUS
  <2> DEFINE last == [ledger |-> ledger, pending |-> pending, nonces |-> nonces]
  <2>2. PICK next : next = NextOf(last, log, Len(ledger) + 1)
    OBVIOUS
  <2>3. /\ K > 0 /\ (Len(ledger) + 1) * K <= Len(log) /\ commits' = log
        /\ LedgerBlocks' = next.ledger
        /\ LedgerPending' = next.pending
        /\ LedgerNonces' = next.nonces
    BY <1>2, <2>1, <2>2 DEF Ledger!OrderNextBlock, Ledger!BatchOf, NextOf
  <2>4. Decided(log, next.ledger, next.pending, next.nonces)
    BY <2>1, <2>2, <2>3, DecidedStep
  <2> QED BY <2>3, <2>4
<1> QED BY <1>1, <1>2

LEMMA DecidedSays ==
    ASSUME Decided(commits, LedgerBlocks, LedgerPending, LedgerNonces)
    PROVE  Ledger!DecidedByTheLog
<1>1. Ledger!LedgersOf(commits) = Decisions(commits)
  BY Zenon DEF Ledger!LedgersOf, Ledger!BatchOf, Decisions, Decides, FirstOf, NextOf
<1>2. Decisions(commits)[Len(LedgerBlocks)] =
          [ledger |-> LedgerBlocks, pending |-> LedgerPending,
           nonces |-> LedgerNonces]
  BY DecidedIs
<1> QED BY <1>1, <1>2 DEF Ledger!DecidedByTheLog

\* Two replicas in pipeline mode whose puller is prompt have the same blocks, with
\* the same transactions and timestamps, as far as both have got, and the same
\* account nonces after them: each is what one function makes of the log, whatever
\* was submitted late, lost or twice, and whichever pushes failed.
THEOREM LogDecidesTheBlocks ==
    PromptPuller => (Spec => []Ledger!DecidedByTheLog)
<1> SUFFICES ASSUME PromptPuller PROVE Spec => []Ledger!DecidedByTheLog
  OBVIOUS
<1> DEFINE Stands == Decided(commits, LedgerBlocks, LedgerPending, LedgerNonces)
<1>1. Ledger!Init => Stands
  BY DecidedFirst
<1>2. Stands /\ [Ledger!OrderNextBlock]_(Ledger!vars) => Stands'
  BY DecidedNext
<1>3. Stands => Ledger!DecidedByTheLog
  BY DecidedSays
<1>4. Spec => Ledger!Spec
  BY RefinesLedger DEF ImplementsLedger
<1> QED BY <1>1, <1>2, <1>3, <1>4, PTL DEF Ledger!Spec
-----------------------------------------------------------------------------
(* What can stop the tasks, and how far the next block is.                 *)

\* The tip decides what a tick waits for.
LEMMA TipOrdered ==
    ASSUME ControlInv
    PROVE  /\ Height \in Nat /\ (chain = << >> <=> Height = 0)
           /\ last_ordered_block = None <=> chain = << >>
           /\ inPipeline = << >> =>
                 LastBlockExecuted /\ canonical_block_number = Height
           /\ chain = << >> => inPipeline = << >>
<1>1. Height \in Nat /\ (chain = << >> <=> Height = 0)
  BY LenProperties, EmptySeq DEF ControlInv, ChainInv, Height
<1>2. ASSUME chain # << >>
      PROVE  last_ordered_block # None /\ last_ordered_block.number = Height
  <2>1. /\ last_ordered_block = [number |-> Height, id |-> chain[Height].id]
        /\ chain[Height].id \in Nat \X Nat
    BY <1>1, <1>2 DEF ControlInv, ChainInv
  <2> QED BY <1>1, <2>1, PipelineConstants
<1>3. chain = << >> => last_ordered_block = None
  BY DEF ControlInv, ChainInv
<1>4. inPipeline = << >> => canonical_block_number = Height
  BY DEF ControlInv, PipelineInv
<1>5. chain = << >> => inPipeline = << >>
  BY <1>1 DEF ControlInv, PipelineInv
<1> QED BY <1>1, <1>2, <1>3, <1>4, <1>5 DEF LastBlockExecuted

\* If the puller has nothing to do, the main loop has.
LEMMA OneOfThemGoesOn ==
    ASSUME ControlInv, NoLockCycle, NoPanic
    PROVE  GoesOn
<1> SUFFICES ASSUME ~PullerReady PROVE MainReady \/ NothingToStartFrom
  BY DEF GoesOn
<1>1. pullPc = "pull" /\ inPipeline = << >>
  BY DEF PullerReady, QueueReadLocked, NoLockCycle, NoPanic, ControlInv, PullerInv, PullPcs
<1>2. ~IndexWriteLocked
  BY <1>1 DEF IndexWriteLocked
<1>3. CASE mainPc = "tick"
  <2>1. Tick
    BY <1>1, <1>3 DEF Tick
  <2> QED BY <1>1, <1>2, <2>1, TipOrdered DEF MainReady, NothingToStartFrom
<1>4. CASE mainPc # "tick"
  BY <1>2, <1>4 DEF MainReady, NoPanic, ControlInv, PullerInv, MainPcs
<1> QED BY <1>3, <1>4

\* However late the puller is, the two tasks come to a halt in two ways only:
\* each waits for the lock the other holds, or one of them has panicked.
THEOREM TwoWaysToStop == Spec => [](GoesOn \/ ~NoLockCycle \/ ~NoPanic)
<1>1. ControlInv /\ TypeInv => GoesOn \/ ~NoLockCycle \/ ~NoPanic
  BY OneOfThemGoesOn
<1> QED BY <1>1, Control, PTL

\* With a prompt puller neither happens: a tick never meets the puller's locks.
THEOREM NeverStops ==
    PromptPuller => (Spec => [](NoLockCycle /\ GoesOn
                                /\ (NextBatchQueued => MainReady \/ PullerReady)))
<1> SUFFICES ASSUME PromptPuller
             PROVE  Spec => [](NoLockCycle /\ GoesOn
                               /\ (NextBatchQueued => MainReady \/ PullerReady))
  OBVIOUS
<1> DEFINE Inv == ControlInv /\ TypeInv /\ PromptInv
<1>1. Init => Inv
  BY InitialStates, PromptInit
<1>2. Inv /\ [Next]_vars => Inv'
  BY ControlStep, TypeStep, PromptStep DEF TypeInv
<1>3. Inv => NoLockCycle
  BY DEF PromptInv, Building, NoLockCycle
<1>4. Inv => GoesOn
  BY <1>3, OneOfThemGoesOn DEF PromptInv
<1>5. NothingToStartFrom => ~NextBatchQueued
  BY DEF NothingToStartFrom, NextBatchQueued
<1>6. Inv => (NextBatchQueued => MainReady \/ PullerReady)
  BY <1>4, <1>5 DEF GoesOn
<1> QED BY <1>1, <1>2, <1>3, <1>4, <1>6, PTL DEF Spec

\* A queue has a first sub-DAG to start from iff one of it has a timestamp.
LEMMA StartsFromStamped ==
    ASSUME NEW queue, DOMAIN queue \subseteq Nat,
           \A r \in DOMAIN queue : queue[r] \in Subdags
    PROVE  get_fist_committed_subdag(queue) # None
              <=> \E r \in DOMAIN queue : queue[r].timestamp_ms > 0
<1> DEFINE stamped == {r \in DOMAIN queue : queue[r].timestamp_ms > 0}
<1>1. ASSUME stamped # {} PROVE Min(stamped) \in DOMAIN queue
  BY <1>1, LeastOf
<1>2. get_fist_committed_subdag(queue) = IF stamped = {} THEN None ELSE queue[Min(stamped)]
  BY DEF get_fist_committed_subdag
<1> QED BY <1>1, <1>2, SubdagsHaveRounds

\* Where the index stands while a tick builds on a chain that has started.
LEMMA IndexOfTick ==
    ASSUME PromptPuller, ControlInv, PromptInv, Building, Height > 0
    PROVE  next_committed_index = 1 + K * (Height - 1)
<1>1. pullPc = "pull" /\ canonical_block_number = Height /\ Height \in Nat
  BY LenProperties DEF PromptInv, ControlInv, PipelineInv, ChainInv, Height
<1>2. UpdatedBlocks = Height - 1
  BY <1>1 DEF UpdatedBlocks, Late
<1> QED BY <1>2 DEF ControlInv, IndexFollowsChain

\* What is queued for the next block stays: a drain takes the batch before.
LEMMA NextBatchStays ==
    ASSUME PromptPuller, ControlInv, TypeInv, PromptInv, QueueInv, [Next]_vars,
           NextBatchQueued, chain' = chain
    PROVE  NextBatchQueued'
<1>1. Height' = Height
  BY DEF Height
<1>2. ControlInv'
  BY ControlStep DEF TypeInv
<1>3. /\ DOMAIN commited_queue \subseteq Nat
      /\ \A r \in DOMAIN commited_queue : commited_queue[r] \in Subdags
      /\ DOMAIN commited_queue' \subseteq Nat
      /\ \A r \in DOMAIN commited_queue' : commited_queue'[r] \in Subdags
  BY <1>2 DEF ControlInv, DataInv
<1>4. CASE SubmitCommittedSubdag
  <2>1. /\ DOMAIN commited_queue \subseteq DOMAIN commited_queue'
        /\ \A r \in DOMAIN commited_queue : commited_queue'[r] = commited_queue[r]
    BY <1>4, SubmitQueues DEF ControlInv, TypeInv, QueueInv
  <2>2. chain = << >> => get_fist_committed_subdag(commited_queue') # None
    BY <1>3, <2>1, StartsFromStamped DEF NextBatchQueued
  <2> QED BY <1>1, <2>1, <2>2 DEF NextBatchQueued, HasBatch
<1>5. CASE DrainBatch
  <2>1. /\ next_committed_index = 1 + K * (Height - 2) /\ Height \in Nat
        /\ chain # << >>
    BY <1>5, IndexOfBlock, TipOrdered DEF DrainBatch, Unsettled, Height
  <2>2. 1 + K * (Height - 1) = next_committed_index + K
    <3>1. Height - 2 \in Int /\ (Height - 2) + 1 = Height - 1
      BY <2>1
    <3> QED BY <2>1, <3>1, OneMoreBatch
  <2>3. DOMAIN commited_queue' = DOMAIN commited_queue \ BatchRounds(next_committed_index)
    BY <1>5 DEF DrainBatch, Restrict
  <2>4. next_committed_index \in Nat /\ K \in Nat
    BY BatchSizeIsNat DEF K, ControlInv, DataInv
  <2>5. BatchRounds(next_committed_index + K) \cap BatchRounds(next_committed_index) = {}
    BY <2>4 DEF BatchRounds
  <2> QED BY <1>1, <2>1, <2>2, <2>3, <2>5 DEF NextBatchQueued, HasBatch
<1>6. ~DrainPanics
  BY PromptNoPanic DEF DrainPanics, NoPanic
<1>7. CASE ~SubmitCommittedSubdag /\ ~DrainBatch
  <2>1. commited_queue' = commited_queue
    BY <1>6, <1>7, QueueFrame
  <2> QED BY <1>1, <2>1 DEF NextBatchQueued
<1> QED BY <1>4, <1>5, <1>7

\* Every step of the main loop's but a failed push brings the push nearer.
LEMMA MainComesNearer ==
    ASSUME PromptPuller, ControlInv, TypeInv, PromptInv, MainLoop, ~PushFails,
           NextBatchQueued, chain' = chain
    PROVE  StepsLeft' < StepsLeft
<1>1. NoPanic' /\ pullPc' = pullPc /\ inPipeline' = inPipeline
  <2>1. ~PushOrderedBlock
    <3>1. PushOrderedBlock => Height' = Height + 1 /\ Height \in Nat
      BY PushAppends, TipOrdered
    <3> QED BY <3>1 DEF Height
  <2>2. UNCHANGED <<pullPc, inPipeline>>
    BY <2>1 DEF MainLoop, BuildFirstBlock, ReadNextIndex, ReadBatch, LockQueue, ReadProposal,
                PushFails, pullVars, pipeVars
  <2> QED BY <2>2, PromptNoPanic DEF Next
<1>2. CASE BuildFirstBlock
  <2>1. mainPc = "tick" /\ pullPc = "pull" /\ mainPc' = "push"
    BY <1>2 DEF BuildFirstBlock, Tick
  <2> QED BY <2>1 DEF StepsLeft
<1>3. CASE ReadNextIndex
  <2>1. mainPc = "tick" /\ pullPc = "pull" /\ mainPc' = "batch"
    BY <1>1, <1>3 DEF ReadNextIndex, Tick, NoPanic
  <2> QED BY <2>1 DEF StepsLeft
<1>4. CASE ReadBatch
  <2>1. mainPc = "batch" /\ Building /\ Height > 0 /\ batchIndex = next_committed_index
    BY <1>4 DEF ReadBatch, Building, ControlInv, PipelineInv, PromptInv
  <2>2. K > 0 /\ HasBatch(batchIndex, commited_queue)
    BY <2>1, IndexOfTick, TipOrdered DEF NextBatchQueued
  <2>3. next_committed_subdag_batch(batchIndex, commited_queue) # None
    <3>1. next_committed_subdag_batch(batchIndex, commited_queue) =
             <<commited_queue[batchIndex], commited_queue[batchIndex + K - 1]>>
      BY <2>2 DEF next_committed_subdag_batch
    <3>2. batchIndex \in DOMAIN commited_queue /\ batchIndex + K - 1 \in DOMAIN commited_queue
      <4>1. batchIndex \in Nat /\ K \in Nat
        BY BatchSizeIsNat DEF K, ControlInv, DataInv
      <4>2. {batchIndex, batchIndex + K - 1} \subseteq BatchRounds(batchIndex)
        BY <2>2, <4>1 DEF BatchRounds
      <4>3. BatchRounds(batchIndex) \subseteq DOMAIN commited_queue
        BY <2>2 DEF HasBatch
      <4> QED BY <4>2, <4>3
    <3>3. <<commited_queue[batchIndex], commited_queue[batchIndex + K - 1]>> \in Subdags \X Subdags
      BY <3>2 DEF ControlInv, DataInv
    <3> QED BY <3>1, <3>3, SubdagsHaveRounds
  <2>4. mainPc' = "proposal"
    BY <1>1, <1>4, <2>3 DEF ReadBatch, NoPanic
  <2> QED BY <2>1, <2>4 DEF StepsLeft
<1>5. CASE LockQueue
  <2>1. mainPc = "proposal" /\ mainPc' \in {"locked", "push"}
    BY <1>1, <1>5 DEF LockQueue, NoPanic
  <2> QED BY <2>1 DEF StepsLeft
<1>6. CASE ReadProposal
  <2>1. mainPc = "locked" /\ mainPc' = "push"
    BY <1>1, <1>6 DEF ReadProposal, NoPanic
  <2> QED BY <2>1 DEF StepsLeft
<1>7. CASE PushOrderedBlock
  <2>1. Height' = Height + 1 /\ Height \in Nat
    BY <1>7, PushAppends, TipOrdered
  <2> QED BY <2>1 DEF Height
<1> QED BY <1>2, <1>3, <1>4, <1>5, <1>6, <1>7 DEF MainLoop

\* And so does every step of the puller's, with no tick under way.
LEMMA PullerComesNearer ==
    ASSUME PromptPuller, ControlInv, TypeInv, PromptInv, Puller
    PROVE  StepsLeft' < StepsLeft
<1>1. ~DrainPanics
  BY PromptNoPanic DEF DrainPanics, NoPanic, Next
<1>2. mainPc \notin {"batch", "proposal", "locked", "push"} /\ mainPc' = mainPc
  <2>1. CASE PullExecutedBlock
    BY <2>1, PullTakesTip DEF Building, mainVars
  <2>2. CASE LockNextIndex \/ DrainBatch \/ FinishUpdate \/ HandleEvents
    BY <2>2 DEF LockNextIndex, DrainBatch, FinishUpdate, HandleEvents, mainVars,
                PromptInv, Building
  <2> QED BY <1>1, <2>1, <2>2 DEF Puller
<1>3. CASE PullExecutedBlock
  <2>1. /\ inPipeline # << >> /\ pullPc = "pull" /\ pullPc' \in {"update", "events"}
    BY <1>3, PullTakesTip DEF PullExecutedBlock
  <2> QED BY <1>2, <2>1 DEF StepsLeft
<1>4. CASE LockNextIndex \/ DrainBatch \/ FinishUpdate \/ HandleEvents
  <2>1. inPipeline = << >> /\ inPipeline' = << >>
    BY <1>4, PipelineFrame DEF LockNextIndex, DrainBatch, FinishUpdate, HandleEvents,
                               PromptInv, pipeVars
  <2>2. <<pullPc, pullPc'>> \in {<<"update", "drain">>, <<"drain", "finish">>,
                                 <<"finish", "events">>, <<"events", "pull">>}
    BY <1>4 DEF LockNextIndex, DrainBatch, FinishUpdate, HandleEvents
  <2> QED BY <1>2, <2>1, <2>2 DEF StepsLeft
<1> QED BY <1>1, <1>3, <1>4 DEF Puller

\* The feed moves neither task.
LEMMA FeedLeavesTheWay ==
    ASSUME [Next]_vars, Feed
    PROVE  StepsLeft' = StepsLeft
<1>1. UNCHANGED <<mainPc, pullPc, inPipeline>>
  BY DEF Feed, SubmitCommittedSubdag, LoseSubmission, ReplayCommits, mainVars, pullVars, pipeVars
<1> QED BY <1>1 DEF StepsLeft

\* With a prompt puller a block whose commits are queued is never more than ten steps of
\* the tasks away, and each of their steps brings it nearer unless a push fails; a
\* resubmitted, lost or repeated commit does not delay it.
THEOREM NextBlockComesNearer == PromptPuller => (Spec => NextBlockNears)
<1> SUFFICES ASSUME PromptPuller PROVE Spec => NextBlockNears
  OBVIOUS
<1> DEFINE Inv == ControlInv /\ TypeInv /\ PromptInv /\ LedgerInv
<1>1. Init => Inv
  BY InitialStates, PromptInit, LedgerStart
<1>2. Inv /\ [Next]_vars => Inv'
  BY ControlStep, TypeStep, PromptStep, LedgerStep DEF TypeInv
<1> DEFINE Nears == NextBatchQueued =>
                       \/ chain' # chain
                       \/ PushFails
                       \/ NextBatchQueued' /\ (MainLoop \/ Puller) /\ StepsLeft' < StepsLeft
                       \/ NextBatchQueued' /\ Feed /\ StepsLeft' = StepsLeft
<1>3. Inv /\ [Next]_vars => [Nears]_vars
  <2> SUFFICES ASSUME Inv, Next, NextBatchQueued, chain' = chain, ~PushFails
               PROVE  /\ NextBatchQueued'
                      /\ \/ (MainLoop \/ Puller) /\ StepsLeft' < StepsLeft
                         \/ Feed /\ StepsLeft' = StepsLeft
    OBVIOUS
  <2>1. NextBatchQueued'
    BY NextBatchStays DEF LedgerInv
  <2>2. MainLoop => StepsLeft' < StepsLeft
    BY MainComesNearer
  <2>3. Puller => StepsLeft' < StepsLeft
    BY PullerComesNearer
  <2>4. Feed => StepsLeft' = StepsLeft
    BY FeedLeavesTheWay
  <2> QED BY <2>1, <2>2, <2>3, <2>4 DEF Next
<1> QED BY <1>1, <1>2, <1>3, PTL DEF Spec, NextBlockNears
=============================================================================
