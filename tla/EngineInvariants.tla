--------------------------- MODULE EngineInvariants ---------------------------
(***************************************************************************)
(* The inductive invariant of EngineConsensus, a conjunction of named      *)
(* parts.  The loop goes through three phases: it waits for the next       *)
(* payload, for the execution of the last one, or, after an engine call    *)
(* that failed, for nothing any more.                                      *)
(***************************************************************************)
EXTENDS EngineConsensus

Height == Len(head)

NextHash == Append(head, [from |-> 1 + K * Height, last |-> K * (Height + 1)])

NextJob == [parent |-> head, last |-> K * (Height + 1)]

\* The transactions of the batch that is next, behind those that are pending.
NextTransactions ==
    create_proposal_transactions(pending_transactions, Batch(next_committed_index, commits))

\* The payload a build makes of it.
NextPayload ==
    LET executed == Executed(blocks[head].nonces, NextTransactions)
    IN  [hash |-> NextHash,
         proposal |-> NextTransactions,
         transactions |-> executed,
         nonces |-> Advance(blocks[head].nonces, executed)]

-----------------------------------------------------------------------------
NothingUnderWay == building = << >> /\ built_payloads = << >> /\ notifications = << >>

\* The last payload is canonical; at most one build is under way, on top of it.
Idle ==
    /\ last_processing_payload = None
    /\ LastBuiltHash = head
    /\ canonical_block_number = Height
    /\ \/ NothingUnderWay
       \/ /\ <<building, built_payloads>> \in
                {<< <<NextJob>>, << >> >>, << << >>, <<NextPayload>> >>}
          /\ notifications = << >>
          /\ K > 0 /\ HasBatch(next_committed_index, commited_queue)
          /\ NextJob \in jobs

\* The last payload has become the head, and the loop is about to hear of it.
Executing ==
    /\ head # Genesis
    /\ last_processing_payload # None
    /\ last_processing_payload = last_built_payload
    /\ last_built_payload.hash = head
    /\ last_built_payload.transactions = blocks[head].transactions
    /\ canonical_block_number = Height - 1
    /\ building = << >> /\ built_payloads = << >> /\ notifications = <<Height>>
    /\ HasBatch(next_committed_index, commited_queue)
    /\ blocks[head].proposal = NextTransactions

\* The last payload was not executed.
Stuck ==
    /\ last_processing_payload # None
    /\ last_built_payload # None
    /\ last_built_payload.hash = NextHash
    /\ canonical_block_number = Height
    /\ NothingUnderWay

-----------------------------------------------------------------------------
\* The queue holds commits of the log, from the batch that is next.
QueueInv ==
    /\ commits \in CommitLogs /\ submitted \in Nat
    /\ PendingIsTheRest
    /\ IsFiniteSet(DOMAIN commited_queue)
    /\ \A r \in DOMAIN commited_queue :
          r \in 1..Len(commits) /\ commited_queue[r] = commits[r]
    /\ next_committed_index = 1 + K * canonical_block_number

\* The canonical chain is known, down to the genesis block.
ChainInv ==
    /\ head \in Seq([from : Nat, last : Nat])
    /\ \A n \in 0..Height : SubSeq(head, 1, n) \in DOMAIN blocks
    /\ \A hash \in DOMAIN blocks \ {Genesis} : Parent(hash) \in DOMAIN blocks
    /\ EveryBatchInOneBlock
    /\ Height > 0 => K > 0 /\ K * Height <= Len(commits)
    /\ blocks[head].nonces \in [Senders(commits) -> Nat]

EngineInv ==
    /\ QueueInv
    /\ ChainInv
    /\ MinedIsCanonical
    /\ payload_buffer = << >>
    /\ Idle \/ Executing \/ Stuck

-----------------------------------------------------------------------------
(* What can stop the loop.                                                 *)

\* The payload jobs are of the canonical chain.  One on top of the head goes with a
\* build under way, as long as no engine call has failed.
JobsInv ==
    /\ failures \in Nat
    /\ \A job \in jobs : Len(job.parent) \in 0..Height
    /\ failures = 0 =>
          /\ Idle \/ Executing
          /\ building = << >> /\ built_payloads = << >> =>
                \A job \in jobs : Len(job.parent) # Height

\* The commits of the next block are queued, and the engine takes its attributes.
NextBatchQueued ==
    /\ K > 0 /\ HasBatch(1 + K * Height, commited_queue)
    /\ strict => commits[K * (Height + 1)].timestamp_ms \div 1000 > Timestamp(head)

\* A tick would start a build.
TickReady ==
    LET batch == next_committed_subdag_batch(next_committed_index, commited_queue)
    IN  /\ LastPayloadCanonical
        /\ batch # None
        /\ LastBuiltHash \in DOMAIN blocks
        /\ IsPrefix(LastBuiltHash, head) => LastBuiltHash = head
        /\ strict => batch[2].timestamp_ms \div 1000 > Timestamp(LastBuiltHash)
        /\ [parent |-> LastBuiltHash, last |-> batch[2].round] \notin jobs

\* The loop has an arm to take, or the builder a build it can end.
GoesOn ==
    \/ built_payloads # << >> \/ notifications # << >> \/ TickReady
    \/ building # << >> /\ BuildCanEnd

\* The steps of the loop and the builder up to the next canonical block.
StepsLeft ==
    IF built_payloads # << >> THEN 1
    ELSE IF building # << >> THEN 2
    ELSE IF notifications = << >> THEN 3 ELSE 4

\* Until an engine call fails, every step of the loop and the builder brings the block nearer
\* whose commits are queued, and the feed does not delay it.
NextBlockNears ==
    [][failures = 0 /\ NextBatchQueued =>
          \/ head' # head
          \/ failures' # failures
          \/ NextBatchQueued' /\ (Loop \/ try_build) /\ StepsLeft' < StepsLeft
          \/ /\ NextBatchQueued' /\ (SubmitCommittedSubdag \/ ReplayCommits)
             /\ StepsLeft' = StepsLeft]_vars
=============================================================================
