--------------------------- MODULE EngineConsensus ---------------------------
(***************************************************************************)
(* MysticetiConsensus in engine handle mode                                *)
(* (execution-client/src/consensus/mysticeti.rs, start_with_engine_handle):*)
(* a single select! loop                                                   *)
(*                                                                         *)
(*   on a tick            asks the engine for a payload on top of the last *)
(*                        payload built;                                   *)
(*   on a built payload   has it executed, or buffers it;                  *)
(*   on a new chain head  updates the pool and takes the next payload.     *)
(*                                                                         *)
(* The payload builder (payload/builder.rs, try_build) runs in a thread of *)
(* its own and reads the proposal from the pool.  reth's engine and its    *)
(* payload service are external, as the code uses them: new_payload and    *)
(* fork_choice_updated answer once they are done, a new head is notified,  *)
(* attributes for a job that exists start no second one.                   *)
(*                                                                         *)
(* An arm of the select! waits for the engine only after its last access   *)
(* to the pool, and the arm's fields have no other reader: an arm with its *)
(* engine calls is one step.  The sub-DAGs come from whoever holds the pool*)
(* (main.rs registers the RPC that fills it in pipeline mode only).        *)
(***************************************************************************)
EXTENDS ConsensusPool, Executor

CONSTANTS
    CommitLogs,               \* the logs of commits Mysticeti may produce
    MAX_PAYLOAD_BUFFER_SIZE,
    MaxReplays,               \* bound: restarts of the consensus client
    MaxFailures               \* bound: engine calls that fail

\* What the builder makes of a log: a hash is the path to the block (below), the
\* nonces are those of the accounts after it.
Payloads(log) ==
    [hash : Seq([from : Nat, last : Nat]),
     proposal : Seq(GivenTxs),
     transactions : SUBSET GivenTxs,
     nonces : [Senders(log) -> Nat]]

ASSUME EngineConstants ==
    /\ {MAX_PAYLOAD_BUFFER_SIZE, MaxReplays, MaxFailures} \subseteq Nat
    /\ MAX_PAYLOAD_BUFFER_SIZE > 0
    /\ \A log \in CommitLogs :
          /\ log \in Seq(Subdags)
          /\ \A i \in 1..Len(log) : log[i].round = i
          /\ None \notin Payloads(log)

VARIABLES
    \* MysticetiConsensus
    canonical_block_number,
    last_processing_payload,
    last_built_payload,
    payload_buffer,
    \* external: the commits and what was submitted of them
    commits, submitted, replays,
    \* external: the engine's blocks, with the account nonces after each, and its
    \* canonical head, its payload jobs, the builds under way, what the loop has
    \* yet to receive
    blocks, head, jobs, building, built_payloads, notifications,
    failures,
    strict                    \* the engine refuses attributes that are not later
                              \* than their parent, as the Engine API asks for

loopVars == <<canonical_block_number, last_processing_payload, last_built_payload,
              payload_buffer>>
feedVars == <<commits, submitted, replays>>
chainVars == <<blocks, head, failures, strict>>
jobVars == <<jobs, building>>

vars == <<poolVars, loopVars, feedVars, chainVars, jobVars, built_payloads,
          notifications>>

-----------------------------------------------------------------------------
(* A block hash is the path to the block: for each block on it the commit  *)
(* its transactions start from (0: built without any) and the last commit  *)
(* of the batch its attributes were made of.                               *)

Genesis == << >>

Number(hash) == Len(hash)

Parent(hash) == Front(hash)

Timestamp(hash) ==
    IF hash = Genesis THEN 0 ELSE commits[Last(hash).last].timestamp_ms \div 1000

BlocksOf(hash) == {SubSeq(hash, 1, n) : n \in 1..Len(hash)}

Init ==
    /\ PoolInit
    /\ canonical_block_number = 0
    /\ last_processing_payload = None /\ last_built_payload = None
    /\ payload_buffer = << >>
    /\ commits \in CommitLogs /\ submitted = 0 /\ replays = 0
    /\ blocks = [hash \in {Genesis} |->
                    [proposal |-> << >>, transactions |-> {},
                     nonces |-> [s \in Senders(commits) |-> 0]]]
    /\ head = Genesis /\ failures = 0
    /\ strict \in BOOLEAN
    /\ jobs = {} /\ building = << >>
    /\ built_payloads = << >> /\ notifications = << >>

SubmitCommittedSubdag ==
    /\ submitted < Len(commits)
    /\ submitted' = submitted + 1
    /\ add_committed_subdags(<<commits[submitted + 1]>>)
    /\ UNCHANGED <<commits, replays, loopVars, chainVars, jobVars, built_payloads,
                   notifications>>

\* The consensus client restarts, and submits every commit again.
ReplayCommits ==
    /\ submitted > 0 /\ replays < MaxReplays
    /\ replays' = replays + 1
    /\ submitted' = 0
    /\ UNCHANGED <<commits, poolVars, loopVars, chainVars, jobVars, built_payloads,
                   notifications>>

-----------------------------------------------------------------------------
(* The engine.                                                             *)

\* A known block becomes the head, and is notified, unless it is on the
\* canonical chain already.
ForkChoice(hash, pending) ==
    IF IsPrefix(hash, head)
    THEN head' = head /\ notifications' = pending
    ELSE head' = hash /\ notifications' = Append(pending, Number(hash))

\* The blocks the engine knows once it has validated a payload's.
WithBlock(payload) ==
    [hash \in DOMAIN blocks \cup {payload.hash} |->
        IF hash = payload.hash
        THEN [proposal |-> payload.proposal,
              transactions |-> payload.transactions,
              nonces |-> payload.nonces]
        ELSE blocks[hash]]

\* execute_payload: an error of new_payload, or of the fork choice after it, is
\* logged.  A payload on an unknown parent is answered with SYNCING.
execute_payload(payload, pending) ==
    \/ /\ UNCHANGED <<failures, strict>>
       /\ IF Parent(payload.hash) \in DOMAIN blocks
          THEN blocks' = WithBlock(payload) /\ ForkChoice(payload.hash, pending)
          ELSE notifications' = pending /\ UNCHANGED <<blocks, head>>
    \/ /\ failures < MaxFailures
       /\ failures' = failures + 1
       /\ blocks' \in {blocks, WithBlock(payload)}
       /\ notifications' = pending
       /\ UNCHANGED <<head, strict>>

-----------------------------------------------------------------------------
(* The loop.                                                               *)

MakeRoom(buffer) ==
    IF Len(buffer) >= MAX_PAYLOAD_BUFFER_SIZE THEN Tail(buffer) ELSE buffer

ReceiveBuiltPayload ==
    LET buffer == Append(MakeRoom(payload_buffer), Head(built_payloads))
    IN  /\ built_payloads # << >>
        /\ built_payloads' = Tail(built_payloads)
        /\ last_built_payload' = Head(built_payloads)
        /\ IF last_processing_payload = None
           THEN /\ last_processing_payload' = Head(buffer)
                /\ payload_buffer' = Tail(buffer)
                /\ execute_payload(Head(buffer), notifications)
           ELSE /\ payload_buffer' = buffer
                /\ UNCHANGED <<last_processing_payload, chainVars, notifications>>
        /\ UNCHANGED <<canonical_block_number, poolVars, feedVars, jobVars>>

\* Faulty: only a head above it tells that a payload was executed.
HeadAbovePayload(number) ==
    /\ last_processing_payload # None
    /\ Number(last_processing_payload.hash) < number

\* The new head is the payload the loop is waiting for.
PayloadExecuted(number) ==
    /\ last_processing_payload # None
    /\ Number(last_processing_payload.hash) = number

\* What update_mined_block is told.
TxHashes(payload) == payload.transactions

\* The next payload of the buffer, if there is one.
ExecuteNextPayload ==
    IF payload_buffer = << >>
    THEN /\ last_processing_payload' = None
         /\ notifications' = Tail(notifications)
         /\ UNCHANGED <<payload_buffer, chainVars>>
    ELSE /\ last_processing_payload' = Head(payload_buffer)
         /\ payload_buffer' = Tail(payload_buffer)
         /\ execute_payload(Head(payload_buffer), Tail(notifications))

CanonicalStateUpdated ==
    LET number == Head(notifications)
    IN  /\ notifications # << >>
        /\ canonical_block_number' = number
        /\ IF PayloadExecuted(number)
           THEN /\ update_mined_block(TxHashes(last_processing_payload))
                /\ ExecuteNextPayload
           ELSE /\ notifications' = Tail(notifications)
                /\ UNCHANGED <<poolVars, last_processing_payload, payload_buffer, chainVars>>
        /\ UNCHANGED <<last_built_payload, feedVars, jobVars, built_payloads>>

\* Faulty: the next payload is asked for once the last one was built.
LastPayloadBuilt == TRUE

\* The last payload built is the canonical head's number.
LastPayloadCanonical ==
    last_built_payload # None => Number(last_built_payload.hash) = canonical_block_number

LastBuiltHash ==
    IF last_built_payload = None THEN Genesis ELSE last_built_payload.hash

\* fork_choice_updated with attributes: the head must be known and become the
\* canonical one, and attributes of a job that exists start nothing.
Tick ==
    LET batch      == next_committed_subdag_batch(next_committed_index, commited_queue)
        attributes == [parent |-> LastBuiltHash, last |-> batch[2].round]
    IN 
        /\ LastPayloadCanonical
        /\ batch # None
        /\ LastBuiltHash \in DOMAIN blocks
        /\ ForkChoice(LastBuiltHash, notifications)
        /\ IF /\ head' = LastBuiltHash
              /\ strict => batch[2].timestamp_ms \div 1000 > Timestamp(LastBuiltHash)
              /\ attributes \notin jobs
           THEN jobs' = jobs \cup {attributes} /\ building' = Append(building, attributes)
           ELSE UNCHANGED <<jobs, building>>
        /\ UNCHANGED <<poolVars, loopVars, feedVars, blocks, failures, strict,
                       built_payloads>>

-----------------------------------------------------------------------------
(* The payload builder.                                                    *)

\* The transactions of the next payload: none if the queue is too short.
NextProposal ==
    IF ProposalHasEnough(commited_queue)
    THEN get_proposal_transactions(next_committed_index, commited_queue,
                                   pending_transactions)
    ELSE << >>

\* If a round of the batch is missing the thread panics, and the job starts it
\* again.
BuildCanEnd ==
    ProposalHasEnough(commited_queue) => HasBatch(next_committed_index, commited_queue)

try_build ==
    /\ BuildCanEnd
    /\ \E i \in DOMAIN building, proposal \in {NextProposal} :
          LET parent   == building[i].parent
              from     == IF ProposalHasEnough(commited_queue) THEN next_committed_index ELSE 0
              executed == Executed(blocks[parent].nonces, proposal)
          IN  /\ building' = RemoveAt(building, i)
              /\ built_payloads' = Append(built_payloads,
                     [hash |-> Append(parent, [from |-> from, last |-> building[i].last]),
                      proposal |-> proposal,
                      transactions |-> executed,
                      nonces |-> Advance(blocks[parent].nonces, executed)])
    /\ UNCHANGED <<jobs, poolVars, loopVars, feedVars, chainVars, notifications>>

-----------------------------------------------------------------------------
Loop == ReceiveBuiltPayload \/ CanonicalStateUpdated \/ Tick

Next == SubmitCommittedSubdag \/ ReplayCommits \/ Loop \/ try_build

Spec == Init /\ [][Next]_vars

\* A build ends, whatever it built: of the steps above only try_build does this.
BuildEnds == BuildCanEnd /\ \E i \in DOMAIN building : building' = RemoveAt(building, i)

\* Commits are submitted, the loop takes an arm that is ready, builds that can
\* end do.
FairSpec ==
    Spec /\ WF_vars(SubmitCommittedSubdag) /\ WF_vars(Loop) /\ WF_building(BuildEnds)

-----------------------------------------------------------------------------
\* The pool keeps its types, a block's parent is a block, and the head is one.
EngineTypeOK ==
    /\ PoolTypeOK
    /\ canonical_block_number \in Nat
    /\ Len(payload_buffer) <= MAX_PAYLOAD_BUFFER_SIZE
    /\ head \in DOMAIN blocks
    /\ \A hash \in DOMAIN blocks \ {Genesis} : Parent(hash) \in DOMAIN blocks
    /\ last_processing_payload = None => payload_buffer = << >>

\* Each batch is in exactly one canonical block, in order.
EveryBatchInOneBlock ==
    \A n \in DOMAIN head : head[n] = [from |-> 1 + K * (n - 1), last |-> K * n]

\* The asserts on the rounds of a batch (pool.rs:304, 337) hold: a build that
\* starts, and an update that is due, find their batch in the queue.
BatchIsThere ==
    \/ building # << >>
    \/ notifications # << >> /\ PayloadExecuted(Head(notifications))
    => HasBatch(next_committed_index, commited_queue)

\* What the pool was told is mined are the transactions of the canonical chain
\* up to the block the loop knows of.
MinedIsCanonical ==
    mined = UNION {blocks[SubSeq(head, 1, n)].transactions : n \in 1..canonical_block_number}

\* The buffer is never used: a payload is built once the one before it was
\* executed, so that none is ever dropped for lack of room.
NothingBuffered == payload_buffer = << >> /\ Len(built_payloads) <= 1

\* What the loop relies on between its arms.
LoopKeepsStep ==
    /\ EngineTypeOK
    /\ EveryBatchInOneBlock /\ BatchIsThere
    /\ MinedIsCanonical /\ NothingBuffered

\* The blocks of the canonical chain, and what they leave to be mined: the pool
\* knows it once the loop has heard of the last one.
LedgerBlocks ==
    [n \in DOMAIN head |-> [transactions |-> blocks[SubSeq(head, 1, n)].proposal,
                            timestamp |-> Timestamp(SubSeq(head, 1, n))]]

LedgerPending ==
    IF canonical_block_number < Len(head)
    THEN Without(blocks[head].proposal, blocks[head].transactions)
    ELSE pending_transactions

\* The canonical chain is the abstract ledger's, whatever the order of ticks,
\* payloads and notifications, and also when an engine call fails.
Ledger == INSTANCE OrderedLedger WITH
    BatchSize <- K,
    ledger <- LedgerBlocks,
    pending <- LedgerPending,
    nonces <- blocks[head].nonces

ImplementsLedger == Ledger!Spec

\* The batches the engine takes attributes for: a strict one takes none from the
\* first batch that ends in the second in which the one before it ends.
AcceptedBatches ==
    LET Second(n) == IF n = 0 THEN 0 ELSE commits[K * n].timestamp_ms \div 1000
    IN  {n \in 1..(Len(commits) \div K) :
            strict => \A m \in 1..n : Second(m) > Second(m - 1)}

\* Every complete batch becomes a canonical block, unless an engine call fails
\* or the engine refuses the attributes of a batch.
EveryBatchExecuted == <>(Len(head) = Cardinality(AcceptedBatches) \/ failures > 0)
=============================================================================
