---------------------------- MODULE NodeLifecycle ----------------------------
(***************************************************************************)
(* The two processes of a validator over their starts, failures and        *)
(* restarts: the execution client (execution-client/src/main.rs) and the   *)
(* consensus client (consensus-client/src/main.rs, engine_api/client.rs,   *)
(* validator.rs).  Each runs under a supervisor that starts it again.      *)
(*                                                                         *)
(* Commits are numbered; the pool keeps them in order, and a block takes   *)
(* the next K of them (ConsensusPool and PipelineConsensus have the        *)
(* details).  What survives a restart is on disk: the core's commits, and  *)
(* the blocks the execution client has persisted.                          *)
(***************************************************************************)
EXTENDS Committee, SequencesExt, FiniteSetsExt

CONSTANTS
    K,              \* committed_subdags_per_block
    Configs,        \* the committee files a node may be given
    MaxCommits,
    MaxCrashes,     \* of both processes together
    MaxSetupErrors  \* times that pipe_extend fails

ASSUME LifecycleConstants ==
    /\ K \in Nat \ {0}
    /\ MaxCommits \in Nat /\ MaxCrashes \in Nat /\ MaxSetupErrors \in Nat

VARIABLES
    config, node_index,      \* the consensus client's files
    pipe,                    \* whether disable_pipe_execution is off
    answers,                 \* whether greth reports the result of a block it has already
    ec,                      \* "down", "starting", "serving", "ordering", "without consensus"
    ec_run,                  \* how often it was started
    next_commit_index, queue,   \* its pool: the next commit it needs, those it has
    last_ordered, canonical_block_number,
    batch,                   \* the commits of the block that was ordered last
    chain, persisted,        \* the batches of its blocks, and how many are on disk
    cc,                      \* "down", "connecting", "running"
    authorities,             \* what it loaded: the core's committee
    peer_addresses,          \* and where it finds the others
    connection,              \* the ec_run its subscription is connected to, 0 for none
    sent,                    \* commits it took from the core since it was started
    committed,               \* commits of the core
    crashes, setup_errors

configVars == <<config, node_index, pipe, answers>>
poolVars   == <<next_commit_index, queue>>
loopVars   == <<last_ordered, canonical_block_number, batch>>
ecVars     == <<ec, ec_run, poolVars, loopVars, chain, persisted, setup_errors>>
ccVars     == <<cc, authorities, peer_addresses, connection, sent>>
vars == <<configVars, ecVars, ccVars, committed, crashes>>

Init ==
    /\ config \in Configs /\ node_index \in 0..Len(config.authorities)
    /\ pipe \in BOOLEAN /\ answers \in BOOLEAN
    /\ ec = "down" /\ ec_run = 0
    /\ next_commit_index = 1 /\ queue = {}
    /\ last_ordered = 0 /\ canonical_block_number = 0 /\ batch = {}
    /\ chain = << >> /\ persisted = 0
    /\ cc = "down" /\ authorities = << >> /\ peer_addresses = << >>
    /\ connection = 0 /\ sent = 0
    /\ committed = 0
    /\ crashes = 0 /\ setup_errors = 0

\* The RPC server of the execution client answers, and knows the two modules.
Serving == ec \in {"serving", "ordering", "without consensus"} /\ pipe

-----------------------------------------------------------------------------
(* The execution client.                                                   *)

\* Faulty: the chain's height is taken over, the pool is not.
StartAtHeight ==
    /\ ec = "down"
    /\ ec' = "starting" /\ ec_run' = ec_run + 1
    /\ next_commit_index' = 1 /\ queue' = {}
    /\ last_ordered' = Len(chain) /\ canonical_block_number' = Len(chain) /\ batch' = {}
    /\ UNCHANGED <<configVars, chain, persisted, setup_errors, ccVars, committed, crashes>>

\* A new pool and a new MysticetiConsensus, whatever blocks the database holds.
StartExecutionClient ==
    /\ ec = "down"
    /\ ec' = "starting" /\ ec_run' = ec_run + 1
    /\ next_commit_index' = 1 /\ queue' = {}
    /\ last_ordered' = 0 /\ canonical_block_number' = 0 /\ batch' = {}
    /\ UNCHANGED <<configVars, chain, persisted, setup_errors, ccVars, committed, crashes>>

\* extend_rpc_modules, then the servers are started.
extend_rpc_modules ==
    /\ ec = "starting"
    /\ ec' = "serving"
    /\ UNCHANGED <<configVars, ec_run, poolVars, loopVars, chain, persisted, setup_errors,
                   ccVars, committed, crashes>>

\* on_node_started: the main loop begins.
on_node_started ==
    /\ ec = "serving"
    /\ ec' = "ordering"
    /\ UNCHANGED <<configVars, ec_run, poolVars, loopVars, chain, persisted, setup_errors,
                   ccVars, committed, crashes>>

\* The latest block cannot be read: an error is logged, and the process goes on without a loop.
PipeExtendFails ==
    /\ ec = "serving" /\ pipe
    /\ setup_errors < MaxSetupErrors
    /\ setup_errors' = setup_errors + 1
    /\ ec' = "without consensus"
    /\ UNCHANGED <<configVars, ec_run, poolVars, loopVars, chain, persisted, ccVars, committed,
                   crashes>>

NextBatch == {next_commit_index + i : i \in 0..K - 1}

\* A tick orders the next block, whose number follows the last one ordered since the start.
OrderBlock ==
    /\ ec = "ordering" /\ canonical_block_number = last_ordered
    /\ NextBatch \subseteq queue
    /\ last_ordered' = last_ordered + 1
    /\ batch' = NextBatch
    /\ UNCHANGED <<configVars, ec, ec_run, poolVars, canonical_block_number, chain, persisted,
                   setup_errors, ccVars, committed, crashes>>

\* greth has executed it, or has done so before this start and says so.
BlockExecuted ==
    /\ ec = "ordering" /\ last_ordered > canonical_block_number
    /\ IF last_ordered <= Len(chain)
       THEN answers /\ UNCHANGED chain
       ELSE chain' = Append(chain, batch)
    /\ canonical_block_number' = last_ordered
    /\ next_commit_index' = next_commit_index + K
    /\ queue' = queue \ NextBatch
    /\ UNCHANGED <<configVars, ec, ec_run, last_ordered, batch, persisted, setup_errors, ccVars,
                   committed, crashes>>

Persist ==
    /\ ec = "ordering" /\ persisted < Len(chain)
    /\ persisted' = persisted + 1
    /\ UNCHANGED <<configVars, ec, ec_run, poolVars, loopVars, chain, setup_errors, ccVars,
                   committed, crashes>>

\* What was not persisted is gone.
CrashExecutionClient ==
    /\ ec # "down" /\ crashes < MaxCrashes
    /\ crashes' = crashes + 1
    /\ ec' = "down"
    /\ chain' = SubSeq(chain, 1, persisted)
    /\ queue' = {} /\ next_commit_index' = 1
    /\ last_ordered' = 0 /\ canonical_block_number' = 0 /\ batch' = {}
    /\ UNCHANGED <<configVars, ec_run, persisted, setup_errors, ccVars, committed>>

-----------------------------------------------------------------------------
(* The consensus client.                                                   *)

\* ValidatorNode::start takes the pair of keys at its index: an index out of range panics.
StartValidatorNode(keypairs) == node_index < Len(keypairs)

\* Faulty: the commits a former run took are not asked for again.
StartWhereItWas ==
    /\ cc = "down"
    /\ authorities' = load_committees(config)
    /\ peer_addresses' = extract_peer_addresses(authorities')
    /\ StartValidatorNode(authorities')
    /\ cc' = "connecting"
    /\ sent' = next_commit_index - 1
    /\ UNCHANGED <<configVars, ecVars, connection, committed, crashes>>

\* start_consensus_client: the files are read, and the core is started;
\* CommitConsumer::new(0) asks for the commits from the first.
start_consensus_client ==
    /\ cc = "down"
    /\ authorities' = load_committees(config)
    /\ peer_addresses' = extract_peer_addresses(authorities')
    /\ StartValidatorNode(authorities')
    /\ cc' = "connecting"
    /\ sent' = 0
    /\ UNCHANGED <<configVars, ecVars, connection, committed, crashes>>

\* Both expects of ExecutionClient::start hold.
Connect ==
    /\ cc = "connecting" /\ Serving
    /\ cc' = "running"
    /\ connection' = ec_run
    /\ UNCHANGED <<configVars, ecVars, authorities, peer_addresses, sent, committed, crashes>>


\* One of them panics: the task ends, and with it the process.
ConnectFails ==
    /\ cc = "connecting" /\ ~Serving
    /\ cc' = "down"
    /\ authorities' = << >> /\ peer_addresses' = << >> /\ sent' = 0
    /\ UNCHANGED <<configVars, ecVars, connection, committed, crashes>>

CoreCommits ==
    /\ cc # "down" /\ committed < MaxCommits
    /\ committed' = committed + 1
    /\ UNCHANGED <<configVars, ecVars, ccVars, crashes>>

\* subdag_handler: one attempt, over HTTP, to whatever execution client answers.
SubmitCommittedSubdag ==
    /\ cc = "running" /\ sent < committed
    /\ sent' = sent + 1
    /\ queue' = (IF Serving /\ sent' >= next_commit_index THEN queue \cup {sent'} ELSE queue)
    /\ UNCHANGED <<configVars, ec, ec_run, next_commit_index, loopVars, chain, persisted,
                   setup_errors, cc, authorities, peer_addresses, connection, committed, crashes>>

CrashConsensusClient ==
    /\ cc # "down" /\ crashes < MaxCrashes
    /\ crashes' = crashes + 1
    /\ cc' = "down"
    /\ authorities' = << >> /\ peer_addresses' = << >> /\ connection' = 0 /\ sent' = 0
    /\ UNCHANGED <<configVars, ecVars, committed>>

Next ==
    \/ StartExecutionClient \/ extend_rpc_modules \/ on_node_started \/ PipeExtendFails
    \/ OrderBlock \/ BlockExecuted \/ Persist \/ CrashExecutionClient
    \/ start_consensus_client \/ Connect \/ ConnectFails
    \/ CoreCommits \/ SubmitCommittedSubdag \/ CrashConsensusClient

Spec == Init /\ [][Next]_vars

\* The supervisors start what is down; tasks that can go on do.  Crashes and errors are not fair.
FairSpec ==
    /\ Spec
    /\ WF_vars(StartExecutionClient) /\ WF_vars(extend_rpc_modules) /\ WF_vars(on_node_started)
    /\ WF_vars(OrderBlock) /\ WF_vars(BlockExecuted)
    /\ WF_vars(start_consensus_client) /\ WF_vars(Connect \/ ConnectFails)
    /\ WF_vars(SubmitCommittedSubdag)

-----------------------------------------------------------------------------

\* Restarts do not change the chain: the block of each number has the same commits, each commit is
\* in one block, and what a restarted execution client orders again under a number it has on disk
\* is what that block is.
ChainFollowsTheLog ==
    LET Batch(n) == (n - 1) * K + 1..n * K
    IN  /\ \A n \in DOMAIN chain : chain[n] = Batch(n)
        /\ last_ordered > canonical_block_number => batch = Batch(last_ordered)

\* Keys, stake and address go by position, though keys are drawn anew and addresses may have been
\* edited: what a node loads for an authority, its own keys among it, is what the file shows.
KeysMatchTheFile ==
    /\ Len(peer_addresses) = Len(authorities)
    /\ \A i \in DOMAIN authorities :
          /\ authorities[i].keys = config.authorities[i].keys
          /\ peer_addresses[i] = parse_ip_port_from_address(config.authorities[i].address)

\* The thresholds in the file are right for its authorities.
FileStatesSoundThresholds ==
    SoundThresholds(Len(config.authorities), config.quorum_threshold, config.validity_threshold)

\* A node agrees with its file, and the file with the number of its authorities.
FilesAreFollowed == KeysMatchTheFile /\ FileStatesSoundThresholds


\* A consensus client that connected to the present run of the execution client brings it the
\* whole log: every full batch of commits becomes a block, if greth reports blocks it has.
CatchesUp ==
    answers /\ <>[](ec = "ordering" /\ cc = "running" /\ connection = ec_run)
        => <>[](Len(chain) = committed \div K)
=============================================================================
