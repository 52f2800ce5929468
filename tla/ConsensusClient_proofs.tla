------------------------ MODULE ConsensusClient_proofs ------------------------
(***************************************************************************)
(* Proofs about the consensus client.  About NodeLifecycle, for every      *)
(* batch size, log and number of crashes: the chain is a function of the   *)
(* log, and a connection that holds can bring all of it.  About Committee, *)
(* for every number of authorities: the thresholds of a generated file,    *)
(* and what nodes load of it.  About BeaconState, for every set of votes,  *)
(* blocks and sub-DAGs and every length of its vectors: payloads form a    *)
(* chain, the data that most of all votes are for is in force, rings give  *)
(* back what was put into them, and a block takes effect whole or not at   *)
(* all.                                                                    *)
(***************************************************************************)
EXTENDS NodeLifecycle, BeaconState, FiniteSetTheorems, SequenceTheorems, TLAPS

-----------------------------------------------------------------------------
(* The node.                                                               *)

\* The commits of block n, as ChainFollowsTheLog has them.
BatchOf(n) == (n - 1) * K + 1..n * K

LEMMA Counts ==
    /\ K \in Nat
    /\ \A c \in Nat : c * K \in Nat /\ (c + 1) * K = c * K + K /\ ((c + 1) - 1) * K = c * K
  <1>1. K \in Nat
    BY LifecycleConstants
  <1>2. ASSUME NEW c \in Nat
        PROVE  c * K \in Nat /\ (c + 1) * K = c * K + K /\ ((c + 1) - 1) * K = c * K
    BY <1>1
  <1>3. QED
    BY <1>1, <1>2

\* The pool is where the canonical block left it, the block in flight is the one after that,
\* and the canonical one is in the chain.
Follows ==
    /\ canonical_block_number \in Nat
    /\ last_ordered \in {canonical_block_number, canonical_block_number + 1}
    /\ next_commit_index = canonical_block_number * K + 1
    /\ last_ordered # canonical_block_number => batch = BatchOf(last_ordered)
    /\ chain \in Seq(SUBSET Int)
    /\ \A n \in 1..Len(chain) : chain[n] = BatchOf(n)
    /\ persisted \in 0..Len(chain)
    /\ canonical_block_number <= Len(chain)

ChainPart == <<loopVars, next_commit_index, chain, persisted>>

LEMMA FollowsLeft ==
    ASSUME Follows, UNCHANGED ChainPart
    PROVE  Follows'
  BY DEF Follows, ChainPart, loopVars, BatchOf

LEMMA FollowsFresh ==
    ASSUME Follows, next_commit_index' = 1, last_ordered' = 0, canonical_block_number' = 0,
           chain' \in Seq(SUBSET Int), persisted' \in 0..Len(chain'),
           \A n \in 1..Len(chain') : chain'[n] = BatchOf(n)
    PROVE  Follows'
  <1>1. Len(chain') \in Nat
    BY LenProperties
  <1>2. 0 * K = 0
    BY Counts
  <1>3. QED
    BY <1>1, <1>2 DEF Follows

LEMMA FollowsInit == Init => Follows
  <1> SUFFICES ASSUME Init PROVE Follows
    OBVIOUS
  <1>1. chain = << >> /\ chain \in Seq(SUBSET Int) /\ Len(chain) = 0
    BY DEF Init
  <1>2. 0 * K = 0
    BY Counts
  <1>3. QED
    BY <1>1, <1>2 DEF Init, Follows

LEMMA OrderedNext ==
    ASSUME Follows, OrderBlock
    PROVE  Follows'
  <1> DEFINE c == canonical_block_number
  <1>1. c \in Nat /\ last_ordered = c /\ next_commit_index = c * K + 1
    BY DEF Follows, OrderBlock
  <1>2. last_ordered' = c + 1 /\ UNCHANGED <<canonical_block_number, next_commit_index, chain, persisted>>
    BY <1>1 DEF OrderBlock, poolVars
  <1>3. batch' = {next_commit_index + i : i \in 0..K - 1}
    BY DEF OrderBlock, NextBatch
  <1>4. BatchOf(c + 1) = c * K + 1..c * K + K
    BY <1>1, Counts DEF BatchOf
  <1>5. \A x : x \in batch' <=> x \in c * K + 1..c * K + K
    <2> DEFINE b == c * K
    <2>1. b \in Nat /\ K \in Nat /\ next_commit_index = b + 1
      BY <1>1, Counts
    <2> HIDE DEF b
    <2>2. ASSUME NEW x \in b + 1..b + K PROVE x \in batch'
      <3>1. x - (b + 1) \in 0..K - 1 /\ x = next_commit_index + (x - (b + 1))
        BY <2>1, <2>2
      <3>2. QED
        BY <1>3, <3>1
    <2>3. ASSUME NEW i \in 0..K - 1 PROVE next_commit_index + i \in b + 1..b + K
      BY <2>1
    <2>4. QED
      BY <1>3, <2>2, <2>3 DEF b
  <1>6. batch' = BatchOf(c + 1)
    BY <1>4, <1>5
  <1>7. QED
    BY <1>1, <1>2, <1>6 DEF Follows, BatchOf

LEMMA ExecutedNext ==
    ASSUME Follows, BlockExecuted
    PROVE  Follows'
  <1> DEFINE c == canonical_block_number
             n == Len(chain)
  <1>1. /\ c \in Nat /\ last_ordered = c + 1 /\ batch = BatchOf(c + 1)
        /\ next_commit_index = c * K + 1
    BY DEF Follows, BlockExecuted
  <1>2. canonical_block_number' = c + 1 /\ last_ordered' = c + 1 /\ persisted' = persisted
    BY <1>1 DEF BlockExecuted
  <1>3. next_commit_index' = (c + 1) * K + 1
    <2>1. next_commit_index' = c * K + 1 + K
      BY <1>1 DEF BlockExecuted
    <2>2. QED
      BY <1>1, <2>1, Counts
  <1>4. n \in Nat /\ c <= n /\ persisted \in 0..n
    BY LenProperties DEF Follows
  <1>5. CASE c + 1 <= n
    <2>1. chain' = chain
      BY <1>1, <1>5 DEF BlockExecuted
    <2>2. QED
      BY <1>1, <1>2, <1>3, <1>5, <2>1 DEF Follows, BatchOf
  <1>6. CASE c + 1 > n
    <2>1. c = n
      BY <1>1, <1>4, <1>6
    <2>2. chain' = Append(chain, BatchOf(n + 1))
      BY <1>1, <1>6, <2>1 DEF BlockExecuted
    <2>3. BatchOf(n + 1) \in SUBSET Int
      BY <1>4, Counts DEF BatchOf
    <2>4. /\ chain' \in Seq(SUBSET Int) /\ Len(chain') = n + 1
          /\ \A i \in 1..n : chain'[i] = chain[i]
          /\ chain'[n + 1] = BatchOf(n + 1)
      BY <2>2, <2>3, AppendProperties DEF Follows
    <2>5. \A i \in 1..n + 1 : chain'[i] = BatchOf(i)
      <3>1. \A i \in 1..n : chain'[i] = BatchOf(i)
        BY <2>4 DEF Follows
      <3>2. QED
        BY <1>4, <2>4, <3>1
    <2>6. persisted' \in 0..Len(chain') /\ canonical_block_number' <= Len(chain')
      BY <1>2, <1>4, <2>1, <2>4
    <2>7. QED
      BY <1>1, <1>2, <1>3, <2>4, <2>5, <2>6 DEF Follows
  <1>7. QED
    BY <1>1, <1>4, <1>5, <1>6

LEMMA CrashForgets ==
    ASSUME Follows, CrashExecutionClient
    PROVE  Follows'
  <1>1. chain \in Seq(SUBSET Int) /\ persisted \in 0..Len(chain) /\ Len(chain) \in Nat
    BY LenProperties DEF Follows
  <1>2. chain' = SubSeq(chain, 1, persisted) /\ persisted' = persisted
    BY DEF CrashExecutionClient
  <1>3. /\ chain' \in Seq(SUBSET Int) /\ Len(chain') = persisted
        /\ \A i \in 1..persisted : chain'[i] = chain[i]
    BY <1>1, <1>2, SubSeqProperties
  <1>4. \A i \in 1..Len(chain') : chain'[i] = BatchOf(i)
    BY <1>1, <1>3 DEF Follows
  <1>5. QED
    BY <1>1, <1>2, <1>3, <1>4, FollowsFresh DEF CrashExecutionClient

LEMMA FollowsStep ==
    ASSUME Follows, [Next]_vars
    PROVE  Follows'
  <1> USE DEF ChainPart, loopVars, poolVars, ecVars
  <1>1. CASE StartExecutionClient
    BY <1>1, FollowsFresh DEF StartExecutionClient, Follows
  <1>2. CASE extend_rpc_modules \/ on_node_started \/ PipeExtendFails
    BY <1>2, FollowsLeft DEF extend_rpc_modules, on_node_started, PipeExtendFails
  <1>3. CASE OrderBlock
    BY <1>3, OrderedNext
  <1>4. CASE BlockExecuted
    BY <1>4, ExecutedNext
  <1>5. CASE Persist
    <2>1. persisted' = persisted + 1 /\ persisted < Len(chain)
          /\ UNCHANGED <<loopVars, next_commit_index, chain>>
      BY <1>5 DEF Persist
    <2>2. persisted' \in 0..Len(chain)
      BY <2>1, LenProperties DEF Follows
    <2>3. QED
      BY <2>1, <2>2 DEF Follows, BatchOf
  <1>6. CASE CrashExecutionClient
    BY <1>6, CrashForgets
  <1>7. CASE start_consensus_client \/ Connect \/ ConnectFails \/ CoreCommits
             \/ CrashConsensusClient
    BY <1>7, FollowsLeft
       DEF start_consensus_client, Connect, ConnectFails, CoreCommits, CrashConsensusClient
  <1>8. CASE SubmitCommittedSubdag
    BY <1>8, FollowsLeft DEF SubmitCommittedSubdag
  <1>9. CASE UNCHANGED vars
    BY <1>9, FollowsLeft DEF vars
  <1>10. QED
    BY <1>1, <1>2, <1>3, <1>4, <1>5, <1>6, <1>7, <1>8, <1>9 DEF Next

LEMMA FollowsIsEnough == Follows => ChainFollowsTheLog
  <1> SUFFICES ASSUME Follows PROVE ChainFollowsTheLog
    OBVIOUS
  <1>1. DOMAIN chain = 1..Len(chain)
    BY LenProperties DEF Follows
  <1>2. last_ordered > canonical_block_number => last_ordered # canonical_block_number
    BY DEF Follows
  <1>3. QED
    BY <1>1, <1>2 DEF Follows, ChainFollowsTheLog, BatchOf

\* ChainFollowsTheLog, for every batch size, log and number of crashes, and whether greth answers
\* for blocks it has or not: pool, block numbers and batches start again together
\* (MysticetiConsensus::new, consensus.rs).
THEOREM RestartsKeepTheChain == Spec => []ChainFollowsTheLog
  <1>1. QED
    BY FollowsInit, FollowsStep, FollowsIsEnough, PTL DEF Spec

-----------------------------------------------------------------------------
(* Catching up after restarts: what CatchesUp needs besides fairness.      *)

\* The consensus client is connected to the present run of the execution client.
Connected == ec = "ordering" /\ cc = "running" /\ connection = ec_run

\* The commits of the first n blocks.
InBlocks(n) == n * K

\* A connection is to a run that served; on a connection to the present run every commit that was
\* sent and is still needed is in the pool; blocks are of commits there are.
Sizes ==
    /\ committed \in Nat /\ sent \in Nat /\ sent <= committed
    /\ ec_run \in Nat /\ connection \in Nat /\ connection <= ec_run
    /\ InBlocks(last_ordered) <= committed /\ InBlocks(Len(chain)) <= committed

Links ==
    /\ ec \in {"down", "starting", "serving", "ordering", "without consensus"}
    /\ ec = "starting" => ec_run # 0 /\ connection # ec_run
    /\ cc # "running" => sent = 0
    /\ cc = "running" => pipe

InThePool ==
    /\ \A c \in queue : c \in Nat \ {0} /\ c <= committed
    /\ cc = "running" /\ connection = ec_run /\ ec # "down"
          => \A c \in Nat : next_commit_index <= c /\ c <= sent => c \in queue

Brought == Sizes /\ Links /\ InThePool

\* What OrderBlock, BlockExecuted or SubmitCommittedSubdag waits for.
Ready ==
    \/ ec = "ordering" /\ canonical_block_number = last_ordered /\ NextBatch \subseteq queue
    \/ ec = "ordering" /\ last_ordered > canonical_block_number
          /\ (last_ordered <= Len(chain) => answers)
    \/ cc = "running" /\ sent < committed

\* Commits to send, blocks to order and blocks to execute, as many as there could ever be of them.
StepsLeft ==
    (committed - sent) + (committed - last_ordered) + (committed - canonical_block_number)

\* While the connection holds, a step brings the chain nearer to the log, persists a block, or is a
\* commit or a crash.
CatchUpNears ==
    [][Connected =>
          \/ (OrderBlock \/ BlockExecuted \/ SubmitCommittedSubdag) /\ StepsLeft' = StepsLeft - 1
          \/ Persist /\ StepsLeft' = StepsLeft
          \/ CoreCommits \/ CrashExecutionClient \/ CrashConsensusClient]_vars

LEMMA Times ==
    /\ InBlocks(0) = 0
    /\ \A m \in Nat : InBlocks(m) \in Nat /\ m <= InBlocks(m)
    /\ \A m, n \in Nat : m <= n => InBlocks(m) <= InBlocks(n)
  <1>1. K \in Nat \ {0}
    BY LifecycleConstants
  <1>2. ASSUME NEW m \in Nat PROVE m * K \in Nat /\ m <= m * K
    BY <1>1
  <1>3. ASSUME NEW m \in Nat, NEW n \in Nat, m <= n PROVE m * K <= n * K
    <2>1. n - m \in Nat /\ (n - m) * K \in Nat
      BY <1>1, <1>3
    <2>2. n * K = m * K + (n - m) * K
      BY <1>1, <1>3
    <2>3. m * K \in Nat /\ n * K \in Nat
      BY <1>2
    <2> DEFINE a == m * K
               b == n * K
               d == (n - m) * K
    <2>4. a \in Nat /\ b \in Nat /\ d \in Nat /\ b = a + d
      BY <2>1, <2>2, <2>3
    <2> HIDE DEF a, b, d
    <2>5. a <= b
      BY <2>4
    <2>6. QED
      BY <2>5 DEF a, b
  <1>4. QED
    BY <1>1, <1>2, <1>3 DEF InBlocks

\* A batch in the pool is of commits there are, and is all that lies between two blocks.
LEMMA BatchIs ==
    ASSUME Follows
    PROVE  /\ NextBatch = next_commit_index..next_commit_index + K - 1
           /\ next_commit_index \in Nat \ {0}
           /\ next_commit_index + K - 1 = InBlocks(canonical_block_number + 1)
           /\ next_commit_index <= next_commit_index + K - 1
  <1> DEFINE b == canonical_block_number * K
  <1>1. /\ K \in Nat \ {0} /\ b \in Nat /\ next_commit_index = b + 1
        /\ InBlocks(canonical_block_number + 1) = b + K
    BY LifecycleConstants, Counts DEF Follows, InBlocks
  <1> HIDE DEF b
  <1>2. ASSUME NEW x \in next_commit_index..next_commit_index + K - 1 PROVE x \in NextBatch
    <2>1. x - next_commit_index \in 0..K - 1 /\ x = next_commit_index + (x - next_commit_index)
      BY <1>1
    <2>2. QED
      BY <2>1 DEF NextBatch
  <1>3. ASSUME NEW i \in 0..K - 1
        PROVE  next_commit_index + i \in next_commit_index..next_commit_index + K - 1
    BY <1>1
  <1>4. NextBatch = next_commit_index..next_commit_index + K - 1
    BY <1>2, <1>3 DEF NextBatch
  <1>5. QED
    BY <1>1, <1>4

LEMMA BroughtInit == Init => Brought
  <1> SUFFICES ASSUME Init PROVE Brought
    OBVIOUS
  <1>1. Len(chain) = 0
    BY DEF Init
  <1>2. QED
    BY <1>1, Times DEF Init, Brought, Sizes, Links, InThePool

\* The numbers that the arguments below need.
LEMMA Counted ==
    ASSUME Follows
    PROVE  /\ Len(chain) \in Nat /\ persisted \in Nat /\ persisted <= Len(chain)
           /\ canonical_block_number \in Nat /\ canonical_block_number <= Len(chain)
           /\ last_ordered \in Nat /\ canonical_block_number <= last_ordered
           /\ next_commit_index \in Nat \ {0} /\ K \in Nat \ {0}
  <1>1. Len(chain) \in Nat
    BY LenProperties DEF Follows
  <1>2. QED
    BY <1>1, BatchIs, LifecycleConstants DEF Follows

SizesPart == <<committed, sent, ec_run, connection, last_ordered, chain>>

LEMMA SizesLeft ==
    ASSUME Sizes, UNCHANGED SizesPart
    PROVE  Sizes'
  BY DEF Sizes, SizesPart

LEMMA SizesStep ==
    ASSUME Follows, Brought, [Next]_vars
    PROVE  Sizes'
  <1> USE DEF loopVars, poolVars, ecVars, ccVars, configVars
  <1>1. Sizes /\ Links
    BY DEF Brought
  <1>2. CASE StartExecutionClient
    BY <1>1, <1>2, Times DEF StartExecutionClient, Sizes
  <1>3. CASE extend_rpc_modules \/ on_node_started \/ PipeExtendFails
    BY <1>1, <1>3, SizesLeft DEF extend_rpc_modules, on_node_started, PipeExtendFails, SizesPart
  <1>4. CASE OrderBlock
    <2>1. last_ordered' = canonical_block_number + 1
      BY <1>4 DEF OrderBlock
    <2>2. next_commit_index + K - 1 \in NextBatch
      BY BatchIs, Counted
    <2>3. InBlocks(last_ordered') <= committed
      BY <1>4, <2>1, <2>2, BatchIs DEF OrderBlock, Brought, InThePool
    <2>4. QED
      BY <1>1, <1>4, <2>3 DEF OrderBlock, Sizes
  <1>5. CASE BlockExecuted
    <2>1. UNCHANGED <<last_ordered, ec_run, ccVars, committed>>
      BY <1>5 DEF BlockExecuted
    <2>2. InBlocks(Len(chain')) <= committed
      <3>1. CASE last_ordered <= Len(chain)
        BY <1>1, <1>5, <3>1 DEF BlockExecuted, Sizes
      <3>2. CASE ~(last_ordered <= Len(chain))
        <4>1. last_ordered = canonical_block_number + 1 /\ batch = BatchOf(last_ordered)
          BY <1>5 DEF BlockExecuted, Follows
        <4>2. last_ordered = Len(chain) + 1
          BY <3>2, <4>1, Counted
        <4>3. batch \in SUBSET Int
          BY <4>1, Counted, Counts DEF BatchOf
        <4>4. chain' = Append(chain, batch)
          BY <1>5, <3>2 DEF BlockExecuted
        <4>5. Len(chain') = last_ordered
          BY <4>2, <4>3, <4>4, AppendProperties DEF Follows
        <4>6. QED
          BY <1>1, <4>5 DEF Sizes
      <3>3. QED
        BY <3>1, <3>2
    <2>3. QED
      BY <1>1, <2>1, <2>2 DEF Sizes
  <1>6. CASE Persist
    BY <1>1, <1>6, SizesLeft DEF Persist, SizesPart
  <1>7. CASE CrashExecutionClient
    <2>1. Len(chain') = persisted
      BY <1>7, Counted, SubSeqProperties DEF CrashExecutionClient, Follows
    <2>2. InBlocks(Len(chain')) <= committed
      <3>1. /\ InBlocks(persisted) <= InBlocks(Len(chain))
            /\ InBlocks(Len(chain)) \in Nat /\ InBlocks(persisted) \in Nat
        BY Counted, Times
      <3>2. QED
        BY <1>1, <2>1, <3>1 DEF Sizes
    <2>3. /\ UNCHANGED <<committed, sent, ec_run, connection>>
          /\ last_ordered' = 0
      BY <1>7 DEF CrashExecutionClient
    <2>4. InBlocks(last_ordered') <= committed
      BY <1>1, <2>3, Times DEF Sizes
    <2>5. QED
      BY <1>1, <2>2, <2>3, <2>4 DEF Sizes
  <1>8. CASE start_consensus_client \/ ConnectFails \/ CrashConsensusClient
    BY <1>1, <1>8 DEF start_consensus_client, ConnectFails, CrashConsensusClient, Sizes
  <1>9. CASE Connect
    BY <1>1, <1>9 DEF Connect, Sizes
  <1>10. CASE CoreCommits
    <2>1. InBlocks(last_ordered) \in Nat /\ InBlocks(Len(chain)) \in Nat
      BY Counted, Times
    <2>2. QED
      BY <1>1, <1>10, <2>1 DEF CoreCommits, Sizes
  <1>11. CASE SubmitCommittedSubdag
    BY <1>1, <1>11 DEF SubmitCommittedSubdag, Sizes
  <1>12. CASE UNCHANGED vars
    BY <1>1, <1>12, SizesLeft DEF vars, SizesPart
  <1>13. QED
    BY <1>2, <1>3, <1>4, <1>5, <1>6, <1>7, <1>8, <1>9, <1>10, <1>11, <1>12 DEF Next

LEMMA LinksStep ==
    ASSUME Follows, Brought, [Next]_vars
    PROVE  Links'
  <1> USE DEF loopVars, poolVars, ecVars, ccVars, configVars
  <1>1. Sizes /\ Links
    BY DEF Brought
  <1>2. CASE StartExecutionClient
    BY <1>1, <1>2 DEF StartExecutionClient, Sizes, Links
  <1>3. CASE extend_rpc_modules \/ on_node_started \/ PipeExtendFails
    BY <1>1, <1>3 DEF extend_rpc_modules, on_node_started, PipeExtendFails, Links
  <1>4. CASE OrderBlock \/ BlockExecuted \/ Persist \/ CrashExecutionClient
    BY <1>1, <1>4 DEF OrderBlock, BlockExecuted, Persist, CrashExecutionClient, Links
  <1>5. CASE start_consensus_client \/ ConnectFails \/ CoreCommits \/ SubmitCommittedSubdag
    BY <1>1, <1>5
       DEF start_consensus_client, ConnectFails, CoreCommits, SubmitCommittedSubdag, Links
  <1>6. CASE Connect
    BY <1>1, <1>6 DEF Connect, Serving, Links
  <1>7. CASE CrashConsensusClient
    BY <1>1, <1>7 DEF CrashConsensusClient, Sizes, Links
  <1>8. CASE UNCHANGED vars
    BY <1>1, <1>8 DEF vars, Links
  <1>9. QED
    BY <1>2, <1>3, <1>4, <1>5, <1>6, <1>7, <1>8 DEF Next

LEMMA InThePoolStep ==
    ASSUME Follows, Brought, [Next]_vars
    PROVE  InThePool'
  <1> USE DEF loopVars, poolVars, ecVars, ccVars, configVars
  <1>1. Sizes /\ Links /\ InThePool
    BY DEF Brought
  <1>2. CASE StartExecutionClient
    BY <1>1, <1>2 DEF StartExecutionClient, InThePool, Sizes
  <1>3. CASE extend_rpc_modules \/ on_node_started \/ PipeExtendFails \/ OrderBlock \/ Persist
    BY <1>1, <1>3
       DEF extend_rpc_modules, on_node_started, PipeExtendFails, OrderBlock, Persist, InThePool
  <1>4. CASE BlockExecuted
    <2>1. /\ next_commit_index' = next_commit_index + K /\ queue' = queue \ NextBatch
          /\ UNCHANGED <<ec, ec_run, ccVars, committed>>
      BY <1>4 DEF BlockExecuted
    <2>2. ASSUME NEW c \in Nat, next_commit_index + K <= c, c <= sent
          PROVE  next_commit_index <= c /\ c \notin NextBatch
      BY <2>2, BatchIs, Counted
    <2>3. QED
      BY <1>1, <2>1, <2>2 DEF InThePool
  <1>5. CASE CrashExecutionClient
    BY <1>5 DEF CrashExecutionClient, InThePool
  <1>6. CASE start_consensus_client \/ ConnectFails \/ CrashConsensusClient
    BY <1>1, <1>6 DEF start_consensus_client, ConnectFails, CrashConsensusClient, InThePool
  <1>7. CASE Connect
    <2>1. sent = 0 /\ UNCHANGED <<queue, next_commit_index, sent, committed>>
      BY <1>1, <1>7 DEF Connect, Links
    <2>2. ~(\E c \in Nat : next_commit_index <= c /\ c <= sent)
      BY <2>1, Counted
    <2>3. QED
      BY <1>1, <2>1, <2>2 DEF InThePool
  <1>8. CASE CoreCommits
    BY <1>1, <1>8 DEF CoreCommits, Sizes, InThePool
  <1>9. CASE SubmitCommittedSubdag
    <2>1. /\ sent' = sent + 1 /\ sent < committed /\ cc = "running"
          /\ queue' = (IF Serving /\ sent + 1 >= next_commit_index
                       THEN queue \cup {sent + 1} ELSE queue)
          /\ UNCHANGED <<ec, ec_run, next_commit_index, cc, connection, committed>>
      BY <1>9 DEF SubmitCommittedSubdag
    <2>2. connection = ec_run /\ ec # "down" => Serving
      BY <1>1, <2>1 DEF Links, Serving
    <2>3. \A c \in queue' : c \in Nat \ {0} /\ c <= committed
      BY <1>1, <2>1 DEF Sizes, InThePool
    <2>4. ASSUME connection = ec_run, ec # "down", NEW c \in Nat,
                 next_commit_index <= c, c <= sent + 1
          PROVE  c \in queue'
      <3>1. CASE c <= sent
        BY <1>1, <2>1, <2>4, <3>1 DEF InThePool
      <3>2. CASE ~(c <= sent)
        <4>1. c = sent + 1
          BY <1>1, <2>4, <3>2 DEF Sizes
        <4>2. QED
          BY <2>1, <2>2, <2>4, <4>1, Counted
      <3>3. QED
        BY <3>1, <3>2
    <2>5. QED
      BY <2>1, <2>3, <2>4 DEF InThePool
  <1>10. CASE UNCHANGED vars
    BY <1>1, <1>10 DEF vars, InThePool
  <1>11. QED
    BY <1>2, <1>3, <1>4, <1>5, <1>6, <1>7, <1>8, <1>9, <1>10 DEF Next

LEMMA BroughtStep ==
    ASSUME Follows, Brought, [Next]_vars
    PROVE  Brought'
  BY SizesStep, LinksStep, InThePoolStep DEF Brought

LEMMA ConnectedIsReady ==
    ASSUME Follows, Brought, Connected, answers, InBlocks(Len(chain) + 1) <= committed
    PROVE  Ready
  <1>1. CASE canonical_block_number # last_ordered
    BY <1>1, Counted DEF Ready, Connected
  <1>2. CASE sent # committed
    BY <1>2 DEF Ready, Connected, Brought, Sizes
  <1>3. CASE canonical_block_number = last_ordered /\ sent = committed
    <2>1. /\ canonical_block_number + 1 \in Nat /\ Len(chain) + 1 \in Nat
          /\ canonical_block_number + 1 <= Len(chain) + 1
      BY Counted
    <2>2. /\ InBlocks(canonical_block_number + 1) <= InBlocks(Len(chain) + 1)
          /\ InBlocks(canonical_block_number + 1) \in Nat /\ InBlocks(Len(chain) + 1) \in Nat
      BY <2>1, Times
    <2>3. InBlocks(canonical_block_number + 1) <= sent
      BY <1>3, <2>2 DEF Brought, Sizes
    <2>4. \A c \in Nat : next_commit_index <= c /\ c <= sent => c \in queue
      BY DEF Brought, InThePool, Connected
    <2>5. NextBatch \subseteq queue
      <3>1. ASSUME NEW c \in next_commit_index..next_commit_index + K - 1 PROVE c \in queue
        <4>1. sent \in Nat
          BY DEF Brought, Sizes
        <4>2. c \in Nat /\ next_commit_index <= c /\ c <= sent
          BY <2>3, <4>1, BatchIs, Counted
        <4>3. QED
          BY <2>4, <4>2
      <3>2. QED
        BY <3>1, BatchIs
    <2>6. QED
      BY <1>3, <2>5 DEF Ready, Connected
  <1>4. QED
    BY <1>1, <1>2, <1>3

\* While the consensus client is connected to the present run of the execution client, and greth
\* reports blocks it has, one of the two can go on until every full batch of the log is in the chain.
THEOREM NodeNeverStops ==
    Spec => [](Connected /\ answers /\ InBlocks(Len(chain) + 1) <= committed => Ready)
  <1>1. Follows /\ Brought
        => (Connected /\ answers /\ InBlocks(Len(chain) + 1) <= committed => Ready)
    BY ConnectedIsReady
  <1>2. QED
    BY <1>1, FollowsInit, FollowsStep, BroughtInit, BroughtStep, PTL DEF Spec

LEMMA StepsAreLeft ==
    ASSUME Follows, Brought
    PROVE  StepsLeft \in 0..3 * committed
  <1>1. /\ InBlocks(last_ordered) \in Nat /\ last_ordered <= InBlocks(last_ordered)
        /\ committed \in Nat /\ sent \in Nat /\ sent <= committed
        /\ InBlocks(last_ordered) <= committed
    BY Times, Counted DEF Brought, Sizes
  <1>2. last_ordered <= committed /\ canonical_block_number <= committed
    BY <1>1, Counted
  <1>3. QED
    BY <1>1, <1>2, Counted DEF StepsLeft

LEMMA ConnectedStep ==
    ASSUME Follows, Brought, Connected, Next
    PROVE  \/ (OrderBlock \/ BlockExecuted \/ SubmitCommittedSubdag) /\ StepsLeft' = StepsLeft - 1
           \/ Persist /\ StepsLeft' = StepsLeft
           \/ CoreCommits \/ CrashExecutionClient \/ CrashConsensusClient
  <1> USE DEF loopVars, poolVars, ecVars, ccVars, configVars
  <1>1. /\ last_ordered \in Nat /\ canonical_block_number \in Nat /\ committed \in Nat
        /\ sent \in Nat
    BY Counted DEF Brought, Sizes
  <1>2. CASE OrderBlock
    BY <1>1, <1>2 DEF OrderBlock, StepsLeft
  <1>3. CASE BlockExecuted
    <2>1. canonical_block_number' = canonical_block_number + 1 /\ last_ordered' = last_ordered
          /\ sent' = sent /\ committed' = committed
      BY <1>3 DEF BlockExecuted, Follows
    <2>2. QED
      BY <1>1, <1>3, <2>1 DEF StepsLeft
  <1>4. CASE SubmitCommittedSubdag
    BY <1>1, <1>4 DEF SubmitCommittedSubdag, StepsLeft
  <1>5. CASE Persist
    BY <1>5 DEF Persist, StepsLeft
  <1>6. ~StartExecutionClient /\ ~extend_rpc_modules /\ ~on_node_started /\ ~PipeExtendFails
        /\ ~start_consensus_client /\ ~Connect /\ ~ConnectFails
    BY DEF Connected, StartExecutionClient, extend_rpc_modules, on_node_started, PipeExtendFails,
           start_consensus_client, Connect, ConnectFails
  <1>7. QED
    BY <1>2, <1>3, <1>4, <1>5, <1>6 DEF Next

\* Each such step is one of at most 3 * committed: a connection that holds, with no further commits,
\* ends with the chain of the log.
THEOREM CatchUpComesNearer == Spec => [](StepsLeft \in 0..3 * committed) /\ CatchUpNears
  <1>1. Follows /\ Brought => StepsLeft \in 0..3 * committed
    BY StepsAreLeft
  <1>2. Follows /\ Brought /\ [Next]_vars
        => [Connected =>
              \/ (OrderBlock \/ BlockExecuted \/ SubmitCommittedSubdag)
                    /\ StepsLeft' = StepsLeft - 1
              \/ Persist /\ StepsLeft' = StepsLeft
              \/ CoreCommits \/ CrashExecutionClient \/ CrashConsensusClient]_vars
    BY ConnectedStep
  <1>3. QED
    BY <1>1, <1>2, FollowsInit, FollowsStep, BroughtInit, BroughtStep, PTL DEF Spec, CatchUpNears

-----------------------------------------------------------------------------
(* The thresholds of a committee file.                                     *)

\* Integer division by two and by three, as the lemmas need it.
LEMMA Halves ==
    ASSUME NEW n \in Nat
    PROVE  /\ n \div 2 \in Nat
           /\ 2 * (n \div 2) <= n /\ n <= 2 * (n \div 2) + 1
  OBVIOUS

LEMMA Thirds ==
    ASSUME NEW n \in Nat
    PROVE  /\ n \div 3 \in Nat
           /\ 3 * (n \div 3) <= n /\ n <= 3 * (n \div 3) + 2
  OBVIOUS

\* The thresholds of generate_committees are sound for every number of authorities (committee.rs:93
\* calls them "2/3 + 1 for Byzantine fault tolerance" and "1/2 + 1 for validity").
THEOREM GeneratedThresholds ==
    ASSUME NEW n \in Nat \ {0}
    PROVE  SoundThresholds(n, quorum_threshold(n), validity_threshold(n))
  <1> DEFINE q == (n * 2) \div 3
             f == (n - 1) \div 3
             h == n \div 2
  <1>1. q \in Nat /\ 3 * q <= 2 * n /\ 2 * n <= 3 * q + 2
    BY Thirds, n * 2 \in Nat, n * 2 = 2 * n
  <1>2. f \in Nat /\ 3 * f <= n - 1 /\ n - 1 <= 3 * f + 2
    BY Thirds, n - 1 \in Nat
  <1>3. h \in Nat /\ 2 * h <= n /\ n <= 2 * h + 1
    BY Halves
  <1> HIDE DEF q, f, h
  <1>4. /\ 2 * (q + 1) - n > f
        /\ q + 1 <= n - f
        /\ h + 1 > f /\ h + 1 <= n
    BY <1>1, <1>2, <1>3
  <1>5. QED
    BY <1>4 DEF q, f, h, SoundThresholds, quorum_threshold, validity_threshold, MaxFaulty

\* A file whose thresholds and keys nobody has edited, and whose authorities are those that were
\* written.
AsGenerated(file) ==
    LET n == Len(file.authorities)
    IN  /\ n \in Nat \ {0}
        /\ file.quorum_threshold = quorum_threshold(n)
        /\ file.validity_threshold = validity_threshold(n)
        /\ \A i \in 1..n : file.authorities[i].keys = KeysOf(i, n)

\* What generate_committees writes is of that form, whatever addresses it is given.
LEMMA FilesAreGenerated ==
    ASSUME NEW n \in Nat \ {0}, NEW stake, NEW docker_ips, NEW network_ports
    PROVE  AsGenerated(generate_committees(n, stake, docker_ips, network_ports))
  <1> DEFINE file == generate_committees(n, stake, docker_ips, network_ports)
  <1>1. file.authorities =
            [i \in 1..n |->
                [index   |-> i - 1,
                 stake   |-> stake,
                 address |-> [protocol |-> "udp", octets |-> docker_ips[i],
                              port |-> network_ports[i]],
                 keys    |-> KeysOf(i, n)]]
    BY DEF generate_committees
  <1>2. Len(file.authorities) = n
    BY <1>1
  <1>3. \A i \in 1..n : file.authorities[i].keys = KeysOf(i, n)
    BY <1>1
  <1>4. /\ file.quorum_threshold = quorum_threshold(n)
        /\ file.validity_threshold = validity_threshold(n)
    BY DEF generate_committees
  <1>5. QED
    BY <1>2, <1>3, <1>4 DEF AsGenerated

\* What a node holds in memory was loaded from its file, and read once.
LoadedFromTheFile ==
    /\ config \in Configs
    /\ authorities \in {<< >>, load_committees(config)}
    /\ peer_addresses = extract_peer_addresses(authorities)

LEMMA LoadedAtFirst == Init => LoadedFromTheFile
  <1>1. extract_peer_addresses(<< >>) = << >>
    BY DEF extract_peer_addresses
  <1>2. QED
    BY <1>1 DEF Init, LoadedFromTheFile

LEMMA LoadedStays ==
    ASSUME LoadedFromTheFile, UNCHANGED <<config, authorities, peer_addresses>>
    PROVE  LoadedFromTheFile'
  BY DEF LoadedFromTheFile

LEMMA LoadedStep == LoadedFromTheFile /\ [Next]_vars => LoadedFromTheFile'
  <1> SUFFICES ASSUME LoadedFromTheFile, [Next]_vars
               PROVE  LoadedFromTheFile'
    OBVIOUS
  <1>1. CASE start_consensus_client
    BY <1>1 DEF start_consensus_client, LoadedFromTheFile, configVars
  <1>2. CASE ConnectFails \/ CrashConsensusClient
    <2>1. authorities' = << >> /\ peer_addresses' = << >> /\ config' = config
      BY <1>2 DEF ConnectFails, CrashConsensusClient, configVars
    <2>2. extract_peer_addresses(<< >>) = << >>
      BY DEF extract_peer_addresses
    <2>3. QED
      BY <2>1, <2>2 DEF LoadedFromTheFile
  <1>3. CASE ~(start_consensus_client \/ ConnectFails \/ CrashConsensusClient)
    <2>1. UNCHANGED <<config, authorities, peer_addresses>>
      BY <1>3 DEF Next, vars, configVars, ccVars, StartExecutionClient, extend_rpc_modules,
          on_node_started, PipeExtendFails, OrderBlock, BlockExecuted, Persist,
          CrashExecutionClient, Connect, CoreCommits, SubmitCommittedSubdag
    <2>2. QED
      BY <2>1, LoadedStays
  <1>4. QED
    BY <1>1, <1>2, <1>3

\* FilesAreFollowed, for every set of generated files, whatever was edited in their addresses and
\* however often a node loads its own again: keys, stake and address go by position, and the
\* thresholds are right for the authorities (load_committees, committee.rs).
THEOREM FilesAreSound ==
    ASSUME \A file \in Configs : AsGenerated(file)
    PROVE  Spec => []FilesAreFollowed
  <1>1. LoadedFromTheFile => FileStatesSoundThresholds
    BY GeneratedThresholds DEF AsGenerated, FileStatesSoundThresholds, LoadedFromTheFile
  <1>2. LoadedFromTheFile => KeysMatchTheFile
    <2> SUFFICES ASSUME LoadedFromTheFile
                 PROVE  KeysMatchTheFile
      OBVIOUS
    <2> DEFINE n == Len(config.authorities)
    <2>1. n \in Nat /\ \A i \in 1..n : config.authorities[i].keys = KeysOf(i, n)
      BY DEF LoadedFromTheFile, AsGenerated
    <2>2. load_committees(config) =
              [i \in 1..n |-> [stake   |-> config.authorities[i].stake,
                               address |-> config.authorities[i].address,
                               keys    |-> KeysOf(i, n)]]
      BY DEF load_committees
    <2>3. CASE authorities = << >>
      BY <2>3 DEF LoadedFromTheFile, KeysMatchTheFile, extract_peer_addresses
    <2>4. CASE authorities = load_committees(config)
      <3> HIDE DEF n
      <3>1. DOMAIN authorities = 1..n /\ Len(authorities) = n
        BY <2>1, <2>2, <2>4
      <3>2. peer_addresses =
                [i \in 1..n |-> parse_ip_port_from_address(authorities[i].address)]
        BY <3>1 DEF LoadedFromTheFile, extract_peer_addresses
      <3>3. Len(peer_addresses) = n
        BY <2>1, <3>2
      <3>4. ASSUME NEW i \in 1..n
            PROVE  /\ authorities[i].keys = config.authorities[i].keys
                   /\ authorities[i].address = config.authorities[i].address
        BY <2>1, <2>2, <2>4
      <3>5. QED
        BY <3>1, <3>2, <3>3, <3>4 DEF KeysMatchTheFile
    <2>5. QED
      BY <2>3, <2>4 DEF LoadedFromTheFile
  <1>3. LoadedFromTheFile => FilesAreFollowed
    BY <1>1, <1>2 DEF FilesAreFollowed
  <1>4. QED
    BY <1>3, LoadedAtFirst, LoadedStep, PTL DEF Spec

-----------------------------------------------------------------------------
(* Counting votes.                                                         *)

LEMMA Places ==
    ASSUME NEW n \in Nat
    PROVE  IsFiniteSet(1..n) /\ Cardinality(1..n) = n
  BY FS_Interval

For(votes, data) == {i \in DOMAIN votes : votes[i] = data}

LEMMA ForFinite ==
    ASSUME NEW S, NEW votes \in Seq(S), NEW data
    PROVE  /\ IsFiniteSet(For(votes, data))
           /\ Votes(votes, data) = Cardinality(For(votes, data))
           /\ Votes(votes, data) \in Nat
           /\ For(votes, data) \subseteq 1..Len(votes)
  <1>1. For(votes, data) \subseteq 1..Len(votes) /\ Len(votes) \in Nat
    BY LenProperties DEF For
  <1>2. IsFiniteSet(1..Len(votes))
    BY <1>1, Places
  <1>3. IsFiniteSet(For(votes, data))
    BY <1>1, <1>2, FS_Subset
  <1>4. QED
    BY <1>1, <1>3, FS_CardinalityType DEF For, Votes

\* A vote adds one to its own data and nothing to another's.
LEMMA OneMoreVote ==
    ASSUME NEW S, NEW votes \in Seq(S), NEW d \in S, NEW data
    PROVE  /\ Append(votes, d) \in Seq(S)
           /\ Len(Append(votes, d)) = Len(votes) + 1
           /\ Votes(Append(votes, d), data) =
                 IF d = data THEN Votes(votes, data) + 1 ELSE Votes(votes, data)
  <1> DEFINE longer == Append(votes, d)
  <1>1. /\ longer \in Seq(S)
        /\ Len(longer) = Len(votes) + 1
        /\ Len(votes) \in Nat
        /\ DOMAIN votes = 1..Len(votes) /\ DOMAIN longer = 1..(Len(votes) + 1)
        /\ \A i \in 1..Len(votes) : longer[i] = votes[i]
        /\ longer[Len(votes) + 1] = d
    BY AppendProperties, LenProperties
  <1>2. CASE d = data
    <2>1. For(longer, data) = For(votes, data) \cup {Len(votes) + 1}
      BY <1>1, <1>2 DEF For
    <2>2. Len(votes) + 1 \notin For(votes, data)
      BY <1>1, ForFinite
    <2>3. Cardinality(For(longer, data)) = Cardinality(For(votes, data)) + 1
      BY <2>1, <2>2, ForFinite, FS_AddElement
    <2>4. QED
      BY <1>1, <1>2, <2>3, ForFinite
  <1>3. CASE d # data
    <2>1. For(longer, data) = For(votes, data)
      BY <1>1, <1>3 DEF For
    <2>2. QED
      BY <1>1, <1>3, <2>1, ForFinite
  <1>4. QED
    BY <1>1, <1>2, <1>3

\* No two data have the majority.
LEMMA OneMajority ==
    ASSUME NEW S, NEW votes \in Seq(S), NEW c, NEW d,
           Majority(votes, c), Majority(votes, d)
    PROVE  c = d
  <1> SUFFICES ASSUME c # d PROVE FALSE
    OBVIOUS
  <1>1. For(votes, c) \cap For(votes, d) = {}
    BY DEF For
  <1>2. /\ For(votes, c) \cup For(votes, d) \subseteq 1..Len(votes)
        /\ IsFiniteSet(For(votes, c)) /\ IsFiniteSet(For(votes, d))
        /\ Len(votes) \in Nat
    BY ForFinite, LenProperties
  <1>3. Cardinality(For(votes, c) \cup For(votes, d))
            = Cardinality(For(votes, c)) + Cardinality(For(votes, d))
    <2>1. Cardinality(For(votes, c) \cup For(votes, d))
              = Cardinality(For(votes, c)) + Cardinality(For(votes, d))
                - Cardinality(For(votes, c) \cap For(votes, d))
      BY <1>2, FS_Union
    <2>2. Cardinality(For(votes, c) \cap For(votes, d)) = 0
      BY <1>1, FS_EmptySet
    <2>3. Cardinality(For(votes, c)) \in Nat /\ Cardinality(For(votes, d)) \in Nat
      BY <1>2, FS_CardinalityType
    <2>4. QED
      BY <2>1, <2>2, <2>3
  <1>4. Cardinality(For(votes, c) \cup For(votes, d)) <= Len(votes)
    <2>1. IsFiniteSet(1..Len(votes)) /\ Cardinality(1..Len(votes)) = Len(votes)
      BY <1>2, Places
    <2>2. QED
      BY <1>2, <2>1, FS_Subset
  <1>5. /\ Votes(votes, c) \in Nat /\ Votes(votes, d) \in Nat
        /\ Votes(votes, c) + Votes(votes, d) <= Len(votes)
    BY <1>3, <1>4, ForFinite
  <1>6. Votes(votes, c) * 2 > Len(votes) /\ Votes(votes, d) * 2 > Len(votes)
    BY DEF Majority
  <1>7. QED
    BY <1>2, <1>5, <1>6

\* A majority that a vote for something else leaves was one before it.
LEMMA MajorityWasOne ==
    ASSUME NEW S, NEW votes \in Seq(S), NEW d \in S, NEW data, d # data,
           Majority(Append(votes, d), data)
    PROVE  Majority(votes, data)
  <1>1. /\ Votes(Append(votes, d), data) = Votes(votes, data)
        /\ Len(Append(votes, d)) = Len(votes) + 1
    BY OneMoreVote
  <1>2. Votes(votes, data) \in Nat /\ Len(votes) \in Nat
    BY ForFinite, LenProperties
  <1>3. QED
    BY <1>1, <1>2 DEF Majority

\* Nothing has the majority of no votes.
LEMMA NoVotes == \A data : ~Majority(<< >>, data)
  <1> TAKE data
  <1>1. {i \in DOMAIN << >> : << >>[i] = data} = {}
    OBVIOUS
  <1>2. Votes(<< >>, data) = 0
    BY <1>1, FS_EmptySet DEF Votes
  <1>3. QED
    BY <1>2 DEF Majority

-----------------------------------------------------------------------------
(* The data in force.                                                      *)

VotesCast == eth1_data_votes \in Seq(Eth1Datas)

LEMMA VoteCounted ==
    ASSUME VotesCast, MajorityAdopted, NEW data \in Eth1Datas, process_eth1_data(data)
    PROVE  VotesCast' /\ MajorityAdopted'
  <1>1. eth1_data_votes' = Append(eth1_data_votes, data) /\ VotesCast'
    BY OneMoreVote DEF VotesCast, process_eth1_data
  <1>2. ASSUME NEW d \in Eth1Datas, Majority(eth1_data_votes', d)
        PROVE  eth1_data' = d
    <2>1. CASE d = data
      BY <1>2, <2>1 DEF process_eth1_data
    <2>2. CASE d # data
      <3>1. Majority(eth1_data_votes, d)
        BY <1>1, <1>2, <2>2, MajorityWasOne DEF VotesCast
      <3>2. eth1_data = d
        BY <3>1 DEF MajorityAdopted
      <3>3. ~Majority(eth1_data_votes', data)
        BY <1>1, <1>2, <2>2, OneMajority DEF VotesCast
      <3>4. QED
        BY <3>2, <3>3 DEF process_eth1_data
    <2>3. QED
      BY <2>1, <2>2
  <1>3. QED
    BY <1>1, <1>2 DEF MajorityAdopted

LEMMA VotesLeft ==
    ASSUME VotesCast, MajorityAdopted, UNCHANGED <<eth1_data, eth1_data_votes>>
    PROVE  VotesCast' /\ MajorityAdopted'
  BY DEF VotesCast, MajorityAdopted

LEMMA VotesInit ==
    ASSUME BeaconInit
    PROVE  VotesCast /\ MajorityAdopted
  <1>1. eth1_data_votes = << >>
    BY DEF BeaconInit
  <1>2. QED
    BY <1>1, NoVotes DEF VotesCast, MajorityAdopted

LEMMA VotesStep ==
    ASSUME VotesCast, MajorityAdopted, [BeaconNext]_beaconVars
    PROVE  VotesCast' /\ MajorityAdopted'
  <1>1. CASE advance_slot
    BY <1>1, VotesLeft DEF advance_slot, blockVars
  <1>2. CASE ProcessSubdag
    BY <1>2, VotesLeft DEF ProcessSubdag, process_subdag, blockVars
  <1>3. CASE ProcessBlock
    <2>1. PICK block \in Blocks, verify_block_root \in BOOLEAN :
              \/ process_block(block, verify_block_root)
              \/ refuse_block(block, verify_block_root)
      BY <1>3 DEF ProcessBlock
    <2>2. CASE refuse_block(block, verify_block_root)
      BY <2>2, VotesLeft DEF refuse_block, blockVars
    <2>3. CASE process_block(block, verify_block_root)
      <3>1. block.body.eth1_data \in Eth1Datas
        BY <2>1, BeaconConstants DEF Blocks
      <3>2. CASE get_randao_mix(current_epoch) = None
        BY <2>3, <3>2, VotesLeft DEF process_block
      <3>3. CASE get_randao_mix(current_epoch) # None
        BY <2>3, <3>1, <3>3, VoteCounted DEF process_block
      <3>4. QED
        BY <3>2, <3>3
    <2>4. QED
      BY <2>1, <2>2, <2>3
  <1>4. CASE SetRoot
    BY <1>4, VotesLeft DEF SetRoot, set_block_root, set_state_root, blockVars
  <1>5. CASE UNCHANGED beaconVars
    BY <1>5, VotesLeft DEF beaconVars, blockVars
  <1>6. QED
    BY <1>1, <1>2, <1>3, <1>4, <1>5 DEF BeaconNext

\* MajorityAdopted, for every set of votes and of blocks: looking only at the data a
\* vote comes in for is enough, for another's share of the votes only falls then
\* (process_eth1_data, beacon_state.rs).
THEOREM AdoptsTheMajority == BeaconSpec => []MajorityAdopted
  <1>1. BeaconInit => VotesCast /\ MajorityAdopted
    BY VotesInit
  <1>2. VotesCast /\ MajorityAdopted /\ [BeaconNext]_beaconVars => VotesCast' /\ MajorityAdopted'
    BY VotesStep
  <1>3. QED
    BY <1>1, <1>2, PTL DEF BeaconSpec

-----------------------------------------------------------------------------
(* The chain of payloads.                                                  *)

\* No payload's hash is zero or the genesis block's.  (That hashes of different headers differ
\* is in SubDagPayload, where a hash is what is hashed.)
HashesAreNew ==
    \A fee, parent, subdag :
        get_execution_payload_v3(fee, parent, subdag).block_hash \notin {ZERO, GenesisHash}

\* PayloadsChained, with the reason: a hash gives the parent away, and the first parent
\* is none of the payloads.
Chained ==
    LET Made(n) == payloads[n].payload
    IN  /\ \E S : payloads \in Seq(S)
        /\ payloads = << >> => latest_block_hash \in {ZERO, GenesisHash}
        /\ payloads # << >> => latest_block_hash = Made(Len(payloads)).block_hash
        /\ \A n \in DOMAIN payloads :
              /\ Made(n).block_hash.parent_hash = Made(n).header.parent_hash
              /\ Made(n).block_hash \notin {ZERO, GenesisHash}
              /\ n > 1 => Made(n).header.parent_hash = Made(n - 1).block_hash
        /\ payloads # << >> => Made(1).header.parent_hash \in {ZERO, GenesisHash}
        /\ \A m, n \in DOMAIN payloads : Made(m).block_hash = Made(n).block_hash => m = n

LEMMA ChainedIsEnough == Chained => PayloadsChained
  BY DEF Chained, PayloadsChained, get_fork_choice_state

LEMMA OneMorePayload ==
    ASSUME HashesAreNew, Chained, NEW subdag, process_subdag(subdag)
    PROVE  Chained'
  <1> DEFINE new_payload == get_execution_payload_v3(fee_recipient, latest_block_hash, subdag)
             entry == [subdag |-> subdag, payload |-> new_payload]
             n == Len(payloads)
  <1>1. /\ payloads' = Append(payloads, entry)
        /\ latest_block_hash' = new_payload.block_hash
    BY DEF process_subdag
  <1>2. /\ new_payload.header.parent_hash = latest_block_hash
        /\ new_payload.block_hash.parent_hash = latest_block_hash
    BY DEF get_execution_payload_v3, BlockHeaderForHashing, rlp_encode
  <1>3. new_payload.block_hash \notin {ZERO, GenesisHash}
    BY DEF HashesAreNew
  <1>4. PICK S : payloads \in Seq(S)
    BY DEF Chained
  <1>5. payloads \in Seq(S \cup {entry}) /\ entry \in S \cup {entry}
    BY <1>4, SeqDef
  <1>6. /\ payloads' \in Seq(S \cup {entry})
        /\ n \in Nat
        /\ Len(payloads') = n + 1
        /\ DOMAIN payloads = 1..n /\ DOMAIN payloads' = 1..(n + 1)
        /\ \A i \in 1..n : payloads'[i] = payloads[i]
        /\ payloads'[n + 1] = entry
    BY <1>1, <1>5, AppendProperties, LenProperties
  <1> HIDE DEF new_payload, n
  <1>7. payloads = << >> <=> n = 0
    BY <1>4, EmptySeq, LenProperties DEF n
  <1>8. entry.payload = new_payload
    OBVIOUS
  <1>9. n > 0 => latest_block_hash = payloads[n].payload.block_hash
                    /\ latest_block_hash \notin {ZERO, GenesisHash}
    BY <1>6, <1>7 DEF Chained, n
  <1>10. n = 0 => latest_block_hash \in {ZERO, GenesisHash}
    BY <1>7 DEF Chained
  <1>11. ASSUME NEW m \in 1..n
         PROVE  payloads[m].payload.block_hash # new_payload.block_hash
    <2> SUFFICES ASSUME payloads[m].payload.block_hash = new_payload.block_hash
                 PROVE  FALSE
      OBVIOUS
    <2>1. payloads[m].payload.header.parent_hash = latest_block_hash
      BY <1>2, <1>6 DEF Chained
    <2>2. CASE m = 1
      <3>1. payloads[1].payload.header.parent_hash \in {ZERO, GenesisHash}
        BY <1>6, <1>7 DEF Chained
      <3>2. QED
        BY <1>6, <1>9, <2>1, <2>2, <3>1
    <2>3. CASE m > 1
      <3>1. payloads[m].payload.header.parent_hash = payloads[m - 1].payload.block_hash
        BY <1>6, <2>3 DEF Chained
      <3>2. m - 1 \in 1..n /\ n \in 1..n /\ m - 1 # n
        BY <1>6, <2>3
      <3>3. payloads[m - 1].payload.block_hash = payloads[n].payload.block_hash
        BY <1>9, <2>1, <3>1, <3>2
      <3>4. QED
        BY <1>6, <3>2, <3>3 DEF Chained
    <2>4. QED
      BY <1>6, <2>2, <2>3
  <1>12. \E T : payloads' \in Seq(T)
    BY <1>6
  <1>13. payloads' # << >> /\ latest_block_hash' = payloads'[Len(payloads')].payload.block_hash
    <2>1. payloads' # << >>
      BY <1>6, EmptySeq
    <2>2. QED
      BY <1>1, <1>6, <1>8, <2>1
  <1>14. ASSUME NEW m \in 1..(n + 1)
         PROVE  /\ payloads'[m].payload.block_hash.parent_hash = payloads'[m].payload.header.parent_hash
                /\ payloads'[m].payload.block_hash \notin {ZERO, GenesisHash}
                /\ m > 1 => payloads'[m].payload.header.parent_hash =
                                payloads'[m - 1].payload.block_hash
    <2>1. CASE m \in 1..n
      <3>1. m > 1 => m - 1 \in 1..n
        BY <1>6, <2>1
      <3>2. QED
        BY <1>6, <2>1, <3>1 DEF Chained
    <2>2. CASE m = n + 1
      <3>1. m > 1 => n \in 1..n /\ n > 0 /\ m - 1 = n
        BY <1>6, <2>2
      <3>2. payloads'[m].payload = new_payload
        BY <1>6, <1>8, <2>2
      <3>3. QED
        BY <1>2, <1>3, <1>6, <1>9, <3>1, <3>2
    <2>3. QED
      BY <1>6, <2>1, <2>2
  <1>15. payloads'[1].payload.header.parent_hash \in {ZERO, GenesisHash}
    <2>1. CASE n = 0
      BY <1>2, <1>6, <1>8, <1>10, <2>1
    <2>2. CASE n > 0
      <3>1. 1 \in 1..n
        BY <1>6, <2>2
      <3>2. QED
        BY <1>6, <1>7, <2>2, <3>1 DEF Chained
    <2>3. QED
      BY <1>6, <2>1, <2>2
  <1>16. ASSUME NEW k \in 1..(n + 1), NEW m \in 1..(n + 1),
                payloads'[k].payload.block_hash = payloads'[m].payload.block_hash
         PROVE  k = m
    <2>1. k \in 1..n \/ k = n + 1
      BY <1>6
    <2>2. m \in 1..n \/ m = n + 1
      BY <1>6
    <2>3. CASE k \in 1..n /\ m \in 1..n
      BY <1>6, <1>16, <2>3 DEF Chained
    <2>4. CASE k \in 1..n /\ m = n + 1
      BY <1>6, <1>8, <1>11, <1>16, <2>4
    <2>5. CASE k = n + 1 /\ m \in 1..n
      BY <1>6, <1>8, <1>11, <1>16, <2>5
    <2>6. QED
      BY <2>1, <2>2, <2>3, <2>4, <2>5
  <1>17. QED
    BY <1>6, <1>12, <1>13, <1>14, <1>15, <1>16 DEF Chained

LEMMA ChainLeft ==
    ASSUME Chained, UNCHANGED chainVars
    PROVE  Chained'
  BY DEF Chained, chainVars

LEMMA ChainInit == BeaconInit => Chained
  <1> SUFFICES ASSUME BeaconInit PROVE Chained
    OBVIOUS
  <1>1. payloads = << >> /\ latest_block_hash \in {ZERO, GenesisHash}
    BY DEF BeaconInit, new, from_config
  <1>2. DOMAIN payloads = {} /\ payloads \in Seq({})
    BY <1>1
  <1>3. QED
    BY <1>1, <1>2 DEF Chained

LEMMA ChainStep ==
    ASSUME HashesAreNew, Chained, [BeaconNext]_beaconVars
    PROVE  Chained'
  <1>1. CASE advance_slot
    BY <1>1, ChainLeft DEF advance_slot
  <1>2. CASE ProcessSubdag
    BY <1>2, OneMorePayload DEF ProcessSubdag
  <1>3. CASE ProcessBlock
    BY <1>3, ChainLeft DEF ProcessBlock, process_block, refuse_block
  <1>4. CASE SetRoot
    BY <1>4, ChainLeft DEF SetRoot, set_block_root, set_state_root
  <1>5. CASE UNCHANGED beaconVars
    BY <1>5, ChainLeft DEF beaconVars
  <1>6. QED
    BY <1>1, <1>2, <1>3, <1>4, <1>5 DEF BeaconNext

\* PayloadsChained, for every log of the core, with whatever repetitions and in whatever
\* order, and every interleaving with beacon blocks: each payload names the hash of the one
\* before, and two equal hashes would have equal parents, and so on down to the first
\* (process_subdag, beacon_state.rs).
THEOREM ChainOfPayloads ==
    ASSUME HashesAreNew
    PROVE  BeaconSpec => []PayloadsChained
  <1>1. BeaconInit => Chained
    BY ChainInit
  <1>2. Chained /\ [BeaconNext]_beaconVars => Chained'
    BY ChainStep
  <1>3. Chained => PayloadsChained
    BY ChainedIsEnough
  <1>4. QED
    BY <1>1, <1>2, <1>3, PTL DEF BeaconSpec

-----------------------------------------------------------------------------
(* Rings.                                                                  *)

\* A list: a function on the first numbers.
Listed(list) == Len(list) \in Nat /\ list = [i \in 1..Len(list) |-> list[i]]

LEMMA NothingListed == Listed(<< >>) /\ Len(<< >>) = 0 /\ DOMAIN << >> = {}
<1>1. << >> = [i \in 1..0 |-> << >>[i]]
  OBVIOUS
<1> QED BY <1>1 DEF Listed

LEMMA OneMoreListed ==
    ASSUME NEW list, Listed(list), NEW x
    PROVE  /\ Listed(Append(list, x)) /\ Len(Append(list, x)) = Len(list) + 1
           /\ DOMAIN list = 1..Len(list)
           /\ DOMAIN Append(list, x) = 1..(Len(list) + 1)
           /\ Append(list, x)[Len(list) + 1] = x
           /\ \A i \in 1..Len(list) : Append(list, x)[i] = list[i]
<1>1. PICK n \in Nat : n = Len(list)
  BY DEF Listed
<1>2. list = [i \in 1..n |-> list[i]]
  BY <1>1 DEF Listed
<1>3. Append(list, x) = [i \in 1..(n + 1) |-> IF i = n + 1 THEN x ELSE list[i]]
  BY <1>1, <1>2
<1>4. PICK longer : longer = Append(list, x)
  OBVIOUS
<1>5. /\ longer = [i \in 1..(n + 1) |-> longer[i]]
      /\ longer[n + 1] = x /\ \A i \in 1..n : longer[i] = list[i]
  BY <1>3, <1>4
<1>6. Len(longer) = n + 1 /\ DOMAIN longer = 1..(n + 1)
  BY <1>5
<1> QED BY <1>1, <1>2, <1>4, <1>5, <1>6 DEF Listed

\* What is stored is there, what was stored elsewhere stays, and a vector grows only up to it.
LEMMA StoredIs ==
    ASSUME NEW vector, Listed(vector), NEW index \in Nat, NEW value, NEW filler,
           NEW new_vector, new_vector = Stored(vector, index, value, filler)
    PROVE  /\ Listed(new_vector)
           /\ Len(new_vector) = IF index < Len(vector) THEN Len(vector) ELSE index + 1
           /\ new_vector[index + 1] = value
           /\ \A i \in Nat : i < Len(vector) /\ i # index => new_vector[i + 1] = vector[i + 1]
<1>1. PICK n \in Nat : n = Len(vector)
  BY DEF Listed
<1>2. PICK m \in Nat : m = IF index < n THEN n ELSE index + 1
  OBVIOUS
<1>3. new_vector = [i \in 1..m |-> IF i = index + 1 THEN value
                                   ELSE IF i <= n THEN vector[i] ELSE filler]
  BY <1>1, <1>2 DEF Stored
<1>4. Len(new_vector) = m /\ new_vector = [i \in 1..m |-> new_vector[i]]
  BY <1>3
<1>5. index + 1 \in 1..m /\ n <= m
  BY <1>2
<1>6. ASSUME NEW i \in Nat, i < n, i # index PROVE new_vector[i + 1] = vector[i + 1]
  <2>1. i + 1 \in 1..m /\ i + 1 # index + 1 /\ i + 1 <= n
    BY <1>5, <1>6
  <2> QED BY <1>3, <2>1
<1>7. new_vector[index + 1] = value
  BY <1>3, <1>5
<1> QED BY <1>1, <1>2, <1>4, <1>6, <1>7 DEF Listed

\* The ring's period bounds what it is asked for.
LEMMA InTheRing ==
    ASSUME NEW a \in Nat, NEW period \in Nat \ {0}
    PROVE  a % period \in Nat /\ a % period < period
OBVIOUS

LEMMA EpochIsNat == \A s \in Nat : s \div SLOTS_PER_EPOCH \in Nat
<1>1. \A s \in Nat, d \in Nat \ {0} : s \div d \in Nat
  OBVIOUS
<1> QED BY <1>1, BeaconConstants

\* A ring of roots that takes one more stays within its period.
LEMMA SetInTheRing ==
    ASSUME NEW roots, Listed(roots), Len(roots) <= SLOTS_PER_HISTORICAL_ROOT,
           NEW s \in Nat, NEW root, NEW new_roots, new_roots = set_root(roots, s, root),
           NEW index, index = RootIndex(s)
    PROVE  /\ Listed(new_roots) /\ Len(new_roots) <= SLOTS_PER_HISTORICAL_ROOT
           /\ Len(roots) \in Nat
           /\ Len(roots) <= Len(new_roots) /\ index < Len(new_roots)
           /\ new_roots[index + 1] = root
           /\ \A i \in Nat : i < Len(roots) /\ i # index => new_roots[i + 1] = roots[i + 1]
<1>1. index \in Nat /\ index < SLOTS_PER_HISTORICAL_ROOT
  BY BeaconConstants, InTheRing DEF RootIndex
<1>2. new_roots = Stored(roots, index, root, ZERO)
  BY DEF set_root
<1>3. /\ Listed(new_roots)
      /\ Len(new_roots) = IF index < Len(roots) THEN Len(roots) ELSE index + 1
      /\ new_roots[index + 1] = root
  BY <1>1, <1>2, StoredIs
<1>4. \A i \in Nat : i < Len(roots) /\ i # index => new_roots[i + 1] = roots[i + 1]
  BY <1>1, <1>2, StoredIs
<1>5. Len(roots) \in Nat
  BY DEF Listed
<1>6. Len(new_roots) <= SLOTS_PER_HISTORICAL_ROOT /\ Len(roots) <= Len(new_roots)
      /\ index < Len(new_roots)
  BY <1>1, <1>3, <1>5, BeaconConstants
<1> QED BY <1>3, <1>4, <1>5, <1>6

\* What a ring of roots keeps of the roots set in it: the last one of each place.
RingKeeps(roots, kind) ==
    /\ Listed(roots) /\ Len(roots) <= SLOTS_PER_HISTORICAL_ROOT
    /\ \A n \in DOMAIN written : written[n][1] = kind =>
          /\ written[n][2] \in Nat /\ RootIndex(written[n][2]) < Len(roots)
          /\ (\A m \in DOMAIN written :
                 m > n /\ written[m][1] = kind => RootIndex(written[m][2]) # RootIndex(written[n][2]))
             => roots[RootIndex(written[n][2]) + 1] = written[n][3]

LEMMA RingTakes ==
    ASSUME NEW roots, NEW kind, RingKeeps(roots, kind), Listed(written),
           NEW s \in Nat, NEW root, NEW new_roots, new_roots = set_root(roots, s, root),
           written' = Append(written, <<kind, s, root>>)
    PROVE  RingKeeps(new_roots, kind)'
<1>1. PICK n \in Nat : n = Len(written)
  BY DEF Listed
<1>2. /\ DOMAIN written = 1..n /\ DOMAIN written' = 1..(n + 1)
      /\ written'[n + 1] = <<kind, s, root>>
      /\ \A i \in 1..n : written'[i] = written[i]
  BY <1>1, OneMoreListed
<1>3. PICK index \in Nat : index = RootIndex(s) /\ index < SLOTS_PER_HISTORICAL_ROOT
  BY BeaconConstants, InTheRing DEF RootIndex
<1>4. \A i \in 1..n : written[i][1] = kind => RootIndex(written[i][2]) \in Nat
  BY <1>2, BeaconConstants, InTheRing DEF RootIndex, RingKeeps
<1>5. /\ Listed(new_roots) /\ Len(new_roots) <= SLOTS_PER_HISTORICAL_ROOT
      /\ Len(roots) \in Nat
      /\ Len(roots) <= Len(new_roots) /\ index < Len(new_roots)
      /\ new_roots[index + 1] = root
      /\ \A i \in Nat : i < Len(roots) /\ i # index => new_roots[i + 1] = roots[i + 1]
  BY <1>3, SetInTheRing DEF RingKeeps
<1>6. ASSUME NEW i \in 1..(n + 1), written'[i][1] = kind
      PROVE  /\ written'[i][2] \in Nat /\ RootIndex(written'[i][2]) < Len(new_roots)
             /\ (\A m \in 1..(n + 1) : m > i /\ written'[m][1] = kind =>
                    RootIndex(written'[m][2]) # RootIndex(written'[i][2]))
                => new_roots[RootIndex(written'[i][2]) + 1] = written'[i][3]
  <2>1. CASE i = n + 1
    BY <1>2, <1>3, <1>5, <2>1
  <2>2. CASE i # n + 1
    <3>1. i \in 1..n /\ written'[i] = written[i] /\ n + 1 \in 1..(n + 1) /\ n + 1 > i
      BY <1>2, <2>2
    <3>2. /\ written[i][2] \in Nat /\ RootIndex(written[i][2]) < Len(roots)
          /\ (\A m \in 1..n : m > i /\ written[m][1] = kind =>
                 RootIndex(written[m][2]) # RootIndex(written[i][2]))
             => roots[RootIndex(written[i][2]) + 1] = written[i][3]
      BY <1>2, <1>6, <3>1 DEF RingKeeps
    <3>3. PICK place \in Nat : place = RootIndex(written[i][2])
      BY <1>4, <1>6, <3>1
    <3>4. ASSUME \A m \in 1..(n + 1) : m > i /\ written'[m][1] = kind =>
                    RootIndex(written'[m][2]) # place
          PROVE  new_roots[place + 1] = written[i][3]
      <4>1. place # index
        BY <1>2, <1>3, <3>1, <3>4
      <4>2. \A m \in 1..n : m > i /\ written[m][1] = kind => RootIndex(written[m][2]) # place
        BY <1>2, <3>4
      <4>3. roots[place + 1] = written[i][3]
        BY <3>2, <3>3, <4>2
      <4>4. place < Len(roots)
        BY <3>2, <3>3
      <4>5. new_roots[place + 1] = roots[place + 1]
        BY <1>5, <4>1, <4>4
      <4> QED BY <4>3, <4>5
    <3>5. written'[i][2] \in Nat /\ place < Len(new_roots)
      <4>1. place < Len(roots) /\ Len(roots) \in Nat /\ Len(new_roots) \in Nat
        BY <1>5, <3>2, <3>3 DEF Listed
      <4>2. place < Len(new_roots)
        BY <1>5, <4>1
      <4>3. written'[i][2] \in Nat
        BY <3>1, <3>2
      <4> QED BY <4>2, <4>3
    <3> QED BY <3>1, <3>3, <3>4, <3>5
  <2> QED BY <2>1, <2>2
<1> QED BY <1>2, <1>5, <1>6 DEF RingKeeps, RootIndex

\* A root of the other kind is none of the ring's.
LEMMA RingLeft ==
    ASSUME NEW roots, NEW kind, RingKeeps(roots, kind), Listed(written),
           NEW other, other # kind, NEW s, NEW root, written' = Append(written, <<other, s, root>>)
    PROVE  RingKeeps(roots, kind)'
<1>1. PICK n \in Nat : n = Len(written)
  BY DEF Listed
<1>2. /\ DOMAIN written = 1..n /\ DOMAIN written' = 1..(n + 1)
      /\ written'[n + 1][1] = other
      /\ \A i \in 1..n : written'[i] = written[i]
  BY <1>1, OneMoreListed
<1>3. ASSUME NEW i \in 1..(n + 1), written'[i][1] = kind
      PROVE  /\ written'[i][2] \in Nat /\ RootIndex(written'[i][2]) < Len(roots)
             /\ (\A m \in 1..(n + 1) : m > i /\ written'[m][1] = kind =>
                    RootIndex(written'[m][2]) # RootIndex(written'[i][2]))
                => roots[RootIndex(written'[i][2]) + 1] = written'[i][3]
  <2>1. i \in 1..n /\ written'[i] = written[i]
    BY <1>2, <1>3
  <2>2. /\ written[i][2] \in Nat /\ RootIndex(written[i][2]) < Len(roots)
        /\ (\A m \in 1..n : m > i /\ written[m][1] = kind =>
               RootIndex(written[m][2]) # RootIndex(written[i][2]))
           => roots[RootIndex(written[i][2]) + 1] = written[i][3]
    BY <1>2, <1>3, <2>1 DEF RingKeeps
  <2>3. ASSUME \A m \in 1..(n + 1) : m > i /\ written'[m][1] = kind =>
                  RootIndex(written'[m][2]) # RootIndex(written[i][2])
        PROVE  \A m \in 1..n : m > i /\ written[m][1] = kind =>
                  RootIndex(written[m][2]) # RootIndex(written[i][2])
    BY <1>2, <2>3
  <2> QED BY <2>1, <2>2, <2>3
<1>4. Listed(roots) /\ Len(roots) <= SLOTS_PER_HISTORICAL_ROOT
  BY DEF RingKeeps
<1> QED BY <1>2, <1>3, <1>4 DEF RingKeeps, RootIndex

-----------------------------------------------------------------------------
(* Mixes.                                                                  *)

Reveals == UNION {body.randao_reveal : body \in Bodies}

LEMMA FlipsAreFew ==
    ASSUME Listed(accepted), NEW bit, NEW index
    PROVE  /\ IsFiniteSet(Flips(bit, index)) /\ Cardinality(Flips(bit, index)) \in Nat
           /\ Flips(bit, index) \subseteq 1..Len(accepted)
<1>1. PICK n \in Nat : n = Len(accepted) /\ DOMAIN accepted = 1..n
  BY DEF Listed
<1>2. Flips(bit, index) \subseteq 1..n
  BY <1>1 DEF Flips
<1>3. IsFiniteSet(1..n)
  BY FS_Interval
<1> QED BY <1>1, <1>2, <1>3, FS_Subset, FS_CardinalityType

\* One more block flips the bits of its reveal in its mix, and no others.
LEMMA FlipsOnce ==
    ASSUME Listed(accepted), NEW entry, accepted' = Append(accepted, entry), NEW bit, NEW index
    PROVE  Cardinality(Flips(bit, index)') =
               IF MixIndex(entry.epoch) = index /\ bit \in entry.block.body.randao_reveal
               THEN Cardinality(Flips(bit, index)) + 1 ELSE Cardinality(Flips(bit, index))
<1>1. PICK n \in Nat : n = Len(accepted)
  BY DEF Listed
<1>2. /\ DOMAIN accepted = 1..n /\ DOMAIN accepted' = 1..(n + 1)
      /\ accepted'[n + 1] = entry
      /\ \A i \in 1..n : accepted'[i] = accepted[i]
  BY <1>1, OneMoreListed
<1>3. \A i : i \in Flips(bit, index) <=>
                i \in 1..n /\ MixIndex(accepted[i].epoch) = index
                           /\ bit \in accepted[i].block.body.randao_reveal
  BY <1>2 DEF Flips
<1>4. \A i : i \in Flips(bit, index)' <=>
                i \in 1..(n + 1) /\ MixIndex(accepted'[i].epoch) = index
                                 /\ bit \in accepted'[i].block.body.randao_reveal
  BY <1>2 DEF Flips, MixIndex
<1>5. \A i : i \in 1..(n + 1) <=> i \in 1..n \/ i = n + 1
  OBVIOUS
<1>6. n + 1 \notin Flips(bit, index) /\ IsFiniteSet(Flips(bit, index))
  BY <1>1, <1>3, FlipsAreFew
<1>7. CASE MixIndex(entry.epoch) = index /\ bit \in entry.block.body.randao_reveal
  <2>1. Flips(bit, index)' = Flips(bit, index) \cup {n + 1}
    BY <1>2, <1>3, <1>4, <1>5, <1>7
  <2>2. Cardinality(Flips(bit, index) \cup {n + 1}) = Cardinality(Flips(bit, index)) + 1
    BY <1>6, FS_AddElement
  <2> QED BY <1>7, <2>1, <2>2
<1>8. CASE ~(MixIndex(entry.epoch) = index /\ bit \in entry.block.body.randao_reveal)
  <2>1. ASSUME NEW i PROVE i \in Flips(bit, index)' <=> i \in Flips(bit, index)
    <3>1. CASE i = n + 1
      <4>1. i \notin Flips(bit, index)
        BY <1>6, <3>1
      <4>2. i \notin Flips(bit, index)'
        BY <1>2, <1>4, <1>8, <3>1
      <4> QED BY <4>1, <4>2
    <3>2. CASE i # n + 1
      BY <1>2, <1>3, <1>4, <1>5, <3>2
    <3> QED BY <3>1, <3>2
  <2>2. PICK few : few = Flips(bit, index)
    OBVIOUS
  <2>3. PICK few_now : few_now = Flips(bit, index)'
    OBVIOUS
  <2>4. few_now = few
    <3>1. /\ \A i : i \in few_now => i \in few
          /\ \A i : i \in few => i \in few_now
          /\ few \subseteq 1..Len(accepted) /\ few_now \subseteq 1..(n + 1)
      BY <1>4, <2>1, <2>2, <2>3, <1>1, FlipsAreFew
    <3> QED BY <3>1
  <2> QED BY <1>8, <2>2, <2>3, <2>4
<1> QED BY <1>7, <1>8

LEMMA Parity ==
    ASSUME NEW n \in Nat
    PROVE  (n + 1) % 2 = 1 <=> n % 2 # 1
OBVIOUS

\* There are mixes for every epoch, or no mixes and no validators either.
MixesKept ==
    /\ Listed(accepted)
    /\ \/ randao_mixes = << >> /\ validators = << >>
       \/ Listed(randao_mixes) /\ Len(randao_mixes) = EPOCHS_PER_HISTORICAL_VECTOR
    /\ MixesCollectReveals

LEMMA MixIs ==
    ASSUME MixesKept, NEW epoch \in Nat
    PROVE  /\ MixIndex(epoch) \in Nat
           /\ randao_mixes # << >> =>
                 /\ MixIndex(epoch) < Len(randao_mixes)
                 /\ get_randao_mix(epoch) = randao_mixes[MixIndex(epoch) + 1]
                 /\ get_randao_mix(epoch) \in SUBSET Reveals
                 /\ get_randao_mix(epoch) # None
           /\ randao_mixes = << >> => get_randao_mix(epoch) = None
<1>1. MixIndex(epoch) \in Nat /\ MixIndex(epoch) < EPOCHS_PER_HISTORICAL_VECTOR
  BY BeaconConstants, InTheRing DEF MixIndex
<1>2. CASE randao_mixes = << >>
  BY <1>1, <1>2, NothingListed DEF get_randao_mix
<1>3. CASE randao_mixes # << >>
  <2>1. Len(randao_mixes) = EPOCHS_PER_HISTORICAL_VECTOR
    BY <1>3 DEF MixesKept
  <2>2. MixIndex(epoch) < Len(randao_mixes) /\ Len(randao_mixes) \in Nat
    BY <1>1, <2>1, BeaconConstants
  <2>3. get_randao_mix(epoch) = randao_mixes[MixIndex(epoch) + 1]
    BY <2>2 DEF get_randao_mix
  <2>4. MixIndex(epoch) \in 0..(Len(randao_mixes) - 1)
    BY <1>1, <2>2
  <2>5. get_randao_mix(epoch) \in SUBSET Reveals
    BY <2>3, <2>4 DEF MixesKept, MixesCollectReveals, Reveals
  <2>6. get_randao_mix(epoch) # None
    BY <2>5, BeaconConstants DEF Reveals
  <2> QED BY <1>1, <1>3, <2>2, <2>3, <2>5, <2>6
<1> QED BY <1>2, <1>3

\* The mix of a block's epoch takes its reveal.
LEMMA RevealTaken ==
    ASSUME MixesKept, randao_mixes # << >>, NEW epoch \in Nat, NEW entry, entry.epoch = epoch,
           NEW reveal, reveal = entry.block.body.randao_reveal, reveal \in SUBSET Reveals,
           accepted' = Append(accepted, entry),
           randao_mixes' = set_randao_mix(epoch, Mixed(get_randao_mix(epoch), reveal))
    PROVE  MixesKept'
<1>1. PICK index : index = MixIndex(epoch)
  OBVIOUS
<1>2. PICK mix : mix = get_randao_mix(epoch)
  OBVIOUS
<1>3. /\ Listed(accepted) /\ Listed(randao_mixes)
      /\ Len(randao_mixes) = EPOCHS_PER_HISTORICAL_VECTOR /\ Len(randao_mixes) \in Nat
  BY DEF MixesKept, Listed
<1>4. /\ index \in Nat /\ index < Len(randao_mixes)
      /\ mix = randao_mixes[index + 1] /\ mix \in SUBSET Reveals
  BY <1>1, <1>2, MixIs
<1>5. randao_mixes' = Stored(randao_mixes, index, Mixed(mix, reveal), {})
  BY <1>1, <1>2 DEF set_randao_mix
<1>6. /\ Listed(randao_mixes') /\ Len(randao_mixes') = Len(randao_mixes)
      /\ randao_mixes'[index + 1] = Mixed(mix, reveal)
  BY <1>3, <1>4, <1>5, StoredIs
<1>7. \A i \in Nat : i < Len(randao_mixes) /\ i # index =>
         randao_mixes'[i + 1] = randao_mixes[i + 1]
  BY <1>3, <1>4, <1>5, StoredIs
<1>8. \A i \in 0..(Len(randao_mixes) - 1) :
         randao_mixes[i + 1] = {bit \in Reveals : Cardinality(Flips(bit, i)) % 2 = 1}
  BY DEF MixesKept, MixesCollectReveals, Reveals
<1>9. ASSUME NEW i \in 0..(Len(randao_mixes) - 1)
      PROVE  randao_mixes'[i + 1] = {bit \in Reveals : Cardinality(Flips(bit, i)') % 2 = 1}
  <2>1. i \in Nat /\ i < Len(randao_mixes)
    BY <1>3
  <2>2. CASE i = index
    <3>1. ASSUME NEW bit \in Reveals
          PROVE  bit \in Mixed(mix, reveal) <=> Cardinality(Flips(bit, i)') % 2 = 1
      <4>1. PICK c \in Nat : c = Cardinality(Flips(bit, i))
        BY <1>3, FlipsAreFew
      <4>2. bit \in mix <=> c % 2 = 1
        BY <1>4, <1>8, <2>2, <4>1
      <4>3. Cardinality(Flips(bit, i)') = IF bit \in reveal THEN c + 1 ELSE c
        BY <1>1, <1>3, <2>2, <4>1, FlipsOnce
      <4>4. bit \in Mixed(mix, reveal) <=> ((bit \in mix) # (bit \in reveal))
        BY DEF Mixed, Xor
      <4>5. CASE bit \in reveal
        BY <4>2, <4>3, <4>4, <4>5, Parity
      <4>6. CASE bit \notin reveal
        BY <4>2, <4>3, <4>4, <4>6
      <4> QED BY <4>5, <4>6
    <3>2. Mixed(mix, reveal) \subseteq Reveals
      BY <1>4 DEF Mixed, Xor
    <3> QED BY <1>6, <2>2, <3>1, <3>2
  <2>3. CASE i # index
    <3>1. \A bit : Cardinality(Flips(bit, i)') = Cardinality(Flips(bit, i))
      BY <1>1, <1>3, <2>3, FlipsOnce
    <3>2. randao_mixes'[i + 1] = randao_mixes[i + 1]
      BY <1>7, <2>1, <2>3
    <3> QED BY <1>8, <3>1, <3>2
  <2> QED BY <2>2, <2>3
<1>10. MixesCollectReveals'
  BY <1>6, <1>9 DEF MixesCollectReveals, Reveals
<1>11. Listed(accepted')
  BY <1>3, OneMoreListed
<1> QED BY <1>3, <1>6, <1>10, <1>11 DEF MixesKept, Listed

\* The rings, the mixes and the votes, as the steps keep them.
RingsInv ==
    /\ slot \in Nat
    /\ Listed(written) /\ \A n \in DOMAIN written : written[n][1] \in {"block", "state"}
    /\ RingKeeps(block_roots, "block") /\ RingKeeps(state_roots, "state")
    /\ MixesKept
    /\ VotesCast /\ eth1_data \in Eth1Datas
    /\ latest_execution_payload_header = None
           \/ latest_execution_payload_header.transactions_root = ZERO

LEMMA RingsAreEnough == RingsInv => RingsKeepWhatWasPut
<1> SUFFICES ASSUME RingsInv PROVE RingsKeepWhatWasPut
  OBVIOUS
<1>1. BeaconTypeOK
  <2>1. Len(randao_mixes) \in {0, EPOCHS_PER_HISTORICAL_VECTOR}
    BY NothingListed DEF RingsInv, MixesKept
  <2> QED BY <2>1 DEF RingsInv, BeaconTypeOK, RingKeeps, VotesCast
<1>2. ASSUME NEW n \in DOMAIN written, NEW kind, kind = written[n][1], NEW s, s = written[n][2],
             \A m \in DOMAIN written : m > n /\ written[m][1] = kind
                 => RootIndex(written[m][2]) # RootIndex(s)
      PROVE  get_root(IF kind = "block" THEN block_roots ELSE state_roots, s) = written[n][3]
  <2>1. kind \in {"block", "state"}
    BY <1>2 DEF RingsInv
  <2>2. PICK roots : roots = IF kind = "block" THEN block_roots ELSE state_roots
    OBVIOUS
  <2>3. RingKeeps(roots, kind)
    BY <2>1, <2>2 DEF RingsInv
  <2>4. RootIndex(s) < Len(roots) /\ roots[RootIndex(s) + 1] = written[n][3]
    BY <1>2, <2>3 DEF RingKeeps
  <2> QED BY <2>2, <2>4 DEF get_root
<1>3. RootsReadBack
  BY <1>2 DEF RootsReadBack, RootIndex
<1> QED BY <1>1, <1>3 DEF RingsKeepWhatWasPut, RingsInv, MixesKept

LEMMA RingsInit == BeaconInit => RingsInv
<1> SUFFICES ASSUME BeaconInit PROVE RingsInv
  OBVIOUS
<1>1. written = << >> /\ accepted = << >> /\ block_roots = << >> /\ state_roots = << >>
  BY DEF BeaconInit
<1>2. RingKeeps(block_roots, "block") /\ RingKeeps(state_roots, "state")
  BY <1>1, NothingListed, BeaconConstants DEF RingKeeps
<1>3. VotesCast /\ eth1_data \in Eth1Datas
  <2>1. Eth1Default \in Eth1Datas
    BY BeaconConstants DEF Eth1Default
  <2>2. << >> \in Seq(Eth1Datas)
    OBVIOUS
  <2> QED BY <2>1, <2>2 DEF BeaconInit, VotesCast
<1>4. \A bit, index : Cardinality(Flips(bit, index)) = 0
  <2>1. \A bit, index : Flips(bit, index) = {}
    BY <1>1, NothingListed DEF Flips
  <2> QED BY <2>1, FS_EmptySet
<1>5. MixesKept
  <2>1. CASE randao_mixes = << >> /\ validators = << >>
    <3>1. MixesCollectReveals
      BY <2>1, NothingListed DEF MixesCollectReveals
    <3> QED BY <1>1, <2>1, <3>1, NothingListed DEF MixesKept
  <2>2. CASE from_config
    <3>1. PICK e \in Nat : e = EPOCHS_PER_HISTORICAL_VECTOR
      BY BeaconConstants
    <3>2. randao_mixes = [i \in 1..e |-> {}]
      BY <2>2, <3>1 DEF from_config
    <3>3. Len(randao_mixes) = e
      BY <3>2
    <3>4. randao_mixes = [i \in 1..e |-> randao_mixes[i]]
      BY <3>2
    <3>5. Listed(randao_mixes)
      BY <3>1, <3>3, <3>4 DEF Listed
    <3>6. ASSUME NEW i \in 0..(e - 1)
          PROVE  randao_mixes[i + 1] = {bit \in Reveals : Cardinality(Flips(bit, i)) % 2 = 1}
      <4>1. i + 1 \in 1..e /\ 0 % 2 = 0
        OBVIOUS
      <4> QED BY <1>4, <3>2, <4>1
    <3>7. MixesCollectReveals
      BY <3>3, <3>6 DEF MixesCollectReveals, Reveals
    <3> QED BY <1>1, <3>1, <3>3, <3>5, <3>7, NothingListed DEF MixesKept
  <2> QED BY <2>1, <2>2 DEF BeaconInit, new
<1> QED BY <1>1, <1>2, <1>3, <1>5, NothingListed DEF BeaconInit, RingsInv

LEMMA FlipsLeft ==
    ASSUME accepted' = accepted
    PROVE  \A bit, index : Flips(bit, index)' = Flips(bit, index)
BY DEF Flips, MixIndex

LEMMA MixesLeft ==
    ASSUME MixesKept, UNCHANGED <<validators, accepted, randao_mixes>>
    PROVE  MixesKept'
<1>1. MixesCollectReveals'
  BY FlipsLeft DEF MixesKept, MixesCollectReveals
<1> QED BY <1>1 DEF MixesKept, Listed

LEMMA HeaderShape ==
    ASSUME NEW body, process_execution_payload(body),
           latest_execution_payload_header = None
               \/ latest_execution_payload_header.transactions_root = ZERO
    PROVE  latest_execution_payload_header' = None
               \/ latest_execution_payload_header'.transactions_root = ZERO
BY DEF process_execution_payload, from_execution_payload

\* The vote of a block is for one of the data, and leaves one of them in force.
LEMMA DataInForce ==
    ASSUME VotesCast, eth1_data \in Eth1Datas, NEW data \in Eth1Datas, process_eth1_data(data)
    PROVE  VotesCast' /\ eth1_data' \in Eth1Datas
BY OneMoreVote DEF VotesCast, process_eth1_data

\* All that is not the slot.
LEMMA RingsLeft ==
    ASSUME RingsInv, slot' \in Nat, UNCHANGED <<validators, rootVars, blockVars>>
    PROVE  RingsInv'
<1>1. UNCHANGED <<validators, block_roots, state_roots, written, eth1_data, eth1_data_votes,
                  randao_mixes, latest_execution_payload_header, accepted>>
  BY DEF rootVars, blockVars
<1>2. MixesKept'
  BY <1>1, MixesLeft DEF RingsInv
<1>3. RingKeeps(block_roots, "block")' /\ RingKeeps(state_roots, "state")'
  BY <1>1 DEF RingsInv, RingKeeps, Listed, RootIndex
<1>4. Listed(written)' /\ \A n \in DOMAIN written' : written'[n][1] \in {"block", "state"}
  BY <1>1 DEF RingsInv, Listed
<1> QED BY <1>1, <1>2, <1>3, <1>4 DEF RingsInv, VotesCast

LEMMA RingsBlock ==
    ASSUME RingsInv, NEW block, block.body \in Bodies, NEW verify_block_root,
           process_block(block, verify_block_root)
    PROVE  RingsInv'
<1>1. UNCHANGED <<slot, validators, block_roots, state_roots, written>>
  BY DEF process_block, rootVars
<1>2. RingKeeps(block_roots, "block")' /\ RingKeeps(state_roots, "state")'
  BY <1>1 DEF RingsInv, RingKeeps, Listed, RootIndex
<1>3. Listed(written)' /\ \A n \in DOMAIN written' : written'[n][1] \in {"block", "state"}
  BY <1>1 DEF RingsInv, Listed
<1>4. latest_execution_payload_header' = None
          \/ latest_execution_payload_header'.transactions_root = ZERO
  BY HeaderShape DEF process_block, RingsInv
<1>5. slot' \in Nat
  BY <1>1 DEF RingsInv
<1>6. MixesKept' /\ VotesCast' /\ eth1_data' \in Eth1Datas
  <2>1. PICK epoch \in Nat : epoch = current_epoch
    BY EpochIsNat DEF RingsInv, current_epoch
  <2>2. CASE get_randao_mix(epoch) = None
    <3>1. UNCHANGED <<validators, accepted, randao_mixes, eth1_data, eth1_data_votes>>
      BY <1>1, <2>1, <2>2 DEF process_block
    <3> QED BY <3>1, MixesLeft DEF RingsInv, VotesCast
  <2>3. CASE get_randao_mix(epoch) # None
    <3>1. PICK entry : entry = [block |-> block, epoch |-> epoch]
      OBVIOUS
    <3>2. PICK reveal : reveal = block.body.randao_reveal
      OBVIOUS
    <3>3. /\ accepted' = Append(accepted, entry)
          /\ process_randao(get_randao_mix(epoch), reveal)
          /\ process_eth1_data(block.body.eth1_data)
      BY <2>1, <2>3, <3>1, <3>2 DEF process_block
    <3>4. randao_mixes' = set_randao_mix(epoch, Mixed(get_randao_mix(epoch), reveal))
      BY <2>1, <3>3 DEF process_randao
    <3>5. entry.epoch = epoch /\ reveal = entry.block.body.randao_reveal
      BY <3>1, <3>2
    <3>6. reveal \in SUBSET Reveals
      BY <3>2 DEF Reveals
    <3>7. randao_mixes # << >>
      BY <2>3, MixIs DEF RingsInv
    <3>8. MixesKept
      BY DEF RingsInv
    <3>9. MixesKept'
      BY <3>3, <3>4, <3>5, <3>6, <3>7, <3>8, RevealTaken
    <3>10. block.body.eth1_data \in Eth1Datas
      BY BeaconConstants
    <3> QED BY <3>3, <3>9, <3>10, DataInForce DEF RingsInv
  <2> QED BY <2>2, <2>3
<1> QED BY <1>2, <1>3, <1>4, <1>5, <1>6 DEF RingsInv

LEMMA WrittenKinds ==
    ASSUME Listed(written), \A n \in DOMAIN written : written[n][1] \in {"block", "state"},
           NEW kind \in {"block", "state"}, NEW s, NEW root,
           written' = Append(written, <<kind, s, root>>)
    PROVE  Listed(written)' /\ \A n \in DOMAIN written' : written'[n][1] \in {"block", "state"}
<1>1. PICK n \in Nat : n = Len(written)
  BY DEF Listed
<1>2. /\ Listed(written') /\ DOMAIN written = 1..n /\ DOMAIN written' = 1..(n + 1)
      /\ written'[n + 1] = <<kind, s, root>>
      /\ \A i \in 1..n : written'[i] = written[i]
  BY <1>1, OneMoreListed
<1>3. \A i \in 1..(n + 1) : i \in 1..n \/ i = n + 1
  OBVIOUS
<1>4. Listed(written)'
  BY <1>2 DEF Listed
<1> QED BY <1>2, <1>3, <1>4

LEMMA RingsRoot ==
    ASSUME RingsInv, SetRoot
    PROVE  RingsInv'
<1>1. PICK root \in Roots : set_block_root(slot, root) \/ set_state_root(slot, root)
  BY DEF SetRoot
<1>2. UNCHANGED <<slot, validators, accepted, randao_mixes, eth1_data, eth1_data_votes,
                  latest_execution_payload_header>>
  BY <1>1 DEF set_block_root, set_state_root, blockVars
<1>3. MixesKept'
  BY <1>2, MixesLeft DEF RingsInv
<1>4. slot \in Nat /\ RingKeeps(block_roots, "block") /\ RingKeeps(state_roots, "state")
      /\ Listed(written)
  BY DEF RingsInv
<1>5. CASE set_block_root(slot, root)
  <2>1. /\ block_roots' = set_root(block_roots, slot, root)
        /\ written' = Append(written, <<"block", slot, root>>)
        /\ state_roots' = state_roots
    BY <1>5 DEF set_block_root
  <2>2. RingKeeps(block_roots, "block")'
    <3>1. PICK roots : roots = block_roots
      OBVIOUS
    <3>2. PICK new_roots : new_roots = block_roots'
      OBVIOUS
    <3>3. RingKeeps(roots, "block") /\ new_roots = set_root(roots, slot, root)
      BY <1>4, <2>1, <3>1, <3>2
    <3>4. RingKeeps(new_roots, "block")'
      BY <1>4, <2>1, <3>3, RingTakes
    <3> QED BY <3>2, <3>4 DEF RingKeeps, Listed
  <2>3. RingKeeps(state_roots, "state")'
    <3>1. PICK roots : roots = state_roots
      OBVIOUS
    <3>2. RingKeeps(roots, "state") /\ "state" # "block"
      BY <1>4, <3>1
    <3>3. RingKeeps(roots, "state")'
      BY <1>4, <2>1, <3>2, RingLeft
    <3> QED BY <2>1, <3>1, <3>3 DEF RingKeeps, Listed
  <2>4. Listed(written)' /\ \A n \in DOMAIN written' : written'[n][1] \in {"block", "state"}
    BY <2>1, WrittenKinds DEF RingsInv
  <2> QED BY <1>2, <1>3, <2>2, <2>3, <2>4 DEF RingsInv, VotesCast
<1>6. CASE set_state_root(slot, root)
  <2>1. /\ state_roots' = set_root(state_roots, slot, root)
        /\ written' = Append(written, <<"state", slot, root>>)
        /\ block_roots' = block_roots
    BY <1>6 DEF set_state_root
  <2>2. RingKeeps(state_roots, "state")'
    <3>1. PICK roots : roots = state_roots
      OBVIOUS
    <3>2. PICK new_roots : new_roots = state_roots'
      OBVIOUS
    <3>3. RingKeeps(roots, "state") /\ new_roots = set_root(roots, slot, root)
      BY <1>4, <2>1, <3>1, <3>2
    <3>4. RingKeeps(new_roots, "state")'
      BY <1>4, <2>1, <3>3, RingTakes
    <3> QED BY <3>2, <3>4 DEF RingKeeps, Listed
  <2>3. RingKeeps(block_roots, "block")'
    <3>1. PICK roots : roots = block_roots
      OBVIOUS
    <3>2. RingKeeps(roots, "block") /\ "block" # "state"
      BY <1>4, <3>1
    <3>3. RingKeeps(roots, "block")'
      BY <1>4, <2>1, <3>2, RingLeft
    <3> QED BY <2>1, <3>1, <3>3 DEF RingKeeps, Listed
  <2>4. Listed(written)' /\ \A n \in DOMAIN written' : written'[n][1] \in {"block", "state"}
    BY <2>1, WrittenKinds DEF RingsInv
  <2> QED BY <1>2, <1>3, <2>2, <2>3, <2>4 DEF RingsInv, VotesCast
<1> QED BY <1>1, <1>5, <1>6

LEMMA RingsStep == RingsInv /\ [BeaconNext]_beaconVars => RingsInv'
<1> SUFFICES ASSUME RingsInv, [BeaconNext]_beaconVars PROVE RingsInv'
  OBVIOUS
<1>1. CASE advance_slot
  BY <1>1, RingsLeft DEF advance_slot, RingsInv
<1>2. CASE ProcessSubdag
  <2>1. PICK subdag \in Subdags : process_subdag(subdag)
    BY <1>2 DEF ProcessSubdag
  <2>2. slot' \in Nat
    BY <2>1, BeaconConstants DEF process_subdag
  <2> QED BY <2>1, <2>2, RingsLeft DEF process_subdag
<1>3. CASE ProcessBlock
  <2>1. PICK block \in Blocks, verify_block_root \in BOOLEAN :
            \/ process_block(block, verify_block_root)
            \/ refuse_block(block, verify_block_root)
    BY <1>3 DEF ProcessBlock
  <2>2. CASE refuse_block(block, verify_block_root)
    BY <2>2, RingsLeft DEF refuse_block, RingsInv
  <2>3. CASE process_block(block, verify_block_root)
    <3>1. block.body \in Bodies
      BY <2>1 DEF Blocks
    <3> QED BY <2>3, <3>1, RingsBlock
  <2> QED BY <2>1, <2>2, <2>3
<1>4. CASE SetRoot
  BY <1>4, RingsRoot
<1>5. CASE UNCHANGED beaconVars
  BY <1>5, RingsLeft DEF beaconVars, RingsInv
<1> QED BY <1>1, <1>2, <1>3, <1>4, <1>5 DEF BeaconNext

\* RingsKeepWhatWasPut, for every period, set of roots and set of reveals: filling and
\* turning leave the other places, and each block flips its reveal's bits in one mix only
\* (set_block_root, set_state_root, process_randao, beacon_state.rs).
THEOREM RingsKeep == BeaconSpec => []RingsKeepWhatWasPut
<1>1. BeaconSpec => []RingsInv
  BY RingsInit, RingsStep, PTL DEF BeaconSpec
<1> QED BY <1>1, RingsAreEnough, PTL

-----------------------------------------------------------------------------
(* Blocks.                                                                 *)

PayloadOf(entry) == entry.block.body.execution_payload
SlotOf(entry) == entry.block.header.slot

\* The last conjunct of BlocksWhole, block by block.
PayloadFollows ==
    \/ /\ latest_execution_payload_header = None
       /\ \A n \in DOMAIN accepted : PayloadOf(accepted[n]) = None
    \/ \E n \in DOMAIN accepted :
          /\ PayloadOf(accepted[n]) # None
          /\ \A m \in DOMAIN accepted : PayloadOf(accepted[m]) # None => m <= n
          /\ latest_execution_payload_header = from_execution_payload(PayloadOf(accepted[n]))

\* The slots of the blocks grow up to the latest header's.
SlotsGrow ==
    /\ latest_block_header.slot \in Nat
    /\ \A n \in DOMAIN accepted :
          SlotOf(accepted[n]) \in Nat /\ SlotOf(accepted[n]) <= latest_block_header.slot
    /\ \A m, n \in DOMAIN accepted : m < n => SlotOf(accepted[m]) < SlotOf(accepted[n])

LatestIs ==
    /\ accepted # << >> => latest_block_header = Last(accepted).block.header
    /\ accepted = << >> => latest_block_header = BeaconBlockHeader

BlocksInv ==
    /\ RingsInv /\ MajorityAdopted
    /\ Len(eth1_data_votes) = Len(accepted)
    /\ LatestIs /\ SlotsGrow /\ PayloadFollows

LEMMA BlocksAreEnough == BlocksInv => BlocksTakeEffect
<1> SUFFICES ASSUME BlocksInv PROVE BlocksTakeEffect
  OBVIOUS
<1> DEFINE given == {n \in DOMAIN accepted : accepted[n].block.body.execution_payload # None}
<1>1. \/ given = {} /\ latest_execution_payload_header = None
      \/ \E n \in given :
            /\ \A m \in given : m <= n
            /\ latest_execution_payload_header =
                  from_execution_payload(accepted[n].block.body.execution_payload)
  <2>1. CASE /\ latest_execution_payload_header = None
             /\ \A n \in DOMAIN accepted : PayloadOf(accepted[n]) = None
    BY <2>1 DEF PayloadOf
  <2>2. ASSUME NEW n \in DOMAIN accepted, PayloadOf(accepted[n]) # None,
               \A m \in DOMAIN accepted : PayloadOf(accepted[m]) # None => m <= n,
               latest_execution_payload_header = from_execution_payload(PayloadOf(accepted[n]))
        PROVE  \E i \in given :
                  /\ \A m \in given : m <= i
                  /\ latest_execution_payload_header =
                        from_execution_payload(accepted[i].block.body.execution_payload)
    <3>1. n \in given /\ \A m \in given : m <= n
      BY <2>2 DEF PayloadOf
    <3> QED BY <2>2, <3>1 DEF PayloadOf
  <2> QED BY <2>1, <2>2 DEF BlocksInv, PayloadFollows
<1>2. \A m, n \in DOMAIN accepted :
          m < n => accepted[m].block.header.slot < accepted[n].block.header.slot
  BY DEF BlocksInv, SlotsGrow, SlotOf
<1> QED BY <1>1, <1>2 DEF BlocksInv, BlocksTakeEffect, BlocksWhole, LatestIs

LEMMA BlocksInit == BeaconInit => BlocksInv
<1> SUFFICES ASSUME BeaconInit PROVE BlocksInv
  OBVIOUS
<1>1. /\ accepted = << >> /\ eth1_data_votes = << >> /\ latest_block_header = BeaconBlockHeader
      /\ latest_execution_payload_header = None
  BY DEF BeaconInit
<1>2. LatestIs /\ SlotsGrow /\ PayloadFollows
  BY <1>1, NothingListed DEF LatestIs, SlotsGrow, PayloadFollows, BeaconBlockHeader
<1> QED BY <1>1, <1>2, RingsInit, VotesInit DEF BlocksInv

LEMMA BlocksLeft ==
    ASSUME BlocksInv, RingsInv', MajorityAdopted',
           UNCHANGED <<latest_block_header, eth1_data_votes, latest_execution_payload_header,
                       accepted>>
    PROVE  BlocksInv'
<1>1. LatestIs' /\ SlotsGrow' /\ PayloadFollows'
  BY DEF BlocksInv, LatestIs, SlotsGrow, PayloadFollows
<1> QED BY <1>1 DEF BlocksInv

\* Without a mix no header is valid: there is no proposer it could name.
LEMMA ValidHasMix ==
    ASSUME NEW header, header.proposer_index \in {0, 1}, NEW verify_block_root,
           HeaderValid(header, verify_block_root)
    PROVE  get_randao_mix(current_epoch) # None
<1> SUFFICES ASSUME get_randao_mix(current_epoch) = None PROVE FALSE
  OBVIOUS
<1>1. get_beacon_proposer_index = None
  BY DEF get_beacon_proposer_index
<1> QED BY <1>1, BeaconConstants DEF HeaderValid

\* The parts of the invariant, for one more block.
LEMMA LatestNext ==
    ASSUME Listed(accepted), NEW entry, accepted' = Append(accepted, entry),
           latest_block_header' = entry.block.header
    PROVE  LatestIs'
<1>1. PICK n \in Nat : n = Len(accepted)
  BY DEF Listed
<1>2. Len(accepted') = n + 1 /\ accepted'[n + 1] = entry
  BY <1>1, OneMoreListed
<1>3. accepted' # << >>
  BY <1>2, NothingListed
<1>4. Last(accepted') = entry
  BY <1>2 DEF Last
<1> QED BY <1>3, <1>4 DEF LatestIs

LEMMA SlotsNext ==
    ASSUME Listed(accepted), SlotsGrow, NEW entry, accepted' = Append(accepted, entry),
           SlotOf(entry) \in Nat, SlotOf(entry) > latest_block_header.slot,
           latest_block_header' = entry.block.header
    PROVE  SlotsGrow'
<1>1. PICK n \in Nat : n = Len(accepted)
  BY DEF Listed
<1>2. /\ DOMAIN accepted = 1..n /\ DOMAIN accepted' = 1..(n + 1)
      /\ accepted'[n + 1] = entry
      /\ \A i \in 1..n : accepted'[i] = accepted[i]
  BY <1>1, OneMoreListed
<1>3. PICK top \in Nat : top = SlotOf(entry)
  OBVIOUS
<1>4. PICK old \in Nat : old = latest_block_header.slot /\ old < top
  BY <1>3 DEF SlotsGrow
<1>5. latest_block_header'.slot = top
  BY <1>3 DEF SlotOf
<1>6. \A i \in 1..n : SlotOf(accepted[i]) \in Nat /\ SlotOf(accepted[i]) <= old
  BY <1>2, <1>4 DEF SlotsGrow
<1>7. \A i \in 1..n, j \in 1..n : i < j => SlotOf(accepted[i]) < SlotOf(accepted[j])
  BY <1>2 DEF SlotsGrow
<1>8. \A i \in 1..(n + 1) : i \in 1..n \/ i = n + 1
  OBVIOUS
<1>9. ASSUME NEW i \in 1..(n + 1)
      PROVE  SlotOf(accepted'[i]) \in Nat /\ SlotOf(accepted'[i]) <= top
  <2>1. CASE i \in 1..n
    <3>1. PICK at \in Nat : at = SlotOf(accepted[i]) /\ at <= old
      BY <1>6, <2>1
    <3>2. accepted'[i] = accepted[i]
      BY <1>2, <2>1
    <3>3. at <= top
      BY <1>4, <3>1
    <3> QED BY <3>1, <3>2, <3>3
  <2>2. CASE i = n + 1
    BY <1>2, <1>3, <2>2
  <2> QED BY <1>8, <2>1, <2>2
<1>10. ASSUME NEW i \in 1..(n + 1), NEW j \in 1..(n + 1), i < j
       PROVE  SlotOf(accepted'[i]) < SlotOf(accepted'[j])
  <2>1. i \in 1..n
    BY <1>10
  <2>2. CASE j \in 1..n
    BY <1>2, <1>7, <1>10, <2>1, <2>2
  <2>3. CASE j = n + 1
    <3>1. PICK at \in Nat : at = SlotOf(accepted[i]) /\ at <= old
      BY <1>6, <2>1
    <3>2. accepted'[i] = accepted[i] /\ SlotOf(accepted'[j]) = top
      BY <1>2, <1>3, <2>1, <2>3
    <3>3. at < top
      BY <1>4, <3>1
    <3> QED BY <3>1, <3>2, <3>3
  <2> QED BY <1>8, <2>2, <2>3
<1> QED BY <1>2, <1>3, <1>5, <1>9, <1>10 DEF SlotsGrow, SlotOf

LEMMA PayloadNext ==
    ASSUME Listed(accepted), PayloadFollows, NEW entry, accepted' = Append(accepted, entry),
           process_execution_payload(entry.block.body)
    PROVE  PayloadFollows'
<1>1. PICK n \in Nat : n = Len(accepted)
  BY DEF Listed
<1>2. /\ DOMAIN accepted = 1..n /\ DOMAIN accepted' = 1..(n + 1)
      /\ accepted'[n + 1] = entry
      /\ \A i \in 1..n : accepted'[i] = accepted[i]
  BY <1>1, OneMoreListed
<1>3. \A i \in 1..(n + 1) : i \in 1..n \/ i = n + 1
  OBVIOUS
<1>4. CASE PayloadOf(entry) = None
  <2>1. latest_execution_payload_header' = latest_execution_payload_header
    BY <1>4 DEF process_execution_payload, PayloadOf
  <2>2. CASE /\ latest_execution_payload_header = None
             /\ \A i \in DOMAIN accepted : PayloadOf(accepted[i]) = None
    <3>1. \A i \in DOMAIN accepted' : PayloadOf(accepted'[i]) = None
      BY <1>2, <1>3, <1>4, <2>2
    <3> QED BY <2>1, <2>2, <3>1 DEF PayloadFollows, PayloadOf
  <2>3. ASSUME NEW i \in DOMAIN accepted, PayloadOf(accepted[i]) # None,
               \A m \in DOMAIN accepted : PayloadOf(accepted[m]) # None => m <= i,
               latest_execution_payload_header = from_execution_payload(PayloadOf(accepted[i]))
        PROVE  PayloadFollows'
    <3>1. i \in DOMAIN accepted' /\ accepted'[i] = accepted[i]
      BY <1>2, <2>3
    <3>2. \A m \in DOMAIN accepted' : PayloadOf(accepted'[m]) # None => m <= i
      BY <1>2, <1>3, <1>4, <2>3
    <3> QED BY <2>1, <2>3, <3>1, <3>2 DEF PayloadFollows, PayloadOf, from_execution_payload
  <2> QED BY <2>2, <2>3 DEF PayloadFollows
<1>5. CASE PayloadOf(entry) # None
  <2>1. latest_execution_payload_header' = from_execution_payload(PayloadOf(entry))
    BY <1>5 DEF process_execution_payload, PayloadOf
  <2>2. n + 1 \in DOMAIN accepted' /\ \A m \in DOMAIN accepted' : m <= n + 1
    BY <1>2
  <2> QED BY <1>2, <1>5, <2>1, <2>2 DEF PayloadFollows, PayloadOf, from_execution_payload
<1> QED BY <1>4, <1>5

LEMMA BlocksBlock ==
    ASSUME BlocksInv, RingsInv', MajorityAdopted', NEW block \in Blocks, NEW verify_block_root,
           process_block(block, verify_block_root)
    PROVE  BlocksInv'
<1>1. HeaderValid(block.header, verify_block_root) /\ block.header.proposer_index \in {0, 1}
  BY DEF process_block, Blocks
<1>2. get_randao_mix(current_epoch) # None
  BY <1>1, ValidHasMix
<1>3. PICK entry : entry = [block |-> block, epoch |-> current_epoch]
  OBVIOUS
<1>4. /\ accepted' = Append(accepted, entry)
      /\ latest_block_header' = entry.block.header
      /\ process_execution_payload(entry.block.body)
      /\ eth1_data_votes' = Append(eth1_data_votes, block.body.eth1_data)
  BY <1>2, <1>3 DEF process_block, process_eth1_data
<1>5. Listed(accepted) /\ slot \in Nat /\ VotesCast
  BY DEF BlocksInv, RingsInv, MixesKept
<1>6. SlotOf(entry) \in Nat /\ SlotOf(entry) > latest_block_header.slot
  BY <1>1, <1>3, <1>5 DEF HeaderValid, SlotOf
<1>7. Len(eth1_data_votes') = Len(accepted')
  <2>1. Len(eth1_data_votes') = Len(eth1_data_votes) + 1
    <3>1. block.body.eth1_data \in Eth1Datas
      BY BeaconConstants DEF Blocks
    <3> QED BY <1>4, <1>5, <3>1, AppendProperties DEF VotesCast
  <2>2. Len(accepted') = Len(accepted) + 1
    BY <1>4, <1>5, OneMoreListed
  <2> QED BY <2>1, <2>2 DEF BlocksInv
<1>8. LatestIs'
  BY <1>4, <1>5, LatestNext
<1>9. SlotsGrow'
  BY <1>4, <1>5, <1>6, SlotsNext DEF BlocksInv
<1>10. PayloadFollows'
  BY <1>4, <1>5, PayloadNext DEF BlocksInv
<1> QED BY <1>7, <1>8, <1>9, <1>10 DEF BlocksInv

LEMMA BlocksStep == BlocksInv /\ [BeaconNext]_beaconVars => BlocksInv'
<1> SUFFICES ASSUME BlocksInv, [BeaconNext]_beaconVars PROVE BlocksInv'
  OBVIOUS
<1>1. RingsInv'
  BY RingsStep DEF BlocksInv
<1>2. MajorityAdopted'
  BY VotesStep DEF BlocksInv, RingsInv
<1>3. CASE advance_slot \/ ProcessSubdag \/ SetRoot \/ UNCHANGED beaconVars
  <2>1. UNCHANGED blockVars
    BY <1>3 DEF advance_slot, ProcessSubdag, process_subdag, SetRoot, set_block_root,
                set_state_root, beaconVars
  <2> QED BY <1>1, <1>2, <2>1, BlocksLeft DEF blockVars
<1>4. CASE ProcessBlock
  <2>1. PICK block \in Blocks, verify_block_root \in BOOLEAN :
            \/ process_block(block, verify_block_root)
            \/ refuse_block(block, verify_block_root)
    BY <1>4 DEF ProcessBlock
  <2>2. CASE refuse_block(block, verify_block_root)
    BY <1>1, <1>2, <2>2, BlocksLeft DEF refuse_block, blockVars
  <2>3. CASE process_block(block, verify_block_root)
    BY <1>1, <1>2, <2>1, <2>3, BlocksBlock
  <2> QED BY <2>1, <2>2, <2>3
<1> QED BY <1>3, <1>4 DEF BeaconNext

\* BlocksTakeEffect, for every set of blocks and of sub-DAGs: a block that passes the check
\* of its header has a mix, so its vote, its reveal and its payload are taken with it
\* (process_block, beacon_state.rs).
THEOREM BlocksTakeWholeEffect == BeaconSpec => []BlocksTakeEffect
<1>1. BeaconSpec => []BlocksInv
  BY BlocksInit, BlocksStep, PTL DEF BeaconSpec
<1> QED BY <1>1, BlocksAreEnough, PTL
===============================================================================
