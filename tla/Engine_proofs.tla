---------------------------- MODULE Engine_proofs ----------------------------
(***************************************************************************)
(* Proofs about EngineConsensus for every batch size, log of commits and   *)
(* number of failures: what the loop relies on between its arms, and that  *)
(* the canonical chain is the abstract ledger's.                           *)
(***************************************************************************)
EXTENDS EngineInvariants, ConsensusPool_proofs

-----------------------------------------------------------------------------
(* What the builder makes of a batch.                                      *)

\* What executes of a list is part of it.
LEMMA ExecutedOf ==
    ASSUME NEW S, NEW txs \in Seq(S), NEW nonces
    PROVE  Executed(nonces, txs) \subseteq S /\ IsFiniteSet(Executed(nonces, txs))
<1>1. DOMAIN txs = 1..Len(txs) /\ Len(txs) \in Nat
  BY LenProperties
<1>2. PICK T : T \subseteq 1..Len(txs) /\ Executed(nonces, txs) = {txs[i] : i \in T}
  BY <1>1 DEF Executed
<1>3. IsFiniteSet(T)
  <2>1. IsFiniteSet(1..Len(txs))
    BY <1>1, FS_Interval
  <2> QED BY <1>2, <2>1, FS_Subset
<1>4. IsFiniteSet({txs[i] : i \in T})
  <2>1. PICK f : f = [i \in T |-> txs[i]]
    OBVIOUS
  <2>2. f \in Surjection(T, {txs[i] : i \in T})
    BY <2>1 DEF Surjection
  <2> QED BY <1>3, <2>2, FS_Surjection
<1>5. \A i \in T : txs[i] \in S
  BY <1>1, <1>2, ElementOfSeq
<1> QED BY <1>2, <1>4, <1>5

\* Nonces stay numbers.
LEMMA AdvanceIsNat ==
    ASSUME NEW D, NEW nonces \in [D -> Nat], NEW executed, IsFiniteSet(executed)
    PROVE  Advance(nonces, executed) \in [D -> Nat]
<1>1. ASSUME NEW s \in D
      PROVE  nonces[s] + Cardinality({tx \in executed : tx.sender = s}) \in Nat
  <2>1. PICK own : own = {tx \in executed : tx.sender = s}
    OBVIOUS
  <2>2. IsFiniteSet(own)
    BY <2>1, FS_Subset
  <2>3. Cardinality(own) \in Nat
    BY <2>2, FS_CardinalityType
  <2>4. nonces[s] \in Nat
    OBVIOUS
  <2> QED BY <2>1, <2>3, <2>4
<1>2. Advance(nonces, executed) =
         [s \in D |-> nonces[s] + Cardinality({tx \in executed : tx.sender = s})]
  BY DEF Advance
<1> QED BY <1>1, <1>2

-----------------------------------------------------------------------------
(* Hashes.                                                                 *)

Steps == [from : Nat, last : Nat]

\* A hash and the one of a block on top of it.
LEMMA PathOf ==
    ASSUME NEW hash \in Seq(Steps), NEW e \in Steps
    PROVE  /\ Append(hash, e) \in Seq(Steps) /\ Len(Append(hash, e)) = Len(hash) + 1
           /\ Append(hash, e) # Genesis
           /\ Append(hash, e)[Len(hash) + 1] = e
           /\ \A n \in 1..Len(hash) : Append(hash, e)[n] = hash[n]
           /\ Parent(Append(hash, e)) = hash
           /\ SubSeq(hash, 1, Len(hash)) = hash
           /\ SubSeq(Append(hash, e), 1, Len(hash) + 1) = Append(hash, e)
           /\ \A n \in 0..Len(hash) : SubSeq(Append(hash, e), 1, n) = SubSeq(hash, 1, n)
           /\ \A n \in 0..Len(hash) : SubSeq(hash, 1, n) # Append(hash, e)
           /\ IsPrefix(hash, hash) /\ ~IsPrefix(Append(hash, e), hash)
<1>1. PICK top : top = Append(hash, e)
  OBVIOUS
<1>2. /\ top \in Seq(Steps) /\ Len(top) = Len(hash) + 1 /\ Len(hash) \in Nat
      /\ top[Len(hash) + 1] = e /\ \A n \in 1..Len(hash) : top[n] = hash[n]
  BY <1>1, AppendProperties, LenProperties
<1>3. top # Genesis
  BY <1>2, EmptySeq DEF Genesis
<1>4. \A s \in {hash, top} : \A n \in 0..Len(s) :
         /\ SubSeq(s, 1, n) = [i \in 1..n |-> s[i]]
         /\ Len(SubSeq(s, 1, n)) = n
  BY <1>2
<1>5. \A s \in {hash, top} : s = [i \in 1..Len(s) |-> s[i]]
  BY <1>2, LenProperties
<1>6. SubSeq(hash, 1, Len(hash)) = hash /\ SubSeq(top, 1, Len(top)) = top
  BY <1>2, <1>4, <1>5
<1>7. \A n \in 0..Len(hash) : SubSeq(top, 1, n) = SubSeq(hash, 1, n)
  <2> SUFFICES ASSUME NEW n \in 0..Len(hash) PROVE SubSeq(top, 1, n) = SubSeq(hash, 1, n)
    OBVIOUS
  <2>1. n \in 0..Len(top) /\ \A i \in 1..n : top[i] = hash[i]
    BY <1>2
  <2> QED BY <1>4, <2>1
<1>8. Parent(top) = hash
  <2>1. Parent(top) = SubSeq(top, 1, Len(top) - 1)
    BY DEF Parent, Front
  <2> QED BY <1>2, <1>6, <1>7, <2>1
<1>9. \A n \in 0..Len(hash) : SubSeq(hash, 1, n) # top
  BY <1>2, <1>4
<1>10. IsPrefix(hash, hash) /\ ~IsPrefix(top, hash)
  BY <1>2, <1>6 DEF IsPrefix
<1> QED BY <1>1, <1>2, <1>3, <1>6, <1>7, <1>8, <1>9, <1>10

-----------------------------------------------------------------------------
(* The next block.                                                         *)

\* A batch of the queue is one of the log.
LEMMA BatchOfLog ==
    ASSUME QueueInv, HasBatch(next_committed_index, commited_queue)
    PROVE  /\ Batch(next_committed_index, commited_queue) = Batch(next_committed_index, commits)
           /\ ProposalHasEnough(commited_queue)
           /\ K > 0 =>
                 /\ next_committed_index + K - 1 \in DOMAIN commited_queue
                 /\ next_committed_index + K - 1 \in 1..Len(commits)
                 /\ commited_queue[next_committed_index + K - 1] =
                       commits[next_committed_index + K - 1]
                 /\ commits[next_committed_index + K - 1].round = next_committed_index + K - 1
<1>1. K \in Nat /\ next_committed_index \in Nat
  BY BatchSizeIsNat DEF K, QueueInv, PendingIsTheRest, PoolTypeOK
<1>2. \A i \in 1..K : commited_queue[next_committed_index + i - 1] =
                         commits[next_committed_index + i - 1]
  BY BatchIsQueued DEF QueueInv, PendingIsTheRest
<1>3. K > 0 => next_committed_index + K - 1 \in DOMAIN commited_queue
  BY <1>1, BatchIsQueued DEF QueueInv, PendingIsTheRest
<1>4. ProposalHasEnough(commited_queue)
  BY <1>1, BatchIsEnough DEF QueueInv
<1>5. K > 0 => commits[next_committed_index + K - 1].round = next_committed_index + K - 1
  BY <1>3 DEF QueueInv, PendingIsTheRest, PoolTypeOK
<1> QED BY <1>2, <1>3, <1>4, <1>5 DEF Batch, QueueInv

\* The payload made of it is one, and is no None.
LEMMA NextPayloadIs ==
    ASSUME QueueInv, ChainInv, HasBatch(next_committed_index, commited_queue)
    PROVE  /\ NextPayload # None
           /\ NextPayload.nonces \in [Senders(commits) -> Nat]
<1>1. K \in Nat /\ Height \in Nat
  BY BatchSizeIsNat, LenProperties DEF K, ChainInv, Height
<1>2. NextHash \in Seq(Steps)
  <2>1. K * Height \in Nat /\ K * (Height + 1) \in Nat
    BY <1>1
  <2>2. [from |-> 1 + K * Height, last |-> K * (Height + 1)] \in Steps
    BY <2>1 DEF Steps
  <2> QED BY <2>2, PathOf DEF NextHash, ChainInv, Steps
<1>3. PICK txs : txs = NextTransactions
  OBVIOUS
<1>4. txs \in Seq(GivenTxs)
  <2>1. PICK taken : taken = Batch(next_committed_index, commited_queue)
    OBVIOUS
  <2>2. \A i \in 1..K : taken[i].transactions \in Seq(GivenTxs)
    BY <2>1, BatchIsQueued DEF QueueInv, PendingIsTheRest
  <2>3. taken = [i \in 1..K |-> taken[i]]
    BY <2>1 DEF Batch
  <2>4. txs = create_proposal_transactions(pending_transactions, taken)
    BY <1>3, <2>1, BatchOfLog DEF NextTransactions
  <2>5. pending_transactions \in Seq(GivenTxs)
    BY DEF QueueInv, PendingIsTheRest, PoolTypeOK
  <2> QED BY <1>1, <2>2, <2>3, <2>4, <2>5, GivenTypes, SettlesTheBatch
<1>5. PICK executed : executed = Executed(blocks[head].nonces, txs)
  OBVIOUS
<1>6. executed \in SUBSET GivenTxs /\ IsFiniteSet(executed)
  BY <1>4, <1>5, ExecutedOf
<1>7. PICK nonces : nonces = Advance(blocks[head].nonces, executed)
  OBVIOUS
<1>8. nonces \in [Senders(commits) -> Nat]
  BY <1>6, <1>7, AdvanceIsNat DEF ChainInv
<1>9. NextPayload = [hash |-> NextHash, proposal |-> txs, transactions |-> executed,
                     nonces |-> nonces]
  BY <1>3, <1>5, <1>7 DEF NextPayload
<1>10. NextPayload \in Payloads(commits)
  BY <1>2, <1>4, <1>6, <1>8, <1>9 DEF Payloads, Steps
<1>11. None \notin Payloads(commits)
  BY EngineConstants DEF QueueInv
<1> QED BY <1>8, <1>9, <1>10, <1>11

\* The hash of the next block, and the chain below it.
LEMMA NextHashIs ==
    ASSUME ChainInv
    PROVE  /\ K \in Nat /\ Height \in Nat
           /\ NextHash \in Seq(Steps) /\ Len(NextHash) = Height + 1
           /\ NextHash # Genesis
           /\ NextHash[Height + 1] = [from |-> 1 + K * Height, last |-> K * (Height + 1)]
           /\ \A n \in 1..Height : NextHash[n] = head[n]
           /\ Parent(NextHash) = head
           /\ SubSeq(head, 1, Height) = head
           /\ SubSeq(NextHash, 1, Height + 1) = NextHash
           /\ \A n \in 0..Height : SubSeq(NextHash, 1, n) = SubSeq(head, 1, n)
           /\ \A n \in 0..Height : SubSeq(head, 1, n) # NextHash
           /\ IsPrefix(head, head) /\ ~IsPrefix(NextHash, head)
           /\ head \in DOMAIN blocks
<1>1. K \in Nat /\ Height \in Nat
  BY BatchSizeIsNat, LenProperties DEF K, ChainInv, Height
<1>2. K * Height \in Nat /\ K * (Height + 1) \in Nat
  BY <1>1
<1>3. PICK e : e = [from |-> 1 + K * Height, last |-> K * (Height + 1)]
  OBVIOUS
<1>4. e \in Steps /\ head \in Seq(Steps) /\ NextHash = Append(head, e)
  BY <1>2, <1>3 DEF Steps, ChainInv, NextHash
<1>5. SubSeq(head, 1, Height) = head
  BY <1>4, PathOf DEF Height
<1>6. head \in DOMAIN blocks
  <2>1. Height \in 0..Height
    BY <1>1
  <2>2. SubSeq(head, 1, Height) \in DOMAIN blocks
    BY <2>1 DEF ChainInv
  <2> QED BY <1>5, <2>2
<1>7. /\ NextHash \in Seq(Steps) /\ Len(NextHash) = Height + 1
      /\ NextHash # Genesis
      /\ NextHash[Height + 1] = e
      /\ \A n \in 1..Height : NextHash[n] = head[n]
      /\ Parent(NextHash) = head
      /\ SubSeq(NextHash, 1, Height + 1) = NextHash
      /\ \A n \in 0..Height : SubSeq(NextHash, 1, n) = SubSeq(head, 1, n)
      /\ \A n \in 0..Height : SubSeq(head, 1, n) # NextHash
      /\ IsPrefix(head, head) /\ ~IsPrefix(NextHash, head)
  <2>1. PICK next : next = Append(head, e)
    OBVIOUS
  <2>2. /\ next \in Seq(Steps) /\ Len(next) = Len(head) + 1
        /\ next # Genesis
        /\ next[Len(head) + 1] = e
        /\ \A n \in 1..Len(head) : next[n] = head[n]
        /\ Parent(next) = head
        /\ SubSeq(next, 1, Len(head) + 1) = next
        /\ \A n \in 0..Len(head) : SubSeq(next, 1, n) = SubSeq(head, 1, n)
        /\ \A n \in 0..Len(head) : SubSeq(head, 1, n) # next
        /\ IsPrefix(head, head) /\ ~IsPrefix(next, head)
    BY <1>4, <2>1, PathOf
  <2>3. NextHash = next
    BY <1>4, <2>1
  <2> QED BY <2>2, <2>3 DEF Height
<1>8. NextHash[Height + 1] = [from |-> 1 + K * Height, last |-> K * (Height + 1)]
  BY <1>3, <1>7
<1> QED BY <1>1, <1>5, <1>6, <1>7, <1>8, Zenon

-----------------------------------------------------------------------------
(* Each step keeps the invariant.                                          *)

\* A step of the clients touches the pool only.
LEMMA LoopUntouched ==
    ASSUME EngineInv,
           UNCHANGED <<commits, loopVars, chainVars, jobVars, built_payloads, notifications,
                       next_committed_index, pending_transactions, mined>>,
           HasBatch(next_committed_index, commited_queue) =>
               HasBatch(next_committed_index, commited_queue)'
    PROVE  /\ ChainInv' /\ MinedIsCanonical' /\ payload_buffer' = << >>
           /\ Idle' \/ Executing' \/ Stuck'
<1> USE DEF loopVars, chainVars, jobVars
<1>1. Height' = Height /\ NextHash' = NextHash /\ NextJob' = NextJob
  BY DEF Height, NextHash, NextJob
<1>2. NextTransactions' = NextTransactions
  BY DEF NextTransactions, Batch
<1>3. NextPayload' = NextPayload
  BY <1>1, <1>2 DEF NextPayload
<1>4. ChainInv'
  BY <1>1 DEF EngineInv, ChainInv, EveryBatchInOneBlock
<1>5. MinedIsCanonical' /\ payload_buffer' = << >>
  BY DEF EngineInv, MinedIsCanonical
<1>6. NothingUnderWay' <=> NothingUnderWay
  BY DEF NothingUnderWay
<1>7. LastBuiltHash' = LastBuiltHash
  BY DEF LastBuiltHash
<1>8. CASE Idle
  BY <1>1, <1>3, <1>4, <1>5, <1>6, <1>7, <1>8 DEF Idle
<1>9. CASE Executing
  BY <1>1, <1>2, <1>4, <1>5, <1>9 DEF Executing
<1>10. CASE Stuck
  BY <1>1, <1>4, <1>5, <1>6, <1>10 DEF Stuck
<1> QED BY <1>8, <1>9, <1>10 DEF EngineInv

\* A submission puts its commit into the queue.
LEMMA SubmitQueues ==
    ASSUME EngineInv, SubmitCommittedSubdag
    PROVE  /\ submitted + 1 \in 1..Len(commits) /\ commits[submitted + 1] \in Subdags
           /\ DOMAIN commited_queue' = DOMAIN commited_queue \cup {submitted + 1}
           /\ \A r \in DOMAIN commited_queue' : commited_queue'[r] =
                 IF r = submitted + 1 THEN commits[submitted + 1] ELSE commited_queue[r]
<1> DEFINE s == commits[submitted + 1]
<1>1. submitted < Len(commits) /\ add_committed_subdags(<<s>>)
  BY DEF SubmitCommittedSubdag
<1>2. submitted + 1 \in 1..Len(commits) /\ s \in Subdags /\ s.round = submitted + 1
  <2>1. commits \in Seq(Subdags) /\ submitted \in Nat
    BY EngineConstants DEF EngineInv, QueueInv
  <2>2. submitted + 1 \in 1..Len(commits)
    BY <1>1, <2>1, LenProperties
  <2> QED BY <2>1, <2>2, EngineConstants, ElementOfSeq DEF EngineInv, QueueInv
<1> HIDE DEF s
<1>3. commited_queue' = WithSubdags(commited_queue, <<s>>)
  BY <1>1 DEF add_committed_subdags
<1>4. PICK with : with = WithSubdags(commited_queue, <<s>>)
  OBVIOUS
<1>5. /\ DOMAIN with = DOMAIN commited_queue \cup {s.round}
      /\ \A r \in DOMAIN with : with[r] = IF r = s.round THEN s ELSE commited_queue[r]
  BY <1>2, <1>4, AddingOne, Zenon
<1>6. /\ DOMAIN commited_queue' = DOMAIN commited_queue \cup {submitted + 1}
      /\ \A r \in DOMAIN commited_queue' : commited_queue'[r] =
            IF r = submitted + 1 THEN s ELSE commited_queue[r]
  BY <1>2, <1>3, <1>4, <1>5
<1> QED BY <1>2, <1>6 DEF s

LEMMA SubmitKeeps ==
    ASSUME EngineInv, SubmitCommittedSubdag
    PROVE  EngineInv'
<1> DEFINE s == commits[submitted + 1]
<1>1. /\ submitted' = submitted + 1
      /\ add_committed_subdags(<<s>>)
      /\ UNCHANGED <<commits, loopVars, chainVars, jobVars, built_payloads, notifications>>
  BY DEF SubmitCommittedSubdag
<1>2. /\ submitted + 1 \in 1..Len(commits) /\ s \in Subdags
      /\ DOMAIN commited_queue' = DOMAIN commited_queue \cup {submitted + 1}
      /\ \A r \in DOMAIN commited_queue' : commited_queue'[r] =
            IF r = submitted + 1 THEN s ELSE commited_queue[r]
  BY SubmitQueues
<1> HIDE DEF s
<1>3. UNCHANGED <<next_committed_index, pending_transactions, mined>>
  BY <1>1 DEF add_committed_subdags
<1>4. PendingIsTheRest'
  <2>1. <<s>> \in Seq(Subdags)
    BY <1>2
  <2> QED BY <1>1, <2>1, RestAfterAdd DEF EngineInv, QueueInv
<1>5. IsFiniteSet(DOMAIN commited_queue')
  BY <1>2, FS_AddElement DEF EngineInv, QueueInv
<1>6. QueueInv'
  <2>1. ASSUME NEW r \in DOMAIN commited_queue'
        PROVE  r \in 1..Len(commits) /\ commited_queue'[r] = commits[r]
    BY <1>2 DEF EngineInv, QueueInv, s
  <2> QED BY <1>1, <1>2, <1>3, <1>4, <1>5, <2>1 DEF EngineInv, QueueInv, loopVars
<1>7. HasBatch(next_committed_index, commited_queue) =>
          HasBatch(next_committed_index, commited_queue)'
  BY <1>2, <1>3 DEF HasBatch, BatchRounds
<1> QED BY <1>1, <1>3, <1>6, <1>7, LoopUntouched DEF EngineInv

LEMMA ReplayKeeps ==
    ASSUME EngineInv, ReplayCommits \/ UNCHANGED vars
    PROVE  EngineInv'
<1>1. /\ UNCHANGED <<commits, poolVars, loopVars, chainVars, jobVars, built_payloads,
                     notifications>>
      /\ submitted' \in {submitted, 0}
  BY DEF ReplayCommits, vars, feedVars
<1>2. PendingIsTheRest'
  BY <1>1, RestUntouched DEF EngineInv, QueueInv
<1>3. QueueInv'
  BY <1>1, <1>2 DEF EngineInv, QueueInv, poolVars, loopVars
<1>4. HasBatch(next_committed_index, commited_queue)' <=>
          HasBatch(next_committed_index, commited_queue)
  BY <1>1 DEF HasBatch, BatchRounds, poolVars
<1> QED BY <1>1, <1>3, <1>4, LoopUntouched DEF EngineInv, poolVars

\* A build makes the next payload, of the batch it was asked for.
LEMMA BuildKeeps ==
    ASSUME EngineInv, try_build
    PROVE  EngineInv'
<1>1. PICK i \in DOMAIN building :
         /\ building' = RemoveAt(building, i)
         /\ built_payloads' = Append(built_payloads,
                [hash |-> Append(building[i].parent,
                             [from |-> IF ProposalHasEnough(commited_queue)
                                       THEN next_committed_index ELSE 0,
                              last |-> building[i].last]),
                 proposal |-> NextProposal,
                 transactions |-> Executed(blocks[building[i].parent].nonces, NextProposal),
                 nonces |-> Advance(blocks[building[i].parent].nonces,
                                Executed(blocks[building[i].parent].nonces, NextProposal))])
         /\ UNCHANGED <<jobs, poolVars, loopVars, feedVars, chainVars, notifications>>
  BY DEF try_build
<1>2. Idle /\ building = <<NextJob>> /\ built_payloads = << >> /\ notifications = << >>
      /\ K > 0 /\ HasBatch(next_committed_index, commited_queue) /\ NextJob \in jobs
  <2>1. building # << >>
    BY <1>1
  <2> QED BY <2>1, Zenon DEF EngineInv, Idle, Executing, Stuck, NothingUnderWay
<1>3. building[i] = NextJob /\ building' = << >>
  <2>1. i = 1
    BY <1>2
  <2>2. RemoveAt(<<NextJob>>, 1) = << >>
    BY DEF RemoveAt
  <2> QED BY <1>1, <1>2, <2>1, <2>2
<1>4. NextProposal = NextTransactions /\ ProposalHasEnough(commited_queue)
  BY <1>2, BatchOfLog DEF EngineInv, NextProposal, NextTransactions, get_proposal_transactions
<1>5. next_committed_index = 1 + K * Height
  BY <1>2 DEF EngineInv, QueueInv, Idle
<1>6. built_payloads' = <<NextPayload>>
  <2>1. building[i].parent = head /\ building[i].last = K * (Height + 1)
    BY <1>3 DEF NextJob
  <2>2. [from |-> IF ProposalHasEnough(commited_queue) THEN next_committed_index ELSE 0,
         last |-> building[i].last]
            = [from |-> 1 + K * Height, last |-> K * (Height + 1)]
    BY <1>4, <1>5, <2>1
  <2>3. Append(building[i].parent,
               [from |-> IF ProposalHasEnough(commited_queue) THEN next_committed_index ELSE 0,
                last |-> building[i].last]) = NextHash
    BY <2>1, <2>2 DEF NextHash
  <2>4. PICK p : p =
           [hash |-> NextHash, proposal |-> NextTransactions,
            transactions |-> Executed(blocks[head].nonces, NextTransactions),
            nonces |-> Advance(blocks[head].nonces,
                               Executed(blocks[head].nonces, NextTransactions))]
    OBVIOUS
  <2>5. built_payloads' = Append(built_payloads, p)
    BY <1>1, <1>4, <2>1, <2>3, <2>4
  <2>6. Append(<< >>, p) = <<p>>
    OBVIOUS
  <2> QED BY <1>2, <2>4, <2>5, <2>6 DEF NextPayload
<1>7. /\ Height' = Height /\ NextJob' = NextJob /\ NextPayload' = NextPayload
      /\ HasBatch(next_committed_index, commited_queue)'
      /\ LastBuiltHash' = LastBuiltHash
  BY <1>1, <1>2 DEF Height, NextJob, NextPayload, NextHash, NextTransactions, Batch, HasBatch,
     BatchRounds, LastBuiltHash, poolVars, loopVars, feedVars, chainVars
<1>8. Idle'
  BY <1>1, <1>2, <1>3, <1>6, <1>7 DEF Idle, loopVars, chainVars, feedVars
<1>9. PendingIsTheRest'
  BY <1>1, RestUntouched DEF EngineInv, QueueInv
<1>10. QueueInv'
  BY <1>1, <1>9 DEF EngineInv, QueueInv, poolVars, loopVars, feedVars
<1>11. ChainInv' /\ MinedIsCanonical'
  BY <1>1 DEF EngineInv, ChainInv, MinedIsCanonical, EveryBatchInOneBlock, Height, poolVars,
     loopVars, feedVars, chainVars
<1> QED BY <1>1, <1>8, <1>10, <1>11 DEF EngineInv, loopVars

\* What the engine knows once it was given the next payload.
KnownBlocks == WithBlock(NextPayload)

\* The chain below the head is the same in it, and no parent is missing.
LEMMA KnownBelow ==
    ASSUME ChainInv, NEW known \in {blocks, KnownBlocks}
    PROVE  /\ \A n \in 0..Height : /\ SubSeq(head, 1, n) \in DOMAIN known
                                   /\ known[SubSeq(head, 1, n)] = blocks[SubSeq(head, 1, n)]
           /\ \A hash \in DOMAIN known \ {Genesis} : Parent(hash) \in DOMAIN known
           /\ known = KnownBlocks =>
                 /\ NextHash \in DOMAIN known
                 /\ known[NextHash].proposal = NextPayload.proposal
                 /\ known[NextHash].transactions = NextPayload.transactions
                 /\ known[NextHash].nonces = NextPayload.nonces
<1>1. CASE known = blocks /\ known # KnownBlocks
  BY <1>1 DEF ChainInv
<1>2. CASE known = KnownBlocks
  <2>1. PICK block : block = [proposal |-> NextPayload.proposal,
                              transactions |-> NextPayload.transactions,
                              nonces |-> NextPayload.nonces]
    OBVIOUS
  <2>2. /\ DOMAIN known = {NextHash} \cup DOMAIN blocks
        /\ known[NextHash] = block
        /\ \A hash \in DOMAIN blocks : hash # NextHash => known[hash] = blocks[hash]
    BY <1>2, <2>1 DEF KnownBlocks, WithBlock, NextPayload
  <2>3. \A n \in 0..Height : SubSeq(head, 1, n) \in DOMAIN blocks /\ SubSeq(head, 1, n) # NextHash
    BY NextHashIs DEF ChainInv
  <2>4. ASSUME NEW hash \in DOMAIN known, hash # Genesis
        PROVE  Parent(hash) \in DOMAIN known
    <3>1. CASE hash = NextHash
      BY <2>2, <3>1, NextHashIs
    <3>2. CASE hash # NextHash
      BY <2>2, <2>4, <3>2 DEF ChainInv
    <3> QED BY <3>1, <3>2
  <2>5. /\ known[NextHash].proposal = NextPayload.proposal
        /\ known[NextHash].transactions = NextPayload.transactions
        /\ known[NextHash].nonces = NextPayload.nonces
    BY <2>1, <2>2
  <2> QED BY <2>2, <2>3, <2>4, <2>5
<1> QED BY <1>1, <1>2

\* A payload that was built is executed at once, on top of the head.
LEMMA PayloadReceived ==
    ASSUME EngineInv, ReceiveBuiltPayload
    PROVE  /\ canonical_block_number = Height
           /\ K > 0 /\ HasBatch(next_committed_index, commited_queue)
           /\ building = << >> /\ built_payloads' = << >> /\ payload_buffer' = << >>
           /\ last_built_payload' = NextPayload /\ last_processing_payload' = NextPayload
           /\ UNCHANGED <<canonical_block_number, poolVars, feedVars, jobVars>>
           /\ \/ /\ head' = NextHash /\ notifications' = <<Height + 1>>
                 /\ blocks' = KnownBlocks /\ failures' = failures
              \/ /\ head' = head /\ notifications' = << >>
                 /\ blocks' \in {blocks, KnownBlocks} /\ failures' = failures + 1
<1>1. /\ Idle /\ building = << >> /\ built_payloads = <<NextPayload>> /\ notifications = << >>
      /\ K > 0 /\ HasBatch(next_committed_index, commited_queue)
  <2>1. built_payloads # << >>
    BY DEF ReceiveBuiltPayload
  <2> QED BY <2>1, Zenon DEF EngineInv, Idle, Executing, Stuck, NothingUnderWay
<1>2. last_processing_payload = None /\ canonical_block_number = Height
  BY <1>1 DEF Idle
<1>3. PICK p : p = NextPayload
  OBVIOUS
<1>4. Append(MakeRoom(payload_buffer), p) = <<p>>
  <2>1. MakeRoom(payload_buffer) = << >>
    BY EngineConstants DEF MakeRoom, EngineInv
  <2> QED BY <2>1
<1>5. Head(built_payloads) = p /\ Tail(built_payloads) = << >>
  BY <1>1, <1>3
<1>6. Head(<<p>>) = p /\ Tail(<<p>>) = << >>
  OBVIOUS
<1>7. /\ built_payloads' = << >> /\ payload_buffer' = << >>
      /\ last_built_payload' = p /\ last_processing_payload' = p
      /\ execute_payload(p, << >>)
      /\ UNCHANGED <<canonical_block_number, poolVars, feedVars, jobVars>>
  BY <1>1, <1>2, <1>4, <1>5, <1>6 DEF ReceiveBuiltPayload
<1>8. p.hash = NextHash
  BY <1>3 DEF NextPayload
<1>9. Parent(p.hash) = head /\ head \in DOMAIN blocks /\ ~IsPrefix(p.hash, head)
      /\ Number(p.hash) = Height + 1
  BY <1>8, NextHashIs DEF EngineInv, Number
<1>10. WithBlock(p) = KnownBlocks
  BY <1>3 DEF KnownBlocks
<1>11. \/ /\ blocks' = KnownBlocks /\ failures' = failures
          /\ ForkChoice(p.hash, << >>)
       \/ /\ blocks' \in {blocks, KnownBlocks} /\ failures' = failures + 1
          /\ notifications' = << >> /\ head' = head
  BY <1>7, <1>9, <1>10 DEF execute_payload
<1>12. ForkChoice(p.hash, << >>) => head' = NextHash /\ notifications' = <<Height + 1>>
  BY <1>8, <1>9 DEF ForkChoice
<1> QED BY <1>1, <1>2, <1>3, <1>7, <1>11, <1>12

\* The next block, once it is the head.
LEMMA NextBlockInPlace ==
    ASSUME EngineInv, ReceiveBuiltPayload, head' = NextHash
    PROVE  /\ Height' = Height + 1
           /\ blocks'[head'].proposal = NextTransactions
           /\ blocks'[head'].transactions = NextPayload.transactions
           /\ blocks'[head'].nonces = NextPayload.nonces
           /\ \A n \in 1..Height : /\ SubSeq(head, 1, n) \in DOMAIN blocks'
                                   /\ SubSeq(head', 1, n) = SubSeq(head, 1, n)
                                   /\ blocks'[SubSeq(head', 1, n)] = blocks[SubSeq(head, 1, n)]
           /\ ChainInv'
<1>0. ChainInv /\ QueueInv /\ HasBatch(next_committed_index, commited_queue) /\ K > 0
  BY PayloadReceived DEF EngineInv
<1>1. /\ K \in Nat /\ Height \in Nat /\ Height' = Height + 1
      /\ blocks' = KnownBlocks /\ commits' = commits
  <2>1. NextHash # head
    BY <1>0, NextHashIs DEF Height
  <2>2. Len(NextHash) = Height + 1 /\ K \in Nat /\ Height \in Nat
    BY <1>0, NextHashIs
  <2> QED BY <2>1, <2>2, PayloadReceived DEF feedVars, Height
<1>2. /\ NextHash \in DOMAIN blocks'
      /\ blocks'[NextHash].proposal = NextPayload.proposal
      /\ blocks'[NextHash].transactions = NextPayload.transactions
      /\ blocks'[NextHash].nonces = NextPayload.nonces
      /\ \A n \in 0..Height : /\ SubSeq(head, 1, n) \in DOMAIN blocks'
                              /\ blocks'[SubSeq(head, 1, n)] = blocks[SubSeq(head, 1, n)]
      /\ \A hash \in DOMAIN blocks' \ {Genesis} : Parent(hash) \in DOMAIN blocks'
  BY <1>0, <1>1, KnownBelow
<1>3. /\ NextHash \in Seq(Steps) /\ Len(NextHash) = Height + 1
      /\ NextHash[Height + 1] = [from |-> 1 + K * Height, last |-> K * (Height + 1)]
      /\ \A n \in 1..Height : NextHash[n] = head[n]
      /\ SubSeq(NextHash, 1, Height + 1) = NextHash
      /\ \A n \in 0..Height : SubSeq(NextHash, 1, n) = SubSeq(head, 1, n)
  BY <1>0, NextHashIs
<1>4. \A n \in 0..(Height + 1) : SubSeq(head', 1, n) \in DOMAIN blocks'
  <2> SUFFICES ASSUME NEW n \in 0..(Height + 1) PROVE SubSeq(NextHash, 1, n) \in DOMAIN blocks'
    OBVIOUS
  <2>1. n \in 0..Height \/ n = Height + 1
    BY <1>1
  <2> QED BY <1>2, <1>3, <2>1
<1>5. EveryBatchInOneBlock'
  <2> SUFFICES ASSUME NEW n \in 1..(Height + 1)
               PROVE  NextHash[n] = [from |-> 1 + K * (n - 1), last |-> K * n]
    BY <1>3, LenProperties DEF EveryBatchInOneBlock
  <2>1. CASE n \in 1..Height
    BY <1>0, <1>1, <1>3, <2>1, LenProperties DEF ChainInv, EveryBatchInOneBlock, Height
  <2>2. CASE n = Height + 1
    <3>1. n - 1 = Height
      BY <1>1, <2>2
    <3> QED BY <1>3, <2>2, <3>1
  <2> QED BY <1>1, <2>1, <2>2
<1>6. K * Height' <= Len(commits')
  <2>1. next_committed_index = 1 + K * Height
    BY <1>0, PayloadReceived DEF QueueInv
  <2>2. next_committed_index + K - 1 \in 1..Len(commits)
    BY <1>0, BatchOfLog
  <2>3. 1 + K * Height + K - 1 = K * (Height + 1)
    BY <1>1
  <2>4. K * (Height + 1) \in 1..Len(commits)
    BY <2>1, <2>2, <2>3
  <2> QED BY <1>1, <2>4
<1>7. blocks'[head'].nonces \in [Senders(commits') -> Nat]
  BY <1>0, <1>1, <1>2, NextPayloadIs
<1>8. ChainInv'
  BY <1>0, <1>1, <1>2, <1>3, <1>4, <1>5, <1>6, <1>7 DEF ChainInv, Steps
<1>9. \A n \in 1..Height : /\ SubSeq(head, 1, n) \in DOMAIN blocks'
                            /\ SubSeq(head', 1, n) = SubSeq(head, 1, n)
                            /\ blocks'[SubSeq(head', 1, n)] = blocks[SubSeq(head, 1, n)]
  <2> SUFFICES ASSUME NEW n \in 1..Height
               PROVE  /\ SubSeq(head, 1, n) \in DOMAIN blocks'
                      /\ SubSeq(NextHash, 1, n) = SubSeq(head, 1, n)
                      /\ blocks'[SubSeq(head, 1, n)] = blocks[SubSeq(head, 1, n)]
    BY <1>3
  <2>1. n \in 0..Height
    BY <1>1
  <2> QED BY <1>2, <1>3, <2>1
<1>10. NextPayload.proposal = NextTransactions
  BY DEF NextPayload
<1> QED BY <1>1, <1>2, <1>8, <1>9, <1>10

LEMMA ReceiveKeeps ==
    ASSUME EngineInv, ReceiveBuiltPayload
    PROVE  EngineInv'
<1> USE DEF poolVars, feedVars, jobVars
<1>0. ChainInv /\ QueueInv /\ MinedIsCanonical /\ Height \in Nat /\ NextHash # Genesis
  BY NextHashIs DEF EngineInv
<1>1. /\ canonical_block_number = Height
      /\ HasBatch(next_committed_index, commited_queue)
      /\ building' = << >> /\ built_payloads' = << >> /\ payload_buffer' = << >>
      /\ last_built_payload' = NextPayload /\ last_processing_payload' = NextPayload
      /\ UNCHANGED <<canonical_block_number, next_committed_index, pending_transactions,
                     commited_queue, mined, drained, first_committed_subdag,
                     commits, submitted>>
  BY PayloadReceived
<1>2. NextPayload # None /\ NextPayload.hash = NextHash
  BY <1>0, <1>1, NextPayloadIs DEF NextPayload
<1>3. QueueInv'
  <2>1. PendingIsTheRest'
    BY <1>0, <1>1, RestUntouched DEF QueueInv
  <2> QED BY <1>0, <1>1, <2>1 DEF QueueInv
<1>4. HasBatch(next_committed_index, commited_queue)' /\ NextTransactions' = NextTransactions
  BY <1>1 DEF HasBatch, BatchRounds, NextTransactions, Batch
<1>5. CASE head' = NextHash
  <2>1. /\ Height' = Height + 1 /\ ChainInv'
        /\ blocks'[head'].proposal = NextTransactions
        /\ blocks'[head'].transactions = NextPayload.transactions
        /\ \A n \in 1..Height : blocks'[SubSeq(head', 1, n)] = blocks[SubSeq(head, 1, n)]
    BY <1>5, NextBlockInPlace
  <2>2. notifications' = <<Height + 1>>
    <3>1. NextHash # head
      BY <1>0, NextHashIs DEF Height
    <3> QED BY <1>5, <3>1, PayloadReceived
  <2>3. Executing'
    BY <1>0, <1>1, <1>2, <1>4, <1>5, <2>1, <2>2 DEF Executing, Genesis
  <2>4. MinedIsCanonical'
    BY <1>0, <1>1, <2>1 DEF MinedIsCanonical
  <2> QED BY <1>1, <1>3, <2>1, <2>3, <2>4 DEF EngineInv
<1>6. CASE head' # NextHash
  <2>1. head' = head /\ notifications' = << >> /\ blocks' \in {blocks, KnownBlocks}
    BY <1>6, PayloadReceived
  <2>2. /\ \A n \in 0..Height : /\ SubSeq(head, 1, n) \in DOMAIN blocks'
                                /\ blocks'[SubSeq(head, 1, n)] = blocks[SubSeq(head, 1, n)]
        /\ \A hash \in DOMAIN blocks' \ {Genesis} : Parent(hash) \in DOMAIN blocks'
    BY <1>0, <2>1, KnownBelow
  <2>3. Height' = Height /\ NextHash' = NextHash
    BY <2>1 DEF Height, NextHash
  <2>4. blocks'[head'].nonces = blocks[head].nonces
    <3>1. SubSeq(head, 1, Height) = head /\ Height \in 0..Height
      BY <1>0, NextHashIs
    <3> QED BY <2>1, <2>2, <3>1
  <2>5. ChainInv'
    BY <1>0, <1>1, <2>1, <2>2, <2>3, <2>4 DEF ChainInv, EveryBatchInOneBlock
  <2>6. MinedIsCanonical'
    <3>1. \A n \in 1..Height : blocks'[SubSeq(head', 1, n)] = blocks[SubSeq(head, 1, n)]
      BY <2>1, <2>2
    <3> QED BY <1>0, <1>1, <3>1 DEF MinedIsCanonical
  <2>7. Stuck'
    BY <1>1, <1>2, <2>1, <2>3 DEF Stuck, NothingUnderWay
  <2> QED BY <1>1, <1>3, <2>5, <2>6, <2>7 DEF EngineInv
<1> QED BY <1>5, <1>6

\* The loop hears of its payload, and settles the batch it was made of.
LEMMA PayloadSettled ==
    ASSUME EngineInv, CanonicalStateUpdated
    PROVE  /\ Executing
           /\ canonical_block_number' = Height
           /\ update_mined_block(blocks[head].transactions)
           /\ last_processing_payload' = None /\ payload_buffer' = << >>
           /\ notifications' = << >>
           /\ UNCHANGED <<last_built_payload, feedVars, chainVars, jobVars, built_payloads>>
<1>1. Executing
  <2>1. notifications # << >>
    BY DEF CanonicalStateUpdated
  <2> QED BY <2>1, Zenon DEF EngineInv, Idle, Stuck, NothingUnderWay
<1>2. /\ notifications = <<Height>> /\ last_processing_payload # None
      /\ last_processing_payload = last_built_payload
      /\ last_built_payload.hash = head
      /\ last_built_payload.transactions = blocks[head].transactions
  BY <1>1 DEF Executing
<1>3. Head(<<Height>>) = Height /\ Tail(<<Height>>) = << >>
  OBVIOUS
<1>4. PayloadExecuted(Height)
  BY <1>2 DEF PayloadExecuted, Number, Height
<1>5. payload_buffer = << >>
  BY DEF EngineInv
<1> QED BY <1>1, <1>2, <1>3, <1>4, <1>5
        DEF CanonicalStateUpdated, ExecuteNextPayload, TxHashes

LEMMA SettleKeeps ==
    ASSUME EngineInv, CanonicalStateUpdated
    PROVE  EngineInv'
<1> USE DEF chainVars, feedVars, jobVars
<1>0. ChainInv /\ QueueInv /\ MinedIsCanonical /\ Height \in Nat \ {0} /\ K \in Nat
  BY PayloadSettled, NextHashIs, EmptySeq DEF EngineInv, Executing, Genesis, Height, ChainInv
<1>1. /\ canonical_block_number = Height - 1 /\ canonical_block_number' = Height
      /\ update_mined_block(blocks[head].transactions)
      /\ last_built_payload # None /\ last_built_payload.hash = head
      /\ last_processing_payload' = None /\ payload_buffer' = << >>
      /\ building = << >> /\ built_payloads = << >> /\ notifications' = << >>
      /\ UNCHANGED <<last_built_payload, commits, submitted, blocks, head, building,
                     built_payloads>>
  BY PayloadSettled DEF Executing
<1>2. QueueInv'
  <2>1. /\ PendingIsTheRest'
        /\ \A r \in DOMAIN commited_queue' :
              r \in DOMAIN commited_queue /\ commited_queue'[r] = commited_queue[r]
    BY <1>0, <1>1, RestAfterMine DEF QueueInv
  <2>2. IsFiniteSet(DOMAIN commited_queue')
    BY <1>0, <2>1, FS_Subset DEF QueueInv
  <2>3. next_committed_index' = next_committed_index + K
    BY <1>1 DEF update_mined_block
  <2>4. next_committed_index' = 1 + K * Height
    <3>1. next_committed_index = 1 + K * (Height - 1)
      BY <1>0, <1>1 DEF QueueInv
    <3> QED BY <1>0, <2>3, <3>1
  <2> QED BY <1>0, <1>1, <2>1, <2>2, <2>4 DEF QueueInv
<1>3. ChainInv' /\ Height' = Height
  BY <1>0, <1>1 DEF ChainInv, EveryBatchInOneBlock, Height
<1>4. MinedIsCanonical'
  <2>1. mined' = mined \cup blocks[head].transactions
    BY <1>1 DEF update_mined_block
  <2>2. SubSeq(head, 1, Height) = head
    BY <1>0, NextHashIs
  <2>3. 1..Height = 1..(Height - 1) \cup {Height}
    BY <1>0
  <2>4. mined = UNION {blocks[SubSeq(head, 1, n)].transactions : n \in 1..(Height - 1)}
    BY <1>0, <1>1 DEF MinedIsCanonical
  <2>5. mined' = UNION {blocks[SubSeq(head, 1, n)].transactions : n \in 1..Height}
    BY <2>1, <2>2, <2>3, <2>4
  <2> QED BY <1>1, <2>5 DEF MinedIsCanonical
<1>5. Idle'
  BY <1>1, <1>3 DEF Idle, NothingUnderWay, LastBuiltHash
<1> QED BY <1>1, <1>2, <1>3, <1>4, <1>5 DEF EngineInv

\* A tick starts the build of the next payload, or nothing.
LEMMA TickStarts ==
    ASSUME EngineInv, Tick
    PROVE  /\ Idle /\ K > 0 /\ HasBatch(next_committed_index, commited_queue)
           /\ UNCHANGED <<poolVars, loopVars, feedVars, chainVars, built_payloads,
                          notifications>>
           /\ \/ UNCHANGED jobVars
              \/ /\ NextJob \notin jobs /\ jobs' = jobs \cup {NextJob}
                 /\ building' = Append(building, NextJob)
<1>1. /\ LastPayloadCanonical
      /\ next_committed_subdag_batch(next_committed_index, commited_queue) # None
      /\ ForkChoice(LastBuiltHash, notifications)
      /\ UNCHANGED <<poolVars, loopVars, feedVars, blocks, failures, strict, built_payloads>>
  BY DEF Tick
<1>2. /\ K > 0 /\ HasBatch(next_committed_index, commited_queue)
      /\ next_committed_subdag_batch(next_committed_index, commited_queue) =
            <<commited_queue[next_committed_index],
              commited_queue[next_committed_index + K - 1]>>
  BY <1>1 DEF next_committed_subdag_batch
<1>3. ChainInv /\ QueueInv /\ Height \in Nat /\ K \in Nat /\ Len(NextHash) = Height + 1
  BY NextHashIs DEF EngineInv
<1>4. Idle
  <2>1. ~Executing
    <3>1. Executing => Number(last_built_payload.hash) = Height
      BY DEF Executing, Number, Height
    <3> QED BY <1>1, <1>3, <3>1 DEF LastPayloadCanonical, Executing
  <2>2. ~Stuck
    <3>1. Stuck => Number(last_built_payload.hash) = Height + 1
      BY <1>3 DEF Stuck, Number
    <3> QED BY <1>1, <1>3, <3>1 DEF LastPayloadCanonical, Stuck
  <2> QED BY <2>1, <2>2 DEF EngineInv
<1>5. LastBuiltHash = head /\ canonical_block_number = Height
  BY <1>4 DEF Idle
<1>6. UNCHANGED <<head, notifications>>
  BY <1>1, <1>3, <1>5, NextHashIs DEF ForkChoice
<1>7. commited_queue[next_committed_index + K - 1].round = K * (Height + 1)
  <2>1. next_committed_index = 1 + K * Height
    BY <1>3, <1>5 DEF QueueInv
  <2>2. commited_queue[next_committed_index + K - 1].round = next_committed_index + K - 1
    BY <1>2, <1>3, BatchOfLog
  <2> QED BY <1>3, <2>1, <2>2
<1>8. [parent |-> LastBuiltHash,
       last |-> next_committed_subdag_batch(next_committed_index, commited_queue)[2].round]
          = NextJob
  BY <1>2, <1>5, <1>7 DEF NextJob
<1>9. \/ UNCHANGED jobVars
      \/ /\ NextJob \notin jobs /\ jobs' = jobs \cup {NextJob}
         /\ building' = Append(building, NextJob)
  BY <1>8, Zenon DEF Tick, jobVars
<1> QED BY <1>1, <1>2, <1>4, <1>6, <1>9 DEF chainVars

LEMMA TickKeeps ==
    ASSUME EngineInv, Tick
    PROVE  EngineInv'
<1> USE DEF poolVars, loopVars, feedVars, chainVars, jobVars
<1>1. /\ Idle /\ K > 0 /\ HasBatch(next_committed_index, commited_queue)
      /\ UNCHANGED <<poolVars, loopVars, feedVars, chainVars, built_payloads, notifications>>
  BY TickStarts
<1>2. HasBatch(next_committed_index, commited_queue)' <=>
          HasBatch(next_committed_index, commited_queue)
  BY <1>1 DEF HasBatch, BatchRounds
<1>3. CASE UNCHANGED jobVars
  <2>1. UNCHANGED vars
    BY <1>1, <1>3 DEF vars
  <2> QED BY <2>1, ReplayKeeps
<1>4. CASE /\ NextJob \notin jobs /\ jobs' = jobs \cup {NextJob}
           /\ building' = Append(building, NextJob)
  <2>1. NothingUnderWay
    BY <1>1, <1>4 DEF Idle
  <2>2. building' = <<NextJob>> /\ built_payloads' = << >> /\ notifications' = << >>
    BY <1>1, <1>4, <2>1 DEF NothingUnderWay
  <2>3. Height' = Height /\ NextJob' = NextJob /\ LastBuiltHash' = LastBuiltHash
    BY <1>1 DEF Height, NextJob, LastBuiltHash
  <2>4. Idle'
    BY <1>1, <1>2, <1>4, <2>2, <2>3 DEF Idle
  <2>5. PendingIsTheRest'
    BY <1>1, RestUntouched DEF EngineInv, QueueInv
  <2>6. QueueInv'
    BY <1>1, <2>5 DEF EngineInv, QueueInv
  <2>7. ChainInv' /\ MinedIsCanonical'
    BY <1>1 DEF EngineInv, ChainInv, MinedIsCanonical, EveryBatchInOneBlock, Height
  <2> QED BY <1>1, <2>4, <2>6, <2>7 DEF EngineInv
<1> QED BY <1>3, <1>4, TickStarts

LEMMA EngineStart ==
    ASSUME Init
    PROVE  EngineInv
<1>1. /\ head = Genesis /\ Genesis = << >> /\ Height = 0
      /\ canonical_block_number = 0 /\ next_committed_index = 1 /\ mined = {}
      /\ DOMAIN commited_queue = {} /\ payload_buffer = << >>
      /\ last_processing_payload = None /\ last_built_payload = None
      /\ commits \in CommitLogs /\ submitted = 0
  BY EmptySeq DEF Init, PoolInit, Genesis, Height
<1>2. K \in Nat
  BY BatchSizeIsNat DEF K
<1>3. QueueInv
  <2>1. PendingIsTheRest
    BY RestAtFirst DEF Init
  <2>2. IsFiniteSet(DOMAIN commited_queue)
    BY <1>1, FS_EmptySet
  <2> QED BY <1>1, <1>2, <2>1, <2>2 DEF QueueInv
<1>4. /\ DOMAIN blocks = {Genesis}
      /\ blocks[Genesis].nonces = [s \in Senders(commits) |-> 0]
  BY DEF Init
<1>5. ChainInv
  <2>1. \A n \in 0..Height : SubSeq(head, 1, n) = Genesis
    BY <1>1
  <2>2. EveryBatchInOneBlock
    BY <1>1 DEF EveryBatchInOneBlock
  <2>3. blocks[head].nonces \in [Senders(commits) -> Nat]
    BY <1>1, <1>4
  <2>4. head \in Seq([from : Nat, last : Nat])
    BY <1>1
  <2> QED BY <1>1, <1>4, <2>1, <2>2, <2>3, <2>4 DEF ChainInv
<1>6. MinedIsCanonical
  BY <1>1 DEF MinedIsCanonical
<1>7. Idle
  BY <1>1 DEF Init, Idle, NothingUnderWay, LastBuiltHash
<1> QED BY <1>1, <1>3, <1>5, <1>6, <1>7 DEF EngineInv

LEMMA EngineStep == EngineInv /\ [Next]_vars => EngineInv'
BY SubmitKeeps, ReplayKeeps, ReceiveKeeps, SettleKeeps, TickKeeps, BuildKeeps DEF Next, Loop

LEMMA WhatTheLoopReliesOn == EngineInv => LoopKeepsStep
<1> SUFFICES ASSUME EngineInv PROVE LoopKeepsStep
  OBVIOUS
<1>1. Height \in Nat /\ head \in DOMAIN blocks
  BY NextHashIs DEF EngineInv
<1>2. Height - 1 \in Nat \/ head = Genesis
  BY <1>1, EmptySeq DEF EngineInv, ChainInv, Height, Genesis
<1>3. EngineTypeOK
  <2>1. canonical_block_number \in Nat
    BY <1>1, <1>2 DEF EngineInv, Idle, Executing, Stuck
  <2>2. Len(payload_buffer) <= MAX_PAYLOAD_BUFFER_SIZE
    BY EngineConstants DEF EngineInv
  <2> QED BY <1>1, <2>1, <2>2 DEF EngineTypeOK, EngineInv, QueueInv, ChainInv, PendingIsTheRest
<1>4. BatchIsThere
  BY DEF EngineInv, BatchIsThere, Idle, Executing, Stuck, NothingUnderWay
<1>5. NothingBuffered
  BY DEF EngineInv, NothingBuffered, Idle, Executing, Stuck, NothingUnderWay
<1> QED BY <1>3, <1>4, <1>5 DEF LoopKeepsStep, EngineInv, ChainInv

\* Whatever the order of ticks, payloads and notifications, and whatever engine
\* call fails: every batch is in one block, in order, both asserts find their
\* batch, what the pool was told is mined is the canonical chain's, and no
\* payload is ever buffered, so none is dropped (start_with_engine_handle).
THEOREM LoopNeverSlips == Spec => []LoopKeepsStep
BY EngineStart, EngineStep, WhatTheLoopReliesOn, PTL DEF Spec

-----------------------------------------------------------------------------
(* The canonical chain is the abstract ledger's.                           *)

\* The n-th block of a chain was made of the n-th batch.
LEMMA LastCommit ==
    ASSUME NEW h \in Seq(Steps),
           \A n \in DOMAIN h : h[n] = [from |-> 1 + K * (n - 1), last |-> K * n]
    PROVE  \A n \in 1..Len(h) :
               SubSeq(h, 1, n) # Genesis /\ Last(SubSeq(h, 1, n)).last = n * K
<1> SUFFICES ASSUME NEW n \in 1..Len(h)
             PROVE  SubSeq(h, 1, n) # Genesis /\ Last(SubSeq(h, 1, n)).last = n * K
  OBVIOUS
<1>1. K \in Nat /\ Len(h) \in Nat /\ DOMAIN h = 1..Len(h)
  BY BatchSizeIsNat, LenProperties DEF K
<1>2. PICK path : path = SubSeq(h, 1, n)
  OBVIOUS
<1>3. Len(path) = n /\ path[n] = h[n]
  BY <1>1, <1>2
<1>4. path # Genesis
  BY <1>1, <1>3 DEF Genesis
<1>5. Last(path).last = n * K
  BY <1>1, <1>3 DEF Last
<1> QED BY <1>2, <1>4, <1>5

LEMMA LedgerBlocksAre ==
    ASSUME ChainInv
    PROVE  LedgerBlocks =
               [n \in 1..Height |-> [transactions |-> blocks[SubSeq(head, 1, n)].proposal,
                                     timestamp |-> commits[n * K].timestamp_ms \div 1000]]
<1>1. DOMAIN head = 1..Height /\ head \in Seq(Steps)
  BY LenProperties DEF ChainInv, Height, Steps
<1>2. ASSUME NEW n \in 1..Height
      PROVE  Timestamp(SubSeq(head, 1, n)) = commits[n * K].timestamp_ms \div 1000
  <2>1. \A i \in DOMAIN head : head[i] = [from |-> 1 + K * (i - 1), last |-> K * i]
    BY DEF ChainInv, EveryBatchInOneBlock
  <2>2. SubSeq(head, 1, n) # Genesis /\ Last(SubSeq(head, 1, n)).last = n * K
    BY <1>1, <1>2, <2>1, LastCommit DEF Height
  <2> QED BY <2>2 DEF Timestamp
<1>3. LedgerBlocks = [n \in 1..Height |-> [transactions |-> blocks[SubSeq(head, 1, n)].proposal,
                                           timestamp |-> Timestamp(SubSeq(head, 1, n))]]
  BY <1>1 DEF LedgerBlocks
<1> QED BY <1>2, <1>3

\* A step that leaves the chain, the loop's number and the pending list alone.
LEMMA LedgerStutters ==
    ASSUME UNCHANGED <<commits, head, blocks, canonical_block_number, pending_transactions>>
    PROVE  UNCHANGED Ledger!vars
BY DEF Ledger!vars, LedgerBlocks, LedgerPending, Timestamp

\* The ledger's batches are the pool's.
LEMMA LedgerBatch ==
    ASSUME NEW n \in Nat
    PROVE  Ledger!BatchOf(commits, n) = Batch(1 + K * (n - 1), commits)
<1>1. K \in Nat
  BY BatchSizeIsNat DEF K
<1>2. \A i \in 1..K : 1 + K * (n - 1) + i - 1 = (n - 1) * K + i
  BY <1>1
<1>3. Ledger!BatchOf(commits, n) = [i \in 1..K |-> commits[(n - 1) * K + i]]
  BY DEF Ledger!BatchOf
<1> QED BY <1>2, <1>3 DEF Batch

\* A payload that becomes the head is the next block of the ledger.
LEMMA LedgerOrders ==
    ASSUME EngineInv, ReceiveBuiltPayload, head' = NextHash
    PROVE  Ledger!OrderNextBlock
<1>0. /\ ChainInv /\ QueueInv /\ K > 0 /\ K \in Nat /\ Height \in Nat
      /\ HasBatch(next_committed_index, commited_queue)
      /\ canonical_block_number = Height
      /\ UNCHANGED <<commits, canonical_block_number, pending_transactions>>
  BY PayloadReceived, NextHashIs DEF EngineInv, feedVars, poolVars
<1>1. /\ Height' = Height + 1 /\ ChainInv'
      /\ blocks'[head'].proposal = NextTransactions
      /\ blocks'[head'].transactions = NextPayload.transactions
      /\ blocks'[head'].nonces = NextPayload.nonces
      /\ \A n \in 1..Height : /\ SubSeq(head', 1, n) = SubSeq(head, 1, n)
                              /\ blocks'[SubSeq(head', 1, n)] = blocks[SubSeq(head, 1, n)]
      /\ SubSeq(head', 1, Height + 1) = head'
  BY <1>0, NextBlockInPlace, NextHashIs
<1>2. next_committed_index = 1 + K * Height
  BY <1>0 DEF QueueInv
<1>3. Ledger!BatchOf(commits, Height + 1) = Batch(next_committed_index, commits)
  <2>1. PICK n : n = Height + 1
    OBVIOUS
  <2>2. n \in Nat /\ 1 + K * (n - 1) = next_committed_index
    BY <1>0, <1>2, <2>1
  <2>3. Ledger!BatchOf(commits, n) = Batch(next_committed_index, commits)
    BY <2>2, LedgerBatch
  <2> QED BY <2>1, <2>3
<1>4. (Height + 1) * K <= Len(commits)
  <2>1. next_committed_index + K - 1 \in 1..Len(commits)
    BY <1>0, BatchOfLog
  <2>2. next_committed_index + K - 1 = (Height + 1) * K
    BY <1>0, <1>2
  <2>3. Len(commits) \in Nat
    BY <1>0, EngineConstants, LenProperties DEF QueueInv
  <2> QED BY <2>1, <2>2, <2>3
<1>5. LedgerPending = pending_transactions
  BY <1>0 DEF LedgerPending, Height
<1>6. NextTransactions =
         create_proposal_transactions(LedgerPending, Ledger!BatchOf(commits, Height + 1))
  BY <1>3, <1>5 DEF NextTransactions
<1>7. PICK executed : executed = Executed(blocks[head].nonces, NextTransactions)
  OBVIOUS
<1>8. /\ NextPayload.transactions = executed
      /\ NextPayload.nonces = Advance(blocks[head].nonces, executed)
  BY <1>7 DEF NextPayload
<1>9. LedgerPending' = Without(NextTransactions, executed)
  BY <1>0, <1>1, <1>8 DEF LedgerPending, Height
<1>10. PICK block : block = [transactions |-> NextTransactions,
                             timestamp |-> commits[(Height + 1) * K].timestamp_ms \div 1000]
  OBVIOUS
<1>11. PICK ledger : ledger = LedgerBlocks
  OBVIOUS
<1>12. /\ ledger = [n \in 1..Height |-> ledger[n]]
       /\ \A n \in 1..Height : ledger[n] =
             [transactions |-> blocks[SubSeq(head, 1, n)].proposal,
              timestamp |-> commits[n * K].timestamp_ms \div 1000]
  BY <1>0, <1>11, LedgerBlocksAre
<1>13. LedgerBlocks' =
          [n \in 1..Height' |-> [transactions |-> blocks'[SubSeq(head', 1, n)].proposal,
                                 timestamp |-> commits'[n * K].timestamp_ms \div 1000]]
  <2>1. (ChainInv => LedgerBlocks =
            [n \in 1..Height |-> [transactions |-> blocks[SubSeq(head, 1, n)].proposal,
                                  timestamp |-> commits[n * K].timestamp_ms \div 1000]])'
    BY LedgerBlocksAre, PTL
  <2> QED BY <1>1, <2>1
<1>14. Len(ledger) = Height
  BY <1>0, <1>12
<1>15. LedgerBlocks' = Append(ledger, block)
  <2>1. Append(ledger, block) =
           [n \in 1..(Height + 1) |-> IF n = Height + 1 THEN block ELSE ledger[n]]
    BY <1>0, <1>12, <1>14
  <2>2. ASSUME NEW n \in 1..(Height + 1)
        PROVE  LedgerBlocks'[n] = IF n = Height + 1 THEN block ELSE ledger[n]
    <3>1. LedgerBlocks'[n] = [transactions |-> blocks'[SubSeq(head', 1, n)].proposal,
                              timestamp |-> commits[n * K].timestamp_ms \div 1000]
      BY <1>0, <1>1, <1>13
    <3>2. CASE n = Height + 1
      <4>1. blocks'[SubSeq(head', 1, n)].proposal = NextTransactions
        BY <1>1, <3>2, Zenon
      <4>2. commits[n * K].timestamp_ms \div 1000 =
               commits[(Height + 1) * K].timestamp_ms \div 1000
        BY <3>2, Zenon
      <4>3. LedgerBlocks'[n] = block
        BY <1>10, <3>1, <4>1, <4>2
      <4> QED BY <3>2, <4>3, Zenon
    <3>3. CASE n # Height + 1
      <4>1. n \in 1..Height
        BY <1>0, <3>3
      <4> QED BY <1>1, <1>12, <3>1, <3>3, <4>1
    <3> QED BY <3>2, <3>3
  <2>3. LedgerBlocks' = [n \in 1..(Height + 1) |-> LedgerBlocks'[n]]
    BY <1>1, <1>13
  <2> QED BY <2>1, <2>2, <2>3
<1> QED BY <1>0, <1>1, <1>4, <1>6, <1>7, <1>8, <1>9, <1>10, <1>11, <1>14, <1>15
        DEF Ledger!OrderNextBlock

\* A payload the engine does not take changes no block of the ledger.
LEMMA LedgerKeepsOnFailure ==
    ASSUME EngineInv, ReceiveBuiltPayload, head' # NextHash
    PROVE  UNCHANGED Ledger!vars
<1>1. /\ ChainInv /\ Height \in Nat /\ canonical_block_number = Height
      /\ head' = head /\ blocks' \in {blocks, KnownBlocks}
      /\ UNCHANGED <<commits, canonical_block_number, pending_transactions>>
  BY PayloadReceived, NextHashIs DEF EngineInv, feedVars, poolVars
<1>2. \A n \in 0..Height : blocks'[SubSeq(head, 1, n)] = blocks[SubSeq(head, 1, n)]
  BY <1>1, KnownBelow
<1>3. blocks'[head] = blocks[head]
  <2>1. SubSeq(head, 1, Height) = head /\ Height \in 0..Height
    BY <1>1, NextHashIs
  <2>2. blocks'[SubSeq(head, 1, Height)] = blocks[SubSeq(head, 1, Height)]
    BY <1>2, <2>1
  <2> QED BY <2>1, <2>2
<1>4. LedgerBlocks' = LedgerBlocks
  <2>1. DOMAIN head = 1..Height
    BY <1>1, LenProperties DEF ChainInv, Height
  <2>2. \A n \in DOMAIN head : blocks'[SubSeq(head, 1, n)] = blocks[SubSeq(head, 1, n)]
    BY <1>1, <1>2, <2>1
  <2>3. \A n \in DOMAIN head : Timestamp(SubSeq(head, 1, n))' = Timestamp(SubSeq(head, 1, n))
    BY <1>1 DEF Timestamp
  <2>4. LedgerBlocks = [n \in DOMAIN head |->
                           [transactions |-> blocks[SubSeq(head, 1, n)].proposal,
                            timestamp |-> Timestamp(SubSeq(head, 1, n))]]
    BY DEF LedgerBlocks
  <2>5. LedgerBlocks' = [n \in DOMAIN head |->
                           [transactions |-> blocks'[SubSeq(head, 1, n)].proposal,
                            timestamp |-> Timestamp(SubSeq(head, 1, n))]]
    BY <1>1 DEF LedgerBlocks, Timestamp
  <2> QED BY <2>2, <2>4, <2>5
<1>5. LedgerPending' = LedgerPending
  BY <1>1, <1>3 DEF LedgerPending
<1> QED BY <1>1, <1>3, <1>4, <1>5 DEF Ledger!vars

\* The loop's update of the pool leaves pending what the block did not execute.
LEMMA LedgerSettles ==
    ASSUME EngineInv, CanonicalStateUpdated
    PROVE  UNCHANGED Ledger!vars
<1>1. /\ QueueInv /\ ChainInv /\ Executing /\ Height \in Nat
      /\ canonical_block_number = Height - 1 /\ canonical_block_number' = Height
      /\ blocks[head].proposal = NextTransactions
      /\ HasBatch(next_committed_index, commited_queue)
      /\ update_mined_block(blocks[head].transactions)
      /\ UNCHANGED <<commits, head, blocks>>
  BY PayloadSettled, NextHashIs DEF EngineInv, Executing, feedVars, chainVars
<1>2. LedgerPending = Without(NextTransactions, blocks[head].transactions)
  BY <1>1 DEF LedgerPending, Height
<1>3. LedgerPending' = pending_transactions'
  BY <1>1 DEF LedgerPending, Height
<1>4. pending_transactions' = Without(NextTransactions, blocks[head].transactions)
  BY <1>1, BatchOfLog
     DEF update_mined_block, Unmined, NextTransactions
<1>5. LedgerBlocks' = LedgerBlocks
  BY <1>1 DEF LedgerBlocks, Timestamp
<1> QED BY <1>1, <1>2, <1>3, <1>4, <1>5 DEF Ledger!vars

\* Every step of the loop orders the next block of the ledger, or none.
LEMMA LedgerNext ==
    ASSUME EngineInv, [Next]_vars
    PROVE  [Ledger!OrderNextBlock]_(Ledger!vars)
<1>1. CASE SubmitCommittedSubdag
  BY <1>1, LedgerStutters DEF SubmitCommittedSubdag, add_committed_subdags, loopVars, chainVars
<1>2. CASE ReplayCommits
  BY <1>2, LedgerStutters DEF ReplayCommits, poolVars, loopVars, chainVars
<1>3. CASE ReceiveBuiltPayload
  BY <1>3, LedgerOrders, LedgerKeepsOnFailure
<1>4. CASE CanonicalStateUpdated
  BY <1>4, LedgerSettles
<1>5. CASE Tick
  BY <1>5, TickStarts, LedgerStutters DEF poolVars, loopVars, feedVars, chainVars
<1>6. CASE try_build
  BY <1>6, LedgerStutters DEF try_build, poolVars, loopVars, feedVars, chainVars
<1>7. CASE UNCHANGED vars
  BY <1>7, LedgerStutters DEF vars, poolVars, loopVars, feedVars, chainVars
<1> QED BY <1>1, <1>2, <1>3, <1>4, <1>5, <1>6, <1>7 DEF Next, Loop

LEMMA LedgerStart ==
    ASSUME Init
    PROVE  Ledger!Init
<1>1. /\ head = << >> /\ DOMAIN head = {} /\ Len(head) = 0
      /\ canonical_block_number = 0 /\ pending_transactions = << >>
      /\ blocks[head].nonces = [s \in Senders(commits) |-> 0]
      /\ commits \in CommitLogs
  BY EmptySeq DEF Init, PoolInit, Genesis
<1>2. LedgerBlocks = << >>
  BY <1>1 DEF LedgerBlocks
<1>3. LedgerPending = << >>
  BY <1>1 DEF LedgerPending
<1> QED BY <1>1, <1>2, <1>3 DEF Ledger!Init

\* Whatever the order of ticks, builds and notifications, and also when an engine
\* call fails, the canonical chain is the one the log of commits determines: two
\* clients in engine handle mode with the same commits agree block by block.
THEOREM EngineRefinesLedger == Spec => ImplementsLedger
<1>1. Init => Ledger!Init
  BY LedgerStart
<1>2. EngineInv /\ [Next]_vars => [Ledger!OrderNextBlock]_(Ledger!vars)
  BY LedgerNext
<1> QED BY <1>1, <1>2, EngineStart, EngineStep, PTL DEF Spec, ImplementsLedger, Ledger!Spec

LEMMA LedgerWaitsFirst ==
    ASSUME Ledger!Init
    PROVE  LedgerWaits(commits, LedgerBlocks, LedgerPending, blocks[head].nonces)
<1>1. commits \in Seq(Subdags)
  BY EngineConstants DEF Ledger!Init
<1> QED BY <1>1, LedgerWaitsAtFirst DEF Ledger!Init

LEMMA LedgerWaitsNext ==
    ASSUME LedgerWaits(commits, LedgerBlocks, LedgerPending, blocks[head].nonces),
           [Ledger!OrderNextBlock]_(Ledger!vars)
    PROVE  LedgerWaits(commits, LedgerBlocks, LedgerPending, blocks[head].nonces)'
<1>1. CASE UNCHANGED Ledger!vars
  BY <1>1 DEF Ledger!vars
<1>2. CASE Ledger!OrderNextBlock
  <2>1. PICK log, ledger, pending, nonces :
           /\ log = commits /\ ledger = LedgerBlocks
           /\ pending = LedgerPending /\ nonces = blocks[head].nonces
    OBVIOUS
  <2>2. PICK batchOf : batchOf = Ledger!BatchOf(log, Len(ledger) + 1)
    OBVIOUS
  <2>3. PICK proposed : proposed = create_proposal_transactions(pending, batchOf)
    OBVIOUS
  <2>4. PICK executed : executed = Executed(nonces, proposed)
    OBVIOUS
  <2>5. PICK block : LedgerBlocks' = Append(ledger, block)
    BY <1>2, <2>1 DEF Ledger!OrderNextBlock
  <2>6. /\ LedgerPending' = Without(proposed, executed)
        /\ blocks'[head'].nonces = Advance(nonces, executed)
        /\ commits' = log /\ (Len(ledger) + 1) * K <= Len(log)
    BY <1>2, <2>1, <2>2, <2>3, <2>4 DEF Ledger!OrderNextBlock
  <2>7. LedgerWaits(log, ledger, pending, nonces)
    BY <2>1
  <2>8. Len(ledger) \in Nat
    BY <2>7 DEF LedgerWaits
  <2>9. batchOf = [i \in 1..K |-> log[Len(ledger) * K + i]]
    BY <2>2, <2>8 DEF Ledger!BatchOf
  <2>10. LedgerWaits(log, Append(ledger, block),
                     Without(proposed, executed), Advance(nonces, executed))
    BY <2>3, <2>4, <2>6, <2>7, <2>9, LedgerWaitsStep
  <2> QED BY <2>5, <2>6, <2>10
<1> QED BY <1>1, <1>2

\* When the loop has settled the head's payload, what stays pending has not the next
\* nonce of its sender in the head's state; in a log without rivals it lies above.
THEOREM EnginePendingWaits ==
    Spec => [](canonical_block_number = Len(head) =>
                  \A tx \in Range(pending_transactions) :
                     /\ tx.nonce # blocks[head].nonces[tx.sender]
                     /\ Unrivalled(commits) => tx.nonce > blocks[head].nonces[tx.sender])
<1> DEFINE Stands == LedgerWaits(commits, LedgerBlocks, LedgerPending, blocks[head].nonces)
           Waiting == canonical_block_number = Len(head) =>
                         \A tx \in Range(pending_transactions) :
                            /\ tx.nonce # blocks[head].nonces[tx.sender]
                            /\ Unrivalled(commits) => tx.nonce > blocks[head].nonces[tx.sender]
<1>1. Stands => Waiting
  <2> SUFFICES ASSUME Stands, canonical_block_number = Len(head),
                      NEW tx \in Range(pending_transactions)
               PROVE  /\ tx.nonce # blocks[head].nonces[tx.sender]
                      /\ Unrivalled(commits) => tx.nonce > blocks[head].nonces[tx.sender]
    OBVIOUS
  <2>1. LedgerPending = pending_transactions
    BY DEF LedgerPending
  <2>2. PICK m : Waits(commits, m, pending_transactions, blocks[head].nonces)
    BY <2>1 DEF LedgerWaits
  <2>3. /\ tx.nonce # blocks[head].nonces[tx.sender]
        /\ Unrivalled(commits) => tx.nonce >= blocks[head].nonces[tx.sender]
    BY <2>2 DEF Waits
  <2>4. /\ m \in 0..Len(commits) /\ commits \in Seq(Subdags)
        /\ CommittedBy(commits, m, tx) /\ blocks[head].nonces \in [Senders(commits) -> Nat]
    BY <2>2 DEF Waits, LedgerWaits
  <2>5. tx.nonce \in Nat /\ blocks[head].nonces[tx.sender] \in Nat
    BY <2>4, CommittedIsGiven
  <2> QED BY <2>3, <2>5
<1>2. Ledger!Init => Stands
  BY LedgerWaitsFirst
<1>3. Stands /\ [Ledger!OrderNextBlock]_(Ledger!vars) => Stands'
  BY LedgerWaitsNext
<1>4. Spec => Ledger!Spec
  BY EngineRefinesLedger DEF ImplementsLedger
<1> QED BY <1>1, <1>2, <1>3, <1>4, PTL DEF Ledger!Spec

-----------------------------------------------------------------------------
(* What the log decides.                                                   *)

LEMMA DecidedFirst ==
    ASSUME Ledger!Init
    PROVE  Decided(commits, LedgerBlocks, LedgerPending, blocks[head].nonces)
<1>1. Len(commits) \in Nat
  BY EngineConstants, LenProperties DEF Ledger!Init
<1> QED BY <1>1, DecidedAtFirst DEF Ledger!Init

LEMMA DecidedNext ==
    ASSUME Decided(commits, LedgerBlocks, LedgerPending, blocks[head].nonces),
           [Ledger!OrderNextBlock]_(Ledger!vars)
    PROVE  Decided(commits, LedgerBlocks, LedgerPending, blocks[head].nonces)'
<1>1. CASE UNCHANGED Ledger!vars
  BY <1>1 DEF Ledger!vars
<1>2. CASE Ledger!OrderNextBlock
  <2>1. PICK log, ledger, pending, nonces :
           /\ log = commits /\ ledger = LedgerBlocks
           /\ pending = LedgerPending /\ nonces = blocks[head].nonces
    OBVIOUS
  <2> DEFINE last == [ledger |-> ledger, pending |-> pending, nonces |-> nonces]
  <2>2. PICK next : next = NextOf(last, log, Len(ledger) + 1)
    OBVIOUS
  <2>3. /\ K > 0 /\ (Len(ledger) + 1) * K <= Len(log) /\ commits' = log
        /\ LedgerBlocks' = next.ledger
        /\ LedgerPending' = next.pending
        /\ blocks'[head'].nonces = next.nonces
    BY <1>2, <2>1, <2>2 DEF Ledger!OrderNextBlock, Ledger!BatchOf, NextOf
  <2>4. Decided(log, next.ledger, next.pending, next.nonces)
    BY <2>1, <2>2, <2>3, DecidedStep
  <2> QED BY <2>3, <2>4
<1> QED BY <1>1, <1>2

LEMMA DecidedSays ==
    ASSUME Decided(commits, LedgerBlocks, LedgerPending, blocks[head].nonces)
    PROVE  Ledger!DecidedByTheLog
<1>1. Ledger!LedgersOf(commits) = Decisions(commits)
  BY Zenon DEF Ledger!LedgersOf, Ledger!BatchOf, Decisions, Decides, FirstOf, NextOf
<1>2. Decisions(commits)[Len(LedgerBlocks)] =
          [ledger |-> LedgerBlocks, pending |-> LedgerPending,
           nonces |-> blocks[head].nonces]
  BY DecidedIs
<1> QED BY <1>1, <1>2 DEF Ledger!DecidedByTheLog

\* The canonical chain in engine handle mode is the same function of the log that
\* LogDecidesTheBlocks has for pipeline mode: replicas agree block by block
\* whichever mode each runs in, and also when engine calls fail.
THEOREM LogDecidesTheChain == Spec => []Ledger!DecidedByTheLog
<1> DEFINE Stands == Decided(commits, LedgerBlocks, LedgerPending, blocks[head].nonces)
<1>1. Ledger!Init => Stands
  BY DecidedFirst
<1>2. Stands /\ [Ledger!OrderNextBlock]_(Ledger!vars) => Stands'
  BY DecidedNext
<1>3. Stands => Ledger!DecidedByTheLog
  BY DecidedSays
<1>4. Spec => Ledger!Spec
  BY EngineRefinesLedger DEF ImplementsLedger
<1> QED BY <1>1, <1>2, <1>3, <1>4, PTL DEF Ledger!Spec
-----------------------------------------------------------------------------
(* What can stop the loop, and how far the next block is.                  *)

LEMMA JobsFirst ==
    ASSUME Init
    PROVE  JobsInv
<1>1. ~Executing /\ ~Stuck
  BY DEF Init, Executing, Stuck
<1>2. Idle
  BY <1>1, EngineStart DEF EngineInv
<1> QED BY <1>2 DEF Init, JobsInv

\* Steps that touch neither the jobs nor the loop.
LEMMA JobsUntouched ==
    ASSUME EngineInv, JobsInv, EngineInv',
           UNCHANGED <<loopVars, chainVars, jobVars, built_payloads, notifications>>
    PROVE  JobsInv'
<1> USE DEF loopVars, chainVars, jobVars
<1>1. Height' = Height
  BY DEF Height
<1>2. failures = 0 => ~Stuck'
  <2>1. Idle \/ Executing => ~Stuck
    <3>1. Idle => ~Stuck
      BY Zenon DEF Idle, Stuck
    <3>2. <<Height>> # << >>
      OBVIOUS
    <3>3. Executing => ~Stuck
      BY <3>2 DEF Executing, Stuck, NothingUnderWay
    <3> QED BY <3>1, <3>3
  <2>2. Stuck' => Stuck
    BY <1>1 DEF Stuck, NothingUnderWay, NextHash
  <2> QED BY <2>1, <2>2 DEF JobsInv
<1>3. failures = 0 => Idle' \/ Executing'
  BY <1>2 DEF EngineInv
<1> QED BY <1>1, <1>3 DEF JobsInv

\* A payload that was built becomes the head, unless an engine call fails.
LEMMA JobsAfterReceive ==
    ASSUME EngineInv, JobsInv, EngineInv', ReceiveBuiltPayload
    PROVE  JobsInv'
<1>1. /\ building' = << >> /\ jobs' = jobs
      /\ \/ head' = NextHash /\ notifications' = <<Height + 1>> /\ failures' = failures
         \/ head' = head /\ failures' = failures + 1
  BY PayloadReceived DEF jobVars
<1>2. Height \in Nat /\ Len(NextHash) = Height + 1
  BY NextHashIs DEF EngineInv
<1>3. CASE head' = NextHash /\ notifications' = <<Height + 1>> /\ failures' = failures
  <2>1. Height' = Height + 1
    BY <1>2, <1>3 DEF Height
  <2>2. \A job \in jobs' : Len(job.parent) \in 0..Height
    BY <1>1 DEF JobsInv
  <2>3. ~Stuck'
    BY <1>3 DEF Stuck, NothingUnderWay
  <2> QED BY <1>2, <1>3, <2>1, <2>2, <2>3 DEF JobsInv, EngineInv
<1>4. CASE head' = head /\ failures' = failures + 1
  <2>1. Height' = Height
    BY <1>4 DEF Height
  <2> QED BY <1>1, <1>4, <2>1 DEF JobsInv
<1> QED BY <1>1, <1>3, <1>4

LEMMA JobsStep ==
    ASSUME EngineInv, JobsInv, [Next]_vars
    PROVE  JobsInv'
<1>0. EngineInv' /\ Height \in Nat
  BY EngineStep, NextHashIs DEF EngineInv
<1>1. CASE SubmitCommittedSubdag \/ ReplayCommits \/ UNCHANGED vars
  BY <1>0, <1>1, JobsUntouched DEF SubmitCommittedSubdag, ReplayCommits, vars
<1>2. CASE ReceiveBuiltPayload
  BY <1>0, <1>2, JobsAfterReceive
<1>3. CASE CanonicalStateUpdated
  <2>1. /\ last_processing_payload' = None
        /\ UNCHANGED <<failures, jobs, building, built_payloads, head>>
    BY <1>3, PayloadSettled DEF chainVars, jobVars
  <2>2. ~Stuck' /\ Height' = Height
    BY <2>1 DEF Stuck, Height
  <2> QED BY <1>0, <2>1, <2>2 DEF JobsInv, EngineInv
<1>4. CASE Tick
  <2>1. /\ Idle
        /\ UNCHANGED <<last_processing_payload, failures, head, built_payloads>>
        /\ \/ UNCHANGED jobVars
           \/ jobs' = jobs \cup {NextJob} /\ building' = Append(building, NextJob)
    BY <1>4, TickStarts DEF loopVars, chainVars
  <2>2. ~Stuck' /\ Height' = Height
    BY <2>1 DEF Idle, Stuck, Height
  <2>3. CASE UNCHANGED jobVars
    BY <1>0, <2>1, <2>2, <2>3 DEF JobsInv, EngineInv, jobVars
  <2>4. CASE jobs' = jobs \cup {NextJob} /\ building' = Append(building, NextJob)
    <3>1. building' # << >>
      BY <2>1, <2>4 DEF Idle, NothingUnderWay
    <3>2. Len(NextJob.parent) = Height
      BY DEF NextJob, Height
    <3>3. \A job \in jobs' : Len(job.parent) \in 0..Height
      BY <1>0, <2>4, <3>2 DEF JobsInv
    <3> QED BY <1>0, <2>1, <2>2, <3>1, <3>3 DEF JobsInv, EngineInv
  <2> QED BY <2>1, <2>3, <2>4
<1>5. CASE try_build
  <2>1. /\ UNCHANGED <<last_processing_payload, failures, head, jobs>>
        /\ building # << >> /\ \E payload : built_payloads' = Append(built_payloads, payload)
    BY <1>5 DEF try_build, loopVars, chainVars
  <2>2. last_processing_payload = None /\ built_payloads = << >>
    BY <2>1, Zenon DEF EngineInv, Idle, Executing, Stuck, NothingUnderWay
  <2>3. ~Stuck' /\ built_payloads' # << >> /\ Height' = Height
    BY <2>1, <2>2 DEF Stuck, Height
  <2> QED BY <1>0, <2>1, <2>3 DEF JobsInv, EngineInv
<1> QED BY <1>1, <1>2, <1>3, <1>4, <1>5 DEF Next, Loop

\* With the commits of the next block queued, an idle loop's next tick asks for it.
LEMMA TickIsReady ==
    ASSUME EngineInv, JobsInv, failures = 0, NextBatchQueued, Idle, NothingUnderWay
    PROVE  TickReady
<1>1. /\ LastBuiltHash = head /\ canonical_block_number = Height
      /\ \A job \in jobs : Len(job.parent) # Height
  BY DEF Idle, JobsInv, NothingUnderWay
<1>2. LastPayloadCanonical /\ LastBuiltHash \in DOMAIN blocks
  <2>1. last_built_payload # None => Number(last_built_payload.hash) = Height
    BY <1>1 DEF LastBuiltHash, Number, Height
  <2> QED BY <1>1, <2>1, NextHashIs DEF LastPayloadCanonical, EngineInv
<1>3. /\ K \in Nat /\ Height \in Nat /\ next_committed_index = 1 + K * Height
      /\ next_committed_index + K - 1 = K * (Height + 1)
  <2>1. K \in Nat /\ Height \in Nat /\ next_committed_index = 1 + K * Height
    BY <1>1, NextHashIs DEF EngineInv, QueueInv
  <2> QED BY <2>1
<1>4. K > 0 /\ HasBatch(next_committed_index, commited_queue)
  BY <1>3 DEF NextBatchQueued
<1>5. PICK first, last : /\ first = commited_queue[next_committed_index]
                         /\ last = commited_queue[next_committed_index + K - 1]
  OBVIOUS
<1>6. next_committed_subdag_batch(next_committed_index, commited_queue) = <<first, last>>
  BY <1>4, <1>5 DEF next_committed_subdag_batch
<1>7. first \in Subdags /\ last \in Subdags
  <2>1. {next_committed_index, next_committed_index + K - 1}
            \subseteq BatchRounds(next_committed_index)
    <3>1. next_committed_index \in Nat
      BY DEF EngineInv, QueueInv, PendingIsTheRest, PoolTypeOK
    <3> QED BY <1>3, <1>4, <3>1 DEF BatchRounds
  <2>2. \A r \in BatchRounds(next_committed_index) : commited_queue[r] \in Subdags
    BY <1>4 DEF HasBatch, EngineInv, QueueInv, PendingIsTheRest, PoolTypeOK
  <2> QED BY <1>5, <2>1, <2>2
<1>8. <<first, last>> # None
  <2>1. <<first, last>> \in Subdags \X Subdags
    BY <1>7
  <2> QED BY <2>1, SubdagsHaveRounds
<1>9. last = commits[K * (Height + 1)] /\ last.round = K * (Height + 1)
  BY <1>3, <1>4, <1>5, BatchOfLog DEF EngineInv
<1>10. strict => last.timestamp_ms \div 1000 > Timestamp(LastBuiltHash)
  BY <1>1, <1>9 DEF NextBatchQueued
<1>11. [parent |-> LastBuiltHash, last |-> last.round] \notin jobs
  <2>1. Len([parent |-> LastBuiltHash, last |-> last.round].parent) = Height
    BY <1>1 DEF Height
  <2> QED BY <1>1, <2>1
<1>12. <<first, last>>[2] = last
  OBVIOUS
<1> QED BY <1>1, <1>2, <1>6, <1>8, <1>10, <1>11, <1>12 DEF TickReady

\* Whatever it is doing, there is an arm to take or a build to end.
LEMMA LoopGoesOn ==
    ASSUME EngineInv, JobsInv, failures = 0, NextBatchQueued
    PROVE  GoesOn
<1>1. CASE Executing
  BY <1>1 DEF Executing, GoesOn
<1>2. CASE Idle /\ NothingUnderWay
  BY <1>2, TickIsReady DEF GoesOn
<1>3. CASE Idle /\ ~NothingUnderWay
  <2>1. \/ built_payloads # << >>
        \/ building # << >> /\ HasBatch(next_committed_index, commited_queue)
    BY <1>3 DEF Idle
  <2> QED BY <2>1 DEF GoesOn, BuildCanEnd
<1> QED BY <1>1, <1>2, <1>3 DEF JobsInv

\* In engine handle mode nothing but a failed call or attributes that the engine refuses
\* stops the loop: with the commits of the next block queued it has an arm to take, a tick
\* that starts a build among them, or the builder has a build that it can end.
THEOREM EngineNeverStops == Spec => [](failures = 0 /\ NextBatchQueued => GoesOn)
<1>1. Init => EngineInv /\ JobsInv
  BY EngineStart, JobsFirst
<1>2. EngineInv /\ JobsInv /\ [Next]_vars => (EngineInv /\ JobsInv)'
  BY EngineStep, JobsStep
<1>3. EngineInv /\ JobsInv => (failures = 0 /\ NextBatchQueued => GoesOn)
  BY LoopGoesOn
<1> QED BY <1>1, <1>2, <1>3, PTL DEF Spec

\* The commits of the next block stay queued: what is removed is the batch of the last.
LEMMA NextBatchStays ==
    ASSUME EngineInv, NextBatchQueued, head' = head,
           \/ CanonicalStateUpdated
           \/ UNCHANGED <<commits, strict>>
              /\ DOMAIN commited_queue \subseteq DOMAIN commited_queue'
    PROVE  NextBatchQueued'
<1>1. Height' = Height
  BY DEF Height
<1>2. commits' = commits /\ strict' = strict
  BY PayloadSettled DEF feedVars, chainVars
<1>3. Timestamp(head)' = Timestamp(head)
  BY <1>2 DEF Timestamp
<1>4. BatchRounds(1 + K * Height) \subseteq DOMAIN commited_queue'
  <2>1. CASE CanonicalStateUpdated
    <3>1. /\ DOMAIN commited_queue' = DOMAIN commited_queue \ BatchRounds(next_committed_index)
          /\ next_committed_index = 1 + K * (Height - 1)
      BY <2>1, PayloadSettled DEF update_mined_block, Restrict, Executing, EngineInv, QueueInv
    <3>2. K \in Nat /\ Height \in Nat
      BY NextHashIs DEF EngineInv
    <3>3. 1 + K * Height = next_committed_index + K /\ next_committed_index \in Int
      BY <3>1, <3>2
    <3>4. BatchRounds(next_committed_index + K) \cap BatchRounds(next_committed_index) = {}
      BY <3>2, <3>3 DEF BatchRounds
    <3> QED BY <3>1, <3>3, <3>4 DEF NextBatchQueued, HasBatch
  <2>2. CASE DOMAIN commited_queue \subseteq DOMAIN commited_queue'
    BY <2>2 DEF NextBatchQueued, HasBatch
  <2> QED BY <2>1, <2>2
<1> QED BY <1>1, <1>2, <1>3, <1>4 DEF NextBatchQueued, HasBatch

\* Until an engine call fails, a block whose commits are queued and whose attributes the
\* engine takes is never more than four steps of the loop and the builder away, and every
\* step of theirs that changes anything brings it nearer, however often ticks come.
THEOREM EngineBlockComesNearer == Spec => NextBlockNears
<1> DEFINE Nears == failures = 0 /\ NextBatchQueued =>
                       \/ head' # head
                       \/ failures' # failures
                       \/ NextBatchQueued' /\ (Loop \/ try_build) /\ StepsLeft' < StepsLeft
                       \/ /\ NextBatchQueued' /\ (SubmitCommittedSubdag \/ ReplayCommits)
                          /\ StepsLeft' = StepsLeft
<1>1. Init => EngineInv
  BY EngineStart
<1>2. EngineInv /\ [Next]_vars => EngineInv'
  BY EngineStep
<1>3. EngineInv /\ [Next]_vars => [Nears]_vars
  <2> SUFFICES ASSUME EngineInv, Next, ~UNCHANGED vars, NextBatchQueued,
                      head' = head, failures' = failures, failures = 0
               PROVE  /\ NextBatchQueued'
                      /\ \/ (Loop \/ try_build) /\ StepsLeft' < StepsLeft
                         \/ /\ SubmitCommittedSubdag \/ ReplayCommits
                            /\ StepsLeft' = StepsLeft
    OBVIOUS
  <2>1. CASE SubmitCommittedSubdag
    <3>1. /\ DOMAIN commited_queue \subseteq DOMAIN commited_queue'
          /\ UNCHANGED <<commits, strict, building, built_payloads, notifications>>
      BY <2>1, SubmitQueues DEF SubmitCommittedSubdag, chainVars, jobVars
    <3> QED BY <2>1, <3>1, NextBatchStays DEF StepsLeft
  <2>2. CASE ReplayCommits
    <3>1. UNCHANGED <<commited_queue, commits, strict, building, built_payloads, notifications>>
      BY <2>2 DEF ReplayCommits, poolVars, chainVars, jobVars
    <3> QED BY <2>2, <3>1, NextBatchStays DEF StepsLeft
  <2>3. CASE ReceiveBuiltPayload
    <3>1. head' = NextHash \/ failures' = failures + 1
      BY <2>3, PayloadReceived
    <3>2. NextHash # head
      BY NextHashIs DEF EngineInv, Height
    <3> QED BY <3>1, <3>2
  <2>4. CASE CanonicalStateUpdated
    <3>1. building = << >> /\ built_payloads = << >> /\ notifications = <<Height>>
      BY <2>4, PayloadSettled DEF Executing
    <3>2. building' = << >> /\ built_payloads' = << >> /\ notifications' = << >>
      BY <2>4, <3>1, PayloadSettled DEF jobVars
    <3>3. <<Height>> # << >>
      OBVIOUS
    <3>4. StepsLeft' < StepsLeft
      BY <3>1, <3>2, <3>3 DEF StepsLeft
    <3> QED BY <2>4, <3>4, NextBatchStays DEF Loop
  <2>5. CASE Tick
    <3>1. /\ Idle /\ UNCHANGED <<poolVars, loopVars, feedVars, chainVars, built_payloads,
                                 notifications>>
          /\ \/ UNCHANGED jobVars
             \/ NextJob \notin jobs /\ building' = Append(building, NextJob)
      BY <2>5, TickStarts
    <3>2. NextJob \notin jobs /\ building' = Append(building, NextJob)
      BY <3>1 DEF vars
    <3>3. NothingUnderWay
      BY <3>1, <3>2 DEF Idle
    <3>4. building' # << >>
      BY <3>2, <3>3 DEF NothingUnderWay
    <3>5. StepsLeft' < StepsLeft
      BY <3>1, <3>3, <3>4 DEF StepsLeft, NothingUnderWay
    <3> QED BY <2>5, <3>1, <3>5, NextBatchStays DEF Loop, poolVars, feedVars, chainVars
  <2>6. CASE try_build
    <3>1. /\ building # << >> /\ \E payload : built_payloads' = Append(built_payloads, payload)
          /\ UNCHANGED <<poolVars, feedVars, chainVars>>
      BY <2>6 DEF try_build
    <3>2. built_payloads = << >>
      BY <3>1, Zenon DEF EngineInv, Idle, Executing, Stuck, NothingUnderWay
    <3>3. built_payloads' # << >>
      BY <3>1, <3>2
    <3>4. StepsLeft' < StepsLeft
      BY <3>1, <3>2, <3>3 DEF StepsLeft
    <3> QED BY <2>6, <3>1, <3>4, NextBatchStays DEF poolVars, feedVars, chainVars
  <2> QED BY <2>1, <2>2, <2>3, <2>4, <2>5, <2>6 DEF Next, Loop
<1> QED BY <1>1, <1>2, <1>3, PTL DEF Spec, NextBlockNears
=============================================================================
