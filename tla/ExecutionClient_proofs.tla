------------------------ MODULE ExecutionClient_proofs ------------------------
(***************************************************************************)
(* Proofs about what the execution client makes of commits, for any log of *)
(* them, any batch size and any order of calls: the pool behind its RPC    *)
(* (CommittedSubdagRpc), the proposal a payload is built of, and the       *)
(* payload (PayloadBuilder).                                               *)
(***************************************************************************)
EXTENDS CommittedSubdagRpc, ProposalInputs, ConsensusPool_proofs

-----------------------------------------------------------------------------
(* The pool.                                                               *)

\* The commits of a round.
VersionsOf(r) == {c \in Commits : c.commit_ref = r}

\* PendingIsTheRest and CommitsCountWhole.
PoolInv == PendingIsTheRest /\ CommitsCountWhole

LEMMA PoolInvInit == RpcInit => PoolInv
<1> SUFFICES ASSUME RpcInit PROVE PoolInv
  OBVIOUS
<1>1. next_committed_index = 1 /\ DOMAIN commited_queue = {}
  BY DEF RpcInit, PoolInit
<1>2. CommitsCountWhole
  <2>1. 1..(1 - 1) = {}
    OBVIOUS
  <2> QED BY <1>1, <2>1 DEF CommitsCountWhole
<1> QED BY <1>2, RestAtFirst DEF PoolInv, RpcInit

LEMMA AddKeepsPoolInv ==
    ASSUME PoolInv, NEW v \in Seq(Subdags),
           \A i \in DOMAIN v : \E c \in VersionsOf(v[i].round) :
               v[i].transactions = flatten_transactions(From(c)),
           add_committed_subdags(v)
    PROVE  PoolInv'
<1> USE DEF PoolInv
<1>1. UNCHANGED <<next_committed_index, drained>>
  BY DEF add_committed_subdags
<1>2. PendingIsTheRest'
  BY RestAfterAdd
<1>3. ASSUME NEW r \in DOMAIN commited_queue'
      PROVE  \E c \in VersionsOf(r) :
                commited_queue'[r].transactions = flatten_transactions(From(c))
  <2>1. CASE r \in DOMAIN commited_queue /\ commited_queue'[r] = commited_queue[r]
    BY <2>1 DEF CommitsCountWhole, VersionsOf
  <2>2. CASE \E i \in DOMAIN v : v[i].round = r /\ commited_queue'[r] = v[i]
    BY <2>2
  <2> QED BY <2>1, <2>2, RestAfterAdd
<1>4. CommitsCountWhole'
  BY <1>1, <1>3 DEF CommitsCountWhole, VersionsOf
<1> QED BY <1>2, <1>4

LEMMA PoolUntouched ==
    ASSUME PoolInv, UNCHANGED poolVars
    PROVE  PoolInv'
BY RestUntouched DEF PoolInv, poolVars, CommitsCountWhole

LEMMA SubmitKeepsPoolInv ==
    ASSUME PoolInv, NEW subdags \in Seq({From(c) : c \in Commits}),
           submit_committed_subdags(subdags)
    PROVE  PoolInv'
<1> DEFINE v == [i \in DOMAIN subdags |-> convert_committed_subdag(subdags[i])]
<1>1. None \notin Range(v) /\ add_committed_subdags(v)
  BY DEF submit_committed_subdags
<1>2. DOMAIN subdags = 1..Len(subdags) /\ Len(subdags) \in Nat
  BY LenProperties
<1>3. \A i \in 1..Len(subdags) : subdags[i] \in {From(c) : c \in Commits}
  BY ElementOfSeq
<1>4. v # << >>
  BY <1>1 DEF add_committed_subdags
<1>5. ASSUME NEW i \in 1..Len(subdags)
      PROVE  v[i] \in Subdags /\ \E c \in VersionsOf(v[i].round) :
                 v[i].transactions = flatten_transactions(From(c))
  <2>1. PICK c \in Commits : subdags[i] = From(c)
    BY <1>3
  <2>2. v[i] = convert_committed_subdag(From(c)) /\ v[i] # None
    BY <1>1, <1>2, <2>1 DEF Range
  <2> HIDE DEF v
  <2>3. v[i] \in Subdags
    BY <2>2, RpcConstants
  <2>4. /\ v[i].round = From(c).commit_ref
        /\ v[i].transactions = flatten_transactions(From(c))
    BY <2>2 DEF convert_committed_subdag
  <2>5. From(c).commit_ref = c.commit_ref
    BY DEF From
  <2> QED BY <2>3, <2>4, <2>5 DEF VersionsOf
<1>6. DOMAIN v = 1..Len(subdags) /\ v \in Seq(Subdags) /\ Len(v) = Len(subdags)
  <2>1. v = [i \in 1..Len(subdags) |-> v[i]]
    BY <1>2
  <2> HIDE DEF v
  <2> QED BY <1>2, <1>5, <2>1, ListOf
<1> HIDE DEF v
<1> QED BY <1>1, <1>2, <1>5, <1>6, AddKeepsPoolInv

LEMMA MineKeepsPoolInv ==
    ASSUME PoolInv, NEW tx_hashes, update_mined_block(tx_hashes)
    PROVE  PoolInv'
<1> USE DEF PoolInv
<1>0. K \in Nat /\ next_committed_index \in Nat \ {0}
  BY BatchSizeIsNat DEF K, PendingIsTheRest, PoolTypeOK
<1>1. /\ HasBatch(next_committed_index, commited_queue)
      /\ next_committed_index' = next_committed_index + K
      /\ drained \subseteq drained'
  BY DEF update_mined_block
<1>2. PendingIsTheRest'
  BY RestAfterMine
<1>3. ASSUME NEW r \in DOMAIN commited_queue'
      PROVE  \E c \in VersionsOf(r) :
                commited_queue'[r].transactions = flatten_transactions(From(c))
  BY RestAfterMine DEF CommitsCountWhole, VersionsOf
<1>4. ASSUME NEW r \in 1..(next_committed_index' - 1)
      PROVE  \E c \in VersionsOf(r) : Range(flatten_transactions(From(c))) \subseteq drained'
  <2>1. CASE r \in 1..(next_committed_index - 1)
    BY <1>1, <2>1 DEF CommitsCountWhole, VersionsOf
  <2>2. CASE r \notin 1..(next_committed_index - 1)
    <3>1. PICK i \in 1..K : r = next_committed_index + i - 1
      <4>1. r - next_committed_index + 1 \in 1..K
        BY <1>0, <1>1, <1>4, <2>2
      <4>2. r = next_committed_index + (r - next_committed_index + 1) - 1
        BY <1>0, <1>4
      <4> QED BY <4>1, <4>2
    <3>2. r \in DOMAIN commited_queue
      BY <1>1, <3>1, BatchIsQueued DEF PendingIsTheRest
    <3>3. PICK c \in VersionsOf(r) :
             commited_queue[r].transactions = flatten_transactions(From(c))
      BY <3>2 DEF CommitsCountWhole, VersionsOf
    <3>4. Range(commited_queue[r].transactions) \subseteq drained'
      BY <3>1, RestAfterMine
    <3> QED BY <3>3, <3>4
  <2> QED BY <2>1, <2>2
<1>5. CommitsCountWhole'
  BY <1>3, <1>4 DEF CommitsCountWhole, VersionsOf
<1> QED BY <1>2, <1>5

LEMMA PoolInvKept == PoolInv /\ [RpcNext]_rpcVars => PoolInv'
<1> SUFFICES ASSUME PoolInv, [RpcNext]_rpcVars PROVE PoolInv'
  OBVIOUS
<1>1. CASE SubmitCommittedSubdag
  <2>1. PICK c \in Commits : \/ submit_committed_subdags(<<From(c)>>)
                             \/ refuse_committed_subdags(<<From(c)>>)
    BY <1>1 DEF SubmitCommittedSubdag
  <2>2. <<From(c)>> \in Seq({From(d) : d \in Commits})
    OBVIOUS
  <2>3. CASE submit_committed_subdags(<<From(c)>>)
    BY <2>2, <2>3, SubmitKeepsPoolInv
  <2>4. CASE refuse_committed_subdags(<<From(c)>>)
    BY <2>4, PoolUntouched DEF refuse_committed_subdags
  <2> QED BY <2>1, <2>3, <2>4
<1>2. CASE SubmitCommittedSubdags
  <2> DEFINE subdags == {From(c) : c \in Commits}
  <2>1. PICK v \in BoundedSeq(subdags, MaxVec) : \/ submit_committed_subdags(v)
                                                 \/ refuse_committed_subdags(v)
    BY <1>2 DEF SubmitCommittedSubdags
  <2>2. v \in Seq(subdags)
    <3>1. PICK n \in 0..MaxVec : v \in [1..n -> subdags]
      BY DEF BoundedSeq, SeqOf
    <3>2. n \in Nat /\ v = [i \in 1..n |-> v[i]] /\ \A i \in 1..n : v[i] \in subdags
      BY <3>1, RpcConstants
    <3> HIDE DEF subdags
    <3> QED BY <3>2, ListOf
  <2>3. CASE submit_committed_subdags(v)
    BY <2>2, <2>3, SubmitKeepsPoolInv
  <2>4. CASE refuse_committed_subdags(v)
    BY <2>4, PoolUntouched DEF refuse_committed_subdags
  <2> QED BY <2>1, <2>3, <2>4
<1>3. CASE MineProposal
  <2>1. PICK tx_hashes : update_mined_block(tx_hashes)
    BY <1>3 DEF MineProposal
  <2> QED BY <2>1, MineKeepsPoolInv
<1>4. CASE UNCHANGED rpcVars
  BY <1>4, PoolUntouched DEF rpcVars
<1> QED BY <1>1, <1>2, <1>3, <1>4 DEF RpcNext

\* Whatever the calls carry and in whatever order they come, no transaction of
\* a drained commit disappears, and what is pending is in nonce order
\* (update_mined_block, create_proposal_transactions).
THEOREM PoolKeepsTheRest == RpcSpec => []PendingIsTheRest
<1>1. PoolInv => PendingIsTheRest
  BY DEF PoolInv
<1> QED BY <1>1, PoolInvInit, PoolInvKept, PTL DEF RpcSpec

\* For any commits: one that does not decode is never queued in part, and none
\* is passed over (submit_committed_subdags, convert_committed_subdag).
THEOREM PoolCountsWholeCommits == RpcSpec => []CommitsCountWhole
<1>1. PoolInv => CommitsCountWhole
  BY DEF PoolInv
<1> QED BY <1>1, PoolInvInit, PoolInvKept, PTL DEF RpcSpec

-----------------------------------------------------------------------------
(* The proposal.                                                           *)

InputsInv ==
    /\ pending \in Seq(Transactions)
    /\ batch \in [1..SubdagsInBatch -> [transactions : Seq(Transactions)]]

LEMMA InputsStay == InputsInv /\ [InputNext]_<<vars, pending, batch>> => InputsInv'
<1> SUFFICES ASSUME InputsInv, [InputNext]_<<vars, pending, batch>> PROVE InputsInv'
  OBVIOUS
<1> USE DEF InputsInv
<1>1. CASE GrowPending
  BY <1>1, AppendProperties DEF GrowPending
<1>2. CASE GrowSubdag
  <2>1. PICK i \in 1..SubdagsInBatch, tx \in Transactions :
           batch' = [batch EXCEPT ![i].transactions = Append(@, tx)]
    BY <1>2 DEF GrowSubdag
  <2>2. batch[i] \in [transactions : Seq(Transactions)]
    OBVIOUS
  <2>3. Append(batch[i].transactions, tx) \in Seq(Transactions)
    BY <2>2, AppendProperties
  <2>4. [batch[i] EXCEPT !.transactions = Append(@, tx)] \in [transactions : Seq(Transactions)]
    BY <2>2, <2>3
  <2> QED BY <1>2, <2>1, <2>4 DEF GrowSubdag
<1>3. CASE BuildProposal
  BY <1>3 DEF BuildProposal, NoBatch
<1> QED BY <1>1, <1>2, <1>3 DEF InputNext

LEMMA SlotsAreGiven == InputsInv => Slots \in Seq(Transactions)
<1> SUFFICES ASSUME InputsInv PROVE Slots \in Seq(Transactions)
  OBVIOUS
<1>1. \A i \in 1..SubdagsInBatch : batch[i].transactions \in Seq(Transactions)
  BY DEF InputsInv
<1>2. batch = [i \in 1..SubdagsInBatch |-> batch[i]] /\ SubdagsInBatch \in Nat
  BY ProposalBounds DEF InputsInv
<1>3. BatchTransactions(batch) \in Seq(Transactions)
  BY <1>1, <1>2, BatchTransactionsAre
<1> QED BY <1>3, ConcatProperties DEF InputsInv, Slots

LEMMA InputsAsCommitted == InputsInv => ProposalAsCommitted
<1> SUFFICES ASSUME InputsInv PROVE ProposalAsCommitted
  OBVIOUS
<1>1. AsCommitted(Slots, Proposal)
  BY SlotsAreGiven, BuilderConstants, ProposalsAreAsCommitted DEF Slots, Proposal
<1> QED BY <1>1 DEF ProposalAsCommitted

\* For any pending transactions and any batch, of any length: the proposal has
\* the latest transaction of every key, in nonce order and in the places of
\* its sender (create_proposal_transactions).
THEOREM AnyProposalAsCommitted == InputSpec => []ProposalAsCommitted
<1>1. InputInit => InputsInv
  BY DEF InputInit, InputsInv, NoBatch
<1> QED BY <1>1, InputsStay, InputsAsCommitted, PTL DEF InputSpec

-----------------------------------------------------------------------------
(* The loops.                                                              *)

\* The slots of a sender among the first n, their nonces, and those of a nonce.
OwnTo(slots, s, n)      == {i \in Own(slots, s) : i <= n}
NoncesTo(slots, s, n)   == {slots[i].nonce : i \in OwnTo(slots, s, n)}
GivenTo(slots, s, m, n) == {i \in OwnTo(slots, s, n) : slots[i].nonce = m}

SendersOf(slots) == {tx.sender : tx \in Range(slots)}

\* What the insertions have made of the first n slots.
MapTo(slots, n) ==
    [s \in SendersOf(slots) |->
        [m \in NoncesTo(slots, s, n) |-> slots[Max(GivenTo(slots, s, m, n))]]]

LEMMA SenderOfSlot ==
    ASSUME NEW slots, IsTxs(slots), NEW i \in 1..Len(slots)
    PROVE  slots[i].sender \in SendersOf(slots) /\ i \in Own(slots, slots[i].sender)
BY DEF SendersOf, Range, IsTxs, Own

LEMMA MapAtFirst ==
    ASSUME NEW slots, IsTxs(slots)
    PROVE  MapTo(slots, 0) = [s \in SendersOf(slots) |-> << >>]
<1>1. \A s : NoncesTo(slots, s, 0) = {}
  <2>1. \A s : OwnTo(slots, s, 0) = {}
    BY DEF OwnTo, Own, IsTxs
  <2> QED BY <2>1 DEF NoncesTo
<1>2. \A s : [m \in NoncesTo(slots, s, 0) |-> slots[Max(GivenTo(slots, s, m, 0))]] = << >>
  BY <1>1
<1> QED BY <1>2 DEF MapTo

\* One insertion.
LEMMA MapStep ==
    ASSUME NEW slots, IsTxs(slots), NEW n \in 1..Len(slots)
    PROVE  InsertTx(MapTo(slots, n - 1), slots[n]) = MapTo(slots, n)
<1> DEFINE s == slots[n].sender
           x == slots[n].nonce
           old == MapTo(slots, n - 1)
           new == MapTo(slots, n)
<1>1. n \in Nat /\ n - 1 \in Nat /\ n \in Own(slots, s) /\ s \in SendersOf(slots)
  BY SenderOfSlot DEF IsTxs
<1>2. \A r : Own(slots, r) \in SUBSET (1..Len(slots)) /\ Len(slots) \in Nat
  BY DEF Own, IsTxs
<1>3. ASSUME NEW r, r # s PROVE OwnTo(slots, r, n) = OwnTo(slots, r, n - 1)
  <2>1. n \notin Own(slots, r)
    BY <1>3 DEF Own
  <2>2. \A i \in Own(slots, r) : i <= n <=> i <= n - 1
    BY <1>1, <1>2, <2>1
  <2> QED BY <2>2 DEF OwnTo
<1>4. OwnTo(slots, s, n) = OwnTo(slots, s, n - 1) \cup {n}
  <2>1. \A i \in Own(slots, s) : i <= n <=> i <= n - 1 \/ i = n
    BY <1>1, <1>2
  <2> QED BY <1>1, <2>1 DEF OwnTo
<1>5. NoncesTo(slots, s, n) = NoncesTo(slots, s, n - 1) \cup {x}
  BY <1>4 DEF NoncesTo
<1>6. Max(GivenTo(slots, s, x, n)) = n
  <2>1. n \in GivenTo(slots, s, x, n)
    BY <1>4 DEF GivenTo
  <2>2. GivenTo(slots, s, x, n) \in SUBSET Nat /\ \A i \in GivenTo(slots, s, x, n) : i <= n
    BY <1>2 DEF GivenTo, OwnTo
  <2>3. /\ Max(GivenTo(slots, s, x, n)) \in GivenTo(slots, s, x, n)
        /\ \A i \in GivenTo(slots, s, x, n) : Max(GivenTo(slots, s, x, n)) >= i
    BY <1>1, <2>1, <2>2, GreatestOf
  <2>4. PICK y : y = Max(GivenTo(slots, s, x, n))
    OBVIOUS
  <2>5. y \in Nat /\ y <= n /\ y >= n
    BY <2>1, <2>2, <2>3, <2>4
  <2> QED BY <1>1, <2>4, <2>5
<1>7. \A m : m # x => GivenTo(slots, s, m, n) = GivenTo(slots, s, m, n - 1)
  BY <1>4 DEF GivenTo
<1>8. \A r \in SendersOf(slots) : old[r] =
         [m \in NoncesTo(slots, r, n - 1) |-> slots[Max(GivenTo(slots, r, m, n - 1))]]
  BY DEF MapTo
<1>9. \A r \in SendersOf(slots) : r # s => new[r] = old[r]
  BY <1>3, <1>8 DEF MapTo, NoncesTo, GivenTo
<1>10. new[s] = [m \in DOMAIN old[s] \cup {x} |-> IF x = m THEN slots[n] ELSE old[s][m]]
  <2>1. new[s] = [m \in NoncesTo(slots, s, n) |-> slots[Max(GivenTo(slots, s, m, n))]]
    BY <1>1 DEF MapTo
  <2>2. DOMAIN old[s] = NoncesTo(slots, s, n - 1)
    BY <1>1, <1>8
  <2>3. ASSUME NEW m \in NoncesTo(slots, s, n)
        PROVE  slots[Max(GivenTo(slots, s, m, n))] = IF x = m THEN slots[n] ELSE old[s][m]
    <3>1. CASE m = x
      BY <1>6, <3>1
    <3>2. CASE m # x
      <4>1. m \in NoncesTo(slots, s, n - 1)
        BY <1>5, <2>3, <3>2
      <4>2. old[s][m] = slots[Max(GivenTo(slots, s, m, n - 1))]
        BY <1>1, <1>8, <4>1
      <4>3. GivenTo(slots, s, m, n) = GivenTo(slots, s, m, n - 1)
        BY <1>7, <3>2
      <4> QED BY <3>2, <4>2, <4>3
    <3> QED BY <3>1, <3>2
  <2> QED BY <1>5, <2>1, <2>2, <2>3
<1>11. old = [r \in SendersOf(slots) |-> old[r]] /\ new = [r \in SendersOf(slots) |-> new[r]]
  BY DEF MapTo
<1> HIDE DEF old, new
<1>12. InsertTx(old, slots[n]) =
          [old EXCEPT ![s] =
              [m \in DOMAIN old[s] \cup {x} |-> IF m = x THEN slots[n] ELSE old[s][m]]]
  BY DEF InsertTx
<1> QED BY <1>1, <1>9, <1>10, <1>11, <1>12 DEF old, new

LEMMA MapIs ==
    ASSUME NEW slots
    PROVE  map_sender_txs(slots) =
               [s \in SendersOf(slots) |-> [m \in Nonces(slots, s) |-> LatestOf(slots, s, m)]]
BY DEF map_sender_txs, Inserted, LatestOf, Nonces, Own, Given, SendersOf, Range

\* All insertions together make the map of the closed form.
LEMMA MapAtLast ==
    ASSUME NEW slots, IsTxs(slots)
    PROVE  MapTo(slots, Len(slots)) = map_sender_txs(slots)
<1>1. ASSUME NEW s PROVE OwnTo(slots, s, Len(slots)) = Own(slots, s)
  BY DEF OwnTo, Own, IsTxs
<1>2. \A s : NoncesTo(slots, s, Len(slots)) = Nonces(slots, s)
  BY <1>1 DEF NoncesTo, Nonces
<1>3. \A s, m : GivenTo(slots, s, m, Len(slots)) = Given(slots, s, m)
  BY <1>1 DEF GivenTo, Given
<1> QED BY <1>2, <1>3, MapIs DEF MapTo, LatestOf

\* The insertions one after the other.
LEMMA InsertionsMake ==
    ASSUME NEW slots, IsTxs(slots)
    PROVE  MapsAfter(slots)[Len(slots)] = map_sender_txs(slots)
<1> DEFINE N == Len(slots)
           Rec(f) == f = [n \in 0..N |-> IF n = 0 THEN [s \in SendersOf(slots) |-> << >>]
                                         ELSE InsertTx(f[n - 1], slots[n])]
           map == CHOOSE f : Rec(f)
           F == [n \in 0..N |-> MapTo(slots, n)]
<1>1. N \in Nat
  BY DEF IsTxs
<1>2. MapsAfter(slots) = map
  BY Zenon DEF MapsAfter, SendersOf
<1>3. Rec(F)
  <2>1. ASSUME NEW n \in 0..N
        PROVE  MapTo(slots, n) = IF n = 0 THEN [s \in SendersOf(slots) |-> << >>]
                                 ELSE InsertTx(F[n - 1], slots[n])
    <3>1. CASE n = 0
      BY <3>1, MapAtFirst
    <3>2. CASE n # 0
      <4>1. n \in 1..Len(slots) /\ n - 1 \in 0..N
        BY <1>1, <3>2
      <4>2. F[n - 1] = MapTo(slots, n - 1)
        BY <4>1
      <4> QED BY <3>2, <4>1, <4>2, MapStep
    <3> QED BY <3>1, <3>2
  <2> QED BY <2>1
<1> HIDE DEF F
<1>4. Rec(map)
  BY <1>3, Zenon
<1> HIDE DEF map
<1>5. \A n \in 0..N : map[n] = IF n = 0 THEN [s \in SendersOf(slots) |-> << >>]
                                ELSE InsertTx(map[n - 1], slots[n])
  BY <1>4, Zenon
<1> DEFINE G == {n \in 0..N : map[n] = MapTo(slots, n)}
<1>6. 0 \in G
  BY <1>1, <1>5, MapAtFirst
<1>7. ASSUME NEW n \in (0 + 1)..N, n - 1 \in G PROVE n \in G
  <2>1. n \in 1..Len(slots) /\ n \in 0..N /\ n # 0
    BY <1>1
  <2>2. map[n] = InsertTx(map[n - 1], slots[n]) /\ map[n - 1] = MapTo(slots, n - 1)
    BY <1>5, <1>7, <2>1
  <2> QED BY <2>1, <2>2, MapStep
<1> HIDE DEF G
<1>8. N \in G
  BY <1>1, <1>6, <1>7, UpTo
<1> QED BY <1>2, <1>8, MapAtLast DEF G

-----------------------------------------------------------------------------
\* The nonces of a sender that the first n slots leave.
LeftTo(slots, s, n) ==
    {m \in Nonces(slots, s) : Rank(Nonces(slots, s), m) >= Rank(Own(slots, s), n + 1)}

\* What is left of the maps, and what came out (sorted gives it), after n slots.
FilledTo(slots, sorted, n) ==
    [map    |-> [s \in SendersOf(slots) |->
                    [m \in LeftTo(slots, s, n) |-> LatestOf(slots, s, m)]],
     sorted |-> sorted[n]]

\* A slot takes one place of its sender and none of another.
LEMMA RankAfterSlot ==
    ASSUME NEW slots, IsTxs(slots), NEW n \in 1..Len(slots), NEW s
    PROVE  /\ Rank(Own(slots, s), n) \in Nat
           /\ Rank(Own(slots, s), n + 1) =
                  Rank(Own(slots, s), n) + IF slots[n].sender = s THEN 1 ELSE 0
<1> DEFINE O == Own(slots, s)
<1>1. n \in Nat /\ O \in SUBSET Nat /\ IsFiniteSet(O)
  BY OwnFacts DEF IsTxs
<1>2. n \in O <=> slots[n].sender = s
  BY DEF Own, IsTxs
<1> HIDE DEF O
<1>3. /\ Rank(O, n) \in Nat /\ IsFiniteSet(Below(O, n))
      /\ Below(O, n) \in SUBSET O
  BY <1>1, RankType
<1>4. n \notin Below(O, n)
  BY <1>1, InBelow
<1>5. \A i \in O : i < n + 1 <=> i < n \/ i = n
  BY <1>1
<1>6. Below(O, n + 1) = IF n \in O THEN Below(O, n) \cup {n} ELSE Below(O, n)
  BY <1>1, <1>5 DEF Below
<1>7. CASE n \in O
  <2>1. Cardinality(Below(O, n) \cup {n}) = Cardinality(Below(O, n)) + 1
    BY <1>3, <1>4, FS_AddElement
  <2> QED BY <1>2, <1>3, <1>6, <1>7, <2>1 DEF O, Rank
<1>8. CASE n \notin O
  BY <1>2, <1>3, <1>6, <1>8 DEF O, Rank
<1> QED BY <1>7, <1>8

\* If nonces are left, the lowest of them is the one slot n takes, and it alone
\* goes; if none is, slot n takes none.
LEMMA LowestLeft ==
    ASSUME NEW slots, IsTxs(slots), NEW n \in 1..Len(slots),
           NEW s, s = slots[n].sender
    PROVE  /\ LeftTo(slots, s, n - 1) = {} =>
                 /\ ~ \E m : Fills(slots, n, m)
                 /\ LeftTo(slots, s, n) = {}
           /\ LeftTo(slots, s, n - 1) # {} =>
                 /\ Fills(slots, n, Min(LeftTo(slots, s, n - 1)))
                 /\ LeftTo(slots, s, n) =
                       LeftTo(slots, s, n - 1) \ {Min(LeftTo(slots, s, n - 1))}
<1> DEFINE N == Nonces(slots, s)
           r == Rank(Own(slots, s), n)
           left == {m \in N : Rank(N, m) >= r}
<1>1. n \in Nat /\ (n - 1) + 1 = n
  BY DEF IsTxs
<1>2. LeftTo(slots, s, n - 1) = left /\ LeftTo(slots, s, n) = {m \in N : Rank(N, m) >= r + 1}
  BY <1>1, RankAfterSlot DEF LeftTo
<1>3. N \in SUBSET Nat /\ IsFiniteSet(N) /\ r \in Nat /\ Cardinality(N) \in Nat
  BY OwnFacts, RankAfterSlot, FS_CardinalityType
<1>4. \A m : Fills(slots, n, m) <=> m \in N /\ Rank(N, m) = r
  BY DEF Fills
<1> HIDE DEF N, r
<1>5. \A m \in N : m \in Nat /\ Rank(N, m) \in Nat /\ Rank(N, m) < Cardinality(N)
  BY <1>3, RankType, RankOrder
<1>6. CASE left = {}
  <2>1. \A m \in N : Rank(N, m) < r
    BY <1>3, <1>5, <1>6
  <2>2. \A m \in N : Rank(N, m) # r /\ ~(Rank(N, m) >= r + 1)
    BY <1>3, <1>5, <2>1
  <2> QED BY <1>2, <1>4, <1>6, <2>2
<1>7. CASE left # {}
  <2>1. r < Cardinality(N)
    <3>1. PICK y \in N : Rank(N, y) >= r
      BY <1>7
    <3> QED BY <1>3, <1>5, <3>1
  <2>2. PICK x \in N : Rank(N, x) = r
    BY <1>3, <2>1, RankOfSome
  <2>3. x \in left /\ left \in SUBSET Nat
    <3>1. Rank(N, x) >= r
      BY <1>3, <2>2
    <3> QED BY <1>3, <3>1
  <2>4. \A y \in left : x <= y
    <3> SUFFICES ASSUME NEW y \in left, ~(x <= y) PROVE FALSE
      OBVIOUS
    <3>1. y \in N /\ y < x /\ Rank(N, y) >= r
      BY <1>5, <2>2
    <3>2. Rank(N, y) < Rank(N, x)
      BY <1>3, <2>2, <3>1, RankOrder
    <3> QED BY <1>3, <1>5, <2>2, <3>1, <3>2
  <2>5. PICK z \in left : z = Min(left) /\ \A y \in left : z <= y
    BY <1>7, <2>3, LeastOf
  <2>6. z = x
    <3>1. z <= x /\ x <= z /\ x \in Nat /\ z \in Nat
      BY <2>3, <2>4, <2>5
    <3> QED BY <3>1
  <2>7. ASSUME NEW m \in N PROVE Rank(N, m) >= r + 1 <=> Rank(N, m) >= r /\ m # x
    <3>1. m \in Nat /\ x \in Nat /\ Rank(N, m) \in Nat
      BY <1>5, <2>2
    <3>2. x < m => Rank(N, x) < Rank(N, m)
      BY <1>3, <2>2, RankOrder
    <3>3. m < x => Rank(N, m) < Rank(N, x)
      BY <1>3, <2>2, RankOrder
    <3> QED BY <1>3, <2>2, <3>1, <3>2, <3>3
  <2> QED BY <1>2, <1>4, <1>7, <2>2, <2>5, <2>6, <2>7
<1> QED BY <1>2, <1>6, <1>7

LEMMA OthersLeft ==
    ASSUME NEW slots, IsTxs(slots), NEW n \in 1..Len(slots),
           NEW r, r # slots[n].sender
    PROVE  LeftTo(slots, r, n) = LeftTo(slots, r, n - 1)
<1>1. n \in Nat /\ (n - 1) + 1 = n
  BY DEF IsTxs
<1>2. Rank(Own(slots, r), n + 1) = Rank(Own(slots, r), n)
  BY RankAfterSlot
<1> QED BY <1>1, <1>2 DEF LeftTo

\* One turn of the last loop.
LEMMA FillStep ==
    ASSUME NEW S, NEW slots \in Seq(S), IsTxs(slots), NEW n \in 1..Len(slots),
           NEW sorted, sorted[n - 1] \in Seq(S),
           sorted[n] = sorted[n - 1]
                           \o SetToSeq(Popped(map_sender_txs(slots), slots, n))
    PROVE  FillSlot(FilledTo(slots, sorted, n - 1), slots[n]) = FilledTo(slots, sorted, n)
<1> DEFINE s == slots[n].sender
           acc == FilledTo(slots, sorted, n - 1)
           next == FilledTo(slots, sorted, n)
           Left == LeftTo(slots, s, n - 1)
           lowest == Min(Left)
<1>1. s \in SendersOf(slots) /\ n \in DOMAIN slots
  BY SenderOfSlot DEF IsTxs
<1>2. PICK u \in Seq(S) : u = sorted[n - 1]
  OBVIOUS
<1>v. PICK v : v = SetToSeq(Popped(map_sender_txs(slots), slots, n))
  OBVIOUS
<1>3. acc.sorted = u /\ next.sorted = u \o v
  BY <1>2, <1>v DEF FilledTo
<1>4. /\ acc.map = [r \in SendersOf(slots) |-> [m \in LeftTo(slots, r, n - 1) |-> LatestOf(slots, r, m)]]
      /\ next.map = [r \in SendersOf(slots) |-> [m \in LeftTo(slots, r, n) |-> LatestOf(slots, r, m)]]
      /\ acc = [map |-> acc.map, sorted |-> acc.sorted]
      /\ next = [map |-> next.map, sorted |-> next.sorted]
  BY DEF FilledTo
<1>5. \A r \in SendersOf(slots) : r # s => next.map[r] = acc.map[r]
  BY <1>4, OthersLeft
<1>6. /\ acc.map[s] = [m \in Left |-> LatestOf(slots, s, m)]
      /\ next.map[s] = [m \in LeftTo(slots, s, n) |-> LatestOf(slots, s, m)]
  BY <1>1, <1>4
<1>7. \/ (~ \E m : Fills(slots, n, m)) /\ v = << >>
      \/ \E m : Fills(slots, n, m) /\ v = <<LatestOf(slots, s, m)>>
  BY <1>1, <1>v, SlotGets
<1>8. FillSlot(acc, slots[n]) =
          IF DOMAIN acc.map[s] = {} THEN acc
          ELSE [map    |-> [acc.map EXCEPT ![s] =
                               [m \in DOMAIN acc.map[s] \ {Min(DOMAIN acc.map[s])} |-> acc.map[s][m]]],
                sorted |-> Append(acc.sorted, acc.map[s][Min(DOMAIN acc.map[s])])]
  BY DEF FillSlot, Restrict
<1> HIDE DEF acc, next
<1>9. CASE Left = {}
  <2>1. v = << >> /\ LeftTo(slots, s, n) = {}
    BY <1>7, <1>9, LowestLeft
  <2>2. next.sorted = acc.sorted
    BY <1>3, <2>1, ConcatEmptySeq
  <2>3. next.map[s] = acc.map[s]
    BY <1>6, <1>9, <2>1
  <2>4. next.map = acc.map
    BY <1>4, <1>5, <2>3
  <2>5. DOMAIN acc.map[s] = {}
    BY <1>6, <1>9
  <2> QED BY <1>4, <1>8, <2>2, <2>4, <2>5 DEF acc, next
<1>10. CASE Left # {}
  <2>1. Fills(slots, n, lowest) /\ LeftTo(slots, s, n) = Left \ {lowest}
    BY <1>10, LowestLeft
  <2>2. v = <<LatestOf(slots, s, lowest)>>
    BY <1>7, <2>1, FillsOnce
  <2>3. Left \in SUBSET Nat
    BY OwnFacts DEF LeftTo
  <2>4. lowest \in Left
    BY <1>10, <2>3, LeastOf
  <2>5. LatestOf(slots, s, lowest) \in S
    BY <2>4, KeptIsGiven DEF LeftTo
  <2> HIDE DEF Left, lowest
  <2>6. DOMAIN acc.map[s] = Left /\ acc.map[s][lowest] = LatestOf(slots, s, lowest)
    BY <1>6, <2>4
  <2>7. next.sorted = Append(acc.sorted, acc.map[s][lowest])
    BY <1>3, <2>2, <2>5, <2>6, AppendIsConcat
  <2>8. next.map[s] = [m \in Left \ {lowest} |-> acc.map[s][m]]
    BY <1>6, <2>1
  <2>9. next.map = [acc.map EXCEPT ![s] = [m \in Left \ {lowest} |-> acc.map[s][m]]]
    BY <1>1, <1>4, <1>5, <2>8
  <2>10. lowest = Min(DOMAIN acc.map[s])
    BY <2>6 DEF lowest
  <2> QED BY <1>4, <1>8, <1>10, <2>6, <2>7, <2>9, <2>10 DEF acc, next
<1> QED BY <1>9, <1>10

LEMMA PoppedList ==
    ASSUME NEW S, NEW slots \in Seq(S), IsTxs(slots), NEW i \in 1..Len(slots)
    PROVE  SetToSeq(Popped(map_sender_txs(slots), slots, i)) \in Seq(S)
<1>1. PICK u : u = SetToSeq(Popped(map_sender_txs(slots), slots, i))
  OBVIOUS
<1>2. i \in DOMAIN slots
  BY DEF IsTxs
<1>3. u = << >> \/ \E m : Fills(slots, i, m) /\ u = <<LatestOf(slots, slots[i].sender, m)>>
  BY <1>1, <1>2, SlotGets
<1>4. CASE \E m : Fills(slots, i, m) /\ u = <<LatestOf(slots, slots[i].sender, m)>>
  <2>1. PICK m : Fills(slots, i, m) /\ u = <<LatestOf(slots, slots[i].sender, m)>>
    BY <1>4
  <2>2. PICK x \in S : x = LatestOf(slots, slots[i].sender, m)
    BY <2>1, KeptIsGiven DEF Fills
  <2> QED BY <1>1, <2>1, <2>2
<1>5. << >> \in Seq(S)
  OBVIOUS
<1> QED BY <1>1, <1>3, <1>4, <1>5

\* The loops give the proposal, for any pending list and any batch.
LEMMA LoopsGiveTheProposal ==
    ASSUME NEW S, NEW waiting, NEW taken,
           NEW slots, slots = waiting \o BatchTransactions(taken),
           slots \in Seq(S), \A x \in S : x.nonce \in Nat
    PROVE  create_proposal_transactions(waiting, taken) = FilledAfter(slots)[Len(slots)].sorted
<1> DEFINE N == Len(slots)
           map == map_sender_txs(slots)
           ss == [i \in 1..N |-> SetToSeq(Popped(map, slots, i))]
           first == [map |-> MapsAfter(slots)[N], sorted |-> << >>]
           Rec(f) == f = [n \in 0..N |-> IF n = 0 THEN first ELSE FillSlot(f[n - 1], slots[n])]
           acc == CHOOSE f : Rec(f)
<1>1. N \in Nat /\ DOMAIN slots = 1..N /\ IsTxs(slots)
  BY LenProperties, ElementOfSeq DEF IsTxs
<1>2. create_proposal_transactions(waiting, taken) = FlattenSeq(ss)
  BY <1>1 DEF create_proposal_transactions
<1>3. FilledAfter(slots) = acc
  BY Zenon DEF FilledAfter
<1>4. ss \in Seq(Seq(S)) /\ Len(ss) = N
  <2>1. \A i \in 1..N : ss[i] \in Seq(S)
    BY <1>1, PoppedList
  <2>2. ss = [i \in 1..N |-> ss[i]]
    OBVIOUS
  <2> HIDE DEF ss
  <2> QED BY <1>1, <2>1, <2>2, ListOf
<1>5. \A n \in 1..N : ss[n] = SetToSeq(Popped(map, slots, n))
  OBVIOUS
<1> HIDE DEF ss
<1> HIDE DEF N
<1>6. PICK f : /\ f[0] = << >> /\ f[N] = FlattenSeq(ss)
               /\ \A m \in 0..N : f[m] \in Seq(S)
               /\ \A m \in 1..N : f[m] = f[m - 1] \o ss[m]
  <2>1. \E f : /\ f[0] = << >> /\ f[Len(ss)] = FlattenSeq(ss)
               /\ \A m \in 0..Len(ss) : f[m] \in Seq(S)
               /\ \A m \in 1..Len(ss) : f[m] = f[m - 1] \o ss[m]
    BY <1>4, FlatSteps
  <2> QED BY <1>4, <2>1
<1> DEFINE F == [n \in 0..N |-> FilledTo(slots, f, n)]
<1>7. first = FilledTo(slots, f, 0)
  <2>1. ASSUME NEW s PROVE LeftTo(slots, s, 0) = Nonces(slots, s)
    <3>1. Below(Own(slots, s), 1) = {}
      BY <1>1 DEF Below, Own
    <3>2. Rank(Own(slots, s), 0 + 1) = 0
      <4>1. 0 + 1 = 1 /\ Cardinality({}) = 0
        BY FS_EmptySet
      <4> QED BY <3>1, <4>1 DEF Rank
    <3>3. \A m \in Nonces(slots, s) : Rank(Nonces(slots, s), m) \in Nat
      BY <1>1, OwnFacts, RankType
    <3> QED BY <3>2, <3>3 DEF LeftTo
  <2>2. map = [s \in SendersOf(slots) |-> [m \in Nonces(slots, s) |-> LatestOf(slots, s, m)]]
    BY MapIs
  <2>3. MapsAfter(slots)[N] = map
    BY <1>1, InsertionsMake DEF N
  <2> HIDE DEF map
  <2> QED BY <1>6, <2>1, <2>2, <2>3 DEF FilledTo
<1>8. ASSUME NEW n \in 1..N PROVE FillSlot(FilledTo(slots, f, n - 1), slots[n]) = FilledTo(slots, f, n)
  <2>1. n - 1 \in 0..N /\ f[n - 1] \in Seq(S)
    BY <1>1, <1>6
  <2>2. f[n] = f[n - 1] \o SetToSeq(Popped(map_sender_txs(slots), slots, n))
    BY <1>5, <1>6
  <2> QED BY <1>1, <2>1, <2>2, FillStep DEF N
<1> HIDE DEF first, map
<1>9. Rec(F)
  <2>1. ASSUME NEW n \in 0..N
        PROVE  FilledTo(slots, f, n) = IF n = 0 THEN first ELSE FillSlot(F[n - 1], slots[n])
    <3>1. CASE n = 0
      BY <1>7, <3>1
    <3>2. CASE n # 0
      <4>1. n \in 1..N /\ n - 1 \in 0..N
        BY <1>1, <3>2
      <4>2. F[n - 1] = FilledTo(slots, f, n - 1)
        BY <4>1
      <4> QED BY <1>8, <3>2, <4>1, <4>2
    <3> QED BY <3>1, <3>2
  <2> QED BY <2>1
<1> HIDE DEF F
<1>10. Rec(acc)
  BY <1>9, Zenon
<1> HIDE DEF acc
<1>11. \A n \in 0..N : acc[n] = IF n = 0 THEN first ELSE FillSlot(acc[n - 1], slots[n])
  BY <1>10, Zenon
<1> DEFINE G == {n \in 0..N : acc[n] = FilledTo(slots, f, n)}
<1>12. 0 \in G
  BY <1>1, <1>7, <1>11
<1>13. ASSUME NEW n \in (0 + 1)..N, n - 1 \in G PROVE n \in G
  <2>1. n \in 1..N /\ n \in 0..N /\ n # 0
    BY <1>1
  <2>2. acc[n] = FillSlot(acc[n - 1], slots[n]) /\ acc[n - 1] = FilledTo(slots, f, n - 1)
    BY <1>11, <1>13, <2>1
  <2> QED BY <1>8, <2>1, <2>2
<1> HIDE DEF G
<1>14. N \in G
  BY <1>1, <1>12, <1>13, UpTo
<1>15. acc[N].sorted = f[N]
  BY <1>14 DEF G, FilledTo
<1> QED BY <1>2, <1>3, <1>6, <1>15 DEF N

LEMMA InputsFollowTheLoops == InputsInv => FollowsTheLoops
<1> SUFFICES ASSUME InputsInv PROVE FollowsTheLoops
  OBVIOUS
<1>1. \A x \in Transactions : x.nonce \in Nat
  BY BuilderConstants
<1>2. Proposal = FilledAfter(Slots)[Len(Slots)].sorted
  BY <1>1, SlotsAreGiven, LoopsGiveTheProposal DEF Slots, Proposal
<1> QED BY <1>2 DEF FollowsTheLoops

\* For any pending transactions and any batch, of any length: the closed form
\* that the other theorems are about is what the loops of
\* create_proposal_transactions produce, insert by insert and pop by pop.
THEOREM AnyProposalFollowsTheLoops == InputSpec => []FollowsTheLoops
<1>1. InputInit => InputsInv
  BY DEF InputInit, InputsInv, NoBatch
<1> QED BY <1>1, InputsStay, InputsFollowTheLoops, PTL DEF InputSpec

-----------------------------------------------------------------------------
(* Sums.                                                                   *)

\* sum gives the sums of the first 0, ..., n numbers.
Adds(sum, numbers, n) ==
    sum = [i \in 0..n |-> IF i = 0 THEN 0 ELSE sum[i - 1] + numbers[i]]

\* The recursive function that Sums is written with exists.
LEMMA AddsExist ==
    ASSUME NEW numbers, NEW n \in Nat
    PROVE  \E sum : Adds(sum, numbers, n)
<1> DEFINE Bad == {m \in Nat : ~ \E sum : Adds(sum, numbers, m)}
           m == Min(Bad)
<1> SUFFICES ASSUME Bad # {} PROVE FALSE
  OBVIOUS
<1>1. m \in Nat /\ m \in Bad /\ \A x \in Bad : m <= x
  BY LeastOf
<1> HIDE DEF m
<1>2. CASE m = 0
  <2> DEFINE g == [i \in 0..0 |-> 0]
  <2>1. \A i \in 0..0 : i = 0
    OBVIOUS
  <2>2. Adds(g, numbers, 0)
    BY <2>1 DEF Adds
  <2> QED BY <1>1, <1>2, <2>2
<1>3. CASE m # 0
  <2>1. m - 1 \in Nat /\ m - 1 \notin Bad
    BY <1>1, <1>3
  <2>2. PICK f : Adds(f, numbers, m - 1)
    BY <2>1
  <2> DEFINE g == [i \in 0..m |-> IF i = 0 THEN 0 ELSE f[i - 1] + numbers[i]]
  <2>3. \A i \in 0..(m - 1) : f[i] = IF i = 0 THEN 0 ELSE f[i - 1] + numbers[i]
    BY <2>2, Zenon DEF Adds
  <2>4. \A i \in 0..(m - 1) : i \in 0..m
    BY <1>1
  <2>5. \A i \in 0..(m - 1) : g[i] = f[i]
    BY <2>3, <2>4
  <2>6. \A i \in 0..m : i # 0 => i - 1 \in 0..(m - 1)
    BY <1>1
  <2>7. Adds(g, numbers, m)
    BY <2>5, <2>6 DEF Adds
  <2> QED BY <1>1, <2>7
<1> QED BY <1>2, <1>3

LEMMA SumsAre ==
    ASSUME NEW numbers \in Seq(Nat), NEW n, n = Len(numbers)
    PROVE  /\ n \in Nat
           /\ Sums(numbers)[0] = 0
           /\ \A i \in 1..n : /\ numbers[i] \in Nat
                              /\ Sums(numbers)[i] = Sums(numbers)[i - 1] + numbers[i]
           /\ \A i \in 0..n : Sums(numbers)[i] \in Nat
           /\ \A i \in 0..n : Sums(numbers)[i] <= Total(numbers)
           /\ Total(numbers) \in Nat
<1>1. n \in Nat /\ \A i \in 1..n : numbers[i] \in Nat
  BY LenProperties, ElementOfSeq
<1> DEFINE f == CHOOSE sum : Adds(sum, numbers, n)
<1>2. Adds(f, numbers, n)
  BY <1>1, AddsExist
<1>3. Sums(numbers) = f
  BY DEF Sums, Adds
<1>4. PICK s : s = Sums(numbers)
  OBVIOUS
<1>5. Adds(s, numbers, n)
  BY <1>2, <1>3, <1>4
<1>6. s[0] = 0
  <2>1. 0 \in 0..n
    BY <1>1
  <2> QED BY <1>5, <2>1, Zenon DEF Adds
<1>7. ASSUME NEW i \in 1..n PROVE s[i] = s[i - 1] + numbers[i]
  <2>1. i \in 0..n /\ i # 0
    BY <1>1
  <2> QED BY <1>5, <2>1, Zenon DEF Adds
<1> DEFINE G == {i \in 0..n : s[i] \in Nat}
<1>8. ASSUME NEW i \in 0..n PROVE i \in G
  <2>1. 0 \in G
    BY <1>1, <1>6
  <2>2. ASSUME NEW m \in (0 + 1)..i, m - 1 \in G PROVE m \in G
    <3>1. m \in 1..n /\ s[m - 1] \in Nat /\ numbers[m] \in Nat
      BY <1>1, <2>2
    <3>2. s[m] = s[m - 1] + numbers[m]
      BY <1>7, <3>1
    <3> QED BY <1>1, <3>1, <3>2
  <2> HIDE DEF G
  <2> QED BY <1>1, <2>1, <2>2, UpTo
<1>9. \A i \in 0..n : s[i] \in Nat
  BY <1>8
<1>10. ASSUME NEW i \in 0..n PROVE s[i] <= s[n]
  <2> DEFINE H == {m \in i..n : s[i] <= s[m]}
  <2>1. i \in H
    BY <1>1, <1>9
  <2>2. ASSUME NEW m \in (i + 1)..n, m - 1 \in H PROVE m \in H
    <3>1. m \in 1..n /\ m - 1 \in 0..n /\ m \in 0..n /\ m \in i..n
      BY <1>1
    <3>2. s[m] = s[m - 1] + numbers[m] /\ numbers[m] \in Nat
      BY <1>1, <1>7, <3>1
    <3>3. s[i] \in Nat /\ s[m - 1] \in Nat /\ s[m] \in Nat /\ s[i] <= s[m - 1]
      BY <1>9, <2>2, <3>1
    <3> QED BY <3>1, <3>2, <3>3
  <2>3. n \in H
    <3> HIDE DEF H
    <3> QED BY <1>1, <2>1, <2>2, UpTo
  <2> QED BY <2>3
<1>11. n \in 0..n
  BY <1>1
<1> QED BY <1>1, <1>4, <1>6, <1>7, <1>9, <1>10, <1>11 DEF Total

\* One number more.
LEMMA SumsOfLonger ==
    ASSUME NEW numbers \in Seq(Nat), NEW longer \in Seq(Nat), NEW n \in Nat, n = Len(numbers),
           Len(longer) = n + 1, \A i \in 1..n : longer[i] = numbers[i]
    PROVE  /\ \A i \in 0..n : Sums(longer)[i] = Sums(numbers)[i]
           /\ Total(longer) = Total(numbers) + longer[n + 1]
<1>1. PICK s : s = Sums(numbers)
  OBVIOUS
<1>2. PICK t : t = Sums(longer)
  OBVIOUS
<1>3. /\ n \in Nat /\ s[0] = 0
      /\ \A i \in 1..n : s[i] = s[i - 1] + numbers[i]
  BY <1>1, SumsAre
<1>4. PICK l \in Nat : l = n + 1
  BY <1>3
<1>5. /\ t[0] = 0
      /\ \A i \in 1..l : t[i] = t[i - 1] + longer[i]
  BY <1>2, <1>4, SumsAre
<1> DEFINE G == {i \in 0..n : t[i] = s[i]}
<1>6. ASSUME NEW i \in 0..n PROVE i \in G
  <2>1. 0 \in G
    BY <1>3, <1>5
  <2>2. ASSUME NEW m \in (0 + 1)..i, m - 1 \in G PROVE m \in G
    <3>1. m \in 1..n /\ m \in 1..l /\ t[m - 1] = s[m - 1] /\ m \in 0..n
      BY <1>3, <1>4, <2>2
    <3> QED BY <1>3, <1>5, <3>1
  <2> HIDE DEF G
  <2> QED BY <1>3, <2>1, <2>2, UpTo
<1>7. \A i \in 0..n : t[i] = s[i]
  BY <1>6
<1>8. t[n + 1] = s[n] + longer[n + 1]
  <2>1. n \in 0..n /\ n + 1 \in 1..l /\ (n + 1) - 1 = n
    BY <1>3, <1>4
  <2>2. t[n + 1] = t[(n + 1) - 1] + longer[n + 1]
    BY <1>5, <2>1
  <2> QED BY <1>7, <2>1, <2>2
<1> QED BY <1>1, <1>2, <1>7, <1>8 DEF Total

\* The amounts of a list of transactions.
LEMMA Amounts ==
    ASSUME NEW txs \in Seq(Transactions), NEW n, n = Len(txs)
    PROVE  /\ n \in Nat
           /\ GasUsed(txs) \in Seq(Nat) /\ Len(GasUsed(txs)) = n
           /\ GasLimits(txs) \in Seq(Nat) /\ Len(GasLimits(txs)) = n
           /\ Blobs(txs) \in Seq(Nat) /\ Len(Blobs(txs)) = n
           /\ \A i \in 1..n : /\ txs[i] \in Transactions
                              /\ GasUsed(txs)[i] = txs[i].gas_used
                              /\ GasLimits(txs)[i] = txs[i].gas_limit
                              /\ Blobs(txs)[i] = txs[i].blobs
<1>1. n \in Nat /\ DOMAIN txs = 1..n /\ \A i \in 1..n : txs[i] \in Transactions
  BY LenProperties, ElementOfSeq
<1>2. \A i \in 1..n : /\ txs[i].gas_used \in Nat /\ txs[i].gas_limit \in Nat
                      /\ txs[i].blobs \in Nat
  BY <1>1, BuilderConstants
<1>3. /\ GasUsed(txs) = [i \in 1..n |-> txs[i].gas_used]
      /\ GasLimits(txs) = [i \in 1..n |-> txs[i].gas_limit]
      /\ Blobs(txs) = [i \in 1..n |-> txs[i].blobs]
  BY <1>1 DEF GasUsed, GasLimits, Blobs
<1>4. PICK u : u = GasUsed(txs)
  OBVIOUS
<1>5. PICK g : g = GasLimits(txs)
  OBVIOUS
<1>6. PICK b : b = Blobs(txs)
  OBVIOUS
<1>7. u = [i \in 1..n |-> u[i]] /\ \A i \in 1..n : u[i] = txs[i].gas_used
  BY <1>3, <1>4
<1>8. g = [i \in 1..n |-> g[i]] /\ \A i \in 1..n : g[i] = txs[i].gas_limit
  BY <1>3, <1>5
<1>9. b = [i \in 1..n |-> b[i]] /\ \A i \in 1..n : b[i] = txs[i].blobs
  BY <1>3, <1>6
<1>10. u \in Seq(Nat) /\ Len(u) = n
  BY <1>1, <1>2, <1>7, ListOf
<1>11. g \in Seq(Nat) /\ Len(g) = n
  BY <1>1, <1>2, <1>8, ListOf
<1>12. b \in Seq(Nat) /\ Len(b) = n
  BY <1>1, <1>2, <1>9, ListOf
<1> QED BY <1>1, <1>4, <1>5, <1>6, <1>7, <1>8, <1>9, <1>10, <1>11, <1>12

\* One transaction more in the block.
OneMore(longer, txs, tx, n) ==
    /\ longer \in Seq(Transactions) /\ Len(longer) = n + 1
    /\ longer[n + 1] = tx /\ \A i \in 1..n : longer[i] = txs[i]
    /\ Range(longer) = Range(txs) \cup {tx}
    /\ \A i \in 0..n : Sums(GasUsed(longer))[i] = Sums(GasUsed(txs))[i]
    /\ Total(GasUsed(longer)) = Total(GasUsed(txs)) + tx.gas_used
    /\ Total(Blobs(longer)) = Total(Blobs(txs)) + tx.blobs

LEMMA AmountsOfLonger ==
    ASSUME NEW txs \in Seq(Transactions), NEW n, n = Len(txs), NEW tx \in Transactions,
           NEW longer, longer = Append(txs, tx)
    PROVE  OneMore(longer, txs, tx, n)
<1>1. /\ longer \in Seq(Transactions) /\ Len(longer) = n + 1
      /\ longer[n + 1] = tx /\ \A i \in 1..n : longer[i] = txs[i]
  BY AppendProperties
<1>2. n \in Nat /\ DOMAIN txs = 1..n /\ DOMAIN longer = 1..(n + 1)
  BY <1>1, LenProperties
<1>3. Range(longer) = Range(txs) \cup {tx}
  <2>1. \A x : x \in Range(txs) <=> \E i \in 1..n : x = txs[i]
    BY <1>2 DEF Range
  <2>2. \A x : x \in Range(longer) <=> \E i \in 1..(n + 1) : x = longer[i]
    BY <1>2 DEF Range
  <2>3. \A i \in 1..(n + 1) : i \in 1..n \/ i = n + 1
    BY <1>2
  <2>4. n + 1 \in 1..(n + 1) /\ \A i \in 1..n : i \in 1..(n + 1)
    BY <1>2
  <2> QED BY <1>1, <2>1, <2>2, <2>3, <2>4
<1>4. PICK l : l = n + 1
  OBVIOUS
<1>5. /\ GasUsed(longer) \in Seq(Nat) /\ Len(GasUsed(longer)) = n + 1
      /\ Blobs(longer) \in Seq(Nat) /\ Len(Blobs(longer)) = n + 1
      /\ \A i \in 1..(n + 1) : /\ GasUsed(longer)[i] = longer[i].gas_used
                               /\ Blobs(longer)[i] = longer[i].blobs
  BY <1>1, Amounts
<1>6. /\ GasUsed(txs) \in Seq(Nat) /\ Len(GasUsed(txs)) = n
      /\ Blobs(txs) \in Seq(Nat) /\ Len(Blobs(txs)) = n
      /\ \A i \in 1..n : /\ GasUsed(txs)[i] = txs[i].gas_used
                         /\ Blobs(txs)[i] = txs[i].blobs
  BY Amounts
<1>7. n + 1 \in 1..(n + 1) /\ \A i \in 1..n : i \in 1..(n + 1)
  BY <1>2
<1>8. /\ \A i \in 1..n : GasUsed(longer)[i] = GasUsed(txs)[i]
      /\ \A i \in 1..n : Blobs(longer)[i] = Blobs(txs)[i]
      /\ GasUsed(longer)[n + 1] = tx.gas_used /\ Blobs(longer)[n + 1] = tx.blobs
  BY <1>1, <1>5, <1>6, <1>7
<1>9. PICK a \in Seq(Nat), b \in Seq(Nat) : a = GasUsed(txs) /\ b = GasUsed(longer)
  BY <1>5, <1>6
<1>10. PICK c \in Seq(Nat), d \in Seq(Nat) : c = Blobs(txs) /\ d = Blobs(longer)
  BY <1>5, <1>6
<1>11. /\ n = Len(a) /\ Len(b) = n + 1 /\ \A i \in 1..n : b[i] = a[i]
       /\ n = Len(c) /\ Len(d) = n + 1 /\ \A i \in 1..n : d[i] = c[i]
       /\ b[n + 1] = tx.gas_used /\ d[n + 1] = tx.blobs
  BY <1>5, <1>6, <1>8, <1>9, <1>10
<1>12. /\ \A i \in 0..n : Sums(b)[i] = Sums(a)[i]
       /\ Total(b) = Total(a) + b[n + 1]
  BY <1>2, <1>9, <1>10, <1>11, SumsOfLonger
<1>13. Total(d) = Total(c) + d[n + 1]
  BY <1>2, <1>9, <1>10, <1>11, SumsOfLonger
<1> QED BY <1>1, <1>3, <1>9, <1>10, <1>11, <1>12, <1>13 DEF OneMore

-----------------------------------------------------------------------------
(* The payload of a proposal.                                              *)

\* How far the walk is.
At == Len(proposal) - Len(best_txs)

\* The transaction runs on the block as it is.
CouldRun(tx) == Executes(tx) /\ Fits(tx) /\ BlobsFit(tx) /\ HasSidecar(tx)

\* The block has room for the whole proposal, and the senders can pay.
Roomy ==
    /\ Total(GasLimits(proposal)) <= BlockGasLimit
    /\ Total(Blobs(proposal)) <= MaxBlobCount
    /\ \A tx \in Range(proposal) : HasSidecar(tx) /\ tx.funded

OnItsWay ==
    /\ proposal \in Seq(Transactions) /\ NonceOrder(proposal)
    /\ best_txs \in Seq(Transactions) /\ Len(best_txs) <= Len(proposal)
    /\ \A i \in 1..Len(best_txs) : best_txs[i] = proposal[At + i]
    /\ included \in Seq(Transactions)
    /\ nonces \in [DOMAIN ParentNonces -> Nat]
    /\ cumulative_gas_used \in Nat /\ block_blob_count \in Nat
    /\ outcome = "none" => /\ proposal = << >> /\ best_txs = << >>
                           /\ included = << >> /\ nonces = ParentNonces
                           /\ cumulative_gas_used = 0 /\ block_blob_count = 0
    /\ outcome = "Better" => best_txs = << >>

Filled ==
    /\ WithinLimits
    /\ block_blob_count = Total(Blobs(included))

\* What was left out could not be taken since.
NoneMissed == \A i \in 1..At : proposal[i] \in Range(included) \/ ~CouldRun(proposal[i])

\* With room for all, the block is the pipeline's so far.
Alike ==
    Roomy =>
        /\ nonces = NoncesAfter(ParentNonces, proposal)[At]
        /\ \A x : x \in Range(included) <=>
                     \E i \in 1..At : /\ x = proposal[i]
                                      /\ Runs(NoncesAfter(ParentNonces, proposal), proposal, i)
        /\ cumulative_gas_used <= Sums(GasLimits(proposal))[At]
        /\ block_blob_count <= Sums(Blobs(proposal))[At]

BuilderInv == OnItsWay /\ Filled /\ NoneMissed /\ Alike

\* A proposal is a list of transactions of the parent's accounts.
LEMMA ProposalIsList ==
    ASSUME NEW txs \in Seq(Transactions)
    PROVE  IsList(DOMAIN ParentNonces, ParentNonces, txs)
<1>1. Len(txs) \in Nat /\ DOMAIN txs = 1..Len(txs) /\ \A i \in 1..Len(txs) : txs[i] \in Transactions
  BY LenProperties, ElementOfSeq
<1> QED BY <1>1, BuilderConstants DEF IsList

\* What holds of a block without transactions, whatever the proposal.
LEMMA EmptyBlock ==
    ASSUME NEW txs \in Seq(Transactions)
    PROVE  /\ Len(txs) \in Nat
           /\ << >> \in Seq(Transactions) /\ Len(<< >>) = 0 /\ DOMAIN << >> = {}
           /\ \A x : x \notin Range(<< >>)
           /\ Total(GasUsed(<< >>)) = 0 /\ Total(Blobs(<< >>)) = 0
           /\ NoncesAfter(ParentNonces, txs)[0] = ParentNonces
           /\ Sums(GasLimits(txs))[0] = 0 /\ Sums(Blobs(txs))[0] = 0
<1>1. << >> \in Seq(Transactions) /\ Len(<< >>) = 0
  BY EmptySeq
<1>2. /\ GasUsed(<< >>) \in Seq(Nat) /\ Len(GasUsed(<< >>)) = 0
      /\ Blobs(<< >>) \in Seq(Nat) /\ Len(Blobs(<< >>)) = 0
  BY <1>1, Amounts
<1>3. Total(GasUsed(<< >>)) = 0 /\ Total(Blobs(<< >>)) = 0
  BY <1>2, SumsAre DEF Total
<1>4. NoncesAfter(ParentNonces, txs)[0] = ParentNonces
  BY ProposalIsList, NoncesTyped
<1>5. Sums(GasLimits(txs))[0] = 0 /\ Sums(Blobs(txs))[0] = 0
  BY Amounts, SumsAre
<1>6. \A x : x \notin Range(<< >>)
  BY DEF Range
<1> QED BY <1>1, <1>3, <1>4, <1>5, <1>6, LenProperties

LEMMA BuilderInvInit == InputInit => BuilderInv
<1> SUFFICES ASSUME InputInit PROVE BuilderInv
  OBVIOUS
<1>1. /\ proposal = << >> /\ best_txs = << >> /\ included = << >> /\ nonces = ParentNonces
      /\ cumulative_gas_used = 0 /\ block_blob_count = 0 /\ outcome = "none"
  BY DEF InputInit, Init
<1>2. << >> \in Seq(Transactions) /\ NonceOrder(<< >>)
  BY EmptySeq DEF NonceOrder
<1>3. At = 0 /\ \A i \in 1..At : FALSE
  BY <1>1, <1>2, EmptyBlock DEF At
<1>4. OnItsWay
  BY <1>1, <1>2, <1>3, EmptyBlock, BuilderConstants DEF OnItsWay
<1>5. Filled
  <2>1. /\ Total(GasUsed(included)) = 0 /\ Total(Blobs(included)) = 0 /\ DOMAIN included = {}
    BY <1>1, <1>2, EmptyBlock
  <2> QED BY <1>1, <2>1, BuilderConstants DEF Filled, WithinLimits
<1>6. Alike
  <2>1. /\ NoncesAfter(ParentNonces, proposal)[0] = nonces
        /\ Sums(GasLimits(proposal))[0] = 0 /\ Sums(Blobs(proposal))[0] = 0
        /\ \A x : x \notin Range(included)
    BY <1>1, <1>2, EmptyBlock
  <2> QED BY <1>1, <1>3, <2>1 DEF Alike
<1> QED BY <1>3, <1>4, <1>5, <1>6 DEF BuilderInv, NoneMissed

\* The transaction whose turn it is.
LEMMA NextOne ==
    ASSUME OnItsWay, Turn
    PROVE  /\ At \in Nat /\ At + 1 \in 1..Len(proposal) /\ At \in 0..Len(proposal)
           /\ Head(best_txs) = proposal[At + 1] /\ Head(best_txs) \in Transactions
           /\ Head(best_txs) \in Range(proposal)
           /\ Tail(best_txs) \in Seq(Transactions)
           /\ Len(proposal) - Len(Tail(best_txs)) = At + 1
           /\ Len(Tail(best_txs)) <= Len(proposal)
           /\ \A i \in 1..Len(Tail(best_txs)) : Tail(best_txs)[i] = proposal[(At + 1) + i]
<1>1. PICK b \in Seq(Transactions) : b = best_txs
  BY DEF OnItsWay
<1>2. PICK n \in Nat : n = Len(proposal) /\ DOMAIN proposal = 1..n
  BY LenProperties DEF OnItsWay
<1>3. /\ Tail(b) \in Seq(Transactions) /\ Len(Tail(b)) = Len(b) - 1 /\ Len(b) \in Nat \ {0}
      /\ Head(b) = b[1] /\ \A i \in 1..Len(Tail(b)) : Tail(b)[i] = b[i + 1]
  BY <1>1, EmptySeq, LenProperties, HeadTailProperties DEF Turn
<1>4. Len(b) <= n /\ At = n - Len(b) /\ \A i \in 1..Len(b) : b[i] = proposal[At + i]
  BY <1>1, <1>2 DEF OnItsWay, At
<1>5. At \in Nat /\ At + 1 \in 1..n /\ At \in 0..n
  BY <1>3, <1>4
<1>6. Head(b) = proposal[At + 1] /\ Head(b) \in Transactions
  BY <1>1, <1>3, <1>4, ElementOfSeq
<1>7. Head(b) \in Range(proposal)
  BY <1>2, <1>5, <1>6 DEF Range
<1>8. ASSUME NEW i \in 1..Len(Tail(b)) PROVE Tail(b)[i] = proposal[(At + 1) + i]
  <2>1. i + 1 \in 1..Len(b) /\ At + (i + 1) = (At + 1) + i
    BY <1>3, <1>5
  <2> QED BY <1>3, <1>4, <2>1
<1> QED BY <1>1, <1>2, <1>3, <1>4, <1>5, <1>6, <1>7, <1>8

\* Where there is room for all, only its nonce keeps a transaction from running.
LEMMA RoomForNext ==
    ASSUME OnItsWay, Alike, Turn, Roomy, NEW tx, tx = Head(best_txs),
           NEW f, f = NoncesAfter(ParentNonces, proposal)
    PROVE  /\ Fits(tx) /\ BlobsFit(tx) /\ HasSidecar(tx) /\ tx.funded
           /\ Executes(tx) <=> Runs(f, proposal, At + 1)
           /\ f[At + 1] = [f[At] EXCEPT ![tx.sender] = IF tx.nonce = @ THEN @ + 1 ELSE @]
           /\ Sums(GasLimits(proposal))[At + 1] = Sums(GasLimits(proposal))[At] + tx.gas_limit
           /\ Sums(Blobs(proposal))[At + 1] = Sums(Blobs(proposal))[At] + tx.blobs
           /\ Sums(GasLimits(proposal))[At] \in Nat /\ Sums(Blobs(proposal))[At] \in Nat
<1>1. PICK k \in Nat, n \in Nat : k = At /\ n = Len(proposal)
  BY NextOne, LenProperties DEF OnItsWay
<1>2. /\ k + 1 \in 1..n /\ k \in 0..n /\ k + 1 \in 0..n /\ (k + 1) - 1 = k
      /\ tx = proposal[k + 1] /\ tx \in Transactions /\ tx \in Range(proposal)
  BY <1>1, NextOne
<1>3. PICK g \in Seq(Nat), b \in Seq(Nat) : g = GasLimits(proposal) /\ b = Blobs(proposal)
  BY Amounts DEF OnItsWay
<1>4. /\ Len(g) = n /\ Len(b) = n
      /\ g[k + 1] = tx.gas_limit /\ b[k + 1] = tx.blobs
  <2>1. /\ proposal \in Seq(Transactions)
        /\ Len(GasLimits(proposal)) = n /\ Len(Blobs(proposal)) = n
    BY <1>1, Amounts DEF OnItsWay
  <2>2. \A i \in 1..n : /\ GasLimits(proposal)[i] = proposal[i].gas_limit
                        /\ Blobs(proposal)[i] = proposal[i].blobs
    BY <1>1, <2>1, Amounts
  <2> QED BY <1>2, <1>3, <2>1, <2>2
<1>5. /\ Sums(g)[k + 1] = Sums(g)[k] + tx.gas_limit
      /\ Sums(g)[k] \in Nat /\ Sums(g)[k + 1] \in Nat /\ Sums(g)[k + 1] <= Total(g) /\ Total(g) \in Nat
  <2>1. /\ \A i \in 1..n : Sums(g)[i] = Sums(g)[i - 1] + g[i]
        /\ \A i \in 0..n : Sums(g)[i] \in Nat /\ Sums(g)[i] <= Total(g)
        /\ Total(g) \in Nat
    BY <1>4, SumsAre
  <2>2. Sums(g)[k + 1] = Sums(g)[(k + 1) - 1] + g[k + 1]
    BY <1>2, <2>1
  <2> QED BY <1>2, <1>4, <2>1, <2>2
<1>6. /\ Sums(b)[k + 1] = Sums(b)[k] + tx.blobs
      /\ Sums(b)[k] \in Nat /\ Sums(b)[k + 1] \in Nat /\ Sums(b)[k + 1] <= Total(b) /\ Total(b) \in Nat
  <2>1. /\ \A i \in 1..n : Sums(b)[i] = Sums(b)[i - 1] + b[i]
        /\ \A i \in 0..n : Sums(b)[i] \in Nat /\ Sums(b)[i] <= Total(b)
        /\ Total(b) \in Nat
    BY <1>4, SumsAre
  <2>2. Sums(b)[k + 1] = Sums(b)[(k + 1) - 1] + b[k + 1]
    BY <1>2, <2>1
  <2> QED BY <1>2, <1>4, <2>1, <2>2
<1>7. /\ nonces = f[k] /\ Total(g) <= BlockGasLimit /\ Total(b) <= MaxBlobCount
      /\ HasSidecar(tx) /\ tx.funded
      /\ cumulative_gas_used <= Sums(g)[k] /\ block_blob_count <= Sums(b)[k]
  BY <1>1, <1>2, <1>3 DEF Alike, Roomy
<1>8. /\ tx.gas_limit \in Nat /\ tx.blobs \in Nat
      /\ BlockGasLimit \in Nat /\ MaxBlobCount \in Nat
      /\ cumulative_gas_used \in Nat /\ block_blob_count \in Nat
  BY <1>2, BuilderConstants DEF OnItsWay
<1>9. Fits(tx)
  <2>1. cumulative_gas_used + tx.gas_limit <= Sums(g)[k] + tx.gas_limit
    BY <1>5, <1>7, <1>8
  <2>2. Sums(g)[k] + tx.gas_limit <= BlockGasLimit
    BY <1>5, <1>7, <1>8
  <2> QED BY <1>5, <1>8, <2>1, <2>2 DEF Fits
<1>10. BlobsFit(tx)
  <2>1. block_blob_count + tx.blobs <= Sums(b)[k] + tx.blobs
    BY <1>6, <1>7, <1>8
  <2>2. Sums(b)[k] + tx.blobs <= MaxBlobCount
    BY <1>6, <1>7, <1>8
  <2> QED BY <1>6, <1>8, <2>1, <2>2 DEF BlobsFit
<1>11. Executes(tx) <=> Runs(f, proposal, k + 1)
  BY <1>2, <1>7 DEF Executes, Runs
<1>12. f[k + 1] = [f[k] EXCEPT ![tx.sender] = IF tx.nonce = @ THEN @ + 1 ELSE @]
  <2>1. Counts(f, ParentNonces, proposal, n)
    BY <1>1, NoncesCount
  <2>2. k + 1 \in 0..n /\ k + 1 # 0
    BY <1>1, <1>2
  <2>3. f[k + 1] = [f[(k + 1) - 1] EXCEPT ![proposal[k + 1].sender] =
                       IF proposal[k + 1].nonce = @ THEN @ + 1 ELSE @]
    BY <2>1, <2>2, Zenon DEF Counts
  <2> QED BY <1>2, <2>3
<1> QED BY <1>1, <1>3, <1>5, <1>6, <1>7, <1>9, <1>10, <1>11, <1>12

\* The next transaction is passed over because it does not run.
LEMMA SkipKeeps ==
    ASSUME BuilderInv, Turn, ~CouldRun(Head(best_txs)), Skip
    PROVE  BuilderInv'
<1>1. PICK k \in Nat, n \in Nat : k = At /\ n = Len(proposal)
  BY NextOne, LenProperties DEF BuilderInv, OnItsWay
<1>2. PICK tx : tx = Head(best_txs)
  OBVIOUS
<1>3. /\ k + 1 \in 1..n /\ k \in 0..n /\ tx = proposal[k + 1] /\ tx \in Transactions
      /\ best_txs' \in Seq(Transactions) /\ n - Len(best_txs') = k + 1 /\ Len(best_txs') <= n
      /\ \A i \in 1..Len(best_txs') : best_txs'[i] = proposal[(k + 1) + i]
  BY <1>1, <1>2, NextOne DEF BuilderInv, Skip
<1>4. UNCHANGED <<proposal, nonces, included, cumulative_gas_used, block_blob_count, outcome>>
  BY DEF Skip, blockVars
<1>5. At' = k + 1
  BY <1>1, <1>3, <1>4 DEF At
<1>6. OnItsWay'
  BY <1>1, <1>3, <1>4, <1>5 DEF BuilderInv, OnItsWay, Turn
<1>7. Filled'
  BY <1>4 DEF BuilderInv, Filled, WithinLimits
<1>8. NoneMissed'
  <2> SUFFICES ASSUME NEW i \in 1..(k + 1)
               PROVE  proposal[i] \in Range(included) \/ ~CouldRun(proposal[i])
    BY <1>4, <1>5 DEF NoneMissed, CouldRun, Executes, Fits, BlobsFit, HasSidecar
  <2>1. CASE i = k + 1
    BY <1>2, <1>3, <2>1
  <2>2. CASE i # k + 1
    <3>1. i \in 1..k
      BY <1>1, <2>2
    <3> QED BY <1>1, <3>1 DEF BuilderInv, NoneMissed
  <2> QED BY <2>1, <2>2
<1>9. Alike'
  <2> SUFFICES ASSUME Roomy PROVE Alike'
    BY <1>4 DEF Alike, Roomy, HasSidecar
  <2>1. PICK f : f = NoncesAfter(ParentNonces, proposal)
    OBVIOUS
  <2>2. PICK g, b : g = Sums(GasLimits(proposal)) /\ b = Sums(Blobs(proposal))
    OBVIOUS
  <2>3. /\ ~Executes(tx) /\ ~Runs(f, proposal, k + 1)
        /\ f[k + 1] = [f[k] EXCEPT ![tx.sender] = IF tx.nonce = @ THEN @ + 1 ELSE @]
        /\ g[k + 1] = g[k] + tx.gas_limit /\ b[k + 1] = b[k] + tx.blobs
        /\ g[k] \in Nat /\ b[k] \in Nat /\ tx.funded
    BY <1>1, <1>2, <2>1, <2>2, RoomForNext DEF BuilderInv, CouldRun
  <2>4. /\ nonces = f[k]
        /\ \A x : x \in Range(included) <=> \E i \in 1..k : x = proposal[i] /\ Runs(f, proposal, i)
        /\ cumulative_gas_used <= g[k] /\ block_blob_count <= b[k]
    BY <1>1, <2>1, <2>2 DEF BuilderInv, Alike
  <2>5. f[k + 1] = nonces
    <3>1. nonces \in [DOMAIN ParentNonces -> Nat] /\ tx.nonce # nonces[tx.sender]
      BY <2>3 DEF BuilderInv, OnItsWay, Executes
    <3> QED BY <2>3, <2>4, <3>1
  <2>6. \A x : x \in Range(included) <=>
                  \E i \in 1..(k + 1) : x = proposal[i] /\ Runs(f, proposal, i)
    <3>1. \A i \in 1..(k + 1) : i \in 1..k \/ i = k + 1
      BY <1>1
    <3>2. \A i \in 1..k : i \in 1..(k + 1)
      BY <1>1
    <3> QED BY <2>3, <2>4, <3>1, <3>2
  <2>7. cumulative_gas_used <= g[k + 1] /\ block_blob_count <= b[k + 1]
    <3>1. /\ tx.gas_limit \in Nat /\ tx.blobs \in Nat
          /\ cumulative_gas_used \in Nat /\ block_blob_count \in Nat
      BY <1>3, BuilderConstants DEF BuilderInv, OnItsWay
    <3> QED BY <2>3, <2>4, <3>1
  <2> QED BY <1>4, <1>5, <2>1, <2>2, <2>5, <2>6, <2>7 DEF Alike
<1> QED BY <1>6, <1>7, <1>8, <1>9 DEF BuilderInv

\* The next transaction runs.
LEMMA ExecuteKeeps ==
    ASSUME BuilderInv, Execute
    PROVE  BuilderInv'
<1>0. Turn
  BY DEF Execute
<1>1. PICK k \in Nat, n \in Nat : k = At /\ n = Len(proposal)
  BY <1>0, NextOne, LenProperties DEF BuilderInv, OnItsWay
<1>2. PICK tx : tx = Head(best_txs)
  OBVIOUS
<1>3. /\ k + 1 \in 1..n /\ k \in 0..n /\ tx = proposal[k + 1] /\ tx \in Transactions
      /\ best_txs' \in Seq(Transactions) /\ n - Len(best_txs') = k + 1 /\ Len(best_txs') <= n
      /\ \A i \in 1..Len(best_txs') : best_txs'[i] = proposal[(k + 1) + i]
  BY <1>0, <1>1, <1>2, NextOne DEF BuilderInv, Execute
<1>4. /\ UNCHANGED <<proposal, outcome>> /\ outcome = "building"
      /\ Fits(tx) /\ BlobsFit(tx) /\ HasSidecar(tx) /\ Executes(tx)
      /\ nonces' = [nonces EXCEPT ![tx.sender] = @ + 1]
      /\ included' = Append(included, tx)
      /\ block_blob_count' = block_blob_count + tx.blobs
      /\ cumulative_gas_used' = cumulative_gas_used + tx.gas_used
  BY <1>2 DEF Execute, Counted, Turn
<1>5. At' = k + 1
  BY <1>1, <1>3, <1>4 DEF At
<1>6. /\ tx.gas_limit \in Nat /\ tx.gas_used \in Nat /\ tx.gas_used <= tx.gas_limit
      /\ tx.blobs \in Nat /\ tx.nonce \in Nat /\ tx.sender \in DOMAIN ParentNonces
      /\ BlockGasLimit \in Nat /\ MaxBlobCount \in Nat
      /\ cumulative_gas_used \in Nat /\ block_blob_count \in Nat
      /\ nonces \in [DOMAIN ParentNonces -> Nat] /\ included \in Seq(Transactions)
  <2>1. /\ tx.gas_limit \in Nat /\ tx.gas_used \in 0..tx.gas_limit
        /\ tx.blobs \in Nat /\ tx.nonce \in Nat /\ tx.sender \in DOMAIN ParentNonces
        /\ BlockGasLimit \in Nat /\ MaxBlobCount \in Nat
    BY <1>3, BuilderConstants
  <2>2. /\ cumulative_gas_used \in Nat /\ block_blob_count \in Nat
        /\ nonces \in [DOMAIN ParentNonces -> Nat] /\ included \in Seq(Transactions)
    BY DEF BuilderInv, OnItsWay
  <2> QED BY <2>1, <2>2
<1>7. /\ included' \in Seq(Transactions) /\ Range(included') = Range(included) \cup {tx}
      /\ Len(included') = Len(included) + 1
      /\ included'[Len(included) + 1] = tx
      /\ \A i \in 1..Len(included) : included'[i] = included[i]
      /\ \A i \in 0..Len(included) : Sums(GasUsed(included'))[i] = Sums(GasUsed(included))[i]
      /\ Total(GasUsed(included')) = Total(GasUsed(included)) + tx.gas_used
      /\ Total(Blobs(included')) = Total(Blobs(included)) + tx.blobs
  <2>1. PICK longer : longer = included'
    OBVIOUS
  <2>2. PICK txs \in Seq(Transactions) : txs = included
    BY <1>6
  <2>3. PICK l : l = Len(txs)
    OBVIOUS
  <2>4. longer = Append(txs, tx)
    BY <1>4, <2>1, <2>2
  <2>5. /\ longer \in Seq(Transactions) /\ Len(longer) = l + 1
        /\ longer[l + 1] = tx /\ \A i \in 1..l : longer[i] = txs[i]
        /\ Range(longer) = Range(txs) \cup {tx}
        /\ \A i \in 0..l : Sums(GasUsed(longer))[i] = Sums(GasUsed(txs))[i]
        /\ Total(GasUsed(longer)) = Total(GasUsed(txs)) + tx.gas_used
        /\ Total(Blobs(longer)) = Total(Blobs(txs)) + tx.blobs
    <3>1. tx \in Transactions
      BY <1>3
    <3>2. OneMore(longer, txs, tx, l)
      BY <2>3, <2>4, <3>1, AmountsOfLonger
    <3> QED BY <3>2 DEF OneMore
  <2> QED BY <2>1, <2>2, <2>3, <2>5
<1>8. OnItsWay'
  <2>1. nonces' \in [DOMAIN ParentNonces -> Nat]
    BY <1>4, <1>6
  <2>2. cumulative_gas_used' \in Nat /\ block_blob_count' \in Nat
    <3>1. tx.gas_used \in Nat /\ tx.blobs \in Nat
      BY <1>6
    <3>2. cumulative_gas_used \in Nat /\ block_blob_count \in Nat
      BY <1>6
    <3>3. /\ cumulative_gas_used' = cumulative_gas_used + tx.gas_used
          /\ block_blob_count' = block_blob_count + tx.blobs
      BY <1>4
    <3> QED BY <3>1, <3>2, <3>3
  <2>3. proposal' \in Seq(Transactions) /\ NonceOrder(proposal)' /\ outcome' = "building"
    BY <1>4 DEF BuilderInv, OnItsWay, NonceOrder
  <2>4. /\ Len(best_txs') <= Len(proposal')
        /\ \A i \in 1..Len(best_txs') : best_txs'[i] = proposal'[At' + i]
    BY <1>1, <1>3, <1>4, <1>5
  <2> QED BY <1>3, <1>7, <2>1, <2>2, <2>3, <2>4 DEF OnItsWay
<1>9. Filled'
  <2>1. /\ cumulative_gas_used = Total(GasUsed(included))
        /\ block_blob_count = Total(Blobs(included)) /\ block_blob_count <= MaxBlobCount
        /\ \A i \in DOMAIN included :
              Sums(GasUsed(included))[i - 1] + included[i].gas_limit <= BlockGasLimit
    BY DEF BuilderInv, Filled, WithinLimits
  <2>2. PICK l \in Nat : l = Len(included) /\ DOMAIN included = 1..l /\ DOMAIN included' = 1..(l + 1)
    BY <1>6, <1>7, LenProperties
  <2>3. ASSUME NEW i \in 1..(l + 1)
        PROVE  Sums(GasUsed(included'))[i - 1] + included'[i].gas_limit <= BlockGasLimit
    <3>1. CASE i = l + 1
      <4>1. Sums(GasUsed(included'))[l] = cumulative_gas_used
        <5>1. Len(GasUsed(included)) = l /\ l \in 0..l
          BY <1>6, <2>2, Amounts
        <5> QED BY <1>7, <2>1, <2>2, <5>1 DEF Total
      <4>2. i - 1 = l /\ included'[i] = tx
        BY <1>7, <2>2, <3>1
      <4> QED BY <1>4, <4>1, <4>2 DEF Fits
    <3>2. CASE i # l + 1
      <4>1. i \in 1..l /\ i - 1 \in 0..l
        BY <3>2
      <4> QED BY <1>7, <2>1, <2>2, <4>1
    <3> QED BY <3>1, <3>2
  <2>4. Total(Blobs(included')) <= MaxBlobCount
    BY <1>4, <1>6, <1>7, <2>1 DEF BlobsFit
  <2> QED BY <1>4, <1>7, <2>1, <2>2, <2>3, <2>4 DEF Filled, WithinLimits
<1>10. NoneMissed'
  <2> SUFFICES ASSUME NEW i \in 1..(k + 1), proposal[i] \notin Range(included'), CouldRun(proposal[i])'
               PROVE  FALSE
    BY <1>4, <1>5 DEF NoneMissed
  <2>1. i \in 1..k
    BY <1>1, <1>3, <1>7
  <2>2. PICK u \in Transactions : u = proposal[i]
    BY <1>1, <1>3, <2>1, ElementOfSeq DEF BuilderInv, OnItsWay
  <2>3. u.gas_limit \in Nat /\ u.blobs \in Nat /\ u.nonce \in Nat /\ u.sender \in DOMAIN ParentNonces
    BY BuilderConstants
  <2>4. ~CouldRun(u)
    BY <1>1, <1>7, <2>1, <2>2 DEF BuilderInv, NoneMissed
  <2>5. Fits(u)
    <3>1. cumulative_gas_used' + u.gas_limit <= BlockGasLimit
      BY <1>4, <2>2 DEF CouldRun, Fits
    <3>2. cumulative_gas_used <= cumulative_gas_used'
      BY <1>4, <1>6
    <3>3. cumulative_gas_used' \in Nat
      BY <1>8 DEF OnItsWay
    <3>4. u.gas_limit \in Nat /\ BlockGasLimit \in Nat /\ cumulative_gas_used \in Nat
      BY <1>6, <2>3
    <3> QED BY <3>1, <3>2, <3>3, <3>4 DEF Fits
  <2>6. BlobsFit(u)
    <3>1. u.blobs > 0 => block_blob_count' + u.blobs <= MaxBlobCount
      BY <1>4, <2>2 DEF CouldRun, BlobsFit
    <3>2. block_blob_count <= block_blob_count'
      BY <1>4, <1>6
    <3>3. block_blob_count' \in Nat
      BY <1>8 DEF OnItsWay
    <3>4. u.blobs \in Nat /\ MaxBlobCount \in Nat /\ block_blob_count \in Nat
      BY <1>6, <2>3
    <3> QED BY <3>1, <3>2, <3>3, <3>4 DEF BlobsFit
  <2>7. HasSidecar(u) /\ u.funded /\ u.nonce = nonces'[u.sender]
    BY <1>4, <2>2 DEF CouldRun, HasSidecar, Executes
  <2>8. CASE u.sender # tx.sender
    <3>1. nonces'[u.sender] = nonces[u.sender]
      BY <1>4, <1>6, <2>3, <2>8
    <3> QED BY <2>4, <2>5, <2>6, <2>7, <3>1 DEF CouldRun, Executes
  <2>9. CASE u.sender = tx.sender
    <3>1. u.nonce < tx.nonce
      <4>1. DOMAIN proposal = 1..n /\ i \in 1..n /\ i < k + 1
        BY <1>1, <1>3, <2>1, LenProperties DEF BuilderInv, OnItsWay
      <4> QED BY <1>3, <2>2, <2>9, <4>1 DEF BuilderInv, OnItsWay, NonceOrder
    <3>2. nonces'[u.sender] = tx.nonce + 1
      BY <1>4, <1>6, <2>9 DEF Executes
    <3> QED BY <1>6, <2>3, <2>7, <3>1, <3>2
  <2> QED BY <2>8, <2>9
<1>11. Alike'
  <2> SUFFICES ASSUME Roomy PROVE Alike'
    BY <1>4 DEF Alike, Roomy, HasSidecar
  <2>1. PICK f : f = NoncesAfter(ParentNonces, proposal)
    OBVIOUS
  <2>2. PICK g, b : g = Sums(GasLimits(proposal)) /\ b = Sums(Blobs(proposal))
    OBVIOUS
  <2>3. /\ Runs(f, proposal, k + 1)
        /\ f[k + 1] = [f[k] EXCEPT ![tx.sender] = IF tx.nonce = @ THEN @ + 1 ELSE @]
        /\ g[k + 1] = g[k] + tx.gas_limit /\ b[k + 1] = b[k] + tx.blobs
        /\ g[k] \in Nat /\ b[k] \in Nat
    BY <1>0, <1>1, <1>2, <1>4, <2>1, <2>2, RoomForNext DEF BuilderInv
  <2>4. /\ nonces = f[k]
        /\ \A x : x \in Range(included) <=> \E i \in 1..k : x = proposal[i] /\ Runs(f, proposal, i)
        /\ cumulative_gas_used <= g[k] /\ block_blob_count <= b[k]
    BY <1>1, <2>1, <2>2 DEF BuilderInv, Alike
  <2>5. f[k + 1] = nonces'
    <3>1. tx.nonce = nonces[tx.sender]
      BY <1>4 DEF Executes
    <3> QED BY <1>4, <1>6, <2>3, <2>4, <3>1
  <2>6. \A x : x \in Range(included') <=>
                  \E i \in 1..(k + 1) : x = proposal[i] /\ Runs(f, proposal, i)
    <3>1. \A i \in 1..(k + 1) : i \in 1..k \/ i = k + 1
      BY <1>1
    <3>2. k + 1 \in 1..(k + 1) /\ \A i \in 1..k : i \in 1..(k + 1)
      BY <1>1
    <3> QED BY <1>3, <1>7, <2>3, <2>4, <3>1, <3>2
  <2>7. cumulative_gas_used' <= g[k + 1] /\ block_blob_count' <= b[k + 1]
    <3>1. cumulative_gas_used + tx.gas_used <= g[k] + tx.gas_limit
      BY <1>6, <2>3, <2>4
    <3>2. block_blob_count + tx.blobs <= b[k] + tx.blobs
      BY <1>6, <2>3, <2>4
    <3> QED BY <1>4, <2>3, <3>1, <3>2
  <2> QED BY <1>4, <1>5, <2>1, <2>2, <2>5, <2>6, <2>7 DEF Alike
<1> QED BY <1>8, <1>9, <1>10, <1>11 DEF BuilderInv

\* Nothing but the outcome changes.
LEMMA BuilderUntouched ==
    ASSUME BuilderInv, UNCHANGED <<proposal, best_txs, blockVars>>, 
           \/ UNCHANGED outcome
           \/ outcome' # "none" /\ (outcome' = "Better" => best_txs = << >>)
    PROVE  BuilderInv'
BY DEF BuilderInv, OnItsWay, Filled, WithinLimits, NoneMissed, Alike, Roomy, At, blockVars,
       CouldRun, Executes, Fits, BlobsFit, HasSidecar

\* What a build gets.
LEMMA ProposalInOrder == InputsInv => Proposal \in Seq(Transactions) /\ NonceOrder(Proposal)
<1> SUFFICES ASSUME InputsInv PROVE Proposal \in Seq(Transactions) /\ NonceOrder(Proposal)
  OBVIOUS
<1>1. \A x \in Transactions : x.nonce \in Nat
  BY BuilderConstants
<1> QED BY <1>1, SlotsAreGiven, ProposalFills, ProposalsAreAsCommitted DEF Slots, Proposal, AsCommitted

LEMMA BuilderInvKept ==
    InputsInv /\ BuilderInv /\ [InputNext]_<<vars, pending, batch>> => BuilderInv'
<1> SUFFICES ASSUME InputsInv, BuilderInv, [InputNext]_<<vars, pending, batch>> PROVE BuilderInv'
  OBVIOUS
<1>1. CASE GrowPending \/ GrowSubdag \/ UNCHANGED <<vars, pending, batch>>
  <2>1. UNCHANGED vars
    BY <1>1 DEF GrowPending, GrowSubdag
  <2> QED BY <2>1, BuilderUntouched DEF vars
<1>2. CASE BuildProposal
  <2>1. PICK txs : txs = Proposal
    OBVIOUS
  <2>2. txs \in Seq(Transactions) /\ NonceOrder(txs)
    BY <2>1, ProposalInOrder
  <2>3. /\ proposal' = txs /\ best_txs' = txs /\ outcome' = "building"
        /\ included' = << >> /\ nonces' = ParentNonces
        /\ cumulative_gas_used' = 0 /\ block_blob_count' = 0
    BY <1>2, <2>1 DEF BuildProposal, Build, BuilderInv, OnItsWay, blockVars
  <2>4. At' = 0 /\ \A i \in 1..At' : FALSE
    BY <2>2, <2>3, EmptyBlock DEF At
  <2>5. OnItsWay'
    BY <2>2, <2>3, <2>4, EmptyBlock, BuilderConstants DEF OnItsWay, NonceOrder
  <2>6. Filled'
    BY <2>2, <2>3, EmptyBlock, BuilderConstants DEF Filled, WithinLimits
  <2>7. Alike'
    BY <2>2, <2>3, <2>4, EmptyBlock DEF Alike
  <2> QED BY <2>4, <2>5, <2>6, <2>7 DEF BuilderInv, NoneMissed
<1>3. CASE ExceedsGasLimit
  BY <1>3, SkipKeeps DEF ExceedsGasLimit, CouldRun
<1>4. CASE BlobRefused
  BY <1>4, SkipKeeps DEF BlobRefused, CouldRun
<1>5. CASE ExecutionRefused
  BY <1>5, SkipKeeps DEF ExecutionRefused, CouldRun
<1>6. CASE Execute
  BY <1>6, ExecuteKeeps
<1>7. CASE Cancelled \/ Fails \/ Finish
  BY <1>7, BuilderUntouched DEF Cancelled, Fails, Finish
<1> QED BY <1>1, <1>2, <1>3, <1>4, <1>5, <1>6, <1>7 DEF InputNext, Walk

LEMMA FilledAtTheEnd == BuilderInv => FilledRightly
<1> SUFFICES ASSUME BuilderInv PROVE NothingLeftOut /\ SameAsPipeline
  BY DEF FilledRightly, BuilderInv, Filled
<1> SUFFICES ASSUME outcome = "Better" PROVE NothingLeftOut /\ SameAsPipeline
  BY DEF NothingLeftOut, SameAsPipeline
<1>1. PICK n \in Nat : n = Len(proposal) /\ DOMAIN proposal = 1..n
  BY LenProperties DEF BuilderInv, OnItsWay
<1>2. At = n
  BY <1>1 DEF BuilderInv, OnItsWay, At
<1>3. \A x : x \in Range(proposal) <=> \E i \in 1..n : x = proposal[i]
  BY <1>1 DEF Range
<1>4. NothingLeftOut
  BY <1>2, <1>3 DEF BuilderInv, NoneMissed, CouldRun, NothingLeftOut
<1>5. SameAsPipeline
  <2> SUFFICES ASSUME Roomy PROVE Range(included) = Executed(ParentNonces, proposal)
    BY DEF SameAsPipeline, Roomy
  <2>1. PICK f : f = NoncesAfter(ParentNonces, proposal)
    OBVIOUS
  <2>2. \A x : x \in Range(included) <=> \E i \in 1..n : x = proposal[i] /\ Runs(f, proposal, i)
    BY <1>2, <2>1 DEF BuilderInv, Alike
  <2>3. IsList(DOMAIN ParentNonces, ParentNonces, proposal)
    BY ProposalIsList DEF BuilderInv, OnItsWay
  <2>4. \A x : x \in Executed(ParentNonces, proposal) <=>
                  \E i \in 1..n : x = proposal[i] /\ Runs(f, proposal, i)
    BY <1>1, <2>1, <2>3, ExecutedAre
  <2> QED BY <2>2, <2>4
<1> QED BY <1>4, <1>5

\* For any proposal, gas limit and blob limit: a payload stays within the limits of its block,
\* leaves nothing out that it could still take, and where everything fits it has what the
\* execution pipeline would execute (the loop of mysticeti_ethereum_payload).
THEOREM PayloadsFilledRightly == InputSpec => []FilledRightly
<1>1. InputInit => InputsInv
  BY DEF InputInit, InputsInv, NoBatch
<1> QED BY <1>1, BuilderInvInit, InputsStay, BuilderInvKept, FilledAtTheEnd, PTL DEF InputSpec
=============================================================================
