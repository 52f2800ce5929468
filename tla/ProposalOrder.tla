---------------------------- MODULE ProposalOrder ----------------------------
(***************************************************************************)
(* How ConsensusPool turns committed sub-DAGs into the transaction list of *)
(* a block (execution-client/src/consensus/pool.rs).  Transactions reach   *)
(* the pool in commit order, which need not be nonce order; the pool keeps *)
(* the slots of the commit order and refills each slot with the lowest     *)
(* nonce its sender still has.                                             *)
(*                                                                         *)
(* A transaction is a record [sender, nonce, tag]; the record stands for   *)
(* its hash, so two transactions with one sender and nonce but different   *)
(* tags are different transactions competing for one nonce.                *)
(***************************************************************************)
EXTENDS Integers, Sequences, FiniteSets, SequencesExt

\* What tells two transactions of the chain apart for their execution: at
\* most one transaction of each key is ever executed.
Key(tx) == <<tx.sender, tx.nonce>>

Keys(txs) == {Key(tx) : tx \in txs}

\* The transactions of a batch of sub-DAGs, in commit order.
BatchTransactions(batch) ==
    FlattenSeq([i \in DOMAIN batch |-> batch[i].transactions])

\* Faulty: the first transaction of a nonce stays (entry().or_insert()).
InsertedFirst(slots, given) == slots[Min(given)]

\* BTreeMap::insert: of the slots given for a nonce the last one's transaction
\* replaces the others'.
Inserted(slots, given) == slots[Max(given)]

\* The first two loops: for each sender the transactions of its nonces.
map_sender_txs(slots) ==
    LET Own(s)      == {i \in DOMAIN slots : slots[i].sender = s}
        Given(s, n) == {i \in Own(s) : slots[i].nonce = n}
    IN  [s \in {slots[i].sender : i \in DOMAIN slots} |->
            [n \in {slots[i].nonce : i \in Own(s)} |-> Inserted(slots, Given(s, n))]]

\* Faulty: one entry is popped before the walk starts.
PoppedLate(map, slots, i) ==
    LET sender_txs == map[slots[i].sender]
        before     == {j \in 1..i : slots[j].sender = slots[i].sender}
    IN  {sender_txs[n] : n \in {m \in DOMAIN sender_txs :
            Cardinality({l \in DOMAIN sender_txs : l < m}) = Cardinality(before)}}

\* The second loop: the k-th slot of a sender pops the sender's k-th lowest
\* nonce, or nothing when its nonces are used up.  A set of one transaction,
\* or empty.
Popped(map, slots, i) ==
    LET sender_txs == map[slots[i].sender]
        before     == {j \in 1..(i - 1) : slots[j].sender = slots[i].sender}
    IN  {sender_txs[n] : n \in {m \in DOMAIN sender_txs :
            Cardinality({l \in DOMAIN sender_txs : l < m}) = Cardinality(before)}}

\* The whole method: the pending transactions' slots, then the batch's.  (The
\* walk is a function: TLC computes its argument once, in ENABLED too.)
create_proposal_transactions(pending, batch) ==
    LET all == pending \o BatchTransactions(batch)
        walk[slots \in {all}] ==
            LET map == map_sender_txs(slots)
            IN  FlattenSeq([i \in DOMAIN slots |-> SetToSeq(Popped(map, slots, i))])
    IN  walk[all]

\* What is left of a proposal once the mined transactions are dropped.
Without(txs, tx_hashes) ==
    FlattenSeq([i \in DOMAIN txs |-> IF txs[i] \in tx_hashes THEN << >> ELSE <<txs[i]>>])

-----------------------------------------------------------------------------
(* What is expected of a proposal, whatever it is made of.                 *)

\* Nothing is lost and nothing is invented: exactly one transaction for each
\* (sender, nonce) of the slots, the latest one given (pool.rs: the inserts of
\* both first loops overwrite).
LatestOfEachKey(slots, txs) ==
    /\ Cardinality(Keys(Range(txs))) = Len(txs)
    /\ Range(txs) =
          {slots[i] : i \in {j \in DOMAIN slots :
              \A k \in DOMAIN slots : k > j => Key(slots[k]) # Key(slots[j])}}

\* Every sender's transactions appear in increasing nonce order, whatever
\* order they were committed in ("Order them by sender nonce").
NonceOrder(txs) ==
    \A i, j \in DOMAIN txs :
        i < j /\ txs[i].sender = txs[j].sender => txs[i].nonce < txs[j].nonce

\* Position is inherited from the commit order: the senders of the proposal
\* are the senders of the slots, once each sender's surplus slots (one per
\* duplicate key) are dropped from the end of that sender's slots.
SenderSlots(slots, txs) ==
    LET Earlier(i) == {j \in 1..i : slots[j].sender = slots[i].sender}
        Own(s)     == {slots[j].nonce : j \in {k \in DOMAIN slots : slots[k].sender = s}}
        kept       == {i \in DOMAIN slots :
                          Cardinality(Earlier(i)) <= Cardinality(Own(slots[i].sender))}
    IN  /\ Len(txs) = Cardinality(kept)
        /\ \A k \in DOMAIN txs, i \in kept :
              Cardinality({j \in kept : j <= i}) = k => txs[k].sender = slots[i].sender

\* All of what a proposal promises about the commits it is made of: nothing is
\* lost, doubled or out of nonce order, and no sender gains or loses a place.
AsCommitted(slots, txs) ==
    LatestOfEachKey(slots, txs) /\ NonceOrder(txs) /\ SenderSlots(slots, txs)
=============================================================================
