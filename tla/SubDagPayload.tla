----------------------------- MODULE SubDagPayload -----------------------------
(***************************************************************************)
(* The two ways the consensus client has of making an execution payload of *)
(* a committed sub-DAG by itself: SubDagBlock of beacon_chain/             *)
(* beacon_state.rs, whose payloads have a parent and a block hash, and     *)
(* SubDagBlock of engine_api/payload.rs with the Merkle root of hash.rs.   *)
(*                                                                         *)
(* A sub-DAG is a record [round, index, timestamp_ms, blocks], a block the *)
(* sequence of its transactions' data.  A hash stands for what was hashed, *)
(* so that two hashes are equal just when their inputs are.  What is the   *)
(* same in every payload is left out: gas limit and use, base fee, blob    *)
(* gas, withdrawals.                                                       *)
(***************************************************************************)
EXTENDS Integers, Sequences, SequencesExt

CONSTANTS
    ZERO,       \* Hash256::ZERO
    NoAddress   \* Address::default()

flatten_transactions(subdag) == FlattenSeq(subdag.blocks)

timestamp_secs(subdag) == subdag.timestamp_ms \div 1000

-----------------------------------------------------------------------------
(* beacon_state.rs                                                         *)

calculate_state_root(txs) == IF txs = << >> THEN ZERO ELSE <<"transactions", txs>>

calculate_receipts_root(txs) == IF txs = << >> THEN ZERO ELSE <<"count", Len(txs)>>

\* The bits set: eight from the number of transactions on.
calculate_logs_bloom(txs) ==
    IF txs = << >> THEN {} ELSE {(Len(txs) + i) % 2048 : i \in 0..7}

calculate_prev_randao(subdag) == <<subdag.timestamp_ms, subdag.round>>

create_extra_data(subdag) == <<subdag.round, subdag.timestamp_ms, subdag.index>>

BlockHeaderForHashing(fee_recipient, parent_hash, subdag) ==
    LET txs == flatten_transactions(subdag)
    IN  [parent_hash   |-> parent_hash,
         fee_recipient |-> fee_recipient,
         state_root    |-> calculate_state_root(txs),
         receipts_root |-> calculate_receipts_root(txs),
         logs_bloom    |-> calculate_logs_bloom(txs),
         prev_randao   |-> calculate_prev_randao(subdag),
         block_number  |-> subdag.index,
         timestamp     |-> timestamp_secs(subdag),
         extra_data    |-> create_extra_data(subdag)]

\* Faulty: the parent is not among the hashed fields.
rlp_encode_orphan(header) == [header EXCEPT !.parent_hash = ZERO]

\* The hash is over all fields of the header.
rlp_encode(header) == header

get_execution_payload_v3(fee_recipient, parent_hash, subdag) ==
    LET header == BlockHeaderForHashing(fee_recipient, parent_hash, subdag)
    IN  [header       |-> header,
         block_hash   |-> rlp_encode(header),
         transactions |-> flatten_transactions(subdag)]

-----------------------------------------------------------------------------
(* hash.rs                                                                 *)

Leaf(data) == <<"leaf", data>>

\* The layer above: hashes of pairs, an odd last node paired with itself.
Pairs(layer) ==
    [n \in 1..((Len(layer) + 1) \div 2) |->
        <<"node", layer[2 * n - 1], layer[IF 2 * n > Len(layer) THEN 2 * n - 1 ELSE 2 * n]>>]

merkle_root_keccak(txs) ==
    LET layers[n \in 0..Len(txs)] ==
            IF n = 0 THEN [i \in DOMAIN txs |-> Leaf(txs[i])]
            ELSE IF Len(layers[n - 1]) > 1 THEN Pairs(layers[n - 1])
            ELSE layers[n - 1]
    IN  IF txs = << >> THEN <<"leaf", << >> >> ELSE Head(layers[Len(txs)])

-----------------------------------------------------------------------------
(* payload.rs: parent, author and block hash are placeholders.             *)

get_execution_payload_input_v2(subdag) ==
    [parent_hash   |-> ZERO,
     fee_recipient |-> NoAddress,
     state_root    |-> merkle_root_keccak(flatten_transactions(subdag)),
     block_number  |-> subdag.index,
     timestamp     |-> timestamp_secs(subdag),
     block_hash    |-> ZERO,
     transactions  |-> flatten_transactions(subdag)]
=============================================================================
