---------------------------- MODULE ProposalInputs ----------------------------
(***************************************************************************)
(* ProposalOrder and PayloadBuilder over every input up to MaxSlots        *)
(* transactions: the pending list and the sub-DAGs of the batch grow one   *)
(* transaction at a time, and of any of them a payload is built.  The      *)
(* properties of the proposal say what it is, without its algorithm, and   *)
(* that it is what the loops of the source, run step by step, produce.     *)
(***************************************************************************)
EXTENDS PayloadBuilder

CONSTANTS SubdagsInBatch, MaxSlots

ASSUME ProposalBounds == SubdagsInBatch \in Nat /\ MaxSlots \in Nat

VARIABLES pending, batch

Slots == pending \o BatchTransactions(batch)

Proposal == create_proposal_transactions(pending, batch)

NoBatch == [i \in 1..SubdagsInBatch |-> [transactions |-> << >>]]

InputInit == Init /\ pending = << >> /\ batch = NoBatch

Growing == outcome = "none" /\ Len(Slots) < MaxSlots

GrowPending ==
    /\ Growing
    /\ \E tx \in Transactions : pending' = Append(pending, tx)
    /\ UNCHANGED <<batch, vars>>

GrowSubdag ==
    /\ Growing
    /\ \E i \in DOMAIN batch, tx \in Transactions :
          batch' = [batch EXCEPT ![i].transactions = Append(@, tx)]
    /\ UNCHANGED <<pending, vars>>

\* The input is not looked at again.
BuildProposal ==
    /\ Build(Proposal)
    /\ pending' = << >> /\ batch' = NoBatch

InputNext ==
    \/ GrowPending \/ GrowSubdag \/ BuildProposal
    \/ Walk /\ UNCHANGED <<pending, batch>>

InputSpec == InputInit /\ [][InputNext]_<<vars, pending, batch>>

-----------------------------------------------------------------------------
\* The loops of pool.rs:245-280 taken literally.  The first two insert every
\* transaction into its sender's map ...
InsertTx(map, tx) ==
    [map EXCEPT ![tx.sender] =
        [n \in DOMAIN @ \cup {tx.nonce} |-> IF n = tx.nonce THEN tx ELSE @[n]]]

\* (the maps after the first 0, 1, 2, ... slots)
MapsAfter(slots) ==
    LET map[n \in 0..Len(slots)] ==
            IF n = 0
            THEN [s \in {tx.sender : tx \in Range(slots)} |-> << >>]
            ELSE InsertTx(map[n - 1], slots[n])
    IN  map

\* ... and the third takes the maps apart while it walks the slots again: each
\* one pops the lowest nonce of its sender's map, if it is not empty.
FillSlot(acc, slot) ==
    LET sender_txs == acc.map[slot.sender]
        lowest     == Min(DOMAIN sender_txs)
    IN  IF DOMAIN sender_txs = {}
        THEN acc
        ELSE [map    |-> [acc.map EXCEPT ![slot.sender] =
                             Restrict(@, DOMAIN @ \ {lowest})],
              sorted |-> Append(acc.sorted, sender_txs[lowest])]

\* (what is left, and what came out, after the first 0, 1, 2, ... slots)
FilledAfter(slots) ==
    LET acc[n \in 0..Len(slots)] ==
            IF n = 0
            THEN [map |-> MapsAfter(slots)[Len(slots)], sorted |-> << >>]
            ELSE FillSlot(acc[n - 1], slots[n])
    IN  acc

\* The closed form of the proposal is what the loops make of the same slots: no
\* slot that pops nothing shifts another's turn.
FollowsTheLoops == Proposal = FilledAfter(Slots)[Len(Slots)].sorted

\* All of what a proposal promises about the commits it is made of, for any input: nothing is lost,
\* doubled or out of nonce order, and no sender gains or loses a place.
ProposalAsCommitted == AsCommitted(Slots, Proposal)
=============================================================================
