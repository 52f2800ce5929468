------------------------------ MODULE BeaconState ------------------------------
(***************************************************************************)
(* The beacon state of the consensus client                                *)
(* (consensus-client/src/beacon_chain/beacon_state.rs, beacon_block.rs): it*)
(* turns committed sub-DAGs into payloads that form a chain, and processes *)
(* beacon blocks.  A step is one call of a method that changes it.         *)
(*                                                                         *)
(* main.rs:3 has the module commented out: the model is of what the code   *)
(* does once it is put back.  The state has one owner and no locks.        *)
(*                                                                         *)
(* A 256-bit mix is the set of its 1 bits, <<byte, bit>>; a header's root  *)
(* stands for the header.  Of a block body only what is read is there:     *)
(* slashings, attestations, deposits, exits and sync aggregates are passed *)
(* to functions that do nothing.                                           *)
(***************************************************************************)
EXTENDS SubDagPayload, FiniteSets, FiniteSetsExt, TLC

CONSTANTS
    Subdags,            \* what the core may commit
    Eth1Datas,          \* what a block may vote for
    Bodies,             \* block bodies: [randao_reveal, eth1_data, execution_payload]
    Roots,              \* roots to be kept for a slot
    GenesisHash,        \* genesis_block_hash of the node's configuration
    None,
    SLOTS_PER_EPOCH,
    SLOTS_PER_HISTORICAL_ROOT,
    EPOCHS_PER_HISTORICAL_VECTOR,
    MaxSlot,            \* bound: the last slot reached by advance_slot
    MaxSubdags,         \* bound: sub-DAGs processed
    MaxBlocks,          \* bound: blocks accepted
    MaxRoots            \* bound: roots set

ASSUME BeaconConstants ==
    /\ {SLOTS_PER_EPOCH, SLOTS_PER_HISTORICAL_ROOT, EPOCHS_PER_HISTORICAL_VECTOR}
           \subseteq Nat \ {0}
    /\ {MaxSlot, MaxSubdags, MaxBlocks, MaxRoots} \subseteq Nat
    /\ Eth1Datas # {} /\ \A body \in Bodies : body.eth1_data \in Eth1Datas
    /\ \A subdag \in Subdags : subdag.round \in Nat
    /\ None \notin Nat /\ \A mix \in SUBSET UNION {body.randao_reveal : body \in Bodies} : mix # None

VARIABLES
    slot,
    validators,
    latest_block_hash,     \* of the last payload made of a sub-DAG
    latest_block_header,   \* of the last beacon block
    block_roots, state_roots,
    eth1_data, eth1_data_votes,
    randao_mixes,
    latest_execution_payload_header,
    payloads,              \* history: the sub-DAGs processed, and their payloads
    accepted,              \* history: blocks processed, with the epoch at the time
    written                \* history: the roots set, <<"block" or "state", slot, root>>

chainVars == <<latest_block_hash, payloads>>
rootVars == <<block_roots, state_roots, written>>
blockVars == <<latest_block_header, eth1_data, eth1_data_votes, randao_mixes,
               latest_execution_payload_header, accepted>>
beaconVars == <<slot, validators, chainVars, rootVars, blockVars>>

-----------------------------------------------------------------------------
BeaconBlockHeader == [slot |-> 0, proposer_index |-> 0, parent_root |-> ZERO]

canonical_root(header) == <<header>>

Eth1Default == CHOOSE d \in Eth1Datas : TRUE

new ==
    /\ validators = << >>
    /\ latest_block_hash = ZERO
    /\ randao_mixes = << >>

\* One validator, active from the start, and a full vector of mixes.
from_config ==
    /\ validators = << [activation_epoch |-> 0, exit_epoch |-> None] >>
    /\ latest_block_hash = GenesisHash
    /\ randao_mixes = [i \in 1..EPOCHS_PER_HISTORICAL_VECTOR |-> {}]

BeaconInit ==
    /\ new \/ from_config
    /\ slot = 0
    /\ latest_block_header = BeaconBlockHeader
    /\ block_roots = << >> /\ state_roots = << >>
    /\ eth1_data = Eth1Default /\ eth1_data_votes = << >>
    /\ latest_execution_payload_header = None
    /\ payloads = << >> /\ accepted = << >> /\ written = << >>

-----------------------------------------------------------------------------
(* Slots and sub-DAGs                                                      *)

current_epoch == slot \div SLOTS_PER_EPOCH

advance_slot ==
    /\ slot < MaxSlot
    /\ slot' = slot + 1
    /\ UNCHANGED <<validators, chainVars, rootVars, blockVars>>

\* Answers the default address, whatever was configured.
fee_recipient == NoAddress

\* The slot becomes the leader's round, and then one more.
process_subdag(subdag) ==
    LET payload == get_execution_payload_v3(fee_recipient, latest_block_hash, subdag)
    IN  /\ latest_block_hash' = payload.block_hash
        /\ payloads' = Append(payloads, [subdag |-> subdag, payload |-> payload])
        /\ slot' = subdag.round + 1
        /\ UNCHANGED <<validators, rootVars, blockVars>>

\* What the next forkchoice call names, three times.
get_fork_choice_state ==
    [head_block_hash      |-> latest_block_hash,
     safe_block_hash      |-> latest_block_hash,
     finalized_block_hash |-> latest_block_hash]

-----------------------------------------------------------------------------
(* The rings of roots                                                      *)

\* Faulty: a vector that ends just before the index is not filled.
StoredLate(vector, index, value, filler) ==
    [i \in 1..(IF index <= Len(vector) THEN Len(vector) ELSE index + 1) |->
        IF i = index + 1 THEN value ELSE IF i <= Len(vector) THEN vector[i] ELSE filler]

\* A vector that is too short is filled with zero up to the index.
Stored(vector, index, value, filler) ==
    [i \in 1..(IF index < Len(vector) THEN Len(vector) ELSE index + 1) |->
        IF i = index + 1 THEN value ELSE IF i <= Len(vector) THEN vector[i] ELSE filler]

RootIndex(s) == s % SLOTS_PER_HISTORICAL_ROOT

set_root(roots, s, root) == Stored(roots, RootIndex(s), root, ZERO)

\* None: Error::IndexOutOfBounds.
get_root(roots, s) == IF RootIndex(s) < Len(roots) THEN roots[RootIndex(s) + 1] ELSE None

set_block_root(s, root) ==
    /\ block_roots' = set_root(block_roots, s, root)
    /\ written' = Append(written, <<"block", s, root>>)
    /\ UNCHANGED <<slot, validators, chainVars, state_roots, blockVars>>

set_state_root(s, root) ==
    /\ state_roots' = set_root(state_roots, s, root)
    /\ written' = Append(written, <<"state", s, root>>)
    /\ UNCHANGED <<slot, validators, chainVars, block_roots, blockVars>>

-----------------------------------------------------------------------------
(* The proposer                                                            *)

MixIndex(epoch) == epoch % EPOCHS_PER_HISTORICAL_VECTOR

get_randao_mix(epoch) ==
    IF MixIndex(epoch) < Len(randao_mixes) THEN randao_mixes[MixIndex(epoch) + 1] ELSE None

set_randao_mix(epoch, mix) == Stored(randao_mixes, MixIndex(epoch), mix, {})

\* The epoch's bytes are xored into a copy that is dropped: the seed is the mix.
compute_seed(mix, epoch) == mix

is_active(validator, epoch) ==
    /\ validator.activation_epoch <= epoch
    /\ validator.exit_epoch = None \/ epoch < validator.exit_epoch

get_active_validator_indices(epoch) ==
    SelectSeq([i \in DOMAIN validators |-> i - 1], LAMBDA v : is_active(validators[v + 1], epoch))

\* Each byte of the seed weighs as much as its place.
compute_proposer_index(indices, seed) ==
    LET sum == MapThenSumSet(LAMBDA b : (b[1] + 1) * 2^b[2], seed)
    IN  indices[(sum % Len(indices)) + 1]

\* None: an error, for want of a mix or of a validator.
get_beacon_proposer_index ==
    LET mix == get_randao_mix(current_epoch)
        indices == get_active_validator_indices(current_epoch)
    IN  IF mix = None \/ indices = << >> THEN None
        ELSE compute_proposer_index(indices, compute_seed(mix, current_epoch))

-----------------------------------------------------------------------------
(* Blocks                                                                  *)

\* Faulty: a block of the latest header's slot is taken again.
HeaderValidAgain(header, verify_block_root) ==
    /\ header.slot = slot
    /\ header.slot >= latest_block_header.slot
    /\ header.proposer_index = get_beacon_proposer_index
    /\ verify_block_root => header.parent_root = canonical_root(latest_block_header)

HeaderValid(header, verify_block_root) ==
    /\ header.slot = slot
    /\ header.slot > latest_block_header.slot
    /\ header.proposer_index = get_beacon_proposer_index
    /\ verify_block_root => header.parent_root = canonical_root(latest_block_header)

Xor(a, b) == (a \ b) \cup (b \ a)

Mixed(mix, reveal) == Xor(mix, reveal)

Votes(votes, data) == Cardinality({i \in DOMAIN votes : votes[i] = data})

Majority(votes, data) == Votes(votes, data) * 2 > Len(votes)

\* The vote is counted with those of all blocks before.
process_eth1_data(data) ==
    /\ eth1_data_votes' = Append(eth1_data_votes, data)
    /\ eth1_data' = IF Majority(eth1_data_votes', data) THEN data ELSE eth1_data

\* The header keeps the hash of the payload; its root of the transactions is not computed.
from_execution_payload(payload) ==
    [block_hash |-> payload.block_hash, transactions_root |-> ZERO]

\* A block without a payload leaves the header.
process_execution_payload(body) ==
    latest_execution_payload_header' =
        IF body.execution_payload = None THEN latest_execution_payload_header
        ELSE from_execution_payload(body.execution_payload)

process_randao(mix, randao_reveal) ==
    randao_mixes' = set_randao_mix(current_epoch, Mixed(mix, randao_reveal))

\* Header and execution payload are stored first; without a mix the rest fails.
process_block(block, verify_block_root) ==
    LET mix == get_randao_mix(current_epoch)
    IN  /\ HeaderValid(block.header, verify_block_root)
        /\ latest_block_header' = block.header
        /\ process_execution_payload(block.body)
        /\ IF mix = None
           THEN UNCHANGED <<randao_mixes, eth1_data, eth1_data_votes, accepted>>
           ELSE /\ process_randao(mix, block.body.randao_reveal)
                /\ process_eth1_data(block.body.eth1_data)
                /\ accepted' = Append(accepted, [block |-> block, epoch |-> current_epoch])
        /\ UNCHANGED <<slot, validators, chainVars, rootVars>>

\* A header that does not pass leaves everything.
refuse_block(block, verify_block_root) ==
    /\ ~HeaderValid(block.header, verify_block_root)
    /\ UNCHANGED <<slot, validators, chainVars, rootVars, blockVars>>

\* The blocks somebody may build: on the latest block or on nothing known.
Blocks ==
    [header : [slot : {slot, slot + 1}, proposer_index : {0, 1},
               parent_root : {canonical_root(latest_block_header), ZERO}],
     body : Bodies]

-----------------------------------------------------------------------------
ProcessSubdag ==
    /\ Len(payloads) < MaxSubdags
    /\ \E subdag \in Subdags : process_subdag(subdag)

\* (A block on an unknown parent, if not verified, does what one on the latest does.)
ProcessBlock ==
    /\ Len(accepted) < MaxBlocks
    /\ \E block \in Blocks, verify_block_root \in BOOLEAN :
          /\ block.header.parent_root = ZERO => verify_block_root
          /\ \/ process_block(block, verify_block_root)
             \/ refuse_block(block, verify_block_root)

\* The roots of the slot the state is at.
SetRoot ==
    /\ Len(written) < MaxRoots
    /\ \E root \in Roots : set_block_root(slot, root) \/ set_state_root(slot, root)

BeaconNext == advance_slot \/ ProcessSubdag \/ ProcessBlock \/ SetRoot

BeaconSpec == BeaconInit /\ [][BeaconNext]_beaconVars

-----------------------------------------------------------------------------
\* Vectors never outgrow their period, and the mixes are there from the start or
\* not at all.
BeaconTypeOK ==
    /\ slot \in Nat
    /\ Len(block_roots) <= SLOTS_PER_HISTORICAL_ROOT
    /\ Len(state_roots) <= SLOTS_PER_HISTORICAL_ROOT
    /\ Len(randao_mixes) \in {0, EPOCHS_PER_HISTORICAL_VECTOR}
    /\ eth1_data \in Eth1Datas /\ eth1_data_votes \in Seq(Eth1Datas)
    /\ latest_execution_payload_header = None
           \/ latest_execution_payload_header.transactions_root = ZERO

\* The payloads form a chain whose head the fork choice names, whatever blocks are
\* processed in between; no two have the same hash, also when the core commits the
\* same sub-DAG again.
PayloadsChained ==
    LET Made(n) == payloads[n].payload
    IN  /\ \A n \in DOMAIN payloads : n > 1 => Made(n).header.parent_hash = Made(n - 1).block_hash
        /\ payloads # << >> =>
               get_fork_choice_state.head_block_hash = Made(Len(payloads)).block_hash
        /\ \A m, n \in DOMAIN payloads : Made(m).block_hash = Made(n).block_hash => m = n

\* Data that most of all votes are for is the data in force, although it is looked
\* at only when a vote for it comes in, and votes are never cleared.
MajorityAdopted ==
    \A data \in Eth1Datas : Majority(eth1_data_votes, data) => eth1_data = data

\* The blocks processed in the epochs of a mix whose reveal has the bit.
Flips(bit, index) ==
    {n \in DOMAIN accepted : /\ MixIndex(accepted[n].epoch) = index
                             /\ bit \in accepted[n].block.body.randao_reveal}

\* A mix is the xor of the reveals of the blocks processed in its epoch and in those
\* a whole period before it: it has the bits that an odd number of them has.
MixesCollectReveals ==
    \A i \in 0..(Len(randao_mixes) - 1) :
        randao_mixes[i + 1] =
            {bit \in UNION {body.randao_reveal : body \in Bodies} :
                Cardinality(Flips(bit, i)) % 2 = 1}

\* A root read back is the one last written in its place, through fillings and turns
\* of the ring.
RootsReadBack ==
    \A n \in DOMAIN written :
        LET kind == written[n][1]
            s == written[n][2]
        IN  (\A m \in DOMAIN written :
                m > n /\ written[m][1] = kind
                    => written[m][2] % SLOTS_PER_HISTORICAL_ROOT # s % SLOTS_PER_HISTORICAL_ROOT)
            => get_root(IF kind = "block" THEN block_roots ELSE state_roots, s) = written[n][3]

\* The rings keep what was put into them, and their length.
RingsKeepWhatWasPut == BeaconTypeOK /\ MixesCollectReveals /\ RootsReadBack

\* Blocks take effect whole or not at all: header, vote and execution payload in the
\* state are those of the blocks accepted, whose slots grow although a sub-DAG may
\* set the slot back.
BlocksWhole ==
    /\ Len(eth1_data_votes) = Len(accepted)
    /\ accepted # << >> => latest_block_header = Last(accepted).block.header
    /\ accepted = << >> => latest_block_header = BeaconBlockHeader
    /\ \A m, n \in DOMAIN accepted :
          m < n => accepted[m].block.header.slot < accepted[n].block.header.slot
    /\ LET given == {n \in DOMAIN accepted : accepted[n].block.body.execution_payload # None}
       IN  \/ given = {} /\ latest_execution_payload_header = None
           \/ \E n \in given :
                 /\ \A m \in given : m <= n
                 /\ latest_execution_payload_header =
                       from_execution_payload(accepted[n].block.body.execution_payload)

\* A block that is accepted takes effect, with its vote.
BlocksTakeEffect == BlocksWhole /\ MajorityAdopted
=============================================================================
