---------------------------- MODULE PayloadBuilder ----------------------------
(***************************************************************************)
(* How a proposal becomes a payload: mysticeti_ethereum_payload            *)
(* (execution-client/src/payload/builder.rs) walks the proposal once, over *)
(* the first-in first-out iterator of best.rs, and puts in what fits and   *)
(* executes.  A step is one turn of the loop.                              *)
(*                                                                         *)
(* A transaction is a record [sender, nonce, gas_limit, gas_used, blobs,   *)
(* sidecar, funded]: gas_used is what its execution takes, blobs the      *)
(* number of its blobs, sidecar whether the transaction pool has blobs of  *)
(* the fork's format for it, funded whether its sender can pay.            *)
(***************************************************************************)
EXTENDS ProposalOrder, Executor

CONSTANTS
    Transactions,    \* what a proposal may hold
    ParentNonces,    \* the account nonces of the parent block
    BlockGasLimit,
    MaxBlobCount     \* of the fork the block is in; 0 before Cancun

\* No transaction uses more gas than its limit (a rule of the EVM).
ASSUME BuilderConstants ==
    /\ BlockGasLimit \in Nat /\ MaxBlobCount \in Nat
    /\ ParentNonces \in [DOMAIN ParentNonces -> Nat]
    /\ \A tx \in Transactions :
          /\ tx.gas_limit \in Nat /\ tx.gas_used \in 0..tx.gas_limit
          /\ tx.blobs \in Nat /\ tx.sidecar \in BOOLEAN /\ tx.funded \in BOOLEAN
          /\ tx.nonce \in Nat /\ tx.sender \in DOMAIN ParentNonces

VARIABLES
    proposal,             \* what the walk started with
    best_txs,             \* what is left of it
    nonces,               \* the account nonces of the block being built
    included,             \* its transactions; the blob ones have their sidecars
    cumulative_gas_used,
    block_blob_count,
    outcome               \* "none", "building", or how the attempt ended

blockVars == <<nonces, included, cumulative_gas_used, block_blob_count>>
vars == <<proposal, best_txs, blockVars, outcome>>

Init ==
    /\ proposal = << >> /\ best_txs = << >>
    /\ nonces = ParentNonces
    /\ included = << >>
    /\ cumulative_gas_used = 0 /\ block_blob_count = 0
    /\ outcome = "none"

\* An attempt begins: best_txs is made of what get_proposal_transactions returned.
Build(txs) ==
    /\ outcome = "none"
    /\ proposal' = txs /\ best_txs' = txs
    /\ outcome' = "building"
    /\ UNCHANGED blockVars

-----------------------------------------------------------------------------
(* The conditions, in the order of the loop.                               *)

\* Capacity is asked for the limit, and taken by what was used.
Fits(tx) == cumulative_gas_used + tx.gas_limit <= BlockGasLimit

BlobsFit(tx) == tx.blobs > 0 => block_blob_count + tx.blobs <= MaxBlobCount

HasSidecar(tx) == tx.blobs > 0 => tx.sidecar

\* The EVM's verdict on a transaction of the right size.
Executes(tx) == tx.nonce = nonces[tx.sender] /\ tx.funded

Turn == outcome = "building" /\ best_txs # << >>

\* The loop goes on with the next transaction.  Some skipped transactions are
\* marked invalid, which changes nothing: BestTransactions ignores it (best.rs:28).
Skip ==
    /\ best_txs' = Tail(best_txs)
    /\ UNCHANGED <<proposal, blockVars, outcome>>

-----------------------------------------------------------------------------
\* Faulty: the first transaction without room ends the walk.
StopWhenFull ==
    /\ Turn
    /\ ~Fits(Head(best_txs))
    /\ best_txs' = << >>
    /\ UNCHANGED <<proposal, blockVars, outcome>>

ExceedsGasLimit ==
    /\ Turn
    /\ ~Fits(Head(best_txs))
    /\ Skip

\* The job was cancelled: looked at once per transaction that fits.
Cancelled ==
    /\ Turn
    /\ Fits(Head(best_txs))
    /\ outcome' = "Cancelled"
    /\ UNCHANGED <<proposal, best_txs, blockVars>>

\* Too many blobs, or no usable sidecar.
BlobRefused ==
    LET tx == Head(best_txs)
    IN  /\ Turn
        /\ Fits(tx)
        /\ ~BlobsFit(tx) \/ ~HasSidecar(tx)
        /\ Skip

ExecutionRefused ==
    LET tx == Head(best_txs)
    IN  /\ Turn
        /\ Fits(tx) /\ BlobsFit(tx) /\ HasSidecar(tx)
        /\ ~Executes(tx)
        /\ Skip

Counted(tx) == tx.blobs

Execute ==
    LET tx == Head(best_txs)
    IN  /\ Turn
        /\ Fits(tx) /\ BlobsFit(tx) /\ HasSidecar(tx)
        /\ Executes(tx)
        /\ best_txs' = Tail(best_txs)
        /\ nonces' = [nonces EXCEPT ![tx.sender] = @ + 1]
        /\ included' = Append(included, tx)
        /\ block_blob_count' = block_blob_count + Counted(tx)
        /\ cumulative_gas_used' = cumulative_gas_used + tx.gas_used
        /\ UNCHANGED <<proposal, outcome>>

\* A fatal error of the EVM, or of the pool's blob store, ends the attempt.
Fails ==
    /\ outcome = "building"
    /\ outcome' = "Error"
    /\ UNCHANGED <<proposal, best_txs, blockVars>>

Finish ==
    /\ outcome = "building" /\ best_txs = << >>
    /\ outcome' = "Better"
    /\ UNCHANGED <<proposal, best_txs, blockVars>>

\* The turns of one attempt; ProposalInputs gives it its proposal.
Walk ==
    \/ ExceedsGasLimit \/ Cancelled \/ BlobRefused \/ ExecutionRefused
    \/ Execute \/ Fails \/ Finish

-----------------------------------------------------------------------------
\* The sums of the first 0, 1, 2, ... numbers of a list.
Sums(numbers) ==
    LET sum[n \in 0..Len(numbers)] == IF n = 0 THEN 0 ELSE sum[n - 1] + numbers[n]
    IN  sum

Total(numbers) == Sums(numbers)[Len(numbers)]

GasUsed(txs)   == [i \in DOMAIN txs |-> txs[i].gas_used]
GasLimits(txs) == [i \in DOMAIN txs |-> txs[i].gas_limit]
Blobs(txs)     == [i \in DOMAIN txs |-> txs[i].blobs]

\* The block's gas is what its transactions used, each of which still had its
\* whole limit left when its turn came; and its blobs are within the fork's
\* limit.
WithinLimits ==
    /\ \A i \in DOMAIN included :
          Sums(GasUsed(included))[i - 1] + included[i].gas_limit <= BlockGasLimit
    /\ cumulative_gas_used = Total(GasUsed(included))
    /\ Total(Blobs(included)) <= MaxBlobCount

\* A payload leaves nothing out that it could still take: no transaction of the
\* proposal runs on the finished block, fits in its gas and finds its blobs.
\* One pass is enough because the proposal has each sender's nonces in order.
NothingLeftOut ==
    outcome = "Better" =>
        \A tx \in Range(proposal) \ Range(included) :
            ~(Executes(tx) /\ Fits(tx) /\ BlobsFit(tx) /\ HasSidecar(tx))

\* When everything fits and is paid for, the payload has the transactions the
\* execution pipeline would execute of the same proposal: the two modes of the
\* execution client agree.
SameAsPipeline ==
    (/\ outcome = "Better"
     /\ Total(GasLimits(proposal)) <= BlockGasLimit
     /\ Total(Blobs(proposal)) <= MaxBlobCount
     /\ \A tx \in Range(proposal) : HasSidecar(tx) /\ tx.funded)
    => Range(included) = Executed(ParentNonces, proposal)

\* The builder takes what there is room for, no more and no less, and what the pipeline would.
FilledRightly == WithinLimits /\ NothingLeftOut /\ SameAsPipeline
=============================================================================
