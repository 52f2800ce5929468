--------------------------- MODULE MCConsensusPool ---------------------------
(***************************************************************************)
(* Two parts of the execution client that share no state, for TLC.  The    *)
(* pool behind its RPC, with one caller at a time: commits arriving in any *)
(* order, late, twice, with other contents than before (a network that was *)
(* started again), or with data that is no transaction.  And a proposal    *)
(* with its payload, for every input up to MaxSlots transactions.  A       *)
(* behavior is one of one part, and the other stays in its initial state.  *)
(***************************************************************************)
EXTENDS CommittedSubdagRpc, ProposalInputs

CONSTANT Garbage

VARIABLE part

inputVars == <<vars, pending, batch>>

MCInit == part \in {"pool", "proposal"} /\ RpcInit /\ InputInit

MCNext ==
    /\ UNCHANGED part
    /\ \/ part = "pool" /\ RpcNext /\ UNCHANGED inputVars
       \/ part = "proposal" /\ InputNext /\ UNCHANGED rpcVars

MCSpec == MCInit /\ [][MCNext]_<<part, rpcVars, inputVars>>

-----------------------------------------------------------------------------
(* The pool's commits.                                                     *)

\* One sender: nonce 0 appears in two commits and nonce 1 under two hashes.
Tx(n, t) == [sender |-> 1, nonce |-> n, tag |-> t]
Other(n) == [sender |-> 2, nonce |-> n, tag |-> 0]
Commit(r, blocks) == [commit_ref |-> r, timestamp_ms |-> 1000 * r, blocks |-> blocks]

MCCommits ==
    {Commit(1, << <<Tx(1, 0)>>, << >>, <<Other(0)>> >>),
     Commit(2, << <<Tx(0, 0)>> >>),
     Commit(2, << <<Tx(1, 1), Tx(0, 0)>> >>),
     Commit(3, << <<Other(2)>>, <<Tx(0, 0)>> >>),
     Commit(3, << <<Other(2), Garbage>>, <<Tx(1, 0)>> >>),
     Commit(4, << <<Other(1), Tx(2, 0)>> >>)}

MCSubdags == {convert_committed_subdag(From(c)) : c \in MCCommits} \ {None}

-----------------------------------------------------------------------------
(* The proposal's transactions.                                            *)

MCTx(s, n, limit, used, blobs, sidecar, funded) ==
    [sender |-> s, nonce |-> n, gas_limit |-> limit, gas_used |-> used,
     blobs |-> blobs, sidecar |-> sidecar, funded |-> funded]

\* Three nonces of a, whose next is 1, and two of b; for three of the nonces a competing
\* transaction.  Gas in units of a small block, blobs up to the limit, a sidecar missing, a
\* sender without funds.
MCTransactions ==
    {MCTx("a", 0, 1, 1, 0, FALSE, TRUE), MCTx("a", 1, 2, 2, 0, FALSE, TRUE),
     MCTx("a", 2, 3, 2, 0, FALSE, TRUE), MCTx("a", 2, 2, 2, 2, TRUE, TRUE),
     MCTx("b", 0, 1, 1, 1, TRUE, TRUE), MCTx("b", 0, 1, 1, 1, FALSE, TRUE),
     MCTx("b", 1, 2, 2, 1, TRUE, TRUE), MCTx("b", 1, 1, 1, 0, FALSE, FALSE)}

MCParentNonces == [s \in {"a", "b"} |-> IF s = "a" THEN 1 ELSE 0]
=============================================================================
