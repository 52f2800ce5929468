-------------------------- MODULE CommittedSubdagRpc --------------------------
(***************************************************************************)
(* The way of a committed sub-DAG from the consensus core to the pool: the *)
(* consensus client rewrites it for the wire (reth-extension/src/types),   *)
(* the execution client's handler decodes its transactions and adds it to  *)
(* the pool (execution-client/src/rpc/mysticeti.rs).                       *)
(*                                                                         *)
(* A committed sub-DAG of the core has blocks, each a sequence of          *)
(* transaction data.  Data that decodes stands for its transaction.  What  *)
(* nothing downstream reads is left out: leader, reputation scores, block  *)
(* digests and the handler's debug counter.                                *)
(***************************************************************************)
EXTENDS ConsensusPool

CONSTANTS
    Commits,       \* the sub-DAGs the core may hand over
    Undecodable,   \* transaction data that Recovered::decode refuses
    MaxVec,        \* bound: sub-DAGs in a call
    MaxIndex       \* bound: the commit index from which no more is submitted

VARIABLE refused   \* history: rounds a call was refused for

rpcVars == <<poolVars, refused>>

-----------------------------------------------------------------------------
\* RethCommittedSubDag::from: the blocks keep their order and lose their
\* signatures.
From(subdag) ==
    [commit_ref   |-> subdag.commit_ref,
     timestamp_ms |-> subdag.timestamp_ms,
     blocks       |-> [b \in DOMAIN subdag.blocks |->
                         [transactions |-> subdag.blocks[b]]]]

flatten_transactions(subdag) ==
    FlattenSeq([b \in DOMAIN subdag.blocks |-> subdag.blocks[b].transactions])

\* Faulty: data that does not decode is skipped.
ConvertedInPart(subdag) ==
    [round        |-> subdag.commit_ref,
     timestamp_ms |-> subdag.timestamp_ms,
     transactions |-> SelectSeq(flatten_transactions(subdag),
                                LAMBDA data : data \notin Undecodable)]

\* The pool's form of a sub-DAG, or None: the first transaction that does not
\* decode ends the conversion.
convert_committed_subdag(subdag) ==
    IF Range(flatten_transactions(subdag)) \cap Undecodable # {}
    THEN None
    ELSE [round        |-> subdag.commit_ref,
          timestamp_ms |-> subdag.timestamp_ms,
          transactions |-> flatten_transactions(subdag)]

-----------------------------------------------------------------------------
\* The handler converts all it was given before it adds anything.
submit_committed_subdags(subdags) ==
    LET converted == [i \in DOMAIN subdags |-> convert_committed_subdag(subdags[i])]
    IN  /\ None \notin Range(converted)
        /\ add_committed_subdags(converted)
        /\ UNCHANGED refused

\* One sub-DAG that does not convert fails the call, with PARSE_ERROR.
refuse_committed_subdags(subdags) ==
    \E i \in DOMAIN subdags :
        /\ convert_committed_subdag(subdags[i]) = None
        /\ refused' = refused \cup {subdags[i].commit_ref}
        /\ UNCHANGED poolVars

\* The call the consensus client makes, once for each commit of the core; it
\* logs a refusal and goes on with the next one.
SubmitCommittedSubdag ==
    \E c \in Commits : \/ submit_committed_subdags(<<From(c)>>)
                       \/ refuse_committed_subdags(<<From(c)>>)

\* The call with a vector, at most MaxVec long.
SubmitCommittedSubdags ==
    \E v \in BoundedSeq({From(c) : c \in Commits}, MaxVec) :
        \/ submit_committed_subdags(v)
        \/ refuse_committed_subdags(v)

-----------------------------------------------------------------------------
(* The pool behind the handler, with one caller at a time.                 *)

ASSUME RpcConstants ==
    /\ MaxVec \in Nat /\ MaxIndex \in Nat
    /\ \A c \in Commits : convert_committed_subdag(From(c)) \in Subdags \cup {None}

RpcInit == PoolInit /\ refused = {}

RpcNext ==
    \/ next_committed_index < MaxIndex /\ SubmitCommittedSubdag
    \/ next_committed_index < MaxIndex /\ SubmitCommittedSubdags
    \/ MineProposal /\ UNCHANGED refused

RpcSpec == RpcInit /\ [][RpcNext]_rpcVars

\* A commit counts towards a block with all the transactions of all its
\* blocks or not at all, whichever calls carried it: one that does not decode
\* is never queued in part, and the pool does not get past its round without
\* it (convert_committed_subdag, submit_committed_subdags).
CommitsCountWhole ==
    LET Data(c)     == Range(flatten_transactions(From(c)))
        Versions(r) == {c \in Commits : c.commit_ref = r}
    IN  /\ \A r \in DOMAIN commited_queue : \E c \in Versions(r) :
              commited_queue[r].transactions = flatten_transactions(From(c))
        /\ \A r \in 1..(next_committed_index - 1) : \E c \in Versions(r) :
              Data(c) \subseteq drained
=============================================================================
