---------------------------- MODULE OrderedLedger ----------------------------
(***************************************************************************)
(* What the execution client promises its peers: the blocks it orders are  *)
(* the ones its log of commits determines, in order, whatever the timing   *)
(* of submissions, ticks and execution results.  Two replicas that receive *)
(* the same commits then hold the same ledger.                             *)
(*                                                                         *)
(* The first, empty block, which only carries a timestamp, is left out.    *)
(***************************************************************************)
EXTENDS Integers, Sequences

CONSTANTS
    CommitLogs,
    BatchSize,
    \* what a block proposes, executes and leaves (ProposalOrder, Executor)
    create_proposal_transactions(_, _), Without(_, _),
    Senders(_), Executed(_, _), Advance(_, _)

VARIABLES
    commits,   \* the log of commits, the same at every replica
    ledger,    \* the blocks ordered so far
    pending,   \* what they leave behind: the transactions still to be mined
    nonces     \* and the account nonces

vars == <<commits, ledger, pending, nonces>>

\* The commits of the n-th block.
BatchOf(log, n) == [i \in 1..BatchSize |-> log[(n - 1) * BatchSize + i]]

Init ==
    /\ commits \in CommitLogs
    /\ ledger = << >>
    /\ pending = << >>
    /\ nonces = [s \in Senders(commits) |-> 0]

\* The n-th block proposes what is pending and the n-th batch, and carries the
\* second of the batch's last commit; what it does not execute stays pending.
OrderNextBlock ==
    LET n        == Len(ledger) + 1
        proposed == create_proposal_transactions(pending, BatchOf(commits, n))
        executed == Executed(nonces, proposed)
    IN  /\ BatchSize > 0 /\ n * BatchSize <= Len(commits)
        /\ ledger' = Append(ledger,
               [transactions |-> proposed,
                timestamp |-> commits[n * BatchSize].timestamp_ms \div 1000])
        /\ pending' = Without(proposed, executed)
        /\ nonces' = Advance(nonces, executed)
        /\ UNCHANGED commits

Spec == Init /\ [][OrderNextBlock]_vars

-----------------------------------------------------------------------------
\* The ledger a log determines, after 0, 1, 2, ... blocks, and what it leaves:
\* a function of the log, and of nothing a replica goes through.
LedgersOf(log) ==
    LET after[n \in 0..Len(log)] ==
            IF n = 0
            THEN [ledger  |-> << >>,
                  pending |-> << >>,
                  nonces  |-> [s \in Senders(log) |-> 0]]
            ELSE LET last     == after[n - 1]
                     proposed == create_proposal_transactions(last.pending, BatchOf(log, n))
                     executed == Executed(last.nonces, proposed)
                 IN  [ledger  |-> Append(last.ledger,
                         [transactions |-> proposed,
                          timestamp |-> log[n * BatchSize].timestamp_ms \div 1000]),
                      pending |-> Without(proposed, executed),
                      nonces  |-> Advance(last.nonces, executed)]
    IN  after

\* Two replicas with one log can differ only in how far they are.
DecidedByTheLog ==
    LET decided == LedgersOf(commits)[Len(ledger)]
    IN  ledger = decided.ledger /\ pending = decided.pending /\ nonces = decided.nonces
=============================================================================
