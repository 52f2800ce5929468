------------------------------ MODULE MCStorage ------------------------------
(***************************************************************************)
(* The three parts of the database crate that share no state, for TLC:     *)
(* the opening of the directory, the transactions of an open environment,  *)
(* and a cursor over a table.  A behavior is one of one of them, and the   *)
(* states of the other two stay the initial ones.  Pids are                *)
(* interchangeable, and so are versions.                                   *)
(***************************************************************************)
EXTENDS StorageOpen, Transactions, TableCursor, TLC

VARIABLE part

AnInitialCursor == CursorInit /\ table = [dup |-> FALSE, ref |-> TRUE]
InitialTransactions == TxInit /\ args.env = "unset" /\ metered

MCInit ==
    \/ part = "open" /\ Init /\ InitialTransactions /\ AnInitialCursor
    \/ part = "transactions" /\ Init /\ version_file = Absent /\ TxInit /\ AnInitialCursor
    \/ part = "cursor" /\ Init /\ version_file = Absent /\ InitialTransactions /\ CursorInit

MCNext ==
    /\ UNCHANGED part
    /\ \/ part = "open" /\ Next /\ UNCHANGED <<txVars, cursorVars>>
       \/ part = "transactions" /\ TxNext /\ UNCHANGED <<vars, cursorVars>>
       \/ part = "cursor" /\ CursorNext /\ UNCHANGED <<vars, txVars>>

MCSpec == MCInit /\ [][MCNext]_<<part, vars, txVars, cursorVars>>

Symmetry == Permutations(Pids) \cup Permutations(ClientVersions)
=============================================================================
