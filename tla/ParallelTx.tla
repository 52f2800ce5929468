------------------------------ MODULE ParallelTx ------------------------------
(***************************************************************************)
(* ParallelTxRO (crates/storage/db/src/implementation/mdbx/parallel_tx.rs):*)
(* one read-only transaction of the program that is several of the store,  *)
(* so that threads do not wait for each other.  A call takes the first     *)
(* transaction when nobody holds it, and else an auxiliary one, opening up *)
(* to max_txs; a cursor keeps its transaction until it is dropped.         *)
(*                                                                         *)
(* A step is one access of the atomic counter, one critical section of the *)
(* mutex, or one call into the store.  A snapshot is the number of write   *)
(* transactions committed when a transaction began.                        *)
(***************************************************************************)
EXTENDS Integers, Sequences, FiniteSets, SequencesExt

CONSTANTS
    Threads,
    max_txs,           \* 8 in the source
    MaxCursors,        \* live cursors at one time
    MaxCommits,        \* write transactions committed meanwhile
    MaxFailures        \* transactions or cursors the store refuses

ASSUME ParallelTxConstants ==
    /\ IsFiniteSet(Threads)
    /\ max_txs \in Nat \ {0}
    /\ MaxCursors \in Nat /\ MaxCommits \in Nat /\ MaxFailures \in Nat

\* FIRST_TX_INDEX: not an index of txs.
First == 0

VARIABLES
    tx_held_count,  \* the atomic counter of the first transaction
    tx,             \* the first transaction
    txs,            \* the auxiliary ones, each with its held_count
    num_txs,        \* how many there are, the first one and those being opened included
    disable_long_read_transaction_safety,
    inner_refs,     \* owners of the mutex: the set itself and cursors on auxiliary transactions
    pc, index,      \* of each thread: where it is, and the transaction it was given
    opening,        \* of each thread: the transaction it opened and has not pushed yet
    cursors,        \* [0..Len(txs) -> Nat]: live cursors on each transaction
    commits, failures,
    opened, closed, \* what the metrics recorded
    peak,           \* history: the most calls and cursors there were at one time
    seen,           \* history: the snapshots that were read
    inTime          \* history: safety was disabled before any auxiliary transaction was opened

settings    == <<tx, disable_long_read_transaction_safety>>
countVars   == <<tx_held_count, txs, num_txs, inner_refs, cursors>>
threadVars  == <<pc, index, opening>>
storeVars   == <<commits, failures, opened, closed>>
historyVars == <<peak, seen, inTime>>
vars == <<settings, countVars, threadVars, storeVars, historyVars>>

\* Tx::new on a transaction the store just began.
NewTx(safe) == [snapshot |-> commits, safe |-> safe, timed_out |-> FALSE]

Nothing == [snapshot |-> 0, safe |-> FALSE, timed_out |-> FALSE]

\* try_new.
Init ==
    /\ commits = 0 /\ failures = 0
    /\ tx = NewTx(FALSE)
    /\ tx_held_count = 0
    /\ txs = << >> /\ num_txs = 1
    /\ disable_long_read_transaction_safety = FALSE
    /\ inner_refs = 1
    /\ pc = [t \in Threads |-> "idle"]
    /\ index = [t \in Threads |-> First]
    /\ opening = [t \in Threads |-> Nothing]
    /\ cursors = [i \in {First} |-> 0]
    /\ opened = 1 /\ closed = 0
    /\ peak = 0 /\ seen = {} /\ inTime = FALSE

\* The set was dropped: its own share of the mutex is gone, and so is the first transaction.
Dropped == closed > 0

\* How many cursors are alive on the transactions of S.
CursorsOn(S) == Cardinality(UNION {{i} \X (1..cursors[i]) : i \in S})
Users == Cardinality({t \in Threads : pc[t] # "idle"}) + CursorsOn(DOMAIN cursors)

TxAt(i) == IF i = First THEN tx ELSE txs[i].tx

Goto(t, label) == pc' = [pc EXCEPT ![t] = label]

-----------------------------------------------------------------------------
(* execute_tx.  A call borrows the set, so none begins after the drop.     *)

\* The quick path: compare_exchange(0, 1).
execute_tx(t) ==
    /\ pc[t] = "idle" /\ ~Dropped
    /\ IF tx_held_count = 0
       THEN /\ tx_held_count' = 1
            /\ index' = [index EXCEPT ![t] = First]
            /\ Goto(t, "use")
       ELSE /\ Goto(t, "lock")
            /\ UNCHANGED <<index, tx_held_count>>
    /\ peak' = (IF Users + 1 > peak THEN Users + 1 ELSE peak)
    /\ UNCHANGED <<settings, txs, num_txs, inner_refs, cursors, opening, storeVars, seen,
                   inTime>>

\* min_by_key: the first of the least held auxiliary transactions.
LeastHeld(i) ==
    /\ i \in DOMAIN txs
    /\ \A j \in DOMAIN txs :
          /\ txs[i].held_count <= txs[j].held_count
          /\ txs[i].held_count = txs[j].held_count => i <= j

\* Faulty: a busy auxiliary transaction is good enough.
RoomUnlessAnyExists == num_txs < max_txs /\ txs = << >>

\* There is room for another transaction, and no auxiliary one is free.
WantsAnother == num_txs < max_txs /\ \A i \in DOMAIN txs : txs[i].held_count > 0

\* Under the mutex: the number is taken before the transaction is opened.
ReserveAuxTx(t) ==
    /\ pc[t] = "lock"
    /\ WantsAnother
    /\ num_txs' = num_txs + 1
    /\ Goto(t, "create")
    /\ UNCHANGED <<settings, tx_held_count, txs, inner_refs, cursors, index, opening, storeVars,
                   historyVars>>

\* Under the mutex: the least held auxiliary transaction, unless the first is held less.
ShareAuxTx(t) ==
    /\ pc[t] = "lock"
    /\ ~WantsAnother
    /\ \E i \in DOMAIN txs :
          /\ LeastHeld(i)
          /\ tx_held_count >= txs[i].held_count
          /\ txs' = [txs EXCEPT ![i].held_count = @ + 1]
          /\ index' = [index EXCEPT ![t] = i]
    /\ Goto(t, "use")
    /\ UNCHANGED <<settings, tx_held_count, num_txs, inner_refs, cursors, opening, storeVars,
                   historyVars>>

\* Under the mutex: the first transaction it is.  Its count grows after the mutex was released.
PreferFirst(t) ==
    /\ pc[t] = "lock"
    /\ ~WantsAnother
    /\ \A i \in DOMAIN txs : LeastHeld(i) => tx_held_count < txs[i].held_count
    /\ Goto(t, "first")
    /\ UNCHANGED <<settings, countVars, index, opening, storeVars, historyVars>>

TakeFirst(t) ==
    /\ pc[t] = "first"
    /\ tx_held_count' = tx_held_count + 1
    /\ index' = [index EXCEPT ![t] = First]
    /\ Goto(t, "use")
    /\ UNCHANGED <<settings, txs, num_txs, inner_refs, cursors, opening, storeVars,
                   historyVars>>

-----------------------------------------------------------------------------
(* create_aux_tx, after the mutex was released.                            *)

create_tx(t) ==
    /\ pc[t] = "create"
    /\ opening' = [opening EXCEPT ![t] = NewTx(disable_long_read_transaction_safety)]
    /\ opened' = opened + 1
    /\ Goto(t, "push")
    /\ UNCHANGED <<settings, countVars, index, commits, failures, closed, historyVars>>

PushAuxTx(t) ==
    /\ pc[t] = "push"
    /\ txs' = Append(txs, [tx |-> opening[t], held_count |-> 1])
    /\ cursors' = [i \in 0..Len(txs) + 1 |-> IF i \in DOMAIN cursors THEN cursors[i] ELSE 0]
    /\ index' = [index EXCEPT ![t] = Len(txs) + 1]
    /\ opening' = [opening EXCEPT ![t] = Nothing]
    /\ Goto(t, "use")
    /\ UNCHANGED <<settings, tx_held_count, num_txs, inner_refs, storeVars, historyVars>>

\* The store has no reader slot left, say: the caller gets the error.
CreateTxFails(t) ==
    /\ pc[t] = "create" /\ failures < MaxFailures
    /\ failures' = failures + 1
    /\ Goto(t, "undo")
    /\ UNCHANGED <<settings, countVars, index, opening, commits, opened, closed, historyVars>>

\* Faulty: the number stays taken.
KeepReservation(t) ==
    /\ pc[t] = "undo"
    /\ Goto(t, "idle")
    /\ UNCHANGED <<settings, countVars, index, opening, storeVars, historyVars>>

GiveBackReservation(t) ==
    /\ pc[t] = "undo"
    /\ num_txs' = num_txs - 1
    /\ Goto(t, "idle")
    /\ UNCHANGED <<settings, tx_held_count, txs, inner_refs, cursors, index, opening, storeVars,
                   historyVars>>

-----------------------------------------------------------------------------
(* What a call does with its transaction.                                  *)

Saw(t) == IF TxAt(index[t]).timed_out THEN {} ELSE {TxAt(index[t]).snapshot}

\* get_by_encoded_key, entries: an answer or an error.
get_by_encoded_key(t) ==
    /\ pc[t] = "use"
    /\ seen' = seen \cup Saw(t)
    /\ Goto(t, "release")
    /\ UNCHANGED <<settings, countVars, index, opening, storeVars, peak, inTime>>

\* cursor_read, cursor_dup_read: the cursor takes over the caller's share.
cursor_read(t) ==
    /\ pc[t] = "use" /\ CursorsOn(DOMAIN cursors) < MaxCursors
    /\ seen' = seen \cup Saw(t)
    /\ cursors' = [cursors EXCEPT ![index[t]] = @ + 1]
    /\ inner_refs' = inner_refs + (IF index[t] = First THEN 0 ELSE 1)
    /\ index' = [index EXCEPT ![t] = First]
    /\ Goto(t, "idle")
    /\ UNCHANGED <<settings, tx_held_count, txs, num_txs, opening, storeVars, peak,
                   inTime>>

\* Faulty: the error is returned as it is.
CursorErrorReturned(t) ==
    /\ pc[t] = "use" /\ failures < MaxFailures
    /\ failures' = failures + 1
    /\ Goto(t, "idle")
    /\ UNCHANGED <<settings, countVars, index, opening, commits, opened, closed, historyVars>>

CursorFails(t) ==
    /\ pc[t] = "use" /\ failures < MaxFailures
    /\ failures' = failures + 1
    /\ Goto(t, "release")
    /\ UNCHANGED <<settings, countVars, index, opening, commits, opened, closed, historyVars>>

Released(i) ==
    IF i = First
    THEN tx_held_count' = tx_held_count - 1 /\ UNCHANGED txs
    ELSE txs' = [txs EXCEPT ![i].held_count = @ - 1] /\ UNCHANGED tx_held_count

post_tx_execution(t) ==
    /\ pc[t] = "release"
    /\ Released(index[t])
    /\ index' = [index EXCEPT ![t] = First]
    /\ Goto(t, "idle")
    /\ UNCHANGED <<settings, num_txs, inner_refs, cursors, opening, storeVars,
                   historyVars>>

-----------------------------------------------------------------------------
(* The drop function of a cursor, and the end of the set.                  *)

\* The drop function runs, then the cursor's share of the mutex goes; with the last share go
\* the auxiliary transactions, whose closing is recorded.
DropCursor(i) ==
    /\ i \in DOMAIN cursors /\ cursors[i] > 0
    /\ Released(i)
    /\ cursors' = [cursors EXCEPT ![i] = @ - 1]
    /\ inner_refs' = inner_refs - (IF i = First THEN 0 ELSE 1)
    /\ closed' = closed + (IF i # First /\ inner_refs' = 0 THEN Len(txs) ELSE 0)
    /\ UNCHANGED <<settings, num_txs, threadVars, commits, failures, opened, historyVars>>

\* Faulty: the auxiliary transactions are closed with the set.
DropAll ==
    /\ ~Dropped /\ \A t \in Threads : pc[t] = "idle"
    /\ inner_refs' = inner_refs - 1
    /\ closed' = 1 + Len(txs)
    /\ UNCHANGED <<settings, tx_held_count, txs, num_txs, cursors, threadVars, commits,
                   failures, opened, historyVars>>

\* commit and abort do nothing but this: no call is running, cursors may be alive.
Drop ==
    /\ ~Dropped /\ \A t \in Threads : pc[t] = "idle"
    /\ inner_refs' = inner_refs - 1
    /\ closed' = 1 + (IF inner_refs' = 0 THEN Len(txs) ELSE 0)
    /\ UNCHANGED <<settings, tx_held_count, txs, num_txs, cursors, threadVars, commits,
                   failures, opened, historyVars>>

\* disable_long_read_transaction_safety takes &mut self: no call is running.
DisableSafety ==
    /\ ~Dropped /\ \A t \in Threads : pc[t] = "idle"
    /\ ~disable_long_read_transaction_safety
    /\ tx' = [tx EXCEPT !.safe = TRUE]
    /\ disable_long_read_transaction_safety' = TRUE
    /\ inTime' = (txs = << >> /\ ~tx.timed_out)
    /\ UNCHANGED <<countVars, threadVars, storeVars, peak, seen>>

-----------------------------------------------------------------------------
(* The store: a writer commits, and the transaction manager ends a read    *)
(* transaction that has been open for too long.                            *)

WriterCommits ==
    /\ commits < MaxCommits
    /\ commits' = commits + 1
    /\ UNCHANGED <<settings, countVars, threadVars, failures, opened, closed, historyVars>>

TimesOut ==
    /\ \/ /\ ~tx.safe /\ ~tx.timed_out
          /\ tx' = [tx EXCEPT !.timed_out = TRUE]
          /\ UNCHANGED txs
       \/ \E i \in DOMAIN txs :
             /\ ~txs[i].tx.safe /\ ~txs[i].tx.timed_out
             /\ txs' = [txs EXCEPT ![i].tx.timed_out = TRUE]
             /\ UNCHANGED tx
    /\ UNCHANGED <<tx_held_count, num_txs, inner_refs, cursors, threadVars, storeVars,
                   historyVars, disable_long_read_transaction_safety>>

Next ==
    \/ \E t \in Threads :
          \/ execute_tx(t) \/ ReserveAuxTx(t) \/ ShareAuxTx(t) \/ PreferFirst(t) \/ TakeFirst(t)
          \/ create_tx(t) \/ PushAuxTx(t) \/ CreateTxFails(t) \/ GiveBackReservation(t)
          \/ get_by_encoded_key(t) \/ cursor_read(t) \/ CursorFails(t) \/ post_tx_execution(t)
    \/ \E i \in DOMAIN cursors : DropCursor(i)
    \/ Drop \/ DisableSafety \/ WriterCommits \/ TimesOut

Spec == Init /\ [][Next]_vars

-----------------------------------------------------------------------------
Calling(S) == {t \in Threads : pc[t] \in S}

HoldersOf(i) == {t \in Calling({"use", "release"}) : index[t] = i}

\* Every held_count is the number of calls and cursors that hold the transaction, whatever failed
\* on the way: a count that is too high is never chosen again, one that is too low is shared
\* without need, and underflows when its last cursor goes (post_cursor_creation).
HeldCountsExact ==
    /\ tx_held_count = Cardinality(HoldersOf(First)) + cursors[First]
    /\ \A i \in DOMAIN txs :
          txs[i].held_count = Cardinality(HoldersOf(i)) + cursors[i]

\* num_txs counts the transactions there are and those that are being opened outside the mutex,
\* so that no interleaving opens more than max_txs, and a failure leaves no hole.
NeverMoreThanMaxTxs ==
    /\ num_txs = 1 + Len(txs) + Cardinality(Calling({"create", "push", "undo"}))
    /\ num_txs <= max_txs

\* What the set is for: as long as there were never more calls and cursors at one time than
\* max_txs, no auxiliary transaction was given to two of them.  (The first one may be: its count
\* is read under the mutex and incremented after it.)
NotSharedWithoutNeed ==
    peak <= max_txs => \A i \in DOMAIN txs : txs[i].held_count <= 1

\* Without parallelism the set is one transaction: every read is from the snapshot it began with.
\* With it, two reads may be from two snapshots.
OneUserOneSnapshot == peak <= 1 => seen \subseteq {tx.snapshot}

\* Users are kept apart as long as there is room, and a user alone is not torn apart.
UsersKeptApart == NotSharedWithoutNeed /\ OneUserOneSnapshot

\* Disabling the safety reaches the first transaction and those opened later: done before any
\* auxiliary one was opened, no transaction of the set is ever timed out.
DisabledInTime == inTime => \A i \in DOMAIN cursors : ~TxAt(i).timed_out

\* After the set is gone the auxiliary transactions live as long as a cursor on one of them, and
\* in the end what was recorded as opened is recorded as closed.
ClosedWithTheLastCursor ==
    Dropped => (closed = opened <=> CursorsOn(DOMAIN txs) = 0)
=============================================================================
