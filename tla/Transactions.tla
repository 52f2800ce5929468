----------------------------- MODULE Transactions -----------------------------
(***************************************************************************)
(* The transactions of an open database and how their ends are accounted   *)
(* for (crates/storage/db/src/implementation/mdbx/tx.rs, metrics.rs, and   *)
(* DatabaseArguments and DatabaseEnv::open in mod.rs): the sync mode from  *)
(* the arguments or the environment variable, what of the commits a crash  *)
(* of the machine takes back, counters of opened and closed transactions,  *)
(* and the report on read transactions that stay open for long, whose      *)
(* check and record are two steps of each thread that shares one.          *)
(***************************************************************************)
EXTENDS Integers, FiniteSets, Sequences

CONSTANTS
    MaxTransactions,    \* opened by the process, 1..MaxTransactions in any order
    MaxThreads          \* that are in a get of one transaction at a time

ASSUME TransactionConstants == MaxTransactions \in Nat \ {0} /\ MaxThreads \in Nat

TxIds       == 1..MaxTransactions
Modes       == {"read-only", "read-write"}      \* TransactionMode
Outcomes    == {"commit", "abort", "drop"}      \* TransactionOutcome
SyncModes   == {"Durable", "NoMetaSync", "SafeNoSync", "UtterlyNoSync"}
NoSyncMode  == "none"
Uncalled    == "uncalled"

\* Values of DB_SYNC_MODE, one for each case of its match.
EnvValues == {"unset", "durable", "durable-sync", "no-meta-sync", "safe-no-sync",
              "utterly-no-sync", "typo"}
FasterEnvValues == {"no-meta-sync", "safe-no-sync", "utterly-no-sync"}

VARIABLES
    args,           \* of the open to come: [env, sync_mode, choice], or NoArgs
    env_kind,       \* "closed", "RO", "RW", or "crashed" with the machine
    sync_mode,      \* in force
    metered,        \* with_metrics was called
    txs,            \* what each transaction is, with its MetricsHandler, how many threads
                    \* are between the two halves of a get, and (history) the most there were
    stored, acked,  \* commits in the database, and those whose commit returned Ok
    opened_total, closed_total,     \* TransactionMetrics of each mode
    outcome_total,                  \* TransactionOutcomeMetrics of each mode and outcome
    faster          \* history: a mode faster than Durable was asked for

counterVars == <<opened_total, closed_total, outcome_total>>
txVars == <<args, env_kind, sync_mode, metered, txs, stored, acked, counterVars, faster>>

NoArgs == [env |-> "unset", sync_mode |-> NoSyncMode, choice |-> Uncalled]

NewTx == [mode |-> "read-only", end |-> "new", dirty |-> FALSE, timed_out |-> FALSE,
          long |-> FALSE, record_backtrace |-> TRUE, close_recorded |-> FALSE,
          backtrace_recorded |-> FALSE, logged |-> 0,
          checking |-> 0, together |-> 0]

\* DatabaseEnvMetrics::new: a counter for every mode, and for every mode and outcome.
NoneOpened  == [m \in Modes |-> 0]
NoneClosed  == [m \in Modes |-> 0]
NoOutcomes  == [m \in Modes |-> [o \in Outcomes |-> 0]]

\* Faulty: what cannot be read is taken for the fast mode.
ParsedOrFast(value) ==
    CASE value \in {"unset", "durable"} -> "Durable"
      [] value = "no-meta-sync"         -> "NoMetaSync"
      [] OTHER                          -> "SafeNoSync"

\* parse_sync_mode_from_env: "durable-sync" loses its dash and matches nothing.
parse_sync_mode_from_env(value) ==
    CASE value = "durable"         -> "Durable"
      [] value = "no-meta-sync"    -> "NoMetaSync"
      [] value = "safe-no-sync"    -> "SafeNoSync"
      [] value = "utterly-no-sync" -> "UtterlyNoSync"
      [] OTHER                     -> NoSyncMode

TxInit ==
    /\ \E value \in EnvValues :
          args = [env |-> value, sync_mode |-> parse_sync_mode_from_env(value),
                  choice |-> Uncalled]
    /\ env_kind = "closed" /\ sync_mode = NoSyncMode
    /\ metered \in BOOLEAN
    /\ txs = [i \in TxIds |-> NewTx]
    /\ stored = 0 /\ acked = 0
    /\ opened_total = NoneOpened /\ closed_total = NoneClosed /\ outcome_total = NoOutcomes
    /\ faster = FALSE

-----------------------------------------------------------------------------
(* The arguments and the open.                                             *)

\* with_sync_mode, and the three calls for one mode each.
WithSyncMode(mode) ==
    /\ env_kind = "closed"
    /\ args' = [args EXCEPT !.sync_mode = mode, !.choice = mode]
    /\ UNCHANGED <<env_kind, sync_mode, metered, txs, stored, acked, counterVars, faster>>

OpenWithMode(kind) ==
    /\ env_kind = "closed"
    /\ env_kind' = kind
    /\ sync_mode' = IF kind = "RW" /\ args.sync_mode = NoSyncMode THEN "Durable"
                    ELSE IF kind = "RW" THEN args.sync_mode ELSE NoSyncMode
    /\ faster' = \/ args.choice \in SyncModes \ {"Durable"}
                 \/ args.choice = Uncalled /\ args.env \in FasterEnvValues
    /\ args' = NoArgs
    /\ UNCHANGED <<metered, txs, stored, acked, counterVars>>

\* The machine stops.  What each mode keeps of the commits is libmdbx's.
Crash ==
    /\ env_kind \in {"RO", "RW"}
    /\ env_kind' = "crashed"
    /\ stored' \in IF sync_mode \in {"Durable", NoSyncMode} THEN {stored} ELSE 0..stored
    /\ UNCHANGED <<args, sync_mode, metered, txs, acked, counterVars, faster>>

-----------------------------------------------------------------------------
(* Transactions.                                                           *)

Running(i) == env_kind \in {"RO", "RW"} /\ txs[i].end = "open"

\* Writers wait for one another in begin_rw_txn, which a read-only environment refuses.
OpenTx(i, mode) ==
    /\ env_kind \in {"RO", "RW"} /\ txs[i].end = "new"
    /\ mode = "read-write" =>
          env_kind = "RW" /\ \A j \in TxIds : Running(j) => txs[j].mode = "read-only"
    /\ txs' = [txs EXCEPT ![i] = [NewTx EXCEPT !.mode = mode, !.end = "open"]]
    /\ opened_total' = IF metered THEN [opened_total EXCEPT ![mode] = @ + 1] ELSE opened_total
    /\ UNCHANGED <<args, env_kind, sync_mode, metered, stored, acked, closed_total,
                   outcome_total, faster>>

\* log_backtrace_on_long_read_transaction: what it asks first, what it does about a
\* transaction that was open for long, and both as one step of the transaction's owner.
Unrecorded(tx) == tx.record_backtrace /\ ~tx.backtrace_recorded /\ tx.mode = "read-only"
BacktraceLogged(tx) ==
    IF tx.long THEN [tx EXCEPT !.backtrace_recorded = TRUE, !.logged = @ + 1] ELSE tx
Logged(tx) == IF Unrecorded(tx) THEN BacktraceLogged(tx) ELSE tx

Changed(i, tx) ==
    /\ txs' = [txs EXCEPT ![i] = tx]
    /\ UNCHANGED <<args, env_kind, sync_mode, metered, stored, acked, counterVars, faster>>

\* get borrows the transaction, so that any of the threads that share it may call it: it
\* loads the flag, and looks at the clock, stores the flag and logs without having held
\* anything in between.  Calls that find nothing to do change nothing.
Get(i) ==
    /\ Running(i) /\ metered /\ Unrecorded(txs[i])
    /\ txs[i].checking < MaxThreads
    /\ LET now == txs[i].checking + 1
       IN  Changed(i, [txs[i] EXCEPT !.checking = now,
                                     !.together = IF now > @ THEN now ELSE @])
GetReports(i) ==
    /\ Running(i) /\ txs[i].checking > 0
    /\ Changed(i, BacktraceLogged([txs[i] EXCEPT !.checking = @ - 1]))

\* Commit, abort and drop take the transaction and disabling the safety borrows it alone:
\* no thread is in a call of it.
Unshared(i) == Running(i) /\ txs[i].checking = 0

\* put and delete, and what is done through a cursor, which logs nothing.
PutOrDelete(i) ==
    /\ Running(i) /\ txs[i].mode = "read-write"
    /\ Changed(i, [txs[i] EXCEPT !.dirty = TRUE])

\* LONG_TRANSACTION_DURATION passes; later libmdbx may time the transaction out.
GrowsLong(i) == Running(i) /\ ~txs[i].long /\ Changed(i, [txs[i] EXCEPT !.long = TRUE])
TimesOut(i) ==
    /\ Running(i) /\ txs[i].mode = "read-only" /\ txs[i].long /\ txs[i].record_backtrace
    /\ Changed(i, [txs[i] EXCEPT !.timed_out = TRUE])
disable_long_read_transaction_safety(i) ==
    /\ Unshared(i) /\ ~txs[i].timed_out
    /\ Changed(i, [txs[i] EXCEPT !.record_backtrace = FALSE])

CloseRecorded(tx) == [tx EXCEPT !.close_recorded = TRUE]

\* Faulty: nothing is logged when the transaction is just dropped.
DroppedUnlogged(tx) == tx

\* What the handler does of its own when it is dropped, and what it does when closed before.
LoggedAtDrop(tx) == IF tx.close_recorded THEN tx ELSE Logged(tx)
ReportedAtDrop(tx) == IF tx.close_recorded THEN {} ELSE {"drop"}

Reported(mode, reports) ==
    /\ closed_total' = [closed_total EXCEPT ![mode] = @ + Cardinality(reports)]
    /\ outcome_total' = [outcome_total EXCEPT
                            ![mode] = [o \in Outcomes |->
                                @[o] + Cardinality({r \in reports : r = o})]]

\* A closed transaction, whether its metrics are recorded or not.
Closes(i, outcome) ==
    LET handler == Logged(CloseRecorded(txs[i]))
        reports == {outcome} \cup ReportedAtDrop(handler)
    IN  IF metered
        THEN /\ txs' = [txs EXCEPT ![i] = [LoggedAtDrop(handler) EXCEPT !.end = outcome]]
             /\ Reported(txs[i].mode, reports)
        ELSE /\ txs' = [txs EXCEPT ![i].end = outcome]
             /\ UNCHANGED <<closed_total, outcome_total>>

\* A commit may fail; its outcome is recorded as a commit all the same.
Commit(i) ==
    /\ Unshared(i)
    /\ Closes(i, "commit")
    /\ \/ txs[i].dirty /\ ~txs[i].timed_out /\ stored' = stored + 1 /\ acked' = stored'
       \/ UNCHANGED <<stored, acked>>
    /\ UNCHANGED <<args, env_kind, sync_mode, metered, opened_total, faster>>

Abort(i) ==
    /\ Unshared(i)
    /\ Closes(i, "abort")
    /\ UNCHANGED <<args, env_kind, sync_mode, metered, stored, acked, opened_total, faster>>

\* Neither committed nor aborted: Drop of the handler.
DropTx(i) ==
    /\ Unshared(i)
    /\ IF metered
       THEN /\ txs' = [txs EXCEPT ![i] = [LoggedAtDrop(@) EXCEPT !.end = "drop"]]
            /\ Reported(txs[i].mode, ReportedAtDrop(txs[i]))
       ELSE /\ txs' = [txs EXCEPT ![i].end = "drop"]
            /\ UNCHANGED <<closed_total, outcome_total>>
    /\ UNCHANGED <<args, env_kind, sync_mode, metered, stored, acked, opened_total, faster>>

TxNext ==
    \/ \E mode \in SyncModes \cup {NoSyncMode} : WithSyncMode(mode)
    \/ \E kind \in {"RO", "RW"} : OpenWithMode(kind)
    \/ Crash
    \/ \E i \in TxIds :
          \/ \E mode \in Modes : OpenTx(i, mode)
          \/ Get(i) \/ GetReports(i) \/ PutOrDelete(i) \/ GrowsLong(i) \/ TimesOut(i)
          \/ disable_long_read_transaction_safety(i)
          \/ Commit(i) \/ Abort(i) \/ DropTx(i)

TxSpec == TxInit /\ [][TxNext]_txVars

-----------------------------------------------------------------------------
Of(mode, ends) == Cardinality({i \in TxIds : txs[i].mode = mode /\ txs[i].end \in ends})

\* The metrics account for every transaction: those opened and not closed are the open
\* ones, and each closed one is counted once, by the way it ended, whether it was
\* committed, aborted or just dropped (MetricsHandler and its Drop).
BooksBalance ==
    metered => \A m \in Modes :
        /\ opened_total[m] = Of(m, Outcomes \cup {"open"})
        /\ closed_total[m] = Of(m, Outcomes)
        /\ \A o \in Outcomes : outcome_total[m][o] = Of(m, {o})

\* A read transaction that was open for long is in the log when it has ended, however it
\* ended, unless the safety was disabled; write transactions and short ones are not in it.
\* It is there once, or as often as threads were between check and record at one time:
\* once the flag is set no call reports that did not check before
\* (log_backtrace_on_long_read_transaction in every get and at every end).
LongReadsReported ==
    metered => \A i \in TxIds :
        LET tx == txs[i]
        IN  /\ tx.logged <= 1 \/ tx.logged <= tx.together
            /\ tx.logged > 0 => tx.mode = "read-only" /\ tx.long
            /\ tx.end \in Outcomes /\ tx.mode = "read-only" /\ tx.long /\ tx.record_backtrace
                  => tx.logged > 0

\* The comment at tx.rs:227: "The backtrace is recorded and logged just once, guaranteed by
\* `backtrace_recorded` atomic".  Two threads that share a read transaction both report it.
LoggedJustOnce == \A i \in TxIds : txs[i].logged <= 1

\* Every end of a transaction is accounted for, in the metrics and in the log
\* (Tx and MetricsHandler with its Drop).
EndsAccountedFor == BooksBalance /\ LongReadsReported

\* A commit that returned Ok outlives the machine, unless the code chose a faster sync
\* mode, or left the choice to an environment variable that names one: a value of the
\* variable that is not understood, and no choice at all, are Durable ("Default to
\* Durable for maximum data safety").
DurableUnlessAsked == env_kind = "crashed" /\ stored # acked => faster
=============================================================================
