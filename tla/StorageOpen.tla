----------------------------- MODULE StorageOpen -----------------------------
(***************************************************************************)
(* Opening the database directory for reading and writing                  *)
(* (crates/storage/db/src/mdbx.rs, version.rs, lockfile.rs and DatabaseEnv *)
(* in implementation/mdbx/mod.rs): the version file, the lock file with the*)
(* identity of its holder, the tables and the history of client versions,  *)
(* with processes that crash at any step and operating system pids that    *)
(* are used again.                                                         *)
(*                                                                         *)
(* A step is one access to a file, or one write transaction.  Writing a    *)
(* file is two: it is truncated, then filled.                              *)
(***************************************************************************)
EXTENDS Integers, FiniteSets, FiniteSetsExt

CONSTANTS
    NoVersion,
    Absent, Torn,       \* no file, and one with no more than a part of what is written to it
    Pids,
    ClientVersions,     \* what a process may record as its version
    MaxClock,           \* seconds
    MaxEnvs             \* environments a process holds at one time

ASSUME StorageConstants ==
    /\ IsFiniteSet(Pids) /\ ClientVersions # {}
    /\ MaxClock \in Nat \ {0} /\ MaxEnvs \in Nat \ {0}
    \* A file's state is no version, and no identity of a process.
    /\ Absent # Torn /\ Absent \notin Nat /\ Torn \notin Nat
    /\ Absent \notin [pid : Pids, start_time : Nat]
    /\ Torn \notin [pid : Pids, start_time : Nat]

\* DB_VERSION, and a database from before the last breaking change.
DB_VERSION == 2
OldVersion == 1

VARIABLES
    clock,
    alive,          \* the pids that have a process
    start_time,     \* of the process with each pid, or of the last one it had
    client_version, \* of that process
    pc,             \* where it is in init_db, open_db, or in dropping an environment
    checks,         \* whether its call is init_db, which checks the version, or open_db
    envs,           \* environments it holds
    refused,        \* whether its last call found the lock taken
    lockfile,       \* Absent, Torn or the [pid, start_time] of its writer
    linked,         \* whether the lock file a process is writing is still in the directory
    version_file,   \* Absent, Torn or a number
    tables,         \* whether the tables were created
    version_history,\* [seconds -> client version]
    overlapped,     \* history: two processes were opening or closing at one time
    doubled,        \* history: a process held two environments, or opened one more
    torn            \* history: a process died while it wrote the version file

identity    == <<alive, start_time, client_version>>
processVars == <<identity, pc, checks, envs, refused, linked>>
dataVars    == <<tables, version_history>>
historyVars == <<overlapped, doubled, torn>>
vars == <<clock, processVars, lockfile, version_file, dataVars, historyVars>>

Init ==
    /\ clock = 1
    /\ alive = {}
    /\ start_time = [p \in Pids |-> 0]
    /\ client_version = [p \in Pids |-> NoVersion]
    /\ pc = [p \in Pids |-> "idle"]
    /\ checks = [p \in Pids |-> TRUE]
    /\ envs = [p \in Pids |-> 0]
    /\ refused = [p \in Pids |-> FALSE]
    /\ lockfile = Absent
    /\ linked = [p \in Pids |-> FALSE]
    /\ \/ version_file = Absent /\ tables = FALSE
       \/ version_file = OldVersion /\ tables = TRUE
    /\ version_history = << >>
    /\ overlapped = FALSE /\ doubled = FALSE /\ torn = FALSE

\* ProcessUID::own.
Own(p) == [pid |-> p, start_time |-> start_time[p]]

\* Faulty: a process with that pid is enough.
PidInUse(uid) == uid.pid \in alive

\* is_active looks at the start time too: the pid may belong to another process by now.
is_active(uid) == uid.pid \in alive /\ start_time[uid.pid] = uid.start_time

\* is_database_empty: the directory has no entry.
is_database_empty == version_file = Absent /\ lockfile = Absent /\ ~tables

Goto(p, label) == pc' = [pc EXCEPT ![p] = label]

\* A process begins to open or to close.
Busy(p) == pc[p] # "idle"
Enters(p) ==
    /\ overlapped' = (overlapped \/ \E q \in Pids \ {p} : Busy(q))
    /\ UNCHANGED torn

-----------------------------------------------------------------------------
Tick ==
    /\ clock < MaxClock
    /\ clock' = clock + 1
    /\ UNCHANGED <<processVars, lockfile, version_file, dataVars, historyVars>>

\* A new process gets a free pid.  No pid is used twice within a second.
Start(p) ==
    /\ p \notin alive /\ start_time[p] < clock
    /\ alive' = alive \cup {p}
    /\ start_time' = [start_time EXCEPT ![p] = clock]
    /\ \E v \in ClientVersions : client_version' = [client_version EXCEPT ![p] = v]
    /\ UNCHANGED <<clock, pc, checks, envs, refused, linked, lockfile, version_file, dataVars,
                   historyVars>>

\* The process is killed, or ends after it closed what it held.
Dies(p) ==
    /\ p \in alive
    /\ alive' = alive \ {p}
    /\ client_version' = [client_version EXCEPT ![p] = NoVersion]
    /\ pc' = [pc EXCEPT ![p] = "idle"]
    /\ envs' = [envs EXCEPT ![p] = 0]
    /\ refused' = [refused EXCEPT ![p] = FALSE]
    /\ linked' = [linked EXCEPT ![p] = FALSE]
    /\ checks' = [checks EXCEPT ![p] = TRUE]
    /\ torn' = (torn \/ pc[p] = "fill version")
    /\ UNCHANGED <<clock, start_time, lockfile, version_file, dataVars, overlapped, doubled>>

-----------------------------------------------------------------------------
(* create_db: the version file.                                            *)

MayOpen(p) == p \in alive /\ ~Busy(p) /\ envs[p] < MaxEnvs

init_db(p) ==
    /\ MayOpen(p)
    /\ Goto(p, IF is_database_empty THEN "truncate version" ELSE "check version")
    /\ checks' = [checks EXCEPT ![p] = TRUE]
    /\ refused' = [refused EXCEPT ![p] = FALSE]
    /\ Enters(p)
    /\ doubled' = (doubled \/ envs[p] > 0)
    /\ UNCHANGED <<clock, identity, envs, linked, lockfile, version_file, dataVars>>

\* Faulty: what an older release wrote is good enough.
AcceptsOlder(p) ==
    /\ pc[p] = "check version"
    /\ Goto(p, CASE version_file \in {OldVersion, DB_VERSION} -> "check lock"
                 [] version_file = Absent -> "truncate version"
                 [] OTHER                 -> "idle")
    /\ UNCHANGED <<clock, identity, checks, envs, refused, linked, lockfile, version_file,
                   dataVars, historyVars>>

\* A missing file is written; a malformed one and another version end the call with an error.
check_db_version_file(p) ==
    /\ pc[p] = "check version"
    /\ Goto(p, CASE version_file = DB_VERSION -> "check lock"
                 [] version_file = Absent     -> "truncate version"
                 [] OTHER                     -> "idle")
    /\ UNCHANGED <<clock, identity, checks, envs, refused, linked, lockfile, version_file,
                   dataVars, historyVars>>

\* create_db_version_file is fs::write: in place, without a rename.
TruncateVersion(p) ==
    /\ pc[p] = "truncate version"
    /\ version_file' = Torn
    /\ Goto(p, "fill version")
    /\ UNCHANGED <<clock, identity, checks, envs, refused, linked, lockfile, dataVars,
                   historyVars>>

FillVersion(p) ==
    /\ pc[p] = "fill version"
    /\ version_file' = DB_VERSION
    /\ Goto(p, "check lock")
    /\ UNCHANGED <<clock, identity, checks, envs, refused, linked, lockfile, dataVars,
                   historyVars>>

\* open_db starts here: it looks at no version.
open_db(p) ==
    /\ MayOpen(p)
    /\ Goto(p, "check lock")
    /\ checks' = [checks EXCEPT ![p] = FALSE]
    /\ refused' = [refused EXCEPT ![p] = FALSE]
    /\ Enters(p)
    /\ doubled' = (doubled \/ envs[p] > 0)
    /\ UNCHANGED <<clock, identity, envs, linked, lockfile, version_file, dataVars>>

-----------------------------------------------------------------------------
(* StorageLock.                                                            *)

Readable == lockfile \notin {Absent, Torn}

\* The file names another process that runs.
Taken(p) == Readable /\ lockfile.pid # p /\ is_active(lockfile)

try_acquire_file_lock(p) ==
    /\ pc[p] = "check lock"
    /\ Goto(p, IF Taken(p) THEN "idle" ELSE "truncate lock")
    /\ refused' = [refused EXCEPT ![p] = Taken(p)]
    /\ UNCHANGED <<clock, identity, checks, envs, linked, lockfile, version_file, dataVars,
                   historyVars>>

TruncateLock(p) ==
    /\ pc[p] = "truncate lock"
    /\ lockfile' = Torn
    /\ linked' = [linked EXCEPT ![p] = TRUE]
    /\ Goto(p, "fill lock")
    /\ UNCHANGED <<clock, identity, checks, envs, refused, version_file, dataVars, historyVars>>

\* Faulty: the identity is never written.
LeaveLockEmpty(p) ==
    /\ pc[p] = "fill lock"
    /\ linked' = [linked EXCEPT ![p] = FALSE]
    /\ Goto(p, "open")
    /\ UNCHANGED <<clock, identity, checks, envs, refused, lockfile, version_file, dataVars,
                   historyVars>>

\* A file that was removed in between is written, but is not in the directory any more.
FillLock(p) ==
    /\ pc[p] = "fill lock"
    /\ lockfile' = (IF linked[p] THEN Own(p) ELSE lockfile)
    /\ linked' = [linked EXCEPT ![p] = FALSE]
    /\ Goto(p, "open")
    /\ UNCHANGED <<clock, identity, checks, envs, refused, version_file, dataVars, historyVars>>

\* Drop for StorageLockInner reads the file: it removes its own and what it cannot read.
DropLock(p) ==
    /\ pc[p] = "drop lock"
    /\ IF lockfile = Torn \/ (Readable /\ lockfile.pid = p)
       THEN Goto(p, "remove lock")
       ELSE Goto(p, "idle")
    /\ UNCHANGED <<clock, identity, checks, envs, refused, linked, lockfile, version_file,
                   dataVars, historyVars>>

RemoveLock(p) ==
    /\ pc[p] = "remove lock"
    /\ lockfile' = Absent
    /\ linked' = [q \in Pids |-> FALSE]
    /\ Goto(p, "idle")
    /\ UNCHANGED <<clock, identity, checks, envs, refused, version_file, dataVars, historyVars>>

-----------------------------------------------------------------------------
(* DatabaseEnv.                                                            *)

\* The environment is open; open_db goes on with the client's version.
OpenEnv(p) ==
    /\ pc[p] = "open"
    /\ envs' = [envs EXCEPT ![p] = @ + 1]
    /\ Goto(p, IF checks[p] THEN "create tables" ELSE "record version")
    /\ UNCHANGED <<clock, identity, checks, refused, linked, lockfile, version_file, dataVars,
                   historyVars>>

\* A log level that was not built in, or an error of the store: the lock is dropped.
OpenEnvFails(p) ==
    /\ pc[p] = "open"
    /\ Goto(p, "drop lock")
    /\ UNCHANGED <<clock, identity, checks, envs, refused, linked, lockfile, version_file,
                   dataVars, historyVars>>

\* One write transaction for all tables.
create_and_track_tables_for(p) ==
    /\ pc[p] = "create tables"
    /\ tables' = TRUE
    /\ Goto(p, "record version")
    /\ UNCHANGED <<clock, identity, checks, envs, refused, linked, lockfile, version_file,
                   version_history, historyVars>>

Last == version_history[Max(DOMAIN version_history)]

\* The entry of the current second is this process's.
Entered(p) ==
    [second \in DOMAIN version_history \cup {clock} |->
        IF second = clock THEN client_version[p] ELSE version_history[second]]

\* Faulty: a version that is in the history is not recorded again.
RecordOnce(p) ==
    IF \E s \in DOMAIN version_history : version_history[s] = client_version[p]
    THEN version_history
    ELSE Entered(p)

\* The version is recorded at the current second if it is not the last one.
Recorded(p) ==
    IF DOMAIN version_history # {} /\ Last = client_version[p]
    THEN version_history
    ELSE Entered(p)

\* Without the tables there is no history: the environment is closed again.
record_client_version(p) ==
    /\ pc[p] = "record version"
    /\ IF tables
       THEN /\ version_history' = Recorded(p)
            /\ Goto(p, "idle")
            /\ UNCHANGED envs
       ELSE /\ envs' = [envs EXCEPT ![p] = @ - 1]
            /\ Goto(p, "drop lock")
            /\ UNCHANGED version_history
    /\ UNCHANGED <<clock, identity, checks, refused, linked, lockfile, version_file, tables,
                   historyVars>>

\* The fields of an environment are dropped in order: the store is closed, then the lock.
CloseEnv(p) ==
    /\ ~Busy(p) /\ envs[p] > 0
    /\ envs' = [envs EXCEPT ![p] = @ - 1]
    /\ Goto(p, "drop lock")
    /\ Enters(p)
    /\ UNCHANGED <<clock, identity, checks, refused, linked, lockfile, version_file, dataVars,
                   doubled>>

Next ==
    \/ Tick
    \/ \E p \in Pids :
          \/ Start(p) \/ Dies(p) \/ init_db(p) \/ open_db(p)
          \/ check_db_version_file(p) \/ TruncateVersion(p) \/ FillVersion(p)
          \/ try_acquire_file_lock(p) \/ TruncateLock(p) \/ FillLock(p)
          \/ OpenEnv(p) \/ OpenEnvFails(p)
          \/ create_and_track_tables_for(p) \/ record_client_version(p)
          \/ CloseEnv(p) \/ DropLock(p) \/ RemoveLock(p)

Spec == Init /\ [][Next]_vars

-----------------------------------------------------------------------------
Holders == {p \in Pids : envs[p] > 0}

\* "Exclusive read-write access across different processes" (lockfile.rs:16), provided that no
\* two processes open or close at one time and that none holds two environments: the check of the
\* file and its writing are two steps, and the first environment dropped takes the file with it.
ExclusiveAccess == ~overlapped /\ ~doubled => Cardinality(Holders) <= 1

\* "On resuming from a crash, the stored PID helps verify that no other process holds the lock"
\* (lockfile.rs:20): a call is only refused because of a process that does hold the database, never
\* because of what a dead one left behind, even when its pid is in use again.
RefusedForTheHolder ==
    [][\A p \in Pids :
          refused'[p] /\ ~refused[p] /\ ~overlapped
              => Holders \ {p} # {}]_vars

PastCheck == {"check lock", "truncate lock", "fill lock", "open", "create tables", "record version"}

\* init_db does not get past its check with a database of another version, nor with one whose
\* version file is broken, whatever open_db and crashes left there.
OldNeverOpened ==
    version_file \in {OldVersion, Torn} /\ ~overlapped
        => \A p \in Pids : checks[p] => pc[p] \notin PastCheck

\* No call writes its own version over that of an older database (create_db_version_file is only
\* reached with an empty directory): it would pass the check from then on.
OldStaysOld == [][version_file = OldVersion => version_file' = OldVersion]_vars

\* The version file is only broken while it is written, or because its writer died: then every
\* later init_db fails, as nothing writes it again.
BrokenByADeath ==
    version_file = Torn => torn \/ \E p \in Pids : pc[p] = "fill version"

\* What the version file says of the database is heeded and stays true.
VersionHeeded == OldNeverOpened /\ BrokenByADeath

\* Whoever works on the database is the last in its history of versions, with several versions
\* taking turns and several openings in one second.
HistoryNamesTheClient ==
    ~overlapped /\ ~doubled =>
        \A p \in Holders : ~Busy(p) => Last = client_version[p]
=============================================================================
