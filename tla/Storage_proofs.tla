---------------------------- MODULE Storage_proofs ----------------------------
(***************************************************************************)
(* Proofs about the database crate.  About StorageOpen, for every set of   *)
(* pids, every version and any number of crashes: who may hold the         *)
(* database, who is refused, and what becomes of the version file.  About  *)
(* Transactions, for any number of transactions: what a crash takes back,  *)
(* what is reported of long reads, and that the books balance.  About      *)
(* TableCursor, for every set of keys and values, any number of rows, and  *)
(* calls in any order: what the writes leave in the table, and which rows  *)
(* a walk gives.                                                           *)
(***************************************************************************)
EXTENDS StorageOpen, Transactions, TableCursor, FiniteSetTheorems,
        SequenceTheorems, WellFoundedInduction, TLAPS

-----------------------------------------------------------------------------
(* Opening the database.                                                   *)

VersionSteps == {"check version", "truncate version", "fill version"}
LockSteps    == {"truncate lock", "fill lock", "open", "drop lock", "remove lock"}
TableSteps   == {"create tables", "record version"}
Steps        == {"idle", "check lock"} \cup VersionSteps \cup LockSteps \cup TableSteps

\* What the proofs need of the types, and of who can be where.
Types ==
    /\ clock \in Nat
    /\ alive \subseteq Pids
    /\ start_time \in [Pids -> Nat]
    /\ pc \in [Pids -> Steps]
    /\ checks \in [Pids -> BOOLEAN]
    /\ envs \in [Pids -> Nat]
    /\ refused \in [Pids -> BOOLEAN]
    /\ linked \in [Pids -> BOOLEAN]
    /\ lockfile \in {Absent, Torn} \cup [pid : Pids, start_time : Nat]
    /\ version_file \in {Absent, Torn, OldVersion, DB_VERSION}
    /\ overlapped \in BOOLEAN /\ doubled \in BOOLEAN /\ torn \in BOOLEAN
    /\ \A p \in Pids : pc[p] \in TableSteps => envs[p] > 0
    /\ \A p \in Pids : pc[p] # "idle" \/ envs[p] > 0 => p \in alive

\* Of processes that never overlap, one at most is on its way.
OneBusy == ~overlapped => \A p, q \in Pids : pc[p] # "idle" /\ pc[q] # "idle" => p = q

\* One environment more or less.
LEMMA Opened ==
    ASSUME NEW f \in [Pids -> Nat], NEW p \in Pids
    PROVE  LET g == [f EXCEPT ![p] = @ + 1]
           IN  g \in [Pids -> Nat] /\ g[p] = f[p] + 1 /\ g[p] > 0
  OBVIOUS

LEMMA Closed ==
    ASSUME NEW f \in [Pids -> Nat], NEW p \in Pids, f[p] > 0
    PROVE  LET g == [f EXCEPT ![p] = @ - 1]
           IN  g \in [Pids -> Nat] /\ g[p] = f[p] - 1
  OBVIOUS

LEMMA TypesStep ==
    ASSUME Types, [Next]_vars
    PROVE  Types'
  <1> USE DEF Types, Steps, VersionSteps, LockSteps, TableSteps
  <1>1. CASE Tick
    <2> clock \in Nat
      OBVIOUS
    <2> HIDE DEF Types
    <2>1. clock' \in Nat
      BY <1>1 DEF Tick
    <2>2. UNCHANGED <<processVars, lockfile, version_file, historyVars>>
      BY <1>1 DEF Tick
    <2>3. QED
      BY <2>1, <2>2 DEF Types, identity, processVars, historyVars
  <1>2. CASE UNCHANGED vars
    BY <1>2 DEF vars, identity, processVars, dataVars, historyVars
  <1>3. ASSUME NEW p \in Pids, Start(p) PROVE Types'
    BY <1>3 DEF Start, dataVars, historyVars
  <1>4. ASSUME NEW p \in Pids, Dies(p) PROVE Types'
    <2>1. torn' \in BOOLEAN /\ alive' = alive \ {p}
      BY <1>4 DEF Dies
    <2>2. UNCHANGED <<clock, start_time, lockfile, version_file, overlapped, doubled>>
      BY <1>4 DEF Dies
    <2>3. pc' = [pc EXCEPT ![p] = "idle"] /\ envs' = [envs EXCEPT ![p] = 0]
      BY <1>4 DEF Dies
    <2>4. /\ checks' = [checks EXCEPT ![p] = TRUE] /\ refused' = [refused EXCEPT ![p] = FALSE]
          /\ linked' = [linked EXCEPT ![p] = FALSE]
      BY <1>4 DEF Dies
    <2>5. /\ \A q \in Pids : pc'[q] \in TableSteps => envs'[q] > 0
          /\ \A q \in Pids : pc'[q] # "idle" \/ envs'[q] > 0 => q \in alive'
      <3> SUFFICES ASSUME NEW q \in Pids
                   PROVE  /\ pc'[q] \in TableSteps => envs'[q] > 0
                          /\ pc'[q] # "idle" \/ envs'[q] > 0 => q \in alive'
        OBVIOUS
      <3>1. CASE q = p
        <4>1. pc'[p] = "idle" /\ envs'[p] = 0
          BY <2>3
        <4> HIDE DEF Types
        <4>2. QED
          BY <3>1, <4>1
      <3>2. CASE q # p
        BY <2>1, <2>3, <3>2
      <3>3. QED
        BY <3>1, <3>2
    <2>6. QED
      BY <2>1, <2>2, <2>3, <2>4, <2>5
  <1>5. ASSUME NEW p \in Pids, init_db(p) PROVE Types'
    BY <1>5 DEF init_db, identity, dataVars, Goto, Enters, Busy, MayOpen
  <1>6. ASSUME NEW p \in Pids, open_db(p) PROVE Types'
    BY <1>6 DEF open_db, identity, dataVars, Goto, Enters, Busy, MayOpen
  <1>7. ASSUME NEW p \in Pids, check_db_version_file(p) PROVE Types'
    BY <1>7 DEF check_db_version_file, identity, dataVars, historyVars, Goto
  <1>8. ASSUME NEW p \in Pids, TruncateVersion(p) PROVE Types'
    BY <1>8 DEF TruncateVersion, identity, dataVars, historyVars, Goto
  <1>9. ASSUME NEW p \in Pids, FillVersion(p) PROVE Types'
    BY <1>9 DEF FillVersion, identity, dataVars, historyVars, Goto
  <1>10. ASSUME NEW p \in Pids, try_acquire_file_lock(p) PROVE Types'
    BY <1>10 DEF try_acquire_file_lock, Taken, identity, dataVars, historyVars, Goto
  <1>11. ASSUME NEW p \in Pids, TruncateLock(p) PROVE Types'
    BY <1>11 DEF TruncateLock, identity, dataVars, historyVars, Goto
  <1>12. ASSUME NEW p \in Pids, FillLock(p) PROVE Types'
    BY <1>12 DEF FillLock, Own, identity, dataVars, historyVars, Goto
  <1>13. ASSUME NEW p \in Pids, OpenEnv(p) PROVE Types'
    <2>1. pc' \in [Pids -> Steps]
      BY <1>13 DEF OpenEnv, Goto
    <2>2. /\ envs' \in [Pids -> Nat] /\ \A q \in Pids \ {p} : envs'[q] = envs[q]
          /\ pc'[p] \in TableSteps => envs'[p] > 0
      <3>1. envs' = [envs EXCEPT ![p] = @ + 1]
        BY <1>13 DEF OpenEnv
      <3>2. envs' \in [Pids -> Nat] /\ envs'[p] > 0
        BY <3>1, Opened
      <3>3. \A q \in Pids \ {p} : envs'[q] = envs[q]
        BY <3>1
      <3>4. QED
        BY <3>2, <3>3
    <2>4. \A q \in Pids \ {p} : pc'[q] = pc[q]
      BY <1>13 DEF OpenEnv, Goto
    <2>5. p \in alive'
      BY <1>13 DEF OpenEnv, Busy, identity
    <2>6. UNCHANGED <<clock, alive, start_time, linked, lockfile, version_file, doubled, torn>>
      BY <1>13 DEF OpenEnv, identity, dataVars, historyVars, Goto
    <2>7. overlapped' \in BOOLEAN
      BY <1>13 DEF OpenEnv, identity, dataVars, historyVars, Goto
    <2>8. checks' \in [Pids -> BOOLEAN] /\ refused' \in [Pids -> BOOLEAN]
      BY <1>13 DEF OpenEnv, identity, dataVars, historyVars, Goto
    <2>9. QED
      BY <2>1, <2>2, <2>4, <2>5, <2>6, <2>7, <2>8
  <1>14. ASSUME NEW p \in Pids, OpenEnvFails(p) PROVE Types'
    BY <1>14 DEF OpenEnvFails, identity, dataVars, historyVars, Goto
  <1>15. ASSUME NEW p \in Pids, create_and_track_tables_for(p) PROVE Types'
    BY <1>15 DEF create_and_track_tables_for, identity, historyVars, Goto
  <1>16. ASSUME NEW p \in Pids, record_client_version(p) PROVE Types'
    <2>1. pc' \in [Pids -> Steps]
      BY <1>16 DEF record_client_version, Goto
    <2>2. /\ envs' \in [Pids -> Nat] /\ \A q \in Pids \ {p} : envs'[q] = envs[q]
          /\ pc'[p] \in TableSteps => envs'[p] > 0
      <3>1. envs[p] > 0
        BY <1>16 DEF record_client_version
      <3>2. CASE tables
        BY <1>16, <3>1, <3>2 DEF record_client_version
      <3>3. CASE ~tables
        <4>1. envs' = [envs EXCEPT ![p] = @ - 1] /\ pc'[p] = "drop lock"
          BY <1>16, <3>3 DEF record_client_version, Goto
        <4>2. QED
          BY <3>1, <4>1, Closed
      <3>4. QED
        BY <3>2, <3>3
    <2>4. \A q \in Pids \ {p} : pc'[q] = pc[q]
      BY <1>16 DEF record_client_version, Goto
    <2>5. p \in alive'
      BY <1>16 DEF record_client_version, Busy, identity
    <2>6. UNCHANGED <<clock, alive, start_time, linked, lockfile, version_file, doubled, torn>>
      BY <1>16 DEF record_client_version, identity, historyVars, Goto
    <2>7. overlapped' \in BOOLEAN
      BY <1>16 DEF record_client_version, identity, historyVars, Goto
    <2>8. checks' \in [Pids -> BOOLEAN] /\ refused' \in [Pids -> BOOLEAN]
      BY <1>16 DEF record_client_version, identity, historyVars, Goto
    <2>9. QED
      BY <2>1, <2>2, <2>4, <2>5, <2>6, <2>7, <2>8
  <1>17. ASSUME NEW p \in Pids, CloseEnv(p) PROVE Types'
    <2>1. pc' \in [Pids -> Steps]
      BY <1>17 DEF CloseEnv, Goto
    <2>2. /\ envs' \in [Pids -> Nat] /\ \A q \in Pids \ {p} : envs'[q] = envs[q]
          /\ pc'[p] \in TableSteps => envs'[p] > 0
      <3>1. envs' = [envs EXCEPT ![p] = @ - 1] /\ pc'[p] = "drop lock" /\ envs[p] > 0
        BY <1>17 DEF CloseEnv, Goto
      <3>2. QED
        BY <3>1, Closed
    <2>4. \A q \in Pids \ {p} : pc'[q] = pc[q]
      BY <1>17 DEF CloseEnv, Goto
    <2>5. p \in alive'
      BY <1>17 DEF CloseEnv, Busy, identity
    <2>6. UNCHANGED <<clock, alive, start_time, linked, lockfile, version_file, doubled, torn>>
      BY <1>17 DEF CloseEnv, identity, dataVars, Goto, Enters, Busy
    <2>7. overlapped' \in BOOLEAN
      BY <1>17 DEF CloseEnv, identity, dataVars, Goto, Enters, Busy
    <2>8. checks' \in [Pids -> BOOLEAN] /\ refused' \in [Pids -> BOOLEAN]
      BY <1>17 DEF CloseEnv, identity, dataVars, Goto, Enters, Busy
    <2>9. QED
      BY <2>1, <2>2, <2>4, <2>5, <2>6, <2>7, <2>8
  <1>18. ASSUME NEW p \in Pids, DropLock(p) PROVE Types'
    BY <1>18 DEF DropLock, identity, dataVars, historyVars, Goto
  <1>19. ASSUME NEW p \in Pids, RemoveLock(p) PROVE Types'
    BY <1>19 DEF RemoveLock, identity, dataVars, historyVars, Goto
  <1>20. QED
    BY <1>1, <1>2, <1>3, <1>4, <1>5, <1>6, <1>7, <1>8, <1>9, <1>10, <1>11, <1>12, <1>13, <1>14,
       <1>15, <1>16, <1>17, <1>18, <1>19
       DEF Next

LEMMA OneBusyStep ==
    ASSUME Types, OneBusy, [Next]_vars
    PROVE  OneBusy'
  <1> USE DEF Types, OneBusy
  <1>1. CASE Tick
    BY <1>1 DEF Tick, identity, processVars, dataVars, historyVars
  <1>2. CASE UNCHANGED vars
    BY <1>2 DEF vars, identity, processVars, dataVars, historyVars
  <1>3. ASSUME NEW p \in Pids, Start(p) PROVE OneBusy'
    BY <1>3 DEF Start, dataVars, historyVars
  <1>4. ASSUME NEW p \in Pids, Dies(p) PROVE OneBusy'
    BY <1>4 DEF Dies, dataVars
  <1>5. ASSUME NEW p \in Pids, init_db(p) PROVE OneBusy'
    BY <1>5 DEF init_db, identity, dataVars, Goto, Enters, Busy, MayOpen
  <1>6. ASSUME NEW p \in Pids, open_db(p) PROVE OneBusy'
    BY <1>6 DEF open_db, identity, dataVars, Goto, Enters, Busy, MayOpen
  <1>7. ASSUME NEW p \in Pids, check_db_version_file(p) PROVE OneBusy'
    BY <1>7 DEF check_db_version_file, identity, dataVars, historyVars, Goto
  <1>8. ASSUME NEW p \in Pids, TruncateVersion(p) PROVE OneBusy'
    BY <1>8 DEF TruncateVersion, identity, dataVars, historyVars, Goto
  <1>9. ASSUME NEW p \in Pids, FillVersion(p) PROVE OneBusy'
    BY <1>9 DEF FillVersion, identity, dataVars, historyVars, Goto
  <1>10. ASSUME NEW p \in Pids, try_acquire_file_lock(p) PROVE OneBusy'
    BY <1>10 DEF try_acquire_file_lock, Taken, identity, dataVars, historyVars, Goto
  <1>11. ASSUME NEW p \in Pids, TruncateLock(p) PROVE OneBusy'
    BY <1>11 DEF TruncateLock, identity, dataVars, historyVars, Goto
  <1>12. ASSUME NEW p \in Pids, FillLock(p) PROVE OneBusy'
    BY <1>12 DEF FillLock, Own, identity, dataVars, historyVars, Goto
  <1>13. ASSUME NEW p \in Pids, OpenEnv(p) PROVE OneBusy'
    BY <1>13 DEF OpenEnv, identity, dataVars, historyVars, Goto
  <1>14. ASSUME NEW p \in Pids, OpenEnvFails(p) PROVE OneBusy'
    BY <1>14 DEF OpenEnvFails, identity, dataVars, historyVars, Goto
  <1>15. ASSUME NEW p \in Pids, create_and_track_tables_for(p) PROVE OneBusy'
    BY <1>15 DEF create_and_track_tables_for, identity, historyVars, Goto
  <1>16. ASSUME NEW p \in Pids, record_client_version(p) PROVE OneBusy'
    BY <1>16 DEF record_client_version, identity, historyVars, Goto
  <1>17. ASSUME NEW p \in Pids, CloseEnv(p) PROVE OneBusy'
    BY <1>17 DEF CloseEnv, identity, dataVars, Goto, Enters, Busy
  <1>18. ASSUME NEW p \in Pids, DropLock(p) PROVE OneBusy'
    BY <1>18 DEF DropLock, identity, dataVars, historyVars, Goto
  <1>19. ASSUME NEW p \in Pids, RemoveLock(p) PROVE OneBusy'
    BY <1>19 DEF RemoveLock, identity, dataVars, historyVars, Goto
  <1>20. QED
    BY <1>1, <1>2, <1>3, <1>4, <1>5, <1>6, <1>7, <1>8, <1>9, <1>10, <1>11, <1>12, <1>13, <1>14,
       <1>15, <1>16, <1>17, <1>18, <1>19
       DEF Next

\* Nobody writes over an old version.
OldLeftAlone ==
    version_file = OldVersion =>
        \A p \in Pids : pc[p] \notin {"truncate version", "fill version"}

LEMMA Versions ==
    /\ Absent # Torn /\ OldVersion # DB_VERSION
    /\ Absent \notin {OldVersion, DB_VERSION} /\ Torn \notin {OldVersion, DB_VERSION}
  BY StorageConstants DEF OldVersion, DB_VERSION

LEMMA OldLeftAloneStep ==
    ASSUME Types, OldLeftAlone, [Next]_vars
    PROVE  OldLeftAlone'
  <1> USE DEF OldLeftAlone, Types
  <1>1. CASE Tick
    BY <1>1, Versions DEF Tick, identity, processVars, dataVars, historyVars
  <1>2. CASE UNCHANGED vars
    BY <1>2, Versions DEF vars, identity, processVars, dataVars, historyVars
  <1>3. ASSUME NEW p \in Pids, Start(p) PROVE OldLeftAlone'
    BY <1>3, Versions DEF Start, dataVars, historyVars
  <1>4. ASSUME NEW p \in Pids, Dies(p) PROVE OldLeftAlone'
    BY <1>4, Versions DEF Dies, dataVars
  <1>5. ASSUME NEW p \in Pids, init_db(p) PROVE OldLeftAlone'
    BY <1>5, Versions
       DEF init_db, identity, dataVars, Goto, Enters, Busy, MayOpen, is_database_empty
  <1>6. ASSUME NEW p \in Pids, open_db(p) PROVE OldLeftAlone'
    BY <1>6, Versions DEF open_db, identity, dataVars, Goto, Enters, Busy, MayOpen
  <1>7. ASSUME NEW p \in Pids, check_db_version_file(p) PROVE OldLeftAlone'
    BY <1>7, Versions DEF check_db_version_file, identity, dataVars, historyVars, Goto
  <1>8. ASSUME NEW p \in Pids, TruncateVersion(p) PROVE OldLeftAlone'
    BY <1>8, Versions DEF TruncateVersion, identity, dataVars, historyVars, Goto
  <1>9. ASSUME NEW p \in Pids, FillVersion(p) PROVE OldLeftAlone'
    BY <1>9, Versions DEF FillVersion, identity, dataVars, historyVars, Goto
  <1>10. ASSUME NEW p \in Pids, try_acquire_file_lock(p) PROVE OldLeftAlone'
    BY <1>10, Versions DEF try_acquire_file_lock, identity, dataVars, historyVars, Goto
  <1>11. ASSUME NEW p \in Pids, TruncateLock(p) PROVE OldLeftAlone'
    BY <1>11, Versions DEF TruncateLock, identity, dataVars, historyVars, Goto
  <1>12. ASSUME NEW p \in Pids, FillLock(p) PROVE OldLeftAlone'
    BY <1>12, Versions DEF FillLock, identity, dataVars, historyVars, Goto
  <1>13. ASSUME NEW p \in Pids, OpenEnv(p) PROVE OldLeftAlone'
    BY <1>13, Versions DEF OpenEnv, identity, dataVars, historyVars, Goto
  <1>14. ASSUME NEW p \in Pids, OpenEnvFails(p) PROVE OldLeftAlone'
    BY <1>14, Versions DEF OpenEnvFails, identity, dataVars, historyVars, Goto
  <1>15. ASSUME NEW p \in Pids, create_and_track_tables_for(p) PROVE OldLeftAlone'
    BY <1>15, Versions DEF create_and_track_tables_for, identity, historyVars, Goto
  <1>16. ASSUME NEW p \in Pids, record_client_version(p) PROVE OldLeftAlone'
    BY <1>16, Versions DEF record_client_version, identity, historyVars, Goto
  <1>17. ASSUME NEW p \in Pids, CloseEnv(p) PROVE OldLeftAlone'
    BY <1>17, Versions DEF CloseEnv, identity, dataVars, Goto, Enters, Busy
  <1>18. ASSUME NEW p \in Pids, DropLock(p) PROVE OldLeftAlone'
    BY <1>18, Versions DEF DropLock, identity, dataVars, historyVars, Goto
  <1>19. ASSUME NEW p \in Pids, RemoveLock(p) PROVE OldLeftAlone'
    BY <1>19, Versions DEF RemoveLock, identity, dataVars, historyVars, Goto
  <1>20. QED
    BY <1>1, <1>2, <1>3, <1>4, <1>5, <1>6, <1>7, <1>8, <1>9, <1>10, <1>11, <1>12, <1>13, <1>14,
       <1>15, <1>16, <1>17, <1>18, <1>19
       DEF Next

LEMMA BrokenStep ==
    ASSUME Types, BrokenByADeath, [Next]_vars
    PROVE  BrokenByADeath'
  <1> USE DEF BrokenByADeath, Types
  <1>1. CASE Tick
    BY <1>1, Versions DEF Tick, identity, processVars, dataVars, historyVars
  <1>2. CASE UNCHANGED vars
    BY <1>2, Versions DEF vars, identity, processVars, dataVars, historyVars
  <1>3. ASSUME NEW p \in Pids, Start(p) PROVE BrokenByADeath'
    BY <1>3, Versions DEF Start, dataVars, historyVars
  <1>4. ASSUME NEW p \in Pids, Dies(p) PROVE BrokenByADeath'
    BY <1>4, Versions DEF Dies, dataVars
  <1>5. ASSUME NEW p \in Pids, init_db(p) PROVE BrokenByADeath'
    BY <1>5, Versions DEF init_db, identity, dataVars, Goto, Enters, Busy, MayOpen
  <1>6. ASSUME NEW p \in Pids, open_db(p) PROVE BrokenByADeath'
    BY <1>6, Versions DEF open_db, identity, dataVars, Goto, Enters, Busy, MayOpen
  <1>7. ASSUME NEW p \in Pids, check_db_version_file(p) PROVE BrokenByADeath'
    BY <1>7, Versions DEF check_db_version_file, identity, dataVars, historyVars, Goto
  <1>8. ASSUME NEW p \in Pids, TruncateVersion(p) PROVE BrokenByADeath'
    BY <1>8, Versions DEF TruncateVersion, identity, dataVars, historyVars, Goto
  <1>9. ASSUME NEW p \in Pids, FillVersion(p) PROVE BrokenByADeath'
    BY <1>9, Versions DEF FillVersion, identity, dataVars, historyVars, Goto
  <1>10. ASSUME NEW p \in Pids, try_acquire_file_lock(p) PROVE BrokenByADeath'
    BY <1>10, Versions DEF try_acquire_file_lock, identity, dataVars, historyVars, Goto
  <1>11. ASSUME NEW p \in Pids, TruncateLock(p) PROVE BrokenByADeath'
    BY <1>11, Versions DEF TruncateLock, identity, dataVars, historyVars, Goto
  <1>12. ASSUME NEW p \in Pids, FillLock(p) PROVE BrokenByADeath'
    BY <1>12, Versions DEF FillLock, identity, dataVars, historyVars, Goto
  <1>13. ASSUME NEW p \in Pids, OpenEnv(p) PROVE BrokenByADeath'
    BY <1>13, Versions DEF OpenEnv, identity, dataVars, historyVars, Goto
  <1>14. ASSUME NEW p \in Pids, OpenEnvFails(p) PROVE BrokenByADeath'
    BY <1>14, Versions DEF OpenEnvFails, identity, dataVars, historyVars, Goto
  <1>15. ASSUME NEW p \in Pids, create_and_track_tables_for(p) PROVE BrokenByADeath'
    BY <1>15, Versions DEF create_and_track_tables_for, identity, historyVars, Goto
  <1>16. ASSUME NEW p \in Pids, record_client_version(p) PROVE BrokenByADeath'
    BY <1>16, Versions DEF record_client_version, identity, historyVars, Goto
  <1>17. ASSUME NEW p \in Pids, CloseEnv(p) PROVE BrokenByADeath'
    BY <1>17, Versions DEF CloseEnv, identity, dataVars, Goto, Enters, Busy
  <1>18. ASSUME NEW p \in Pids, DropLock(p) PROVE BrokenByADeath'
    BY <1>18, Versions DEF DropLock, identity, dataVars, historyVars, Goto
  <1>19. ASSUME NEW p \in Pids, RemoveLock(p) PROVE BrokenByADeath'
    BY <1>19, Versions DEF RemoveLock, identity, dataVars, historyVars, Goto
  <1>20. QED
    BY <1>1, <1>2, <1>3, <1>4, <1>5, <1>6, <1>7, <1>8, <1>9, <1>10, <1>11, <1>12, <1>13, <1>14,
       <1>15, <1>16, <1>17, <1>18, <1>19
       DEF Next

LEMMA NeverOpenedStep ==
    ASSUME Types, OneBusy, OldNeverOpened, [Next]_vars
    PROVE  OldNeverOpened'
  <1> USE DEF OldNeverOpened, OneBusy, PastCheck, Types
  <1>1. CASE Tick
    BY <1>1, Versions DEF Tick, identity, processVars, dataVars, historyVars
  <1>2. CASE UNCHANGED vars
    BY <1>2, Versions DEF vars, identity, processVars, dataVars, historyVars
  <1>3. ASSUME NEW p \in Pids, Start(p) PROVE OldNeverOpened'
    BY <1>3, Versions DEF Start, dataVars, historyVars
  <1>4. ASSUME NEW p \in Pids, Dies(p) PROVE OldNeverOpened'
    BY <1>4, Versions DEF Dies, dataVars
  <1>5. ASSUME NEW p \in Pids, init_db(p) PROVE OldNeverOpened'
    BY <1>5, Versions DEF init_db, identity, dataVars, Goto, Enters, Busy, MayOpen
  <1>6. ASSUME NEW p \in Pids, open_db(p) PROVE OldNeverOpened'
    BY <1>6, Versions DEF open_db, identity, dataVars, Goto, Enters, Busy, MayOpen
  <1>7. ASSUME NEW p \in Pids, check_db_version_file(p) PROVE OldNeverOpened'
    BY <1>7, Versions DEF check_db_version_file, identity, dataVars, historyVars, Goto
  <1>8. ASSUME NEW p \in Pids, TruncateVersion(p) PROVE OldNeverOpened'
    BY <1>8, Versions DEF TruncateVersion, identity, dataVars, historyVars, Goto
  <1>9. ASSUME NEW p \in Pids, FillVersion(p) PROVE OldNeverOpened'
    BY <1>9, Versions DEF FillVersion, identity, dataVars, historyVars, Goto
  <1>10. ASSUME NEW p \in Pids, try_acquire_file_lock(p) PROVE OldNeverOpened'
    BY <1>10, Versions DEF try_acquire_file_lock, identity, dataVars, historyVars, Goto
  <1>11. ASSUME NEW p \in Pids, TruncateLock(p) PROVE OldNeverOpened'
    BY <1>11, Versions DEF TruncateLock, identity, dataVars, historyVars, Goto
  <1>12. ASSUME NEW p \in Pids, FillLock(p) PROVE OldNeverOpened'
    BY <1>12, Versions DEF FillLock, identity, dataVars, historyVars, Goto
  <1>13. ASSUME NEW p \in Pids, OpenEnv(p) PROVE OldNeverOpened'
    BY <1>13, Versions DEF OpenEnv, identity, dataVars, historyVars, Goto
  <1>14. ASSUME NEW p \in Pids, OpenEnvFails(p) PROVE OldNeverOpened'
    BY <1>14, Versions DEF OpenEnvFails, identity, dataVars, historyVars, Goto
  <1>15. ASSUME NEW p \in Pids, create_and_track_tables_for(p) PROVE OldNeverOpened'
    BY <1>15, Versions DEF create_and_track_tables_for, identity, historyVars, Goto
  <1>16. ASSUME NEW p \in Pids, record_client_version(p) PROVE OldNeverOpened'
    BY <1>16, Versions DEF record_client_version, identity, historyVars, Goto
  <1>17. ASSUME NEW p \in Pids, CloseEnv(p) PROVE OldNeverOpened'
    BY <1>17, Versions DEF CloseEnv, identity, dataVars, Goto, Enters, Busy
  <1>18. ASSUME NEW p \in Pids, DropLock(p) PROVE OldNeverOpened'
    <2>1. \E label \in {"remove lock", "idle"} : pc' = [pc EXCEPT ![p] = label]
      BY <1>18 DEF DropLock, Goto
    <2>2. UNCHANGED <<checks, version_file, overlapped>>
      BY <1>18 DEF DropLock, identity, dataVars, historyVars
    <2>3. QED
      BY <2>1, <2>2
  <1>19. ASSUME NEW p \in Pids, RemoveLock(p) PROVE OldNeverOpened'
    BY <1>19, Versions DEF RemoveLock, identity, dataVars, historyVars, Goto
  <1>20. QED
    BY <1>1, <1>2, <1>3, <1>4, <1>5, <1>6, <1>7, <1>8, <1>9, <1>10, <1>11, <1>12, <1>13, <1>14,
       <1>15, <1>16, <1>17, <1>18, <1>19
       DEF Next


-----------------------------------------------------------------------------
(* The lock.                                                               *)

\* What the lock file says when process p, started at s, has written it.
Names(file, p, s) == file \notin {Absent, Torn} /\ file.pid = p /\ file.start_time = s

LEMMA Contents ==
    ASSUME NEW p \in Pids, start_time[p] \in Nat
    PROVE  Names(Own(p), p, start_time[p])
  BY StorageConstants DEF Own, Names

LEMMA NamesOne ==
    /\ \A file, p, q, s, r : Names(file, p, s) /\ Names(file, q, r) => p = q /\ s = r
    /\ \A p, s : ~Names(Absent, p, s) /\ ~Names(Torn, p, s)
  BY DEF Names

\* The lock names no process that had the pid after the present one.
LockIsOld == \A p \in Pids, s \in Nat : Names(lockfile, p, s) => s <= start_time[p]

Zero == 0
One  == 1

\* If calls never overlap, a lock that is being written is there, and one that names a running
\* process is that of a holder, or of a process that has just taken it or gives it up.
LockHasAReason ==
    ~overlapped =>
        \A p \in Pids :
            /\ pc[p] = "fill lock" => lockfile = Torn /\ linked[p]
            /\ p \in alive /\ Names(lockfile, p, start_time[p]) =>
                  envs[p] # Zero \/ pc[p] \in {"truncate lock", "open", "drop lock", "remove lock"}

\* If besides no process has two environments: who is about to hold the database or does so has
\* the lock, and while the lock changes nobody holds.
OneHolder ==
    ~overlapped /\ ~doubled =>
        \A p \in Pids :
            /\ envs[p] \in {Zero, One}
            /\ pc[p] \in {"check lock"} \cup VersionSteps => envs[p] = Zero
            /\ pc[p] \in LockSteps => \A q \in Pids : envs[q] = Zero
            /\ pc[p] = "open" \/ envs[p] = One => Names(lockfile, p, start_time[p])

LEMMA LockIsOldStep ==
    ASSUME Types, LockIsOld, [Next]_vars
    PROVE  LockIsOld'
  <1> USE DEF LockIsOld, Types
  <1>1. CASE Tick
    BY <1>1, NamesOne, Contents DEF Tick, identity, processVars, dataVars, historyVars
  <1>2. CASE UNCHANGED vars
    BY <1>2, NamesOne, Contents DEF vars, identity, processVars, dataVars, historyVars
  <1>3. ASSUME NEW p \in Pids, Start(p) PROVE LockIsOld'
    BY <1>3, NamesOne, Contents DEF Start, dataVars, historyVars
  <1>4. ASSUME NEW p \in Pids, Dies(p) PROVE LockIsOld'
    BY <1>4, NamesOne, Contents DEF Dies, dataVars
  <1>5. ASSUME NEW p \in Pids, init_db(p) PROVE LockIsOld'
    BY <1>5, NamesOne, Contents DEF init_db, identity, dataVars, Goto, Enters, Busy, MayOpen
  <1>6. ASSUME NEW p \in Pids, open_db(p) PROVE LockIsOld'
    BY <1>6, NamesOne, Contents DEF open_db, identity, dataVars, Goto, Enters, Busy, MayOpen
  <1>7. ASSUME NEW p \in Pids, check_db_version_file(p) PROVE LockIsOld'
    BY <1>7, NamesOne, Contents DEF check_db_version_file, identity, dataVars, historyVars, Goto
  <1>8. ASSUME NEW p \in Pids, TruncateVersion(p) PROVE LockIsOld'
    BY <1>8, NamesOne, Contents DEF TruncateVersion, identity, dataVars, historyVars, Goto
  <1>9. ASSUME NEW p \in Pids, FillVersion(p) PROVE LockIsOld'
    BY <1>9, NamesOne, Contents DEF FillVersion, identity, dataVars, historyVars, Goto
  <1>10. ASSUME NEW p \in Pids, try_acquire_file_lock(p) PROVE LockIsOld'
    BY <1>10, NamesOne, Contents DEF try_acquire_file_lock, identity, dataVars, historyVars, Goto
  <1>11. ASSUME NEW p \in Pids, TruncateLock(p) PROVE LockIsOld'
    BY <1>11, NamesOne, Contents DEF TruncateLock, identity, dataVars, historyVars, Goto
  <1>12. ASSUME NEW p \in Pids, FillLock(p) PROVE LockIsOld'
    <2>1. start_time' = start_time
      BY <1>12 DEF FillLock, identity
    <2>2. CASE lockfile' = lockfile
      BY <2>1, <2>2
    <2>3. CASE lockfile' = Own(p)
      <3>1. Names(lockfile', p, start_time[p]) /\ start_time[p] \in Nat
        BY <2>3, Contents
      <3>2. QED
        BY <2>1, <3>1, NamesOne
    <2>4. QED
      BY <1>12, <2>2, <2>3 DEF FillLock
  <1>13. ASSUME NEW p \in Pids, OpenEnv(p) PROVE LockIsOld'
    BY <1>13, NamesOne, Contents DEF OpenEnv, identity, dataVars, historyVars, Goto
  <1>14. ASSUME NEW p \in Pids, OpenEnvFails(p) PROVE LockIsOld'
    BY <1>14, NamesOne, Contents DEF OpenEnvFails, identity, dataVars, historyVars, Goto
  <1>15. ASSUME NEW p \in Pids, create_and_track_tables_for(p) PROVE LockIsOld'
    BY <1>15, NamesOne, Contents DEF create_and_track_tables_for, identity, historyVars, Goto
  <1>16. ASSUME NEW p \in Pids, record_client_version(p) PROVE LockIsOld'
    BY <1>16, NamesOne, Contents DEF record_client_version, identity, historyVars, Goto
  <1>17. ASSUME NEW p \in Pids, CloseEnv(p) PROVE LockIsOld'
    BY <1>17, NamesOne, Contents DEF CloseEnv, identity, dataVars, Goto, Enters, Busy
  <1>18. ASSUME NEW p \in Pids, DropLock(p) PROVE LockIsOld'
    BY <1>18, NamesOne, Contents DEF DropLock, identity, dataVars, historyVars, Goto
  <1>19. ASSUME NEW p \in Pids, RemoveLock(p) PROVE LockIsOld'
    BY <1>19, NamesOne, Contents DEF RemoveLock, identity, dataVars, historyVars, Goto
  <1>20. QED
    BY <1>1, <1>2, <1>3, <1>4, <1>5, <1>6, <1>7, <1>8, <1>9, <1>10, <1>11, <1>12, <1>13, <1>14,
       <1>15, <1>16, <1>17, <1>18, <1>19
       DEF Next

LEMMA Numbers ==
    /\ Zero # One
    /\ \A n \in Nat : (n > 0 <=> n # Zero) /\ n + 1 # Zero
    /\ Zero + 1 = One /\ One - 1 = Zero
  BY DEF Zero, One

LEMMA Positive ==
    ASSUME Types
    PROVE  \A p \in Pids : envs[p] \in Nat /\ (envs[p] > 0 <=> envs[p] # Zero)
  BY Numbers DEF Types

LEMMA GotoIs ==
    ASSUME Types, NEW p \in Pids, NEW label, Goto(p, label)
    PROVE  pc'[p] = label
  BY DEF Types, Goto

\* What a call of one process leaves to the others: all but the lock, and the histories.
Moves(p) ==
    /\ \A q \in Pids \ {p} : pc'[q] = pc[q] /\ envs'[q] = envs[q]
    /\ UNCHANGED <<alive, start_time>>
    /\ pc[p] # "idle" \/ pc'[p] # "idle"
    /\ overlapped => overlapped'
    /\ doubled => doubled'

Call(p) ==
    \/ init_db(p) \/ open_db(p)
    \/ check_db_version_file(p) \/ TruncateVersion(p) \/ FillVersion(p)
    \/ try_acquire_file_lock(p) \/ TruncateLock(p) \/ FillLock(p)
    \/ OpenEnv(p) \/ OpenEnvFails(p)
    \/ create_and_track_tables_for(p) \/ record_client_version(p)
    \/ CloseEnv(p) \/ DropLock(p) \/ RemoveLock(p)

LEMMA CallsMove ==
    ASSUME Types, NEW p \in Pids, Call(p)
    PROVE  Moves(p)
  <1> USE DEF Types, Steps, LockSteps, TableSteps, VersionSteps, Moves
  <1>1. CASE init_db(p)
    BY <1>1 DEF init_db, identity, dataVars, Goto, Enters, Busy, MayOpen
  <1>2. CASE open_db(p)
    BY <1>2 DEF open_db, identity, dataVars, Goto, Enters, Busy, MayOpen
  <1>3. CASE check_db_version_file(p)
    BY <1>3 DEF check_db_version_file, identity, dataVars, historyVars, Goto
  <1>4. CASE TruncateVersion(p)
    BY <1>4 DEF TruncateVersion, identity, dataVars, historyVars, Goto
  <1>5. CASE FillVersion(p)
    BY <1>5 DEF FillVersion, identity, dataVars, historyVars, Goto
  <1>6. CASE try_acquire_file_lock(p)
    BY <1>6 DEF try_acquire_file_lock, identity, dataVars, historyVars, Goto
  <1>7. CASE TruncateLock(p)
    BY <1>7 DEF TruncateLock, identity, dataVars, historyVars, Goto
  <1>8. CASE FillLock(p)
    BY <1>8 DEF FillLock, identity, dataVars, historyVars, Goto
  <1>9. CASE OpenEnv(p)
    BY <1>9 DEF OpenEnv, identity, dataVars, historyVars, Goto
  <1>10. CASE OpenEnvFails(p)
    BY <1>10 DEF OpenEnvFails, identity, dataVars, historyVars, Goto
  <1>11. CASE create_and_track_tables_for(p)
    BY <1>11 DEF create_and_track_tables_for, identity, historyVars, Goto
  <1>12. CASE record_client_version(p)
    BY <1>12 DEF record_client_version, identity, historyVars, Goto
  <1>13. CASE CloseEnv(p)
    BY <1>13 DEF CloseEnv, identity, dataVars, Goto, Enters, Busy
  <1>14. CASE DropLock(p)
    BY <1>14 DEF DropLock, identity, dataVars, historyVars, Goto
  <1>15. CASE RemoveLock(p)
    BY <1>15 DEF RemoveLock, identity, dataVars, historyVars, Goto
  <1>16. QED
    BY <1>1, <1>2, <1>3, <1>4, <1>5, <1>6, <1>7, <1>8, <1>9, <1>10, <1>11, <1>12, <1>13, <1>14,
       <1>15
       DEF Call

\* What its own step must do.
ReasonToo(p) ==
    ~overlapped' =>
        /\ pc'[p] = "fill lock" => lockfile' = Torn /\ linked'[p]
        /\ Names(lockfile', p, start_time[p]) =>
              envs'[p] # Zero \/ pc'[p] \in {"truncate lock", "open", "drop lock", "remove lock"}
        /\ \A q \in Pids \ {p} :
              Names(lockfile', q, start_time[q]) => Names(lockfile, q, start_time[q])

HoldsToo(p) ==
    ~overlapped' /\ ~doubled' =>
        /\ envs'[p] \in {Zero, One}
        /\ pc'[p] \in {"check lock"} \cup VersionSteps => envs'[p] = Zero
        /\ pc'[p] \in LockSteps => envs'[p] = Zero /\ \A q \in Pids \ {p} : envs[q] = Zero
        /\ pc'[p] = "open" \/ envs'[p] = One => Names(lockfile', p, start_time[p])
        /\ \A q \in Pids \ {p} : envs[q] = One => lockfile' = lockfile

\* A move of a process that keeps its part keeps the invariant.
LEMMA ReasonKept ==
    ASSUME Types, OneBusy, OneBusy', LockHasAReason, NEW p \in Pids,
           Moves(p),
           ReasonToo(p)
    PROVE  LockHasAReason'
  <1> USE DEF Moves, ReasonToo
  <1> SUFFICES ASSUME ~overlapped', NEW q \in Pids
               PROVE  /\ pc'[q] = "fill lock" => lockfile' = Torn /\ linked'[q]
                      /\ q \in alive' /\ Names(lockfile', q, start_time'[q]) =>
                            \/ envs'[q] # Zero
                            \/ pc'[q] \in {"truncate lock", "open", "drop lock", "remove lock"}
    BY DEF LockHasAReason
  <1>1. CASE q = p
    BY <1>1
  <1>2. CASE q # p
    <2>1. pc[q] = "idle" /\ pc'[q] = "idle"
      BY <1>2 DEF OneBusy
    <2>2. q \in alive /\ Names(lockfile, q, start_time[q]) => envs[q] # Zero
      BY <2>1 DEF LockHasAReason
    <2>3. QED
      BY <1>2, <2>1, <2>2
  <1>3. QED
    BY <1>1, <1>2

LEMMA HolderKept ==
    ASSUME Types, OneBusy, OneBusy', OneHolder, NEW p \in Pids,
           Moves(p),
           HoldsToo(p)
    PROVE  OneHolder'
  <1> USE DEF Moves, HoldsToo
  <1> SUFFICES ASSUME ~overlapped', ~doubled', NEW q \in Pids
               PROVE  /\ envs'[q] \in {Zero, One}
                      /\ pc'[q] \in {"check lock"} \cup VersionSteps => envs'[q] = Zero
                      /\ pc'[q] \in LockSteps => \A r \in Pids : envs'[r] = Zero
                      /\ pc'[q] = "open" \/ envs'[q] = One => Names(lockfile', q, start_time'[q])
    BY DEF OneHolder
  <1>1. CASE q = p
    BY <1>1
  <1>2. CASE q # p
    <2>1. pc'[q] = "idle" /\ "idle" \notin {"check lock", "open"} \cup VersionSteps \cup LockSteps
      BY <1>2 DEF OneBusy, VersionSteps, LockSteps
    <2>2. envs[q] \in {Zero, One} /\ (envs[q] = One => Names(lockfile, q, start_time[q]))
      BY DEF OneHolder
    <2>3. QED
      BY <1>2, <2>1, <2>2
  <1>3. QED
    BY <1>1, <1>2

LEMMA ReasonSteps ==
    ASSUME Types, OneBusy, LockHasAReason, NEW p \in Pids, Call(p)
    PROVE  ReasonToo(p)
  <1> USE DEF Types, Steps, LockSteps, TableSteps, VersionSteps, OneBusy, LockHasAReason,
       ReasonToo
  <1>1. CASE init_db(p)
    BY <1>1, Numbers, NamesOne, Contents
       DEF init_db, identity, dataVars, Goto, Enters, Busy, MayOpen
  <1>2. CASE open_db(p)
    BY <1>2, Numbers, NamesOne, Contents
       DEF open_db, identity, dataVars, Goto, Enters, Busy, MayOpen
  <1>3. CASE check_db_version_file(p)
    BY <1>3, Numbers, NamesOne, Contents
       DEF check_db_version_file, identity, dataVars, historyVars, Goto
  <1>4. CASE TruncateVersion(p)
    BY <1>4, Numbers, NamesOne, Contents DEF TruncateVersion, identity, dataVars, historyVars, Goto
  <1>5. CASE FillVersion(p)
    BY <1>5, Numbers, NamesOne, Contents DEF FillVersion, identity, dataVars, historyVars, Goto
  <1>6. CASE try_acquire_file_lock(p)
    BY <1>6, Numbers, NamesOne, Contents
       DEF try_acquire_file_lock, identity, dataVars, historyVars, Goto
  <1>7. CASE TruncateLock(p)
    BY <1>7, Numbers, NamesOne, Contents DEF TruncateLock, identity, dataVars, historyVars, Goto
  <1>8. CASE FillLock(p)
    BY <1>8, Numbers, NamesOne, Contents DEF FillLock, identity, dataVars, historyVars, Goto
  <1>9. CASE OpenEnv(p)
    BY <1>9, Numbers, NamesOne, Contents DEF OpenEnv, identity, dataVars, historyVars, Goto
  <1>10. CASE OpenEnvFails(p)
    BY <1>10, Numbers, NamesOne, Contents DEF OpenEnvFails, identity, dataVars, historyVars, Goto
  <1>11. CASE create_and_track_tables_for(p)
    BY <1>11, Numbers, NamesOne, Contents
       DEF create_and_track_tables_for, identity, historyVars, Goto
  <1>12. CASE record_client_version(p)
    <2>1. envs[p] # Zero /\ lockfile' = lockfile
      BY <1>12, Positive DEF record_client_version
    <2>2. \/ envs' = envs /\ pc'[p] = "idle"
          \/ pc'[p] = "drop lock"
      BY <1>12 DEF record_client_version, Goto
    <2>3. QED
      BY <2>1, <2>2
  <1>13. CASE CloseEnv(p)
    BY <1>13, Numbers, NamesOne, Contents DEF CloseEnv, identity, dataVars, Goto, Enters, Busy
  <1>14. CASE DropLock(p)
    <2>1. Names(lockfile, p, start_time[p]) => pc'[p] = "remove lock"
      BY <1>14 DEF DropLock, Goto, Readable, Names
    <2>2. pc'[p] # "fill lock" /\ lockfile' = lockfile
      <3>1. pc'[p] \in {"remove lock", "idle"}
        <4> HIDE DEF Types, OneBusy, LockHasAReason
        <4> QED
          BY <1>14, GotoIs DEF DropLock
      <3>2. lockfile' = lockfile
        BY <1>14 DEF DropLock
      <3>3. QED
        BY <3>1, <3>2
    <2>3. Names(lockfile', p, start_time[p]) => pc'[p] = "remove lock"
      BY <2>1, <2>2
    <2>4. \A q \in Pids \ {p} :
              Names(lockfile', q, start_time[q]) => Names(lockfile, q, start_time[q])
      BY <2>2
    <2> HIDE DEF Types, OneBusy, LockHasAReason, Steps, LockSteps, TableSteps, VersionSteps
    <2>5. QED
      BY <2>2, <2>3, <2>4
  <1>15. CASE RemoveLock(p)
    BY <1>15, Numbers, NamesOne, Contents DEF RemoveLock, identity, dataVars, historyVars, Goto
  <1>16. QED
    BY <1>1, <1>2, <1>3, <1>4, <1>5, <1>6, <1>7, <1>8, <1>9, <1>10, <1>11, <1>12, <1>13, <1>14,
       <1>15
       DEF Call

LEMMA HolderSteps ==
    ASSUME Types, OneBusy, LockHasAReason, OneHolder, NEW p \in Pids, Call(p)
    PROVE  HoldsToo(p)
  <1> USE DEF Types, Steps, LockSteps, TableSteps, VersionSteps, OneBusy, OneHolder, HoldsToo
  <1>1. CASE init_db(p)
    BY <1>1, Numbers, NamesOne, Contents
       DEF init_db, identity, dataVars, Goto, Enters, Busy, MayOpen
  <1>2. CASE open_db(p)
    <2>1. envs' = envs /\ lockfile' = lockfile /\ pc'[p] = "check lock"
      BY <1>2 DEF open_db, Goto
    <2>2. ~doubled' => envs[p] = Zero
      BY <1>2, Numbers DEF open_db
    <2>3. QED
      BY <2>1, <2>2, Numbers
  <1>3. CASE check_db_version_file(p)
    BY <1>3, Numbers, NamesOne, Contents
       DEF check_db_version_file, identity, dataVars, historyVars, Goto
  <1>4. CASE TruncateVersion(p)
    BY <1>4, Numbers, NamesOne, Contents DEF TruncateVersion, identity, dataVars, historyVars, Goto
  <1>5. CASE FillVersion(p)
    BY <1>5, Numbers, NamesOne, Contents DEF FillVersion, identity, dataVars, historyVars, Goto
  <1>6. CASE try_acquire_file_lock(p)
    <2>1. /\ envs' = envs /\ lockfile' = lockfile
          /\ overlapped' = overlapped /\ doubled' = doubled
          /\ pc[p] = "check lock" /\ pc'[p] \in {"idle", "truncate lock"}
      BY <1>6 DEF try_acquire_file_lock, Goto, historyVars
    <2>2. ASSUME ~overlapped, ~doubled, pc'[p] = "truncate lock", NEW q \in Pids \ {p}
          PROVE  envs[q] = Zero
      <3>1. ~Taken(p)
        BY <1>6, <2>2 DEF try_acquire_file_lock, Goto
      <3>2. q \in alive => ~Names(lockfile, q, start_time[q])
        <4> HIDE DEF Types, OneBusy, OneHolder, LockHasAReason
        <4> QED
          BY <3>1 DEF Taken, Readable, is_active, Names
      <3>3. envs[q] \in {Zero, One} /\ (envs[q] # Zero => q \in alive)
        BY <2>2, Positive
      <3>4. QED
        BY <2>2, <3>2, <3>3
    <2>3. QED
      BY <2>1, <2>2, Numbers
  <1>7. CASE TruncateLock(p)
    <2>1. /\ pc[p] = "truncate lock" /\ envs' = envs
          /\ overlapped' = overlapped /\ doubled' = doubled
          /\ pc'[p] \in {"fill lock"}
      BY <1>7 DEF TruncateLock, Goto, historyVars, processVars
    <2>2. ~overlapped /\ ~doubled => \A q \in Pids : envs[q] = Zero
      BY <2>1
    <2>3. QED
      BY <2>1, <2>2, Numbers
  <1>8. CASE FillLock(p)
    <2>1. /\ pc[p] = "fill lock" /\ envs' = envs
          /\ overlapped' = overlapped /\ doubled' = doubled
          /\ pc'[p] = "open"
      BY <1>8 DEF FillLock, Goto, historyVars
    <2>2. ~overlapped => linked[p]
      BY <2>1 DEF LockHasAReason
    <2>3. ~overlapped => Names(lockfile', p, start_time[p])
      BY <1>8, <2>2, Contents DEF FillLock
    <2>4. ~overlapped /\ ~doubled => \A q \in Pids : envs[q] = Zero
      BY <2>1
    <2>5. QED
      BY <2>1, <2>3, <2>4, Numbers
  <1>9. CASE OpenEnv(p)
    BY <1>9, Numbers, NamesOne, Contents DEF OpenEnv, identity, dataVars, historyVars, Goto
  <1>10. CASE OpenEnvFails(p)
    BY <1>10, Numbers, NamesOne, Contents DEF OpenEnvFails, identity, dataVars, historyVars, Goto
  <1>11. CASE create_and_track_tables_for(p)
    BY <1>11, Numbers, NamesOne, Contents
       DEF create_and_track_tables_for, identity, historyVars, Goto
  <1>12. CASE record_client_version(p)
    <2>1. CASE tables
      <3>1. /\ envs' = envs /\ lockfile' = lockfile /\ pc'[p] = "idle"
            /\ doubled' = doubled /\ overlapped' = overlapped
        BY <1>12, <2>1 DEF record_client_version, Goto, historyVars
      <3>2. QED
        BY <3>1, Numbers
    <2>2. CASE ~tables
      <3>0. envs[p] # Zero
        <4>1. envs[p] > 0
          BY <1>12 DEF record_client_version
        <4>2. QED
          BY <4>1, Positive
      <3>1. /\ lockfile' = lockfile /\ pc'[p] = "drop lock"
            /\ doubled' = doubled /\ (overlapped => overlapped')
        <4>1. overlapped => overlapped'
          BY <1>12, CallsMove DEF Call, Moves
        <4>2. lockfile' = lockfile /\ doubled' = doubled
          BY <1>12 DEF record_client_version, historyVars
        <4>3. pc'[p] = "drop lock"
          <5>1. Goto(p, "drop lock")
            BY <1>12, <2>2, <3>0 DEF record_client_version
          <5>2. QED
            BY <5>1, GotoIs
        <4>4. QED
          BY <4>1, <4>2, <4>3
      <3>2. ~overlapped' /\ ~doubled' => envs[p] = One
        BY <3>0, <3>1
      <3>3. ~overlapped' /\ ~doubled' => envs'[p] = Zero
        <4>1. envs' = [envs EXCEPT ![p] = envs[p] - 1] /\ envs \in [Pids -> Nat]
          BY <1>12, <2>2, <3>0 DEF record_client_version
        <4>2. envs'[p] = envs[p] - 1
          BY <4>1
        <4>3. QED
          BY <3>2, <4>2, Numbers
      <3>4. ~overlapped' /\ ~doubled' => \A q \in Pids \ {p} : envs[q] = Zero
        BY <3>1, <3>2, NamesOne
      <3>5. QED
        BY <3>1, <3>3, <3>4, Numbers
    <2>3. QED
      BY <2>1, <2>2
  <1>13. CASE CloseEnv(p)
    <2>0. envs[p] # Zero
      <3>1. envs[p] > 0
        BY <1>13 DEF CloseEnv
      <3>2. QED
        BY <3>1, Positive
    <2>1. /\ lockfile' = lockfile /\ pc'[p] = "drop lock"
          /\ doubled' = doubled /\ (overlapped => overlapped')
      <3>1. overlapped => overlapped'
        BY <1>13, CallsMove DEF Call, Moves
      <3>2. lockfile' = lockfile /\ doubled' = doubled
        BY <1>13 DEF CloseEnv, historyVars
      <3>3. pc'[p] = "drop lock"
        <4>1. Goto(p, "drop lock")
          BY <1>13, <2>0 DEF CloseEnv
        <4>2. QED
          BY <4>1, GotoIs
      <3>4. QED
        BY <3>1, <3>2, <3>3
    <2>2. ~overlapped' /\ ~doubled' => envs[p] = One
      BY <2>0, <2>1
    <2>3. ~overlapped' /\ ~doubled' => envs'[p] = Zero
      <3>1. envs' = [envs EXCEPT ![p] = envs[p] - 1] /\ envs \in [Pids -> Nat]
        BY <1>13, <2>0 DEF CloseEnv
      <3>2. envs'[p] = envs[p] - 1
        BY <3>1
      <3>3. QED
        BY <2>2, <3>2, Numbers
    <2>4. ~overlapped' /\ ~doubled' => \A q \in Pids \ {p} : envs[q] = Zero
      BY <2>1, <2>2, NamesOne
    <2>5. QED
      BY <2>1, <2>3, <2>4, Numbers
  <1>14. CASE DropLock(p)
    <2>1. /\ pc[p] = "drop lock" /\ envs' = envs
          /\ overlapped' = overlapped /\ doubled' = doubled
          /\ pc'[p] \in {"remove lock", "idle"}
      BY <1>14 DEF DropLock, Goto, historyVars, processVars
    <2>2. ~overlapped /\ ~doubled => \A q \in Pids : envs[q] = Zero
      BY <2>1
    <2>3. QED
      BY <2>1, <2>2, Numbers
  <1>15. CASE RemoveLock(p)
    <2>1. /\ pc[p] = "remove lock" /\ envs' = envs
          /\ overlapped' = overlapped /\ doubled' = doubled
          /\ pc'[p] \in {"idle"}
      BY <1>15 DEF RemoveLock, Goto, historyVars, processVars
    <2>2. ~overlapped /\ ~doubled => \A q \in Pids : envs[q] = Zero
      BY <2>1
    <2>3. QED
      BY <2>1, <2>2, Numbers
  <1>16. QED
    BY <1>1, <1>2, <1>3, <1>4, <1>5, <1>6, <1>7, <1>8, <1>9, <1>10, <1>11, <1>12, <1>13, <1>14,
       <1>15
       DEF Call

LEMMA LockHasAReasonStep ==
    ASSUME Types, OneBusy, LockIsOld, LockHasAReason, [Next]_vars
    PROVE  LockHasAReason'
  <1>1. CASE Tick
    BY <1>1 DEF Tick, LockHasAReason, processVars, identity, historyVars
  <1>2. CASE UNCHANGED vars
    BY <1>2 DEF vars, LockHasAReason, processVars, identity, historyVars
  <1>3. ASSUME NEW p \in Pids, Start(p) PROVE LockHasAReason'
    <2>1. /\ UNCHANGED <<pc, envs, linked, lockfile, overlapped>>
          /\ alive' = alive \cup {p} /\ start_time' = [start_time EXCEPT ![p] = clock]
          /\ start_time[p] < clock
      BY <1>3 DEF Start, historyVars
    <2>2. ~Names(lockfile, p, clock)
      <3>1. clock \in Nat /\ start_time[p] \in Nat
        BY DEF Types
      <3>2. Names(lockfile, p, clock) => clock <= start_time[p]
        BY <3>1 DEF LockIsOld
      <3>3. QED
        BY <2>1, <3>1, <3>2
    <2>3. start_time'[p] = clock /\ \A q \in Pids \ {p} : start_time'[q] = start_time[q]
      BY <2>1 DEF Types
    <2>4. ASSUME NEW q \in Pids, ~overlapped, q \in alive', Names(lockfile', q, start_time'[q])
          PROVE  envs'[q] # Zero \/ pc'[q] \in {"truncate lock", "open", "drop lock", "remove lock"}
      <3>1. q # p
        BY <2>1, <2>2, <2>3, <2>4
      <3>2. QED
        BY <2>1, <2>3, <2>4, <3>1 DEF LockHasAReason
    <2>5. QED
      BY <2>1, <2>4 DEF LockHasAReason
  <1>4. ASSUME NEW p \in Pids, Dies(p) PROVE LockHasAReason'
    <2>1. /\ UNCHANGED <<start_time, lockfile, overlapped>>
          /\ alive' = alive \ {p}
          /\ pc' = [pc EXCEPT ![p] = "idle"]
          /\ linked' = [linked EXCEPT ![p] = FALSE]
          /\ envs' = [envs EXCEPT ![p] = 0]
      BY <1>4 DEF Dies
    <2>2. /\ pc'[p] = "idle"
          /\ \A q \in Pids \ {p} : pc'[q] = pc[q] /\ linked'[q] = linked[q] /\ envs'[q] = envs[q]
      BY <2>1 DEF Types
    <2>3. QED
      BY <2>1, <2>2 DEF LockHasAReason
  <1>5. ASSUME NEW p \in Pids, Call(p) PROVE LockHasAReason'
    BY <1>5, CallsMove, ReasonSteps, ReasonKept, OneBusyStep
  <1>6. QED
    BY <1>1, <1>2, <1>3, <1>4, <1>5 DEF Next, Call

LEMMA OneHolderStep ==
    ASSUME Types, OneBusy, LockHasAReason, OneHolder, [Next]_vars
    PROVE  OneHolder'
  <1>1. CASE Tick
    BY <1>1 DEF Tick, OneHolder, processVars, identity, historyVars
  <1>2. CASE UNCHANGED vars
    BY <1>2 DEF vars, OneHolder, processVars, identity, historyVars
  <1>3. ASSUME NEW p \in Pids, Start(p) PROVE OneHolder'
    <2>1. /\ UNCHANGED <<pc, envs, lockfile, overlapped, doubled>>
          /\ p \notin alive /\ start_time' = [start_time EXCEPT ![p] = clock]
      BY <1>3 DEF Start, historyVars
    <2>2. pc[p] = "idle" /\ envs[p] # One
      <3>1. pc[p] = "idle" /\ ~(envs[p] > 0)
        BY <2>1 DEF Types
      <3>2. QED
        BY <3>1, Positive, Numbers
    <2>3. \A q \in Pids \ {p} : start_time'[q] = start_time[q]
      BY <2>1 DEF Types
    <2>4. QED
      BY <2>1, <2>2, <2>3 DEF OneHolder
  <1>4. ASSUME NEW p \in Pids, Dies(p) PROVE OneHolder'
    <2>1. /\ UNCHANGED <<start_time, lockfile, overlapped, doubled>>
          /\ pc' = [pc EXCEPT ![p] = "idle"] /\ envs' = [envs EXCEPT ![p] = Zero]
      BY <1>4 DEF Dies, Zero
    <2>2. /\ pc'[p] = "idle" /\ envs'[p] = Zero
          /\ \A q \in Pids \ {p} : pc'[q] = pc[q] /\ envs'[q] = envs[q]
      BY <2>1 DEF Types
    <2>3. "idle" \notin {"check lock", "open"} \cup VersionSteps \cup LockSteps
      BY DEF VersionSteps, LockSteps
    <2>4. QED
      BY <2>1, <2>2, <2>3, Numbers DEF OneHolder
  <1>5. ASSUME NEW p \in Pids, Call(p) PROVE OneHolder'
    BY <1>5, CallsMove, HolderSteps, HolderKept, OneBusyStep
  <1>6. QED
    BY <1>1, <1>2, <1>3, <1>4, <1>5 DEF Next, Call

-----------------------------------------------------------------------------
(* The results.                                                            *)

Inv ==
    /\ Types /\ OneBusy
    /\ OldLeftAlone /\ BrokenByADeath /\ OldNeverOpened
    /\ LockIsOld /\ LockHasAReason /\ OneHolder

LEMMA InvInit == Init => Inv
  <1> SUFFICES ASSUME Init PROVE Inv
    OBVIOUS
  <1> USE DEF Init
  <1>1. Types
    <2>1. \A p \in Pids : pc[p] = "idle" /\ ~(envs[p] > 0)
      OBVIOUS
    <2>2. \A p \in Pids : pc[p] \notin TableSteps
      BY <2>1 DEF TableSteps
    <2>3. clock \in Nat /\ start_time \in [Pids -> Nat] /\ envs \in [Pids -> Nat]
      OBVIOUS
    <2>4. QED
      BY <2>1, <2>2, <2>3 DEF Types, Steps
  <1>2. OneBusy
    BY DEF OneBusy
  <1>3. OldLeftAlone /\ BrokenByADeath
    BY Versions DEF OldLeftAlone, BrokenByADeath
  <1>4. OldNeverOpened
    BY DEF OldNeverOpened, PastCheck
  <1>5. LockIsOld
    BY NamesOne DEF LockIsOld
  <1>6. LockHasAReason
    BY NamesOne DEF LockHasAReason
  <1>7. OneHolder
    BY Numbers DEF OneHolder, VersionSteps, LockSteps, Zero
  <1>8. QED
    BY <1>1, <1>2, <1>3, <1>4, <1>5, <1>6, <1>7 DEF Inv

LEMMA InvStep == Inv /\ [Next]_vars => Inv'
  BY TypesStep, OneBusyStep, OldLeftAloneStep, BrokenStep, NeverOpenedStep, LockIsOldStep,
     LockHasAReasonStep, OneHolderStep DEF Inv

LEMMA InvExcludes == Inv => ExclusiveAccess
  <1> SUFFICES ASSUME Inv, ~overlapped, ~doubled PROVE Cardinality(Holders) <= 1
    BY DEF ExclusiveAccess
  <1>1. ASSUME NEW p \in Holders, NEW q \in Holders PROVE p = q
    <2>1. p \in Pids /\ q \in Pids /\ envs[p] > 0 /\ envs[q] > 0
      BY DEF Holders
    <2>2. envs[p] = One /\ envs[q] = One
      BY <2>1, Positive DEF Inv, OneHolder
    <2>3. QED
      BY <2>1, <2>2, NamesOne DEF Inv, OneHolder
  <1>2. CASE Holders = {}
    BY <1>2, FS_EmptySet
  <1>3. CASE Holders # {}
    <2>1. PICK p \in Holders : Holders = {p}
      BY <1>1, <1>3
    <2>2. Cardinality(Holders) = 1
      BY <2>1, FS_Singleton
    <2>3. QED
      BY <2>2
  <1>4. QED
    BY <1>2, <1>3

\* ExclusiveAccess, for any number of processes, starts and crashes: two holders would both be
\* named by one lock file (StorageLock, lockfile.rs).
THEOREM Exclusive == Spec => []ExclusiveAccess
  <1>1. QED
    BY InvInit, InvStep, InvExcludes, PTL DEF Spec

\* OldNeverOpened, for any number of processes, starts and crashes
\* (check_db_version_file, version.rs).
THEOREM OldRefused == Spec => []OldNeverOpened
  <1>1. Inv => OldNeverOpened
    BY DEF Inv
  <1>2. QED
    BY <1>1, InvInit, InvStep, PTL DEF Spec

\* BrokenByADeath, for any number of processes, starts and crashes
\* (create_db_version_file, version.rs).
THEOREM BrokenOnlyByADeath == Spec => []BrokenByADeath
  <1>1. Inv => BrokenByADeath
    BY DEF Inv
  <1>2. QED
    BY <1>1, InvInit, InvStep, PTL DEF Spec

\* OldStaysOld, also when calls overlap: nobody on the way to write the version file has left
\* an old one behind (init_db, mdbx.rs).
THEOREM OldIsKept == Spec => OldStaysOld
  <1>1. ASSUME Inv, [Next]_vars, version_file = OldVersion
        PROVE  version_file' = OldVersion
    <2>1. \A p \in Pids : pc[p] \notin {"truncate version", "fill version"}
      BY <1>1 DEF Inv, OldLeftAlone
    <2>2. \A p \in Pids : ~TruncateVersion(p) /\ ~FillVersion(p)
      BY <2>1 DEF TruncateVersion, FillVersion
    <2>3. QED
      BY <1>1, <2>2 DEF Next, vars, Tick, Start, Dies, init_db, open_db, check_db_version_file,
          try_acquire_file_lock, TruncateLock, FillLock, OpenEnv, OpenEnvFails,
          create_and_track_tables_for, record_client_version, CloseEnv, DropLock, RemoveLock
  <1>2. QED
    BY <1>1, InvInit, InvStep, PTL DEF Spec, OldStaysOld

\* RefusedForTheHolder, for any number of processes, starts and crashes: a lock that names a
\* running process is its own, and a process that is not on its way has it because it holds
\* (is_active, lockfile.rs).
THEOREM RefusedRightly == Spec => RefusedForTheHolder
  <1>1. ASSUME Inv, [Next]_vars, NEW p \in Pids, refused'[p], ~refused[p], ~overlapped
        PROVE  Holders \ {p} # {}
    <2>1. PICK r \in Pids : try_acquire_file_lock(r)
      <3>1. refused \in [Pids -> BOOLEAN]
        BY <1>1 DEF Inv, Types
      <3>2. ~(refused' = refused) /\ \A r \in Pids : refused' # [refused EXCEPT ![r] = FALSE]
        BY <1>1, <3>1
      <3>3. QED
        BY <1>1, <3>2 DEF Next, vars, processVars, Tick, Start, Dies, init_db, open_db,
            check_db_version_file, TruncateVersion, FillVersion, TruncateLock, FillLock, OpenEnv,
            OpenEnvFails, create_and_track_tables_for, record_client_version, CloseEnv, DropLock,
            RemoveLock
    <2>2. r = p /\ Taken(p)
      <3>1. refused' = [refused EXCEPT ![r] = Taken(r)] /\ refused \in [Pids -> BOOLEAN]
        BY <1>1, <2>1 DEF try_acquire_file_lock, Inv, Types
      <3>2. QED
        BY <1>1, <3>1
    <2>3. PICK q \in Pids \ {p} : q \in alive /\ Names(lockfile, q, start_time[q])
      <3>1. Readable /\ lockfile.pid # p /\ is_active(lockfile)
        BY <2>2 DEF Taken
      <3>2. lockfile.pid \in Pids
        BY <1>1, <3>1 DEF Inv, Types, is_active
      <3>3. QED
        BY <3>1, <3>2 DEF Readable, is_active, Names
    <2>4. pc[q] = "idle"
      <3>1. pc[p] # "idle"
        BY <2>1, <2>2 DEF try_acquire_file_lock
      <3>2. QED
        BY <1>1, <3>1 DEF Inv, OneBusy
    <2>5. envs[q] # Zero
      BY <1>1, <2>3, <2>4 DEF Inv, LockHasAReason
    <2>6. envs[q] > 0
      BY <1>1, <2>5, Positive DEF Inv
    <2>7. QED
      BY <2>6 DEF Holders
  <1>2. ASSUME Inv, [Next]_vars
        PROVE  \A p \in Pids :
                  refused'[p] /\ ~refused[p] /\ ~overlapped => Holders \ {p} # {}
    BY <1>1, <1>2
  <1>3. QED
    BY <1>2, InvInit, InvStep, PTL DEF Spec, RefusedForTheHolder

\* Both of what the version file promises.
THEOREM VersionIsHeeded == Spec => []VersionHeeded
  <1>1. OldNeverOpened /\ BrokenByADeath => VersionHeeded
    BY DEF VersionHeeded
  <1>2. QED
    BY <1>1, OldRefused, BrokenOnlyByADeath, PTL

-----------------------------------------------------------------------------
(* The history of versions.                                                *)

\* The history has no entry of the future, and its last one is of the process that works on the
\* database and is not on its way.
HistoryInv ==
    /\ DOMAIN version_history \subseteq 0..clock
    /\ ~overlapped /\ ~doubled =>
          \A p \in Pids :
              pc[p] = "idle" /\ envs[p] > 0
                  => DOMAIN version_history # {} /\ Last = client_version[p]

\* An entry of the current second is the last one.
LEMMA EnteredIsLast ==
    ASSUME clock \in Nat, DOMAIN version_history \subseteq 0..clock, NEW p,
           version_history' = Entered(p)
    PROVE  /\ DOMAIN version_history' \subseteq 0..clock /\ DOMAIN version_history' # {}
           /\ Last' = client_version[p]
  <1>1. PICK h : h = version_history'
    OBVIOUS
  <1>2. /\ DOMAIN h = DOMAIN version_history \cup {clock}
        /\ h[clock] = client_version[p]
    BY <1>1 DEF Entered
  <1>3. DOMAIN h \subseteq 0..clock /\ clock \in DOMAIN h
    BY <1>2
  <1>4. \A y \in DOMAIN h : clock >= y
    BY <1>3
  <1>5. \A x \in DOMAIN h : (\A y \in DOMAIN h : x >= y) => x = clock
    BY <1>3
  <1>6. Max(DOMAIN h) = clock
    BY <1>3, <1>4, <1>5 DEF Max
  <1>7. Last' = h[Max(DOMAIN h)]
    BY <1>1 DEF Last
  <1>8. QED
    BY <1>1, <1>2, <1>3, <1>6, <1>7

\* Nobody else holds the database while a process is about to record its version.
LEMMA RecordsAlone ==
    ASSUME Types, OneHolder, ~overlapped, ~doubled, NEW p \in Pids, NEW q \in Pids,
           pc[p] = "record version", envs[q] > 0
    PROVE  p = q
  <1>1. envs[p] > 0
    BY DEF Types, TableSteps
  <1>2. envs[p] = One /\ envs[q] = One
    BY <1>1, Positive DEF OneHolder
  <1>3. QED
    BY <1>2, NamesOne DEF OneHolder

\* A step that records nothing, and after which nobody is a holder at rest who was not.
LEMMA HistoryStays ==
    ASSUME Types, HistoryInv, UNCHANGED <<clock, version_history>>,
           overlapped => overlapped', doubled => doubled',
           ~overlapped' /\ ~doubled' =>
              \A p \in Pids :
                  pc'[p] = "idle" /\ envs'[p] > 0
                      => pc[p] = "idle" /\ envs[p] > 0 /\ client_version'[p] = client_version[p]
    PROVE  HistoryInv'
  <1>1. Last' = Last
    BY DEF Last
  <1>2. QED
    BY <1>1 DEF HistoryInv

LEMMA HistoryStep ==
    ASSUME Inv, Inv', HistoryInv, [Next]_vars
    PROVE  HistoryInv'
  <1>i. Types /\ OneHolder /\ OneBusy /\ Types'
    BY DEF Inv
  <1>c. clock \in Nat
    BY <1>i DEF Types
  <1>1. CASE Tick
    <2>1. /\ clock' = clock + 1
          /\ UNCHANGED <<version_history, pc, envs, client_version, overlapped, doubled>>
      BY <1>1 DEF Tick, processVars, identity, dataVars, historyVars
    <2>2. 0..clock \subseteq 0..clock'
      BY <1>c, <2>1
    <2>3. Last' = Last
      BY <2>1 DEF Last
    <2>4. QED
      BY <2>1, <2>2, <2>3 DEF HistoryInv
  <1>2. CASE UNCHANGED vars
    BY <1>i, <1>2, HistoryStays DEF vars, processVars, identity, dataVars, historyVars
  <1>3. ASSUME NEW p \in Pids, Start(p) PROVE HistoryInv'
    <2>1. /\ UNCHANGED <<clock, version_history, pc, envs, overlapped, doubled>> /\ p \notin alive
          /\ \E v \in ClientVersions : client_version' = [client_version EXCEPT ![p] = v]
      BY <1>3 DEF Start, dataVars, historyVars
    <2>2. \A q \in Pids : envs[q] > 0 => q # p /\ client_version'[q] = client_version[q]
      BY <1>i, <2>1 DEF Types
    <2>3. QED
      BY <1>i, <2>1, <2>2, HistoryStays
  <1>4. ASSUME NEW p \in Pids, Dies(p) PROVE HistoryInv'
    <2>1. /\ UNCHANGED <<clock, version_history, overlapped, doubled>>
          /\ client_version' = [client_version EXCEPT ![p] = NoVersion]
          /\ pc' = [pc EXCEPT ![p] = "idle"] /\ envs' = [envs EXCEPT ![p] = 0]
      BY <1>4 DEF Dies, dataVars
    <2>2. \A q \in Pids : envs'[q] > 0
              => /\ q # p /\ pc'[q] = pc[q] /\ envs'[q] = envs[q]
                 /\ client_version'[q] = client_version[q]
      BY <1>i, <2>1 DEF Types
    <2>3. QED
      BY <1>i, <2>1, <2>2, HistoryStays
  <1>5. ASSUME NEW p \in Pids, Call(p), Moves(p), UNCHANGED <<clock, client_version>>,
               UNCHANGED version_history,
               ~overlapped' /\ ~doubled' => pc'[p] # "idle" \/ envs'[p] = Zero
        PROVE  HistoryInv'
    <2>1. ASSUME ~overlapped', ~doubled', NEW q \in Pids, pc'[q] = "idle", envs'[q] > 0
          PROVE  pc[q] = "idle" /\ envs[q] > 0
      <3>1. q # p
        BY <1>5, <2>1 DEF Zero
      <3>2. QED
        BY <1>5, <2>1, <3>1 DEF Moves
    <2>2. QED
      BY <1>i, <1>5, <2>1, HistoryStays DEF Moves
  <1>6. ASSUME NEW p \in Pids, Call(p)
        PROVE  UNCHANGED <<clock, client_version>> /\ Moves(p)
    BY <1>6, <1>i, CallsMove
    DEF Call, identity, init_db, open_db, check_db_version_file, TruncateVersion, FillVersion,
        try_acquire_file_lock, TruncateLock, FillLock, OpenEnv, OpenEnvFails,
        create_and_track_tables_for, record_client_version, CloseEnv, DropLock, RemoveLock
  <1>7. ASSUME NEW p \in Pids,
               \/ init_db(p) \/ open_db(p) \/ TruncateVersion(p) \/ FillVersion(p)
               \/ TruncateLock(p) \/ FillLock(p) \/ OpenEnv(p) \/ OpenEnvFails(p)
               \/ create_and_track_tables_for(p) \/ CloseEnv(p)
        PROVE  HistoryInv'
    <2>1. UNCHANGED version_history
      BY <1>7 DEF init_db, open_db, TruncateVersion, FillVersion, TruncateLock, FillLock, OpenEnv,
          OpenEnvFails, create_and_track_tables_for, CloseEnv, dataVars
    <2>2. pc'[p] # "idle"
      BY <1>7, <1>i, GotoIs
      DEF init_db, open_db, TruncateVersion, FillVersion, TruncateLock, FillLock, OpenEnv,
          OpenEnvFails, create_and_track_tables_for, CloseEnv
    <2>3. Call(p)
      BY <1>7 DEF Call
    <2>4. QED
      BY <1>5, <1>6, <2>1, <2>2, <2>3
  <1>8. ASSUME NEW p \in Pids,
               \/ check_db_version_file(p) \/ try_acquire_file_lock(p) \/ DropLock(p)
               \/ RemoveLock(p)
        PROVE  HistoryInv'
    <2>1. UNCHANGED <<version_history, envs, overlapped, doubled>>
      BY <1>8 DEF check_db_version_file, try_acquire_file_lock, DropLock, RemoveLock, dataVars,
          historyVars
    <2>2. pc[p] \in {"check lock"} \cup VersionSteps \cup LockSteps
      BY <1>8 DEF check_db_version_file, try_acquire_file_lock, DropLock, RemoveLock,
          VersionSteps, LockSteps
    <2>3. ~overlapped /\ ~doubled => envs[p] = Zero
      BY <1>i, <2>2 DEF OneHolder
    <2>4. Call(p)
      BY <1>8 DEF Call
    <2>5. QED
      BY <1>5, <1>6, <2>1, <2>3, <2>4
  <1>9. ASSUME NEW p \in Pids, record_client_version(p)
        PROVE  HistoryInv'
    <2>1. /\ pc[p] = "record version" /\ UNCHANGED <<clock, client_version, overlapped, doubled>>
          /\ Call(p) /\ Moves(p)
      BY <1>6, <1>9 DEF record_client_version, Call, historyVars
    <2>2. CASE tables
      <3>1. version_history' = Recorded(p) /\ UNCHANGED envs
        BY <1>9, <2>2 DEF record_client_version
      <3>2. /\ DOMAIN version_history' \subseteq 0..clock /\ DOMAIN version_history' # {}
            /\ Last' = client_version[p]
        <4>1. CASE version_history' = Entered(p)
          BY <1>c, <4>1, EnteredIsLast DEF HistoryInv
        <4>2. CASE /\ UNCHANGED version_history /\ DOMAIN version_history # {}
                   /\ Last = client_version[p]
          BY <4>2 DEF Last, HistoryInv
        <4>3. QED
          BY <3>1, <4>1, <4>2 DEF Recorded
      <3>3. ASSUME ~overlapped, ~doubled, NEW q \in Pids, envs[q] > 0
            PROVE  Last' = client_version'[q]
        <4>1. q = p
          BY <1>i, <2>1, <3>3, RecordsAlone
        <4>2. QED
          BY <2>1, <3>2, <4>1
      <3>4. QED
        BY <2>1, <3>1, <3>2, <3>3 DEF HistoryInv
    <2>3. CASE ~tables
      <3>1. UNCHANGED version_history /\ pc'[p] # "idle"
        BY <1>9, <1>i, <2>3, GotoIs DEF record_client_version
      <3>2. QED
        BY <1>5, <2>1, <3>1
    <2>4. QED
      BY <2>2, <2>3
  <1>10. QED
    BY <1>1, <1>2, <1>3, <1>4, <1>7, <1>8, <1>9 DEF Next

\* In every behavior of any number of processes and versions, whoever works on the database is
\* the last in its history of versions (record_client_version, mod.rs:686).
THEOREM HistoryIsTrue == Spec => []HistoryNamesTheClient
  <1>1. Init => HistoryInv
    BY DEF Init, HistoryInv
  <1>2. Inv /\ HistoryInv => HistoryNamesTheClient
    BY DEF HistoryInv, HistoryNamesTheClient, Holders, Busy
  <1>3. Inv /\ Inv' /\ HistoryInv /\ [Next]_vars => HistoryInv'
    BY HistoryStep
  <1>4. QED
    BY <1>1, <1>2, <1>3, InvInit, InvStep, PTL DEF Spec

-----------------------------------------------------------------------------
(* What a crash takes back.                                                *)

\* The mode asked for gets from the arguments to the environment, and until the machine stops
\* everything acknowledged is there.
Durably ==
    /\ stored \in Nat
    /\ env_kind \in {"closed", "RO", "RW"} => stored = acked
    /\ env_kind = "closed" =>
          args.sync_mode = IF args.choice = Uncalled THEN parse_sync_mode_from_env(args.env)
                           ELSE args.choice
    /\ env_kind \in {"RO", "RW"} /\ ~faster => sync_mode \in {"Durable", NoSyncMode}
    /\ DurableUnlessAsked

\* Of the variable's values only the three fast ones name a fast mode.
LEMMA OnlyFastIsFast ==
    \A value : value \notin FasterEnvValues =>
        parse_sync_mode_from_env(value) \in {"Durable", NoSyncMode}
  BY DEF FasterEnvValues, parse_sync_mode_from_env

LEMMA OpensAsAsked ==
    ASSUME Durably, NEW kind \in {"RO", "RW"}, OpenWithMode(kind), ~faster',
           args.choice \in SyncModes \cup {NoSyncMode, Uncalled}
    PROVE  sync_mode' \in {"Durable", NoSyncMode}
  <1>1. args.choice \notin SyncModes \ {"Durable"}
        /\ (args.choice = Uncalled => args.env \notin FasterEnvValues)
    BY DEF OpenWithMode
  <1>2. args.sync_mode \in {"Durable", NoSyncMode}
    BY <1>1, OnlyFastIsFast DEF Durably, OpenWithMode, SyncModes
  <1>3. QED
    BY <1>2 DEF OpenWithMode

ModeChoices == SyncModes \cup {NoSyncMode, Uncalled}
ArgsTyped == args \in [env : EnvValues, sync_mode : SyncModes \cup {NoSyncMode}, choice : ModeChoices]

LEMMA ArgsStep ==
    ASSUME ArgsTyped, [TxNext]_txVars
    PROVE  ArgsTyped'
  <1>1. CASE \E mode \in SyncModes \cup {NoSyncMode} : WithSyncMode(mode)
    BY <1>1 DEF WithSyncMode, ArgsTyped, ModeChoices
  <1>2. CASE \E kind \in {"RO", "RW"} : OpenWithMode(kind)
    BY <1>2 DEF OpenWithMode, NoArgs, ArgsTyped, ModeChoices, EnvValues
  <1>3. CASE UNCHANGED args
    BY <1>3 DEF ArgsTyped
  <1>4. QED
    BY <1>1, <1>2, <1>3 DEF TxNext, txVars, Crash, OpenTx, Get, GetReports, PutOrDelete, GrowsLong, TimesOut,
        disable_long_read_transaction_safety, Changed, Commit, Abort, DropTx

LEMMA DurablyInit == TxInit => Durably /\ ArgsTyped
  <1> SUFFICES ASSUME TxInit PROVE Durably /\ ArgsTyped
    OBVIOUS
  <1>1. PICK value \in EnvValues :
            args = [env |-> value, sync_mode |-> parse_sync_mode_from_env(value),
                    choice |-> Uncalled]
    BY DEF TxInit
  <1>2. parse_sync_mode_from_env(value) \in SyncModes \cup {NoSyncMode}
    BY DEF parse_sync_mode_from_env, SyncModes
  <1>3. ArgsTyped
    BY <1>1, <1>2 DEF ArgsTyped, ModeChoices
  <1>4. Durably
    BY <1>1 DEF TxInit, Durably, DurableUnlessAsked
  <1>5. QED
    BY <1>3, <1>4

LEMMA DurablyStep ==
    ASSUME Durably, ArgsTyped, [TxNext]_txVars
    PROVE  Durably'
  <1>1. ASSUME NEW mode \in SyncModes \cup {NoSyncMode}, WithSyncMode(mode) PROVE Durably'
    <2>1. args'.sync_mode = mode /\ args'.choice = mode /\ mode # Uncalled
      BY <1>1 DEF WithSyncMode, ArgsTyped, SyncModes, NoSyncMode, Uncalled
    <2>2. QED
      BY <1>1, <2>1 DEF WithSyncMode, Durably, DurableUnlessAsked
  <1>2. ASSUME NEW kind \in {"RO", "RW"}, OpenWithMode(kind) PROVE Durably'
    <2>1. ~faster' => sync_mode' \in {"Durable", NoSyncMode}
      BY <1>2, OpensAsAsked DEF ArgsTyped, ModeChoices
    <2>2. stored' = stored /\ acked' = acked /\ stored = acked /\ env_kind' \in {"RO", "RW"}
      BY <1>2 DEF OpenWithMode, Durably
    <2>3. QED
      BY <2>1, <2>2 DEF Durably, DurableUnlessAsked
  <1>3. CASE Crash
    <2>1. /\ env_kind' = "crashed" /\ acked' = acked /\ faster' = faster /\ stored = acked
          /\ stored' \in IF sync_mode \in {"Durable", NoSyncMode} THEN {stored} ELSE 0..stored
      BY <1>3 DEF Crash, Durably
    <2>2. stored' \in Nat
      BY <2>1 DEF Durably
    <2>3. ~faster => stored' = acked'
      BY <1>3, <2>1 DEF Crash, Durably
    <2>4. QED
      BY <2>1, <2>2, <2>3 DEF Durably, DurableUnlessAsked
  <1>4. ASSUME NEW i \in TxIds, Commit(i) PROVE Durably'
    <2>1. /\ UNCHANGED <<args, env_kind, sync_mode, faster>> /\ env_kind \in {"RO", "RW"}
          /\ \/ stored' = stored + 1 /\ acked' = stored'
             \/ UNCHANGED <<stored, acked>>
      BY <1>4 DEF Commit, Running, Unshared
    <2>2. stored' \in Nat /\ stored' = acked'
      BY <2>1 DEF Durably
    <2>3. QED
      BY <2>1, <2>2 DEF Durably, DurableUnlessAsked
  <1>5. CASE UNCHANGED <<args, env_kind, sync_mode, stored, acked, faster>>
    BY <1>5 DEF Durably, DurableUnlessAsked
  <1>6. QED
    BY <1>1, <1>2, <1>3, <1>4, <1>5 DEF TxNext, txVars, OpenTx, Get, GetReports, PutOrDelete, GrowsLong,
        TimesOut, disable_long_read_transaction_safety, Changed, Abort, DropTx

\* DurableUnlessAsked, for every value of the variable, every choice and any number of commits
\* (DatabaseArguments and DatabaseEnv::open, mod.rs).
THEOREM KeepsWhatItAcknowledged == TxSpec => []DurableUnlessAsked
  <1>1. Durably => DurableUnlessAsked
    BY DEF Durably
  <1>2. QED
    BY <1>1, DurablyInit, DurablyStep, ArgsStep, PTL DEF TxSpec

-----------------------------------------------------------------------------
(* What is reported of long reads.                                         *)

Ends == Outcomes \cup {"new", "open"}
TxRecord == [mode : Modes, end : Ends, dirty : BOOLEAN, timed_out : BOOLEAN, long : BOOLEAN,
             record_backtrace : BOOLEAN, close_recorded : BOOLEAN,
             backtrace_recorded : BOOLEAN, logged : Nat, checking : Nat, together : Nat]

TxTypes == txs \in [TxIds -> TxRecord] /\ metered \in BOOLEAN

\* Of a read transaction's report: once the flag is set the threads that have reported and
\* those that still will were between check and record together; until then nothing is
\* reported, and who is there is counted.
ReportsRight(tx) ==
    /\ tx.backtrace_recorded =>
          /\ tx.logged > 0 /\ tx.mode = "read-only" /\ tx.long
          /\ tx.logged + tx.checking <= 1 \/ tx.logged + tx.checking <= tx.together
    /\ ~tx.backtrace_recorded => tx.logged = 0 /\ tx.checking <= tx.together
    /\ tx.checking > 0 => tx.mode = "read-only" /\ tx.record_backtrace

\* Of one transaction with metrics: it is reported right, and at the latest when it ends; its
\* end is not recorded before it ends.
Accounted(tx) ==
    /\ ReportsRight(tx)
    /\ tx.end = "open" => ~tx.close_recorded
    /\ tx.end \in Outcomes /\ tx.mode = "read-only" /\ tx.long /\ tx.record_backtrace
          => tx.backtrace_recorded

AllAccounted == metered => \A i \in TxIds : Accounted(txs[i])

\* All but the flag and the count of reports.
SameBut(new, old) ==
    /\ new.mode = old.mode /\ new.end = old.end /\ new.long = old.long
    /\ new.close_recorded = old.close_recorded
    /\ new.record_backtrace = old.record_backtrace
    /\ new.checking = old.checking /\ new.together = old.together

\* The record after a report.
LEMMA Noted ==
    ASSUME NEW tx \in TxRecord, tx.long
    PROVE  /\ BacktraceLogged(tx) \in TxRecord /\ SameBut(BacktraceLogged(tx), tx)
           /\ BacktraceLogged(tx).logged = tx.logged + 1 /\ BacktraceLogged(tx).backtrace_recorded
  <1> DEFINE noted == [tx EXCEPT !.backtrace_recorded = TRUE]
             once == [noted EXCEPT !.logged = tx.logged + 1]
  <1>1. noted \in TxRecord /\ SameBut(noted, tx) /\ noted.backtrace_recorded
    BY DEF TxRecord, SameBut
  <1>2. noted.logged = tx.logged
    BY DEF TxRecord
  <1>3. BacktraceLogged(tx) = [noted EXCEPT !.logged = @ + 1]
    BY DEF BacktraceLogged, TxRecord
  <1> HIDE DEF noted
  <1>4. BacktraceLogged(tx) = once
    BY <1>2, <1>3
  <1>5. tx.logged + 1 \in Nat
    BY DEF TxRecord
  <1>6. once \in TxRecord
    BY <1>1, <1>5 DEF TxRecord
  <1>7. once.logged = tx.logged + 1 /\ once.backtrace_recorded = noted.backtrace_recorded
    BY <1>1 DEF TxRecord
  <1>8. SameBut(once, noted)
    BY <1>1 DEF TxRecord, SameBut
  <1> HIDE DEF once
  <1>9. QED
    BY <1>1, <1>4, <1>6, <1>7, <1>8 DEF SameBut

\* What the owner of a transaction, whom nobody shares it with, does about its report.
LEMMA OwnerReports ==
    ASSUME NEW tx \in TxRecord, ReportsRight(tx), tx.checking = 0
    PROVE  /\ Logged(tx) \in TxRecord /\ ReportsRight(Logged(tx)) /\ SameBut(Logged(tx), tx)
           /\ tx.mode = "read-only" /\ tx.long /\ tx.record_backtrace
                 => Logged(tx).backtrace_recorded
  <1>1. CASE Unrecorded(tx) /\ tx.long
    <2>1. Logged(tx) = BacktraceLogged(tx)
      BY <1>1 DEF Logged
    <2>2. tx.logged = 0 /\ tx.mode = "read-only"
      BY <1>1 DEF ReportsRight, Unrecorded
    <2>3. ReportsRight(BacktraceLogged(tx))
      BY <1>1, <2>2, Noted DEF ReportsRight, SameBut
    <2>4. QED
      BY <1>1, <2>1, <2>3, Noted
  <1>2. CASE ~(Unrecorded(tx) /\ tx.long)
    <2>1. Logged(tx) = tx
      BY <1>2 DEF Logged, BacktraceLogged
    <2>2. tx.record_backtrace \in BOOLEAN /\ tx.backtrace_recorded \in BOOLEAN
      BY DEF TxRecord
    <2>3. QED
      BY <1>2, <2>1, <2>2 DEF Unrecorded, SameBut
  <1>3. QED
    BY <1>1, <1>2

\* What becomes of a transaction in Closes and in DropTx, with metrics.
ClosedAs(tx, outcome) == [LoggedAtDrop(Logged(CloseRecorded(tx))) EXCEPT !.end = outcome]
DroppedAs(tx) == [LoggedAtDrop(tx) EXCEPT !.end = "drop"]

LEMMA EndIsAccounted ==
    ASSUME NEW tx \in TxRecord, NEW outcome \in Outcomes, ReportsRight(tx),
           tx.mode = "read-only" /\ tx.long /\ tx.record_backtrace => tx.backtrace_recorded
    PROVE  LET ended == [tx EXCEPT !.end = outcome]
           IN  ended \in TxRecord /\ Accounted(ended) /\ ended.mode = tx.mode /\ ended.end = outcome
  <1> DEFINE ended == [tx EXCEPT !.end = outcome]
  <1>1. ended \in TxRecord
    BY DEF TxRecord, Ends
  <1>2. /\ ended.end = outcome /\ ended.mode = tx.mode /\ ended.long = tx.long
        /\ ended.record_backtrace = tx.record_backtrace
        /\ ended.backtrace_recorded = tx.backtrace_recorded /\ ended.logged = tx.logged
        /\ ended.checking = tx.checking /\ ended.together = tx.together
    BY DEF TxRecord
  <1>3. outcome # "open"
    BY DEF Outcomes
  <1> HIDE DEF ended
  <1>4. Accounted(ended)
    BY <1>2, <1>3 DEF Accounted, ReportsRight
  <1>5. QED
    BY <1>1, <1>2, <1>4 DEF ended

LEMMA CloseIsAccounted ==
    ASSUME NEW tx \in TxRecord, tx.end = "open", tx.checking = 0, Accounted(tx),
           NEW outcome \in Outcomes
    PROVE  /\ ClosedAs(tx, outcome) \in TxRecord /\ Accounted(ClosedAs(tx, outcome))
           /\ ClosedAs(tx, outcome).mode = tx.mode /\ ClosedAs(tx, outcome).end = outcome
           /\ ReportedAtDrop(Logged(CloseRecorded(tx))) = {}
  <1> DEFINE told == CloseRecorded(tx)
             handler == Logged(told)
  <1>1. /\ told.close_recorded /\ told.mode = tx.mode /\ told.long = tx.long
        /\ told.record_backtrace = tx.record_backtrace
        /\ told.backtrace_recorded = tx.backtrace_recorded /\ told.logged = tx.logged
        /\ told.checking = 0 /\ told.together = tx.together
        /\ told \in TxRecord
    BY DEF CloseRecorded, TxRecord
  <1>2. ReportsRight(told)
    BY <1>1 DEF Accounted, ReportsRight
  <1> HIDE DEF told
  <1>3. /\ handler \in TxRecord /\ ReportsRight(handler) /\ SameBut(handler, told)
        /\ told.mode = "read-only" /\ told.long /\ told.record_backtrace
              => handler.backtrace_recorded
    BY <1>1, <1>2, OwnerReports
  <1> HIDE DEF handler
  <1>4. LoggedAtDrop(handler) = handler /\ ReportedAtDrop(handler) = {}
    BY <1>1, <1>3 DEF LoggedAtDrop, ReportedAtDrop, SameBut
  <1>5. handler.mode = "read-only" /\ handler.long /\ handler.record_backtrace
            => handler.backtrace_recorded
    BY <1>3 DEF SameBut
  <1>6. handler.mode = tx.mode
    BY <1>1, <1>3 DEF SameBut
  <1>7. QED
    BY <1>3, <1>4, <1>5, <1>6, EndIsAccounted DEF ClosedAs, told, handler

LEMMA DropIsAccounted ==
    ASSUME NEW tx \in TxRecord, tx.end = "open", tx.checking = 0, Accounted(tx)
    PROVE  /\ DroppedAs(tx) \in TxRecord /\ Accounted(DroppedAs(tx))
           /\ DroppedAs(tx).mode = tx.mode /\ DroppedAs(tx).end = "drop"
           /\ ReportedAtDrop(tx) = {"drop"}
  <1> DEFINE handler == Logged(tx)
  <1>1. ~tx.close_recorded
    BY DEF Accounted
  <1>2. LoggedAtDrop(tx) = handler /\ ReportedAtDrop(tx) = {"drop"}
    BY <1>1 DEF LoggedAtDrop, ReportedAtDrop
  <1>3. /\ handler \in TxRecord /\ ReportsRight(handler) /\ SameBut(handler, tx)
        /\ tx.mode = "read-only" /\ tx.long /\ tx.record_backtrace => handler.backtrace_recorded
    BY OwnerReports DEF Accounted
  <1> HIDE DEF handler
  <1>4. /\ handler.mode = "read-only" /\ handler.long /\ handler.record_backtrace
              => handler.backtrace_recorded
        /\ handler.mode = tx.mode
    BY <1>3 DEF SameBut
  <1>5. "drop" \in Outcomes
    BY DEF Outcomes
  <1>6. QED
    BY <1>2, <1>3, <1>4, <1>5, EndIsAccounted DEF DroppedAs

\* What a step does to the transactions: nothing, or one of them changes.
Changes(i, tx) == i \in TxIds /\ tx \in TxRecord /\ txs' = [txs EXCEPT ![i] = tx]

LEMMA AccountsKept ==
    ASSUME TxTypes, AllAccounted, NEW i, NEW tx, Changes(i, tx), metered => Accounted(tx),
           metered' = metered
    PROVE  TxTypes' /\ AllAccounted'
  BY DEF TxTypes, AllAccounted, Changes

\* How a transaction may change that is open, with its mode and end as before.
LEMMA OpenChanges ==
    ASSUME TxTypes, AllAccounted, NEW i \in TxIds,
           Get(i) \/ GetReports(i) \/ PutOrDelete(i) \/ GrowsLong(i) \/ TimesOut(i)
               \/ disable_long_read_transaction_safety(i)
    PROVE  \E tx : /\ Changes(i, tx) /\ (metered => Accounted(tx))
                   /\ tx.mode = txs[i].mode /\ tx.end = txs[i].end
  <1> DEFINE old == txs[i]
  <1>1. /\ old \in TxRecord /\ (metered => Accounted(old)) /\ old.end = "open"
    BY DEF TxTypes, AllAccounted, Get, GetReports, PutOrDelete, GrowsLong, TimesOut,
        disable_long_read_transaction_safety, Running, Unshared
  <1>2. CASE Get(i)
    <2> DEFINE now == old.checking + 1
               most == IF now > old.together THEN now ELSE old.together
               tx == [old EXCEPT !.checking = now, !.together = most]
    <2>1. txs' = [txs EXCEPT ![i] = tx] /\ Unrecorded(old) /\ metered
      BY <1>1, <1>2 DEF Get, Changed, TxRecord
    <2>2. now \in Nat /\ most \in Nat /\ now <= most
      BY <1>1 DEF TxRecord
    <2> HIDE DEF now, most
    <2>3. /\ tx \in TxRecord /\ tx.mode = old.mode /\ tx.end = old.end
          /\ tx.close_recorded = old.close_recorded
          /\ tx.record_backtrace = old.record_backtrace
          /\ tx.backtrace_recorded = old.backtrace_recorded
          /\ tx.logged = old.logged /\ tx.checking = now /\ tx.together = most
      BY <1>1, <2>2 DEF TxRecord
    <2> HIDE DEF tx
    <2>4. ReportsRight(tx)
      BY <1>1, <2>1, <2>2, <2>3 DEF Accounted, ReportsRight, Unrecorded
    <2>5. Accounted(tx)
      BY <1>1, <2>1, <2>3, <2>4 DEF Accounted, Outcomes
    <2>6. QED
      BY <2>1, <2>3, <2>5 DEF Changes, tx
  <1>3. CASE GetReports(i)
    <2> DEFINE left == [old EXCEPT !.checking = old.checking - 1]
               tx == BacktraceLogged(left)
    <2>1. txs' = [txs EXCEPT ![i] = tx] /\ old.checking > 0
      BY <1>3 DEF GetReports, Changed
    <2>2. old.checking - 1 \in Nat
      BY <1>1, <2>1 DEF TxRecord
    <2>3. /\ left \in TxRecord /\ left.mode = old.mode /\ left.end = old.end
          /\ left.long = old.long /\ left.close_recorded = old.close_recorded
          /\ left.record_backtrace = old.record_backtrace
          /\ left.backtrace_recorded = old.backtrace_recorded
          /\ left.logged = old.logged /\ left.checking = old.checking - 1
          /\ left.together = old.together
      BY <1>1, <2>2 DEF TxRecord
    <2> HIDE DEF left
    <2>4. CASE ~old.long
      <3>1. tx = left
        BY <2>3, <2>4 DEF BacktraceLogged
      <3>2. ~old.backtrace_recorded \/ ~metered
        BY <1>1, <2>4 DEF Accounted, ReportsRight
      <3>3. old.checking \in Nat /\ old.together \in Nat
        BY <1>1 DEF TxRecord
      <3>4. metered => ReportsRight(left)
        BY <1>1, <2>3, <3>2, <3>3 DEF Accounted, ReportsRight
      <3>5. metered => Accounted(left)
        BY <1>1, <2>3, <3>4 DEF Accounted, Outcomes
      <3>6. QED
        BY <2>1, <2>3, <3>1, <3>5 DEF Changes
    <2>5. CASE old.long
      <3>1. /\ tx \in TxRecord /\ SameBut(tx, left)
            /\ tx.logged = left.logged + 1 /\ tx.backtrace_recorded
        BY <2>3, <2>5, Noted
      <3> HIDE DEF tx
      <3>2. /\ old.checking \in Nat /\ old.together \in Nat /\ old.logged \in Nat
            /\ old.backtrace_recorded \in BOOLEAN
        BY <1>1 DEF TxRecord
      <3>3. /\ tx.mode = old.mode /\ tx.end = old.end /\ tx.long
            /\ tx.close_recorded = old.close_recorded
            /\ tx.record_backtrace = old.record_backtrace
            /\ tx.checking = old.checking - 1 /\ tx.together = old.together
            /\ tx.logged = old.logged + 1
        BY <2>3, <2>5, <3>1 DEF SameBut
      <3>4. ASSUME metered PROVE ReportsRight(tx)
        <4>1. tx.mode = "read-only" /\ tx.record_backtrace
          BY <1>1, <2>1, <3>3, <3>4 DEF Accounted, ReportsRight
        <4>2. tx.logged + tx.checking = old.logged + old.checking /\ tx.logged > 0
          BY <3>2, <3>3
        <4>3. \/ tx.logged + tx.checking <= 1
              \/ tx.logged + tx.checking <= tx.together
          BY <1>1, <3>2, <3>3, <3>4, <4>2 DEF Accounted, ReportsRight
        <4>4. QED
          BY <3>1, <3>3, <4>1, <4>2, <4>3 DEF ReportsRight
      <3>5. metered => Accounted(tx)
        BY <1>1, <3>1, <3>3, <3>4 DEF Accounted, Outcomes
      <3>6. QED
        BY <2>1, <3>1, <3>3, <3>5 DEF Changes
    <2>6. QED
      BY <2>4, <2>5
  <1>4. CASE PutOrDelete(i)
    <2> DEFINE tx == [old EXCEPT !.dirty = TRUE]
    <2>1. txs' = [txs EXCEPT ![i] = tx]
      BY <1>4 DEF PutOrDelete, Changed
    <2>2. tx \in TxRecord /\ tx.mode = old.mode /\ tx.end = old.end
      BY <1>1 DEF TxRecord
    <2>3. metered => Accounted(tx)
      BY <1>1 DEF TxRecord, Accounted, ReportsRight
    <2>4. QED
      BY <2>1, <2>2, <2>3 DEF Changes
  <1>5. CASE GrowsLong(i)
    <2> DEFINE tx == [old EXCEPT !.long = TRUE]
    <2>1. txs' = [txs EXCEPT ![i] = tx] /\ ~old.long
      BY <1>5 DEF GrowsLong, Changed
    <2>2. tx \in TxRecord /\ tx.mode = old.mode /\ tx.end = old.end
      BY <1>1 DEF TxRecord
    <2>3. "open" \notin Outcomes
      BY DEF Outcomes
    <2>4. metered => Accounted(tx)
      BY <1>1, <2>1, <2>3 DEF TxRecord, Accounted, ReportsRight
    <2>5. QED
      BY <2>1, <2>2, <2>4 DEF Changes
  <1>6. CASE TimesOut(i)
    <2> DEFINE tx == [old EXCEPT !.timed_out = TRUE]
    <2>1. txs' = [txs EXCEPT ![i] = tx]
      BY <1>6 DEF TimesOut, Changed
    <2>2. tx \in TxRecord /\ tx.mode = old.mode /\ tx.end = old.end
      BY <1>1 DEF TxRecord
    <2>3. metered => Accounted(tx)
      BY <1>1 DEF TxRecord, Accounted, ReportsRight
    <2>4. QED
      BY <2>1, <2>2, <2>3 DEF Changes
  <1>7. CASE disable_long_read_transaction_safety(i)
    <2> DEFINE tx == [old EXCEPT !.record_backtrace = FALSE]
    <2>1. txs' = [txs EXCEPT ![i] = tx]
      BY <1>7 DEF disable_long_read_transaction_safety, Changed
    <2>2. tx \in TxRecord /\ tx.mode = old.mode /\ tx.end = old.end
      BY <1>1 DEF TxRecord
    <2>3. old.checking = 0
      BY <1>7 DEF disable_long_read_transaction_safety, Unshared
    <2>4. metered => Accounted(tx)
      BY <1>1, <2>3 DEF TxRecord, Accounted, ReportsRight
    <2>5. QED
      BY <2>1, <2>2, <2>4 DEF Changes
  <1>8. QED
    BY <1>2, <1>3, <1>4, <1>5, <1>6, <1>7

\* How a transaction begins.
LEMMA NewIsAccounted ==
    ASSUME NEW mode \in Modes
    PROVE  LET tx == [NewTx EXCEPT !.mode = mode, !.end = "open"]
           IN  tx \in TxRecord /\ Accounted(tx) /\ tx.mode = mode /\ tx.end = "open"
  <1> DEFINE tx == [NewTx EXCEPT !.mode = mode, !.end = "open"]
  <1>1. NewTx \in TxRecord
    BY DEF NewTx, TxRecord, Ends, Modes
  <1>2. tx \in TxRecord
    BY <1>1 DEF TxRecord, Ends
  <1>3. /\ tx.mode = mode /\ tx.end = "open" /\ tx.logged = 0
        /\ ~tx.backtrace_recorded /\ ~tx.close_recorded /\ tx.checking = 0 /\ tx.together = 0
    BY DEF NewTx
  <1> HIDE DEF tx
  <1>4. Accounted(tx)
    BY <1>3 DEF Accounted, ReportsRight, Outcomes
  <1>5. QED
    BY <1>2, <1>3, <1>4 DEF tx

\* How it ends.
Ending(i, outcome) ==
    \E tx : /\ Changes(i, tx) /\ (metered => Accounted(tx))
            /\ tx.mode = txs[i].mode /\ tx.end = outcome

LEMMA CloseEnds ==
    ASSUME TxTypes, AllAccounted, NEW i \in TxIds, Unshared(i), NEW outcome \in Outcomes,
           Closes(i, outcome)
    PROVE  /\ Ending(i, outcome)
           /\ metered => Reported(txs[i].mode, {outcome})
           /\ ~metered => UNCHANGED <<closed_total, outcome_total>>
  <1> DEFINE old == txs[i]
  <1>1. old \in TxRecord /\ (metered => Accounted(old)) /\ old.end = "open" /\ old.checking = 0
    BY DEF TxTypes, AllAccounted, Running, Unshared
  <1>2. CASE metered
    <2>1. /\ txs' = [txs EXCEPT ![i] = ClosedAs(old, outcome)]
          /\ Reported(old.mode, {outcome} \cup ReportedAtDrop(Logged(CloseRecorded(old))))
      BY <1>2 DEF Closes, ClosedAs
    <2>2. /\ ClosedAs(old, outcome) \in TxRecord /\ Accounted(ClosedAs(old, outcome))
          /\ ClosedAs(old, outcome).mode = old.mode /\ ClosedAs(old, outcome).end = outcome
          /\ ReportedAtDrop(Logged(CloseRecorded(old))) = {}
      BY <1>1, <1>2, CloseIsAccounted
    <2>3. {outcome} \cup ReportedAtDrop(Logged(CloseRecorded(old))) = {outcome}
      BY <2>2
    <2>4. QED
      BY <1>2, <2>1, <2>2, <2>3 DEF Ending, Changes
  <1>3. CASE ~metered
    <2> DEFINE tx == [old EXCEPT !.end = outcome]
    <2>1. txs' = [txs EXCEPT ![i] = tx] /\ UNCHANGED <<closed_total, outcome_total>>
      BY <1>3 DEF Closes
    <2>2. tx \in TxRecord /\ tx.mode = old.mode /\ tx.end = outcome
      BY <1>1 DEF TxRecord, Ends
    <2>3. QED
      BY <1>3, <2>1, <2>2 DEF Ending, Changes
  <1>4. QED
    BY <1>2, <1>3

LEMMA DropEnds ==
    ASSUME TxTypes, AllAccounted, NEW i \in TxIds, DropTx(i)
    PROVE  /\ Ending(i, "drop")
           /\ metered => Reported(txs[i].mode, {"drop"})
           /\ ~metered => UNCHANGED <<closed_total, outcome_total>>
  <1> DEFINE old == txs[i]
  <1>1. old \in TxRecord /\ (metered => Accounted(old)) /\ old.end = "open" /\ old.checking = 0
    BY DEF TxTypes, AllAccounted, Running, Unshared, DropTx
  <1>2. CASE metered
    <2>1. /\ txs' = [txs EXCEPT ![i] = DroppedAs(old)]
          /\ Reported(old.mode, ReportedAtDrop(old))
      BY <1>2 DEF DropTx, DroppedAs
    <2>2. QED
      BY <1>1, <1>2, <2>1, DropIsAccounted DEF Ending, Changes
  <1>3. CASE ~metered
    <2> DEFINE tx == [old EXCEPT !.end = "drop"]
    <2>1. txs' = [txs EXCEPT ![i] = tx] /\ UNCHANGED <<closed_total, outcome_total>>
      BY <1>3 DEF DropTx
    <2>2. tx \in TxRecord /\ tx.mode = old.mode /\ tx.end = "drop"
      BY <1>1 DEF TxRecord, Ends, Outcomes
    <2>3. QED
      BY <1>3, <2>1, <2>2 DEF Ending, Changes
  <1>4. QED
    BY <1>2, <1>3

LEMMA AccountsInit == TxInit => TxTypes /\ AllAccounted
  <1> SUFFICES ASSUME TxInit PROVE TxTypes /\ AllAccounted
    OBVIOUS
  <1>1. NewTx \in TxRecord
    BY DEF NewTx, TxRecord, Ends, Modes
  <1>2. Accounted(NewTx)
    BY DEF NewTx, Accounted, ReportsRight, Outcomes
  <1>3. QED
    BY <1>1, <1>2 DEF TxInit, TxTypes, AllAccounted

LEMMA AccountsStep ==
    ASSUME TxTypes, AllAccounted, [TxNext]_txVars
    PROVE  TxTypes' /\ AllAccounted'
  <1>1. ASSUME NEW i \in TxIds, NEW mode \in Modes, OpenTx(i, mode)
        PROVE  TxTypes' /\ AllAccounted'
    <2>1. Changes(i, [NewTx EXCEPT !.mode = mode, !.end = "open"]) /\ metered' = metered
      BY <1>1, NewIsAccounted DEF OpenTx, Changes
    <2>2. QED
      BY <2>1, NewIsAccounted, AccountsKept
  <1>2. ASSUME NEW i \in TxIds,
               Get(i) \/ GetReports(i) \/ PutOrDelete(i) \/ GrowsLong(i) \/ TimesOut(i)
                   \/ disable_long_read_transaction_safety(i)
        PROVE  TxTypes' /\ AllAccounted'
    <2>1. metered' = metered
      BY <1>2 DEF Get, GetReports, PutOrDelete, GrowsLong, TimesOut, disable_long_read_transaction_safety,
          Changed
    <2>2. QED
      BY <1>2, <2>1, OpenChanges, AccountsKept
  <1>3. ASSUME NEW i \in TxIds, Commit(i) \/ Abort(i) PROVE TxTypes' /\ AllAccounted'
    <2>1. metered' = metered /\ Unshared(i)
      BY <1>3 DEF Commit, Abort
    <2>2. \E outcome \in Outcomes : Closes(i, outcome)
      BY <1>3 DEF Commit, Abort, Outcomes
    <2>3. QED
      BY <2>1, <2>2, CloseEnds, AccountsKept DEF Ending
  <1>4. ASSUME NEW i \in TxIds, DropTx(i) PROVE TxTypes' /\ AllAccounted'
    <2>1. metered' = metered
      BY <1>4 DEF DropTx
    <2>2. QED
      BY <1>4, <2>1, DropEnds, AccountsKept DEF Ending
  <1>5. CASE UNCHANGED <<txs, metered>>
    BY <1>5 DEF TxTypes, AllAccounted
  <1>6. QED
    BY <1>1, <1>2, <1>3, <1>4, <1>5 DEF TxNext, txVars, WithSyncMode, OpenWithMode, Crash

\* LongReadsReported, for any number of transactions and of threads that share one
\* (MetricsHandler::log_backtrace_on_long_read_transaction and its callers, tx.rs).
THEOREM ReportsLongReads == TxSpec => []LongReadsReported
  <1>1. TxTypes /\ AllAccounted => LongReadsReported
    <2> SUFFICES ASSUME TxTypes, AllAccounted, metered, NEW i \in TxIds, Accounted(txs[i])
                 PROVE  LET tx == txs[i]
                        IN  /\ tx.logged <= 1 \/ tx.logged <= tx.together
                            /\ tx.logged > 0 => tx.mode = "read-only" /\ tx.long
                            /\ tx.end \in Outcomes /\ tx.mode = "read-only" /\ tx.long
                                  /\ tx.record_backtrace => tx.logged > 0
      BY DEF AllAccounted, LongReadsReported
    <2> DEFINE tx == txs[i]
    <2>1. /\ tx.logged \in Nat /\ tx.checking \in Nat /\ tx.together \in Nat
          /\ tx.backtrace_recorded \in BOOLEAN
      BY DEF TxTypes, TxRecord
    <2> HIDE DEF tx
    <2>2. Accounted(tx)
      BY DEF tx
    <2>3. /\ tx.logged <= 1 \/ tx.logged <= tx.together
          /\ tx.logged > 0 => tx.mode = "read-only" /\ tx.long
          /\ tx.end \in Outcomes /\ tx.mode = "read-only" /\ tx.long
                /\ tx.record_backtrace => tx.logged > 0
      BY <2>1, <2>2 DEF Accounted, ReportsRight
    <2> QED
      BY <2>3 DEF tx
  <1>2. QED
    BY <1>1, AccountsInit, AccountsStep, PTL DEF TxSpec

-----------------------------------------------------------------------------
(* The books.                                                              *)

Counted(tx, mode, ends) == tx.mode = mode /\ tx.end \in ends

\* One transaction changes: the count of a mode's with certain ends gains it, loses it, or stays.
LEMMA CountMoves ==
    ASSUME NEW i, NEW tx, Changes(i, tx), TxTypes, NEW m, NEW S
    PROVE  /\ Of(m, S) \in Nat
           /\ (Counted(txs[i], m, S) <=> Counted(tx, m, S)) => Of(m, S)' = Of(m, S)
           /\ ~Counted(txs[i], m, S) /\ Counted(tx, m, S) => Of(m, S)' = Of(m, S) + 1
  <1> DEFINE those == {j \in TxIds : txs[j].mode = m /\ txs[j].end \in S}
  <1>1. IsFiniteSet(those) /\ Cardinality(those) \in Nat
    <2>1. IsFiniteSet(TxIds)
      BY FS_Interval, TransactionConstants DEF TxIds
    <2>2. QED
      BY <2>1, FS_Subset, FS_CardinalityType
  <1>2. /\ txs'[i] = tx /\ i \in TxIds
        /\ \A j \in TxIds \ {i} : txs'[j] = txs[j]
    BY DEF Changes, TxTypes
  <1>3. CASE Counted(txs[i], m, S) <=> Counted(tx, m, S)
    <2>1. those' = those
      BY <1>2, <1>3 DEF Counted
    <2>2. Of(m, S)' = Of(m, S)
      BY <2>1 DEF Of
    <2>3. QED
      BY <1>1, <1>3, <2>2 DEF Of
  <1>4. CASE ~Counted(txs[i], m, S) /\ Counted(tx, m, S)
    <2>1. those' = those \cup {i} /\ i \notin those
      BY <1>2, <1>4 DEF Counted
    <2>2. Cardinality(those \cup {i}) = Cardinality(those) + 1
      BY <1>1, <2>1, FS_AddElement
    <2>3. QED
      BY <1>1, <1>4, <2>1, <2>2 DEF Of
  <1>5. CASE Counted(txs[i], m, S) /\ ~Counted(tx, m, S)
    BY <1>1, <1>5 DEF Of
  <1>6. QED
    BY <1>3, <1>4, <1>5

CounterTypes ==
    /\ opened_total \in [Modes -> Nat] /\ closed_total \in [Modes -> Nat]
    /\ outcome_total \in [Modes -> [Outcomes -> Nat]]

Begun == Outcomes \cup {"open"}

\* The books of one mode.
Book(m) ==
    /\ opened_total[m] = Of(m, Begun)
    /\ closed_total[m] = Of(m, Outcomes)
    /\ \A o \in Outcomes : outcome_total[m][o] = Of(m, {o})

Books == CounterTypes /\ (metered => \A m \in Modes : Book(m))

LEMMA BooksInit == TxInit => Books
  <1> SUFFICES ASSUME TxInit PROVE Books
    OBVIOUS
  <1>1. CounterTypes
    BY DEF TxInit, CounterTypes, NoneOpened, NoneClosed, NoOutcomes
  <1>2. ASSUME NEW m \in Modes, NEW S, "new" \notin S PROVE Of(m, S) = 0
    <2>1. {j \in TxIds : txs[j].mode = m /\ txs[j].end \in S} = {}
      BY <1>2 DEF TxInit, NewTx
    <2>2. QED
      BY <2>1, FS_EmptySet DEF Of
  <1>3. ASSUME NEW m \in Modes PROVE Book(m)
    <2>1. Of(m, Begun) = 0 /\ Of(m, Outcomes) = 0 /\ \A o \in Outcomes : Of(m, {o}) = 0
      BY <1>2 DEF Begun, Outcomes
    <2>2. /\ opened_total[m] = 0 /\ closed_total[m] = 0
          /\ \A o \in Outcomes : outcome_total[m][o] = 0
      BY DEF TxInit, NoneOpened, NoneClosed, NoOutcomes
    <2>3. QED
      BY <2>1, <2>2 DEF Book
  <1>4. QED
    BY <1>1, <1>3 DEF Books

\* A change that leaves mode and end is not booked.
LEMMA BooksLeft ==
    ASSUME TxTypes, Books, NEW i, NEW tx, Changes(i, tx),
           tx.mode = txs[i].mode, tx.end = txs[i].end, UNCHANGED <<counterVars, metered>>
    PROVE  Books'
  <1>1. \A m, S : Of(m, S)' = Of(m, S)
    BY CountMoves DEF Counted
  <1>2. \A m \in Modes : Book(m) => Book(m)'
    BY <1>1 DEF Book, counterVars
  <1>3. QED
    BY <1>2 DEF Books, CounterTypes, counterVars

LEMMA BooksOpen ==
    ASSUME TxTypes, Books, NEW i \in TxIds, NEW mode \in Modes, OpenTx(i, mode)
    PROVE  Books'
  <1> DEFINE tx == [NewTx EXCEPT !.mode = mode, !.end = "open"]
  <1>1. Changes(i, tx) /\ tx.mode = mode /\ tx.end = "open" /\ txs[i].end = "new"
    BY NewIsAccounted DEF OpenTx, Changes
  <1>2. UNCHANGED <<closed_total, outcome_total, metered>>
    BY DEF OpenTx
  <1>3. opened_total' = IF metered THEN [opened_total EXCEPT ![mode] = opened_total[mode] + 1]
                        ELSE opened_total
    BY DEF OpenTx
  <1>4. \A m \in Modes : Of(m, Begun) \in Nat
    BY <1>1, CountMoves
  <1> HIDE DEF tx
  <1>5. ASSUME NEW m \in Modes PROVE Of(m, Outcomes)' = Of(m, Outcomes)
    <2>1. Counted(txs[i], m, Outcomes) <=> Counted(tx, m, Outcomes)
      BY <1>1 DEF Counted, Outcomes
    <2>2. QED
      BY <1>1, <2>1, CountMoves
  <1>6. ASSUME NEW m \in Modes, NEW o \in Outcomes PROVE Of(m, {o})' = Of(m, {o})
    <2>1. Counted(txs[i], m, {o}) <=> Counted(tx, m, {o})
      BY <1>1 DEF Counted, Outcomes
    <2>2. QED
      BY <1>1, <2>1, CountMoves
  <1>7. ASSUME NEW m \in Modes
        PROVE  Of(m, Begun)' = IF m = mode THEN Of(m, Begun) + 1 ELSE Of(m, Begun)
    <2>1. CASE m = mode
      <3>1. ~Counted(txs[i], m, Begun) /\ Counted(tx, m, Begun)
        BY <1>1, <2>1 DEF Counted, Begun, Outcomes
      <3>2. QED
        BY <1>1, <2>1, <3>1, CountMoves
    <2>2. CASE m # mode
      <3>1. Counted(txs[i], m, Begun) <=> Counted(tx, m, Begun)
        BY <1>1, <2>2 DEF Counted, Begun, Outcomes
      <3>2. QED
        BY <1>1, <2>2, <3>1, CountMoves
    <2>3. QED
      BY <2>1, <2>2
  <1>8. opened_total' \in [Modes -> Nat]
    <2>1. opened_total \in [Modes -> Nat]
      BY DEF Books, CounterTypes
    <2>2. QED
      BY <1>3, <2>1
  <1>9. ASSUME metered, NEW m \in Modes PROVE Book(m)'
    <2>1. Book(m) /\ opened_total \in [Modes -> Nat]
      BY <1>9 DEF Books, CounterTypes
    <2>2. opened_total'[m] = IF m = mode THEN opened_total[m] + 1 ELSE opened_total[m]
      BY <1>3, <1>9, <2>1
    <2>3. QED
      BY <1>2, <1>5, <1>6, <1>7, <2>1, <2>2 DEF Book
  <1>10. QED
    BY <1>2, <1>8, <1>9 DEF Books, CounterTypes

LEMMA BooksClose ==
    ASSUME TxTypes, Books, NEW i \in TxIds, NEW outcome \in Outcomes, txs[i].end = "open",
           Ending(i, outcome), UNCHANGED <<opened_total, metered>>,
           metered => Reported(txs[i].mode, {outcome}),
           ~metered => UNCHANGED <<closed_total, outcome_total>>
    PROVE  Books'
  <1> DEFINE mode == txs[i].mode
  <1>1. PICK tx : Changes(i, tx) /\ tx.mode = mode /\ tx.end = outcome
    BY DEF Ending
  <1>2. mode \in Modes
    BY DEF TxTypes, TxRecord
  <1> HIDE DEF mode
  <1>3. txs[i].mode = mode
    BY DEF mode
  <1>4. \A m, S : Of(m, S) \in Nat
    BY <1>1, CountMoves
  <1>5. ASSUME NEW m \in Modes PROVE Of(m, Begun)' = Of(m, Begun)
    <2>1. Counted(txs[i], m, Begun) <=> Counted(tx, m, Begun)
      BY <1>1, <1>3 DEF Counted, Begun
    <2>2. QED
      BY <1>1, <2>1, CountMoves
  <1>6. ASSUME NEW m \in Modes
        PROVE  Of(m, Outcomes)' = IF m = mode THEN Of(m, Outcomes) + 1 ELSE Of(m, Outcomes)
    <2>1. "open" \notin Outcomes
      BY DEF Outcomes
    <2>2. CASE m = mode
      <3>1. ~Counted(txs[i], m, Outcomes) /\ Counted(tx, m, Outcomes)
        BY <1>1, <2>1, <2>2 DEF Counted
      <3>2. QED
        BY <1>1, <2>2, <3>1, CountMoves
    <2>3. CASE m # mode
      <3>1. Counted(txs[i], m, Outcomes) <=> Counted(tx, m, Outcomes)
        BY <1>1, <1>3, <2>3 DEF Counted
      <3>2. QED
        BY <1>1, <2>3, <3>1, CountMoves
    <2>4. QED
      BY <2>2, <2>3
  <1>7. ASSUME NEW m \in Modes, NEW o \in Outcomes
        PROVE  Of(m, {o})' = IF m = mode /\ o = outcome THEN Of(m, {o}) + 1 ELSE Of(m, {o})
    <2>1. "open" # o
      BY DEF Outcomes
    <2>2. CASE m = mode /\ o = outcome
      <3>1. ~Counted(txs[i], m, {o}) /\ Counted(tx, m, {o})
        BY <1>1, <2>1, <2>2 DEF Counted
      <3>2. QED
        BY <1>1, <2>2, <3>1, CountMoves
    <2>3. CASE ~(m = mode /\ o = outcome)
      <3>1. Counted(txs[i], m, {o}) <=> Counted(tx, m, {o})
        BY <1>1, <1>3, <2>1, <2>3 DEF Counted
      <3>2. QED
        BY <1>1, <2>3, <3>1, CountMoves
    <2>4. QED
      BY <2>2, <2>3
  <1>8. CASE metered
    <2>1. Cardinality({outcome}) = 1
      BY FS_Singleton
    <2>2. ASSUME NEW o \in Outcomes
          PROVE  Cardinality({r \in {outcome} : r = o}) = IF o = outcome THEN 1 ELSE 0
      <3>1. CASE o = outcome
        <4>1. {r \in {outcome} : r = o} = {outcome}
          BY <3>1
        <4>2. QED
          BY <2>1, <3>1, <4>1
      <3>2. CASE o # outcome
        <4>1. {r \in {outcome} : r = o} = {}
          BY <3>2
        <4>2. QED
          BY <3>2, <4>1, FS_EmptySet
      <3>3. QED
        BY <3>1, <3>2
    <2>3. closed_total' = [closed_total EXCEPT ![mode] = closed_total[mode] + 1]
      BY <1>3, <1>8, <2>1 DEF Reported
    <2>4. outcome_total' =
              [outcome_total EXCEPT ![mode] =
                  [o \in Outcomes |-> outcome_total[mode][o]
                                          + Cardinality({r \in {outcome} : r = o})]]
      BY <1>3, <1>8 DEF Reported
    <2>5. [o \in Outcomes |-> outcome_total[mode][o] + Cardinality({r \in {outcome} : r = o})]
            = [o \in Outcomes |-> outcome_total[mode][o] + IF o = outcome THEN 1 ELSE 0]
      BY <2>2
    <2>6. /\ opened_total \in [Modes -> Nat] /\ closed_total \in [Modes -> Nat]
          /\ outcome_total \in [Modes -> [Outcomes -> Nat]]
      BY DEF Books, CounterTypes
    <2>7. /\ closed_total' \in [Modes -> Nat]
          /\ \A m \in Modes :
                closed_total'[m] = IF m = mode THEN closed_total[m] + 1 ELSE closed_total[m]
      BY <1>2, <2>3, <2>6
    <2>8. [o \in Outcomes |-> outcome_total[mode][o] + IF o = outcome THEN 1 ELSE 0]
              \in [Outcomes -> Nat]
      BY <1>2, <2>6
    <2>9. /\ outcome_total' \in [Modes -> [Outcomes -> Nat]]
          /\ \A m \in Modes \ {mode} : outcome_total'[m] = outcome_total[m]
          /\ \A o \in Outcomes :
                outcome_total'[mode][o] = outcome_total[mode][o] + IF o = outcome THEN 1 ELSE 0
      BY <1>2, <2>4, <2>5, <2>6, <2>8
    <2>10. ASSUME NEW m \in Modes PROVE Book(m)'
      <3>1. Book(m)
        BY <1>8 DEF Books
      <3>2. opened_total'[m] = Of(m, Begun)'
        BY <1>5, <3>1 DEF Book
      <3>3. closed_total'[m] = Of(m, Outcomes)'
        BY <1>6, <2>7, <3>1 DEF Book
      <3>4. ASSUME NEW o \in Outcomes PROVE outcome_total'[m][o] = Of(m, {o})'
        <4>1. outcome_total[m][o] = Of(m, {o}) /\ Of(m, {o}) \in Nat
          BY <1>4, <3>1 DEF Book
        <4>2. CASE m = mode
          <5>1. outcome_total'[m][o] = outcome_total[m][o] + IF o = outcome THEN 1 ELSE 0
            BY <2>9, <4>2
          <5>2. QED
            BY <1>7, <4>1, <4>2, <5>1
        <4>3. CASE m # mode
          <5>1. outcome_total'[m][o] = outcome_total[m][o]
            BY <2>9, <4>3
          <5>2. QED
            BY <1>7, <4>1, <4>3, <5>1
        <4>4. QED
          BY <4>2, <4>3
      <3>5. QED
        BY <3>2, <3>3, <3>4 DEF Book
    <2>11. QED
      BY <2>6, <2>7, <2>9, <2>10 DEF Books, CounterTypes
  <1>9. CASE ~metered
    BY <1>9 DEF Books, CounterTypes
  <1>10. QED
    BY <1>8, <1>9

LEMMA BooksStep ==
    ASSUME TxTypes, AllAccounted, Books, [TxNext]_txVars
    PROVE  Books'
  <1>1. ASSUME NEW i \in TxIds, NEW mode \in Modes, OpenTx(i, mode) PROVE Books'
    BY <1>1, BooksOpen
  <1>2. ASSUME NEW i \in TxIds,
               Get(i) \/ GetReports(i) \/ PutOrDelete(i) \/ GrowsLong(i) \/ TimesOut(i)
                   \/ disable_long_read_transaction_safety(i)
        PROVE  Books'
    <2>1. UNCHANGED <<counterVars, metered>>
      BY <1>2 DEF Get, GetReports, PutOrDelete, GrowsLong, TimesOut, disable_long_read_transaction_safety,
          Changed
    <2>2. QED
      BY <1>2, <2>1, OpenChanges, BooksLeft
  <1>3. ASSUME NEW i \in TxIds, NEW outcome \in Outcomes, Unshared(i), Closes(i, outcome),
               UNCHANGED <<opened_total, metered>>
        PROVE  Books'
    <2>1. txs[i].end = "open"
      BY <1>3 DEF Running, Unshared
    <2>2. QED
      BY <1>3, <2>1, CloseEnds, BooksClose
  <1>4. ASSUME NEW i \in TxIds, Commit(i) \/ Abort(i) PROVE Books'
    BY <1>3, <1>4 DEF Commit, Abort, Outcomes
  <1>5. ASSUME NEW i \in TxIds, DropTx(i) PROVE Books'
    <2>1. txs[i].end = "open" /\ UNCHANGED <<opened_total, metered>> /\ "drop" \in Outcomes
      BY <1>5 DEF DropTx, Running, Unshared, Outcomes
    <2>2. QED
      BY <1>5, <2>1, DropEnds, BooksClose
  <1>6. CASE UNCHANGED <<txs, metered, counterVars>>
    <2>1. \A m, S : Of(m, S)' = Of(m, S)
      BY <1>6 DEF Of
    <2>2. \A m \in Modes : Book(m) => Book(m)'
      BY <1>6, <2>1 DEF Book, counterVars
    <2>3. QED
      BY <1>6, <2>2 DEF Books, CounterTypes, counterVars
  <1>7. QED
    BY <1>1, <1>2, <1>4, <1>5, <1>6
       DEF TxNext, txVars, WithSyncMode, OpenWithMode, Crash

\* BooksBalance, for any number of transactions, with as many readers at one time as there may be
\* (MetricsHandler and its Drop, tx.rs, and DatabaseEnvMetrics, metrics.rs).
THEOREM TheBooksBalance == TxSpec => []BooksBalance
  <1>1. Books => BooksBalance
    BY DEF Books, Book, Begun, BooksBalance
  <1>2. QED
    BY <1>1, AccountsInit, AccountsStep, BooksInit, BooksStep, PTL DEF TxSpec

\* Both accounts of the ends of transactions.
THEOREM EndsAreAccountedFor == TxSpec => []EndsAccountedFor
  <1>1. BooksBalance /\ LongReadsReported => EndsAccountedFor
    BY DEF EndsAccountedFor
  <1>2. QED
    BY <1>1, TheBooksBalance, ReportsLongReads, PTL

-----------------------------------------------------------------------------
(* The order of rows.                                                      *)

LEMMA NumbersHaveALeast ==
    ASSUME NEW S \in SUBSET Nat, S # {}
    PROVE  \E x \in S : \A y \in S : x <= y
<1>1. PICK x \in S : \A y \in S : <<y, x>> \notin OpToRel(<, Nat)
  BY NatLessThanWellFounded, WFMin
<1>2. \A y \in S : ~(y < x)
  BY <1>1, Zenon DEF OpToRel
<1>3. \A y \in S : x <= y
  BY <1>2
<1> QED BY <1>3

LEMMA RowsAreNumbers ==
    ASSUME NEW r \in Row
    PROVE  r[1] \in Nat /\ r[2] \in Nat /\ r = <<r[1], r[2]>>
<1>1. PICK k \in Keys, v \in Values : r = <<k, v>>
  BY DEF Row
<1>2. k \in Nat /\ v \in Nat
  BY TableConstants
<1> QED BY <1>1, <1>2

LEMMA NoneIsNoRow ==
    /\ NoRow \notin Row /\ End \notin Row /\ Unset \notin Row /\ Failed \notin Row
    /\ NoRow # Failed /\ Unset # End
<1>1. \A r \in Row : DOMAIN r = 1..2
  BY DEF Row
<1>2. 2 \notin DOMAIN << >> /\ \A x : 2 \notin DOMAIN <<x>>
  OBVIOUS
<1>3. 2 \in 1..2
  OBVIOUS
<1>4. Failed[1] = 2 /\ End[1] = 1 /\ Unset[1] = 0 /\ DOMAIN Failed = 1..1 /\ DOMAIN NoRow = {}
  BY DEF Failed, End, Unset, NoRow
<1> QED BY <1>1, <1>2, <1>3, <1>4 DEF NoRow, End, Unset, Failed

LEMMA Order ==
    ASSUME NEW a \in Row, NEW b \in Row
    PROVE  /\ ~Before(a, a)
           /\ a = b \/ Before(a, b) \/ Before(b, a)
           /\ Before(a, b) => ~Before(b, a) /\ a[1] <= b[1] /\ a # b
           /\ a[1] < b[1] => Before(a, b)
           /\ a[1] = b[1] /\ Before(a, b) => a[2] < b[2]
<1>1. /\ a[1] \in Nat /\ a[2] \in Nat /\ b[1] \in Nat /\ b[2] \in Nat
      /\ a = <<a[1], a[2]>> /\ b = <<b[1], b[2]>>
  BY RowsAreNumbers
<1>2. a = b \/ a[1] # b[1] \/ a[2] # b[2]
  BY <1>1
<1> QED BY <1>1, <1>2 DEF Before

LEMMA OrderGoesOn ==
    ASSUME NEW a \in Row, NEW b \in Row, NEW c \in Row, Before(a, b), Before(b, c)
    PROVE  Before(a, c)
<1>1. /\ a[1] \in Nat /\ a[2] \in Nat /\ b[1] \in Nat /\ b[2] \in Nat /\ c[1] \in Nat /\ c[2] \in Nat
  BY RowsAreNumbers
<1> QED BY <1>1 DEF Before

\* The lowest of rows is one of them, and before all others.
LEMMA LowestIs ==
    ASSUME NEW S \in SUBSET Row
    PROVE  /\ S = {} => Lowest(S) = NoRow
           /\ S # {} => /\ Lowest(S) \in S /\ Lowest(S) \in Row
                        /\ \A r \in S : r = Lowest(S) \/ Before(Lowest(S), r)
<1>1. CASE S = {}
  BY <1>1 DEF Lowest
<1>2. CASE S # {}
  <2> DEFINE keys == {r[1] : r \in S}
  <2>1. PICK k \in keys : \A y \in keys : k <= y
    <3>1. keys \in SUBSET Nat /\ keys # {}
      BY <1>2, RowsAreNumbers
    <3> QED BY <3>1, NumbersHaveALeast
  <2> DEFINE values == {r[2] : r \in {q \in S : q[1] = k}}
  <2>2. PICK v \in values : \A y \in values : v <= y
    <3>1. values \in SUBSET Nat /\ values # {}
      BY <2>1, RowsAreNumbers
    <3> QED BY <3>1, NumbersHaveALeast
  <2>3. PICK low \in S : low[1] = k /\ low[2] = v
    BY <2>2
  <2>4. ASSUME NEW q \in S PROVE ~Before(q, low)
    <3>1. k <= q[1] /\ (q[1] = k => v <= q[2])
      BY <2>1, <2>2
    <3>2. q[1] \in Nat /\ q[2] \in Nat /\ low[1] \in Nat /\ low[2] \in Nat
      BY RowsAreNumbers
    <3> QED BY <2>3, <3>1, <3>2 DEF Before
  <2>5. Lowest(S) = CHOOSE r \in S : \A q \in S : ~Before(q, r)
    BY <1>2 DEF Lowest
  <2>6. Lowest(S) \in S /\ \A q \in S : ~Before(q, Lowest(S))
    BY <2>4, <2>5
  <2>7. \A r \in S : r = Lowest(S) \/ Before(Lowest(S), r)
    BY <2>6, Order
  <2> QED BY <1>2, <2>6, <2>7
<1> QED BY <1>1, <1>2

\* Rows up to some number.
Bounded(S) == \E b \in Nat : \A r \in S : r[1] <= b /\ r[2] <= b

\* The highest of bounded rows is one of them, and after all others.
LEMMA HighestIs ==
    ASSUME NEW S \in SUBSET Row, Bounded(S)
    PROVE  /\ S = {} => Highest(S) = NoRow
           /\ S # {} => /\ Highest(S) \in S /\ Highest(S) \in Row
                        /\ \A r \in S : r = Highest(S) \/ Before(r, Highest(S))
<1>1. CASE S = {}
  BY <1>1 DEF Highest
<1>2. CASE S # {}
  <2>b. PICK b \in Nat : \A r \in S : r[1] <= b /\ r[2] <= b
    BY DEF Bounded
  <2> DEFINE keys == {b - r[1] : r \in S}
  <2>1. PICK k \in keys : \A y \in keys : k <= y
    <3>1. \A r \in S : b - r[1] \in Nat
      BY <2>b, RowsAreNumbers
    <3>2. keys \in SUBSET Nat /\ keys # {}
      BY <1>2, <3>1
    <3> QED BY <3>2, NumbersHaveALeast
  <2> DEFINE values == {b - r[2] : r \in {q \in S : b - q[1] = k}}
  <2>2. PICK v \in values : \A y \in values : v <= y
    <3>1. \A r \in S : b - r[2] \in Nat
      BY <2>b, RowsAreNumbers
    <3>2. values \in SUBSET Nat /\ values # {}
      BY <2>1, <3>1
    <3> QED BY <3>2, NumbersHaveALeast
  <2>3. PICK high \in S : b - high[1] = k /\ b - high[2] = v
    BY <2>2
  <2>4. ASSUME NEW q \in S PROVE ~Before(high, q)
    <3>1. k <= b - q[1] /\ (b - q[1] = k => v <= b - q[2])
      BY <2>1, <2>2
    <3>2. q[1] \in Nat /\ q[2] \in Nat /\ high[1] \in Nat /\ high[2] \in Nat
      BY RowsAreNumbers
    <3> QED BY <2>3, <3>1, <3>2 DEF Before
  <2>5. Highest(S) = CHOOSE r \in S : \A q \in S : ~Before(r, q)
    BY <1>2 DEF Highest
  <2>6. Highest(S) \in S /\ \A q \in S : ~Before(Highest(S), q)
    BY <2>4, <2>5
  <2>7. \A r \in S : r = Highest(S) \/ Before(r, Highest(S))
    BY <2>6, Order
  <2> QED BY <1>2, <2>6, <2>7
<1> QED BY <1>1, <1>2

-----------------------------------------------------------------------------
(* What the table holds.                                                   *)

LEMMA BoundedParts ==
    /\ \A S, T : T \subseteq S /\ Bounded(S) => Bounded(T)
    /\ Bounded({})
    /\ \A S, r : S \subseteq Row /\ r \in Row /\ Bounded(S) => Bounded(S \cup {r})
<1>1. ASSUME NEW S, NEW r, S \subseteq Row, r \in Row, Bounded(S)
      PROVE  Bounded(S \cup {r})
  <2>1. PICK b \in Nat : \A q \in S : q[1] <= b /\ q[2] <= b
    BY <1>1 DEF Bounded
  <2>2. r[1] \in Nat /\ r[2] \in Nat /\ \A q \in S : q[1] \in Nat /\ q[2] \in Nat
    BY <1>1, RowsAreNumbers
  <2>3. PICK c \in Nat : c = b + r[1] + r[2]
    BY <2>2
  <2>4. r[1] <= c /\ r[2] <= c /\ \A q \in S : q[1] <= c /\ q[2] <= c
    BY <2>1, <2>2, <2>3
  <2> QED BY <2>4 DEF Bounded
<1>2. Bounded({})
  <2>1. 0 \in Nat
    OBVIOUS
  <2> QED BY <2>1 DEF Bounded
<1> QED BY <1>1, <1>2 DEF Bounded

TableInv == TableTypeOK /\ WrittenAsAsked /\ Bounded(rows)

\* Every answer is a row of the table, or none.
LEMMA AnswersAreRows ==
    ASSUME rows \subseteq Row, Bounded(rows)
    PROVE  /\ first \in rows \cup {NoRow} /\ last \in rows \cup {NoRow}
           /\ next \in rows \cup {NoRow} /\ prev \in rows \cup {NoRow}
           /\ next_dup \in rows \cup {NoRow} /\ next_nodup \in rows \cup {NoRow}
           /\ \A k : set_key(k) \in rows \cup {NoRow} /\ set_range(k) \in rows \cup {NoRow}
           /\ \A k, s : get_both_range(k, s) \in rows \cup {NoRow}
<1>1. \A S : S \subseteq rows => Lowest(S) \in rows \cup {NoRow}
  BY LowestIs
<1>2. \A S : S \subseteq rows => Highest(S) \in rows \cup {NoRow}
  BY HighestIs, BoundedParts
<1>3. first \in rows \cup {NoRow} /\ last \in rows \cup {NoRow}
  BY <1>1, <1>2 DEF first, last
<1>4. Lowest({r \in rows : Before(pos, r)}) \in rows \cup {NoRow}
  BY <1>1
<1>5. Highest({r \in rows : Before(r, pos)}) \in rows \cup {NoRow}
  BY <1>2
<1>6. Lowest({r \in rows : r[1] = pos[1] /\ Before(pos, r)}) \in rows \cup {NoRow}
  BY <1>1
<1>7. Lowest({r \in rows : r[1] > pos[1]}) \in rows \cup {NoRow}
  BY <1>1
<1>8. \A k : Lowest({r \in rows : r[1] = k}) \in rows \cup {NoRow}
  BY <1>1
<1>9. \A k : Lowest({r \in rows : r[1] >= k}) \in rows \cup {NoRow}
  BY <1>1
<1>10. \A k, s : Lowest({r \in rows : r[1] = k /\ Subkey(r[2]) >= s}) \in rows \cup {NoRow}
  BY <1>1
<1>11. next \in rows \cup {NoRow} /\ prev \in rows \cup {NoRow}
  BY <1>3, <1>4, <1>5 DEF next, prev
<1> QED BY <1>3, <1>6, <1>7, <1>8, <1>9, <1>10, <1>11
        DEF next_dup, next_nodup, set_key, set_range, get_both_range

Places == Row \cup {Unset, End}

LEMMA LeftInPlace ==
    ASSUME rows \subseteq Row, pos \in Places, NEW answer \in rows \cup {NoRow}
    PROVE  Left(answer) \in Places /\ LeftBack(answer) \subseteq Places
BY DEF Left, LeftBack, Places

\* Nothing written.
LEMMA TableKept ==
    ASSUME TableInv, pos' \in Places, UNCHANGED <<table, rows, buf, lastWrite>>
    PROVE  TableInv'
BY DEF TableInv, TableTypeOK, WrittenAsAsked, Bounded, Places

LEMMA ReadKeeps ==
    ASSUME TableInv, CursorReads
    PROVE  TableInv'
<1>1. rows \subseteq Row /\ Bounded(rows) /\ pos \in Places
  BY DEF TableInv, TableTypeOK, Places
<1>2. ASSUME NEW answer, answer \in rows \cup {NoRow}, Looked(answer)
      PROVE  TableInv'
  BY <1>1, <1>2, LeftInPlace, TableKept DEF Looked
<1>3. CASE SeekEnds
  BY <1>1, <1>2, <1>3, AnswersAreRows DEF SeekEnds
<1>4. CASE StepOn
  BY <1>1, <1>2, <1>4, AnswersAreRows DEF StepOn
<1>5. CASE StepBack
  BY <1>1, <1>5, AnswersAreRows, LeftInPlace, TableKept DEF StepBack
<1>6. CASE \E k \in Keys : SeekKey(k)
  BY <1>1, <1>2, <1>6, AnswersAreRows DEF SeekKey
<1>7. CASE \E k \in Keys, v \in Values : SeekByKeySubkey(k, Subkey(v))
  <2>1. PICK k \in Keys, v \in Values : SeekByKeySubkey(k, Subkey(v))
    BY <1>7
  <2>2. PICK answer : answer = get_both_range(k, Subkey(v))
    OBVIOUS
  <2>3. answer \in rows \cup {NoRow} /\ Looked(answer)
    BY <1>1, <2>1, <2>2, AnswersAreRows DEF SeekByKeySubkey
  <2> QED BY <1>2, <2>3
<1> QED BY <1>3, <1>4, <1>5, <1>6, <1>7 DEF CursorReads

\* A value put under a key is there, and the table stays one of its kind.
LEMMA PutIs ==
    ASSUME TableInv, NEW k \in Keys, NEW v \in Values
    PROVE  /\ Put(k, v) \subseteq Row /\ Bounded(Put(k, v)) /\ <<k, v>> \in Put(k, v)
           /\ table.dup \/ \A r, q \in Put(k, v) : r[1] = q[1] => r = q
<1>1. <<k, v>> \in Row /\ <<k, v>>[1] = k
  BY DEF Row
<1>2. PICK others : others = {r \in rows : table.dup \/ r[1] # k}
  OBVIOUS
<1>3. Put(k, v) = others \cup {<<k, v>>}
  BY <1>2 DEF Put
<1>4. others \subseteq rows /\ rows \subseteq Row /\ Bounded(rows)
  BY <1>2 DEF TableInv, TableTypeOK
<1>5. others \subseteq Row /\ Bounded(others)
  BY <1>4, BoundedParts
<1>6. Bounded(Put(k, v))
  BY <1>1, <1>3, <1>5, BoundedParts
<1>7. ASSUME ~table.dup, NEW r \in Put(k, v), NEW q \in Put(k, v), r[1] = q[1]
      PROVE  r = q
  <2>1. \A r1, q1 \in rows : r1[1] = q1[1] => r1 = q1
    BY <1>7 DEF TableInv, TableTypeOK
  <2>2. \A o \in others : o \in rows /\ o[1] # k
    BY <1>2, <1>7
  <2> QED BY <1>1, <1>3, <1>7, <2>1, <2>2
<1> QED BY <1>1, <1>3, <1>5, <1>6, <1>7

LEMMA BufferIs ==
    ASSUME TableInv, NEW v \in Values
    PROVE  /\ Given(v) = v
           /\ BufferUsed(v) => buf' \in Seq(Values) /\ Len(buf') <= 1
<1>1. Compressed(v) \in Seq(Values) /\ Len(Compressed(v)) = 1 /\ Head(Compressed(v)) = v
  BY DEF Compressed
<1>2. buf \in Seq(Values) /\ Len(buf) <= 1
  BY DEF TableInv, TableTypeOK
<1>3. Given(v) = v
  BY <1>1 DEF Given
<1>4. ASSUME BufferUsed(v) PROVE buf' \in Seq(Values) /\ Len(buf') <= 1
  <2>1. CASE table.ref
    BY <1>2, <1>4, <2>1 DEF BufferUsed
  <2>2. CASE ~table.ref
    <3>1. buf' = <<v>>
      BY <1>4, <2>2 DEF BufferUsed, Compressed
    <3> QED BY <3>1
  <2> QED BY <2>1, <2>2
<1> QED BY <1>3, <1>4

LEMMA WrittenKeeps ==
    ASSUME TableInv, NEW k \in Keys, NEW v \in Values, BufferUsed(v), Written(k, Given(v), v)
    PROVE  TableInv'
<1>1. /\ rows' = Put(k, v) /\ pos' = <<k, v>> /\ lastWrite' = <<k, v>> /\ table' = table
      /\ buf' \in Seq(Values) /\ Len(buf') <= 1 /\ <<k, v>> \in Row
  BY BufferIs DEF Written, Row
<1> QED BY <1>1, PutIs DEF TableInv, TableTypeOK, WrittenAsAsked, Bounded

LEMMA RefusedKeeps ==
    ASSUME TableInv, NEW v \in Values, BufferUsed(v), NEW left, left \subseteq Places, Refused(left)
    PROVE  TableInv'
<1>1. /\ pos' \in Places /\ UNCHANGED <<table, rows, lastWrite>>
      /\ buf' \in Seq(Values) /\ Len(buf') <= 1
  BY BufferIs DEF Refused
<1> QED BY <1>1 DEF TableInv, TableTypeOK, WrittenAsAsked, Bounded, Places

\* What is removed was not written, or is not the last write any more.
LEMMA RemovedKeeps ==
    ASSUME TableInv, NEW S, rows' = rows \ S, UNCHANGED <<table, buf>>, pos' \in Places,
           lastWrite' = IF lastWrite \in S THEN NoRow ELSE lastWrite
    PROVE  TableInv'
<1>1. rows' \subseteq rows /\ Bounded(rows')
  BY BoundedParts DEF TableInv
<1>2. Bounded(rows)'
  BY <1>1 DEF Bounded
<1>3. TableTypeOK'
  BY <1>1 DEF TableInv, TableTypeOK, Places
<1>4. WrittenAsAsked'
  BY DEF TableInv, WrittenAsAsked
<1> QED BY <1>2, <1>3, <1>4 DEF TableInv

LEMMA WriteKeeps ==
    ASSUME TableInv, CursorWrites
    PROVE  TableInv'
<1>1. rows \subseteq Row /\ Bounded(rows) /\ pos \in Places
  BY DEF TableInv, TableTypeOK, Places
<1>2. ASSUME NEW k \in Keys, NEW v \in Values,
             Upsert(k, v) \/ Insert(k, v) \/ CursorAppend(k, v) \/ AppendDup(k, v) \/ TxPut(k, v)
      PROVE  TableInv'
  <2>1. CASE Upsert(k, v)
    BY <2>1, WrittenKeeps DEF Upsert
  <2>2. CASE Insert(k, v)
    <3>1. {r \in rows : r[1] = k} \subseteq Places
      BY <1>1 DEF Places
    <3> QED BY <2>2, <3>1, WrittenKeeps, RefusedKeeps DEF Insert
  <2>3. CASE CursorAppend(k, v)
    <3>1. last # NoRow => {last} \subseteq Places
      BY <1>1, AnswersAreRows DEF Places
    <3> QED BY <2>3, <3>1, WrittenKeeps, RefusedKeeps DEF CursorAppend
  <2>4. CASE AppendDup(k, v)
    <3>1. {r \in rows : r[1] = k} \cup {End} \subseteq Places
      BY <1>1 DEF Places
    <3> QED BY <2>4, <3>1, WrittenKeeps, RefusedKeeps DEF AppendDup
  <2>5. CASE TxPut(k, v)
    <3>1. /\ rows' = Put(k, v) /\ lastWrite' = <<k, v>> /\ UNCHANGED <<table, pos, buf>>
          /\ <<k, v>> \in Row
      BY <2>5 DEF TxPut, Row
    <3> QED BY <3>1, PutIs DEF TableInv, TableTypeOK, WrittenAsAsked, Bounded
  <2> QED BY <1>2, <2>1, <2>2, <2>3, <2>4, <2>5
<1>3. ASSUME NEW k, NEW v, TxDelete(k, v) PROVE TableInv'
  BY <1>1, <1>3, RemovedKeeps DEF TxDelete, Removed
<1>4. CASE DeleteCurrent
  BY <1>1, <1>4, RemovedKeeps DEF DeleteCurrent, Removed
<1>5. CASE DeleteCurrentDuplicates
  BY <1>1, <1>5, RemovedKeeps DEF DeleteCurrentDuplicates, Removed
<1>6. CASE TxClear
  <2>1. pos' \in Places
    BY <1>6 DEF TxClear, Places
  <2> QED BY <1>6, <2>1, RemovedKeeps DEF TxClear, Removed
<1> QED BY <1>2, <1>3, <1>4, <1>5, <1>6 DEF CursorWrites

LEMMA StartsInPlace ==
    ASSUME TableInv
    PROVE  /\ \A k : StartAt(k) \in rows \cup {NoRow}
           /\ \A k, s : DupStart(k, s) \in rows \cup {NoRow, Failed}
<1>1. rows \subseteq Row /\ Bounded(rows)
  BY DEF TableInv, TableTypeOK
<1>2. /\ first \in rows \cup {NoRow}
      /\ \A k : set_key(k) \in rows \cup {NoRow} /\ set_range(k) \in rows \cup {NoRow}
      /\ \A k, s : get_both_range(k, s) \in rows \cup {NoRow}
  BY <1>1, AnswersAreRows
<1>3. \A k : StartAt(k) \in rows \cup {NoRow}
  BY <1>2 DEF StartAt
<1>4. ASSUME NEW k, NEW s PROVE DupStart(k, s) \in rows \cup {NoRow, Failed}
  <2>1. CASE k # None
    BY <1>2, <2>1 DEF DupStart
  <2>2. CASE k = None
    BY <1>2, <2>2 DEF DupStart
  <2> QED BY <2>1, <2>2
<1> QED BY <1>3, <1>4

LEMMA WalkKeeps ==
    ASSUME TableInv, CursorWalks
    PROVE  TableInv'
<1>1. rows \subseteq Row /\ Bounded(rows) /\ pos \in Places
  BY DEF TableInv, TableTypeOK, Places
<1>2. ASSUME NEW way, NEW answer \in rows \cup {NoRow}, NEW end_key, NEW closed, NEW over, NEW due,
             Starts(way, answer, end_key, closed, over, due)
      PROVE  TableInv'
  BY <1>1, <1>2, LeftInPlace, TableKept DEF Starts
<1>3. ASSUME NEW k, Walk(k) PROVE TableInv'
  BY <1>2, <1>3, StartsInPlace DEF Walk
<1>4. ASSUME NEW k, WalkBack(k) PROVE TableInv'
  <2>1. (IF k = None THEN last ELSE set_range(k)) \in rows \cup {NoRow}
    BY <1>1, AnswersAreRows
  <2> QED BY <1>2, <1>4, <2>1 DEF WalkBack
<1>5. ASSUME NEW k, NEW e, NEW c, WalkRange(k, e, c) PROVE TableInv'
  BY <1>2, <1>5, StartsInPlace DEF WalkRange
<1>6. ASSUME NEW k, NEW s, WalkDup(k, s) PROVE TableInv'
  <2>1. pos' \in Places /\ UNCHANGED <<table, rows, buf, lastWrite>>
    BY <1>6 DEF WalkDup, Places
  <2> QED BY <2>1, TableKept
<1>7. CASE WalkerNext
  <2>1. pos' \in Places
    BY <1>1, <1>7, AnswersAreRows, LeftInPlace DEF WalkerNext
  <2> QED BY <1>7, <2>1, TableKept DEF WalkerNext
<1>8. CASE WalkerDelete
  <2>1. lastWrite' = IF lastWrite \in {pos} THEN NoRow ELSE lastWrite
    BY <1>8 DEF WalkerDelete
  <2> QED BY <1>1, <1>8, <2>1, RemovedKeeps DEF WalkerDelete
<1>9. CASE WalkerDropped
  BY <1>1, <1>9, TableKept DEF WalkerDropped
<1> QED BY <1>3, <1>4, <1>5, <1>6, <1>7, <1>8, <1>9 DEF CursorWalks

LEMMA TableInit == CursorInit => TableInv
<1> SUFFICES ASSUME CursorInit PROVE TableInv
  OBVIOUS
<1>1. << >> \in Seq(Values) /\ Len(<< >>) = 0
  OBVIOUS
<1> QED BY <1>1, BoundedParts DEF CursorInit, TableInv, TableTypeOK, WrittenAsAsked

LEMMA TableStep == TableInv /\ [CursorNext]_cursorVars => TableInv'
<1> SUFFICES ASSUME TableInv, [CursorNext]_cursorVars PROVE TableInv'
  OBVIOUS
<1>1. CASE UNCHANGED cursorVars
  BY <1>1, TableKept DEF cursorVars, TableInv, TableTypeOK, Places
<1> QED BY <1>1, ReadKeeps, WriteKeeps, WalkKeeps DEF CursorNext

\* WritesReachTheTable, for any keys and values (cursor.rs, put of tx.rs).
THEOREM WritesAlwaysReachTheTable == CursorSpec => []WritesReachTheTable
<1>1. CursorSpec => []TableInv
  BY TableInit, TableStep, PTL DEF CursorSpec
<1>2. TableInv => WritesReachTheTable
  BY DEF TableInv, WritesReachTheTable
<1> QED BY <1>1, <1>2, PTL

-----------------------------------------------------------------------------
(* Walks.                                                                  *)

\* A row that a walk from p has still to come to, if it is there and in the range.
Ahead(p, r) ==
    CASE walk.way = "on"  -> Before(p, r)
      [] walk.way = "dup" -> r[1] = p[1] /\ Before(p, r)
      [] OTHER            -> Before(r, p)

Behind(p, r) == IF walk.way = "back" THEN Before(p, r) ELSE Before(r, p)

Walks == [way : {"none", "on", "dup", "back"}, start : Row \cup {NoRow, Failed},
          end_key : Keys \cup {None}, closed : BOOLEAN, over : BOOLEAN,
          seen : Seq(Row), due : SUBSET Row]

Met == {walk.seen[i] : i \in DOMAIN walk.seen}

\* Made, and nothing given yet: the first row has been read.
ReadAhead ==
    /\ walk.seen = << >>
    /\ walk.start \in Row =>
          /\ walk.start \in walk.due /\ Within(walk.start[1])
          /\ pos = walk.start \/ (pos = Unset /\ rows = {})
          /\ \A r \in Row : r \in walk.due /\ r # walk.start <=>
                               r \in rows /\ Within(r[1]) /\ Ahead(walk.start, r)
    /\ walk.start = Failed => walk.way = "dup" /\ rows = {} /\ walk.due = {} /\ pos \notin Row

\* Under way: what is due and not given is what lies ahead of the cursor, and what was given
\* lies behind it.
UnderWay ==
    /\ Met \subseteq walk.due
    /\ \A r \in Row : r \in walk.due /\ r \notin Met <=>
                         /\ r \in rows /\ Within(r[1])
                         /\ IF pos \in Row THEN Ahead(pos, r) ELSE walk.way = "back"
    /\ pos \in Row => \A r \in Met : r = pos \/ Behind(pos, r)
    /\ pos \notin Row => walk.seen = << >> \/ rows = {}
    /\ pos = Unset => rows = {}

WalkSorted ==
    \A i, j \in DOMAIN walk.seen :
       i < j => IF walk.way = "back" THEN Before(walk.seen[j], walk.seen[i])
                                     ELSE Before(walk.seen[i], walk.seen[j])

WalkInv ==
    /\ walk \in Walks
    /\ walk.way = "none" => walk = NoWalk
    /\ walk.way # "on" => walk.end_key = None
    /\ WalkSorted
    /\ walk.over => Met = walk.due
    /\ ~walk.over /\ walk.start # NoRow => ReadAhead
    /\ ~walk.over /\ walk.start = NoRow => UnderWay

LEMMA OneMoreSeen ==
    ASSUME NEW seen \in Seq(Row), NEW item \in Row, NEW longer, longer = Append(seen, item)
    PROVE  /\ longer \in Seq(Row) /\ Len(seen) \in Nat
           /\ DOMAIN seen = 1..Len(seen) /\ DOMAIN longer = 1..(Len(seen) + 1)
           /\ longer[Len(seen) + 1] = item
           /\ \A i \in 1..Len(seen) : longer[i] = seen[i]
           /\ {longer[i] : i \in DOMAIN longer} = {seen[i] : i \in DOMAIN seen} \cup {item}
<1>1. PICK n \in Nat : n = Len(seen) /\ DOMAIN seen = 1..n
  OBVIOUS
<1>2. /\ longer \in Seq(Row) /\ DOMAIN longer = 1..(n + 1) /\ longer[n + 1] = item
      /\ \A i \in 1..n : longer[i] = seen[i]
  BY <1>1, AppendProperties
<1>3. \A i \in 1..(n + 1) : i \in 1..n \/ i = n + 1
  OBVIOUS
<1>4. n + 1 \in 1..(n + 1) /\ 1..n \subseteq 1..(n + 1)
  OBVIOUS
<1>5. {longer[i] : i \in 1..(n + 1)} = {seen[i] : i \in 1..n} \cup {item}
  BY <1>2, <1>3, <1>4
<1> QED BY <1>1, <1>2, <1>5

LEMMA NothingSeen == << >> \in Seq(Row) /\ {<< >>[i] : i \in DOMAIN << >>} = {} /\ DOMAIN << >> = {}
<1>1. DOMAIN << >> = {}
  OBVIOUS
<1> QED BY <1>1

LEMMA NoWalkIs ==
    ASSUME walk' = NoWalk
    PROVE  WalkInv'
<1>1. /\ walk'.way = "none" /\ walk'.over /\ walk'.seen = << >> /\ walk'.due = {}
      /\ walk'.end_key = None
  BY DEF NoWalk
<1>2. walk' \in Walks
  BY NothingSeen DEF NoWalk, Walks
<1>3. Met' = {} /\ WalkSorted'
  BY <1>1, NothingSeen DEF Met, WalkSorted
<1> QED BY <1>1, <1>2, <1>3 DEF WalkInv

LEMMA WalkInit == CursorInit => WalkInv
<1> SUFFICES ASSUME walk = NoWalk PROVE WalkInv
  BY DEF CursorInit
<1>1. /\ walk.way = "none" /\ walk.over /\ walk.seen = << >> /\ walk.due = {}
      /\ walk.end_key = None
  BY DEF NoWalk
<1>2. walk \in Walks
  BY NothingSeen DEF NoWalk, Walks
<1>3. Met = {} /\ WalkSorted
  BY <1>1, NothingSeen DEF Met, WalkSorted
<1> QED BY <1>1, <1>2, <1>3 DEF WalkInv

\* The parts of a walk, when it gives one more row and when it does not.
LEMMA GivesARow ==
    ASSUME walk \in Walks, NEW item \in Row, Within(item[1]), Gives(item)
    PROVE  /\ walk' \in Walks /\ walk'.start = NoRow
           /\ walk'.way = walk.way /\ walk'.end_key = walk.end_key /\ walk'.closed = walk.closed
           /\ walk'.over = walk.over /\ walk'.due = walk.due
           /\ walk'.seen = Append(walk.seen, item)
<1>1. walk' = [walk EXCEPT !.seen = Append(@, item), !.start = NoRow]
  BY DEF Gives
<1>2. Append(walk.seen, item) \in Seq(Row)
  BY OneMoreSeen DEF Walks
<1> QED BY <1>1, <1>2 DEF Walks

LEMMA GivesNoRow ==
    ASSUME walk \in Walks, NEW item, ~(item \in Row /\ Within(item[1])), Gives(item)
    PROVE  /\ walk' \in Walks /\ walk'.start = NoRow
           /\ walk'.way = walk.way /\ walk'.end_key = walk.end_key /\ walk'.closed = walk.closed
           /\ walk'.over = (item # Failed) /\ walk'.due = walk.due /\ walk'.seen = walk.seen
<1>1. walk' = [walk EXCEPT !.over = (item # Failed), !.start = NoRow]
  BY DEF Gives
<1> QED BY <1>1 DEF Walks

SameWay ==
    walk'.way = walk.way /\ walk'.end_key = walk.end_key /\ walk'.closed = walk.closed

LEMMA SameWayIs ==
    ASSUME SameWay
    PROVE  /\ \A k : Within(k)' <=> Within(k)
           /\ \A p, r : Ahead(p, r)' <=> Ahead(p, r)
           /\ \A p, r : Behind(p, r)' <=> Behind(p, r)
<1>1. \A k : Within(k)' <=> Within(k)
  BY DEF SameWay, Within
<1>2. \A p, r : Ahead(p, r)' <=> Ahead(p, r)
  BY DEF SameWay, Ahead, Before
<1>3. \A p, r : Behind(p, r)' <=> Behind(p, r)
  BY DEF SameWay, Behind, Before
<1> QED BY <1>1, <1>2, <1>3

\* The row that comes next: the first of those that are due.
Coming(item) ==
    /\ item \in Row /\ Within(item[1]) /\ item \in walk.due /\ item \notin Met
    /\ \A r \in Met : Behind(item, r)
    /\ \A r \in Row : r \in walk.due /\ r \notin Met /\ r # item <=>
                         r \in rows /\ Within(r[1]) /\ Ahead(item, r)

LEMMA RowGiven ==
    ASSUME WalkInv, ~walk.over, NEW item, Coming(item), Gives(item), rows' = rows,
           pos' = item \/ (pos' = Unset /\ rows = {})
    PROVE  WalkInv'
<1>1. /\ walk \in Walks /\ WalkSorted /\ (walk.way # "on" => walk.end_key = None)
      /\ (walk.way = "none" => walk = NoWalk)
      /\ item \in Row /\ Within(item[1]) /\ item \in walk.due /\ item \notin Met
      /\ Met \subseteq walk.due
  <2>1. Met \subseteq walk.due
    <3>1. CASE walk.start = NoRow
      BY <3>1 DEF WalkInv, UnderWay
    <3>2. CASE walk.start # NoRow
      BY <3>2, NothingSeen DEF WalkInv, ReadAhead, Met
    <3> QED BY <3>1, <3>2
  <2> QED BY <2>1 DEF WalkInv, Coming
<1>2. /\ walk' \in Walks /\ walk'.start = NoRow /\ SameWay
      /\ walk'.over = walk.over /\ walk'.due = walk.due
      /\ walk'.seen = Append(walk.seen, item)
  BY <1>1, GivesARow DEF SameWay
<1>3. PICK n \in Nat :
          /\ DOMAIN walk.seen = 1..n /\ DOMAIN walk'.seen = 1..(n + 1)
          /\ walk'.seen[n + 1] = item /\ \A i \in 1..n : walk'.seen[i] = walk.seen[i]
          /\ Met' = Met \cup {item}
  <2>1. walk.seen \in Seq(Row)
    BY <1>1 DEF Walks
  <2>2. PICK longer : longer = Append(walk.seen, item)
    OBVIOUS
  <2>3. /\ Len(walk.seen) \in Nat /\ DOMAIN walk.seen = 1..Len(walk.seen)
        /\ DOMAIN longer = 1..(Len(walk.seen) + 1) /\ longer[Len(walk.seen) + 1] = item
        /\ \A i \in 1..Len(walk.seen) : longer[i] = walk.seen[i]
        /\ {longer[i] : i \in DOMAIN longer} = {walk.seen[i] : i \in DOMAIN walk.seen} \cup {item}
    BY <1>1, <2>1, <2>2, OneMoreSeen
  <2>4. longer = walk'.seen
    BY <1>2, <2>2
  <2>5. Met' = Met \cup {item}
    BY <2>3, <2>4 DEF Met
  <2> QED BY <2>3, <2>4, <2>5
<1>4. WalkSorted'
  <2>1. ASSUME NEW i \in 1..(n + 1), NEW j \in 1..(n + 1), i < j
        PROVE  IF walk.way = "back" THEN Before(walk'.seen[j], walk'.seen[i])
                                    ELSE Before(walk'.seen[i], walk'.seen[j])
    <3>1. i \in 1..n
      BY <2>1
    <3>2. CASE j \in 1..n
      BY <1>1, <1>3, <2>1, <3>1, <3>2 DEF WalkSorted
    <3>3. CASE j = n + 1
      <4>1. walk.seen[i] \in Met
        BY <1>3, <3>1 DEF Met
      <4>2. Behind(item, walk.seen[i])
        BY <4>1 DEF Coming
      <4> QED BY <1>3, <3>1, <3>3, <4>2 DEF Behind
    <3> QED BY <3>2, <3>3
  <2> QED BY <1>2, <1>3, <2>1 DEF WalkSorted, SameWay, Before
<1>5. UnderWay'
  <2>1. Met' \subseteq walk'.due
    BY <1>1, <1>2, <1>3
  <2>2. \A r \in Row : r \in walk'.due /\ r \notin Met' <=>
                          r \in rows /\ Within(r[1]) /\ Ahead(item, r)
    BY <1>2, <1>3 DEF Coming
  <2>3. \A r \in Met' : r = item \/ Behind(item, r)
    BY <1>3 DEF Coming
  <2>4. /\ \A k : Within(k)' <=> Within(k)
        /\ \A p, r : Ahead(p, r)' <=> Ahead(p, r)
        /\ \A p, r : Behind(p, r)' <=> Behind(p, r)
    BY <1>2, SameWayIs
  <2>5. CASE pos' = item
    <3>1. \A r \in Row : r \in walk'.due /\ r \notin Met' <=>
                            r \in rows' /\ Within(r[1])' /\ Ahead(item, r)'
      BY <2>2, <2>4
    <3>2. \A r \in Met' : r = item \/ Behind(item, r)'
      BY <2>3, <2>4
    <3>3. pos' \in Row /\ pos' # Unset
      BY <1>1, <2>5, NoneIsNoRow
    <3> QED BY <2>1, <2>5, <3>1, <3>2, <3>3 DEF UnderWay, Within, Ahead, Behind, Before
  <2>6. CASE pos' = Unset /\ rows = {}
    <3>1. pos' \notin Row
      BY <2>6, NoneIsNoRow
    <3>2. \A r \in Row : ~(r \in walk'.due /\ r \notin Met')
      BY <2>2, <2>6
    <3> QED BY <2>1, <2>6, <3>1, <3>2 DEF UnderWay
  <2> QED BY <2>5, <2>6
<1>6. ~walk'.over /\ (walk'.way # "on" => walk'.end_key = None) /\ walk'.way # "none"
  <2>1. walk.way # "none"
    BY <1>1 DEF NoWalk
  <2> QED BY <1>1, <1>2, <2>1 DEF SameWay
<1> QED BY <1>2, <1>4, <1>5, <1>6 DEF WalkInv

LEMMA NothingGiven ==
    ASSUME WalkInv, ~walk.over, NEW item, ~(item \in Row /\ Within(item[1])), item # Failed,
           Gives(item), Met = walk.due
    PROVE  WalkInv'
<1>1. /\ walk' \in Walks /\ SameWay /\ walk'.over /\ walk'.due = walk.due
      /\ walk'.seen = walk.seen
  BY GivesNoRow DEF WalkInv, SameWay
<1>2. Met' = walk'.due
  BY <1>1 DEF Met
<1>3. WalkSorted'
  BY <1>1 DEF WalkInv, WalkSorted, SameWay, Before
<1>4. walk.way # "none"
  BY DEF WalkInv, NoWalk
<1> QED BY <1>1, <1>2, <1>3, <1>4 DEF WalkInv, SameWay

\* A walk under way: its next row comes, or all rows of its range were given.
UnderWayInv == WalkInv /\ TableInv /\ ~walk.over /\ walk.start = NoRow

LEMMA NothingAhead ==
    ASSUME UnderWayInv,
           \A r \in rows : ~(Within(r[1]) /\ IF pos \in Row THEN Ahead(pos, r) ELSE walk.way = "back")
    PROVE  Met = walk.due
<1>1. UnderWay /\ walk.due \subseteq Row
  BY DEF UnderWayInv, WalkInv, Walks
<1>2. \A r \in Row : ~(r \in walk.due /\ r \notin Met)
  BY <1>1 DEF UnderWay
<1> QED BY <1>1, <1>2 DEF UnderWay

LEMMA NextComes ==
    ASSUME UnderWayInv, NEW item \in rows, pos \in Row, Within(item[1]), Ahead(pos, item),
           \A r \in rows : Within(r[1]) /\ Ahead(pos, r) /\ r # item <=>
                              Within(r[1]) /\ Ahead(item, r),
           Behind(item, pos), \A r \in Row : Behind(pos, r) => Behind(item, r)
    PROVE  Coming(item)
<1>1. UnderWay /\ walk.due \subseteq Row /\ rows \subseteq Row
  BY DEF UnderWayInv, WalkInv, Walks, TableInv, TableTypeOK
<1>2. item \in Row /\ item \in walk.due /\ item \notin Met
  BY <1>1 DEF UnderWay
<1>3. \A r \in Met : Behind(item, r)
  <2>1. \A r \in Met : r \in Row /\ (r = pos \/ Behind(pos, r))
    BY <1>1 DEF UnderWay
  <2> QED BY <2>1
<1>4. ASSUME NEW r \in Row
      PROVE  r \in walk.due /\ r \notin Met /\ r # item <=>
                r \in rows /\ Within(r[1]) /\ Ahead(item, r)
  <2>1. r \in walk.due /\ r \notin Met <=> r \in rows /\ Within(r[1]) /\ Ahead(pos, r)
    BY <1>1 DEF UnderWay
  <2> QED BY <2>1
<1> QED BY <1>2, <1>3, <1>4 DEF Coming

LEMMA NextOn ==
    ASSUME UnderWayInv, walk.way = "on", Gives(next), pos' = Left(next), rows' = rows
    PROVE  WalkInv'
<1>1. PICK item : item = next
  OBVIOUS
<1>2. /\ UnderWay /\ rows \subseteq Row /\ pos \in Places /\ WalkInv /\ ~walk.over
  BY DEF UnderWayInv, WalkInv, TableInv, TableTypeOK, Places
<1>3. \A p, r : Ahead(p, r) <=> Before(p, r)
  BY DEF UnderWayInv, Ahead
<1>4. \A p, r : Behind(p, r) <=> Before(r, p)
  BY DEF UnderWayInv, Behind
<1>5. CASE pos \notin Row
  <2>1. pos = Unset \/ pos = End
    BY <1>2, <1>5 DEF Places
  <2>2. pos = Unset => rows = {}
    BY <1>2 DEF UnderWay
  <2>3. item = NoRow
    <3>1. CASE pos = Unset
      BY <1>1, <2>2, <3>1, LowestIs DEF next, first
    <3>2. CASE pos = End
      BY <1>1, <3>2, NoneIsNoRow DEF next
    <3> QED BY <2>1, <3>1, <3>2
  <2>4. item \notin Row /\ item # Failed
    BY <2>3, NoneIsNoRow
  <2>5. Met = walk.due
    BY <1>5, NothingAhead
  <2> QED BY <1>1, <1>2, <2>4, <2>5, NothingGiven
<1>6. CASE pos \in Row
  <2> DEFINE S == {r \in rows : Before(pos, r)}
  <2>1. item = Lowest(S)
    BY <1>1, <1>6, NoneIsNoRow DEF next
  <2>2. S \in SUBSET Row
    BY <1>2
  <2>3. CASE S = {}
    <3>1. item \notin Row /\ item # Failed
      BY <2>1, <2>2, <2>3, LowestIs, NoneIsNoRow
    <3>2. Met = walk.due
      BY <1>3, <1>6, <2>3, NothingAhead
    <3> QED BY <1>1, <1>2, <3>1, <3>2, NothingGiven
  <2>4. CASE S # {}
    <3>1. /\ item \in S /\ item \in Row /\ \A r \in S : r = item \/ Before(item, r)
      BY <2>1, <2>2, <2>4, LowestIs
    <3> HIDE DEF S
    <3>2. \A r : r \in S <=> r \in rows /\ Before(pos, r)
      BY DEF S
    <3>3. item # Failed /\ pos' = item
      BY <1>1, <3>1, NoneIsNoRow DEF Left
    <3>4. CASE Within(item[1])
      <4>1. ASSUME NEW r \in rows
            PROVE  Before(pos, r) /\ r # item <=> Before(item, r)
        <5>1. Before(item, r) => Before(pos, r) /\ r # item
          BY <1>2, <1>6, <3>1, <3>2, OrderGoesOn, Order
        <5>2. Before(pos, r) /\ r # item => Before(item, r)
          BY <3>1, <3>2
        <5> QED BY <5>1, <5>2
      <4>2. \A r \in Row : Behind(pos, r) => Behind(item, r)
        BY <1>4, <1>6, <3>1, <3>2, OrderGoesOn
      <4>3. Coming(item)
        BY <1>3, <1>4, <1>6, <3>1, <3>2, <3>4, <4>1, <4>2, NextComes
      <4> QED BY <1>1, <1>2, <3>3, <4>3, RowGiven
    <3>5. CASE ~Within(item[1])
      <4>1. ASSUME NEW r \in rows, Within(r[1]), Before(pos, r)
            PROVE  FALSE
        <5>1. r = item \/ Before(item, r)
          BY <3>1, <3>2, <4>1
        <5>2. item[1] <= r[1] /\ item[1] \in Nat /\ r[1] \in Nat
          BY <1>2, <3>1, <4>1, <5>1, Order, RowsAreNumbers
        <5>3. walk.end_key \in Nat \cup {None}
          BY <1>2, TableConstants DEF WalkInv, Walks
        <5> QED BY <3>5, <4>1, <5>2, <5>3 DEF Within
      <4>2. Met = walk.due
        BY <1>3, <1>6, <4>1, NothingAhead
      <4> QED BY <1>1, <1>2, <3>3, <3>5, <4>2, NothingGiven
    <3> QED BY <3>4, <3>5
  <2> QED BY <2>3, <2>4
<1> QED BY <1>5, <1>6

LEMMA NextDup ==
    ASSUME UnderWayInv, walk.way = "dup", Gives(next_dup), pos' = Left(next_dup), rows' = rows
    PROVE  WalkInv'
<1>1. PICK item : item = next_dup
  OBVIOUS
<1>2. /\ UnderWay /\ rows \subseteq Row /\ pos \in Places /\ WalkInv /\ ~walk.over
  BY DEF UnderWayInv, WalkInv, TableInv, TableTypeOK, Places
<1>3. \A p, r : Ahead(p, r) <=> r[1] = p[1] /\ Before(p, r)
  BY DEF UnderWayInv, Ahead
<1>4. \A p, r : Behind(p, r) <=> Before(r, p)
  BY DEF UnderWayInv, Behind
<1>w. \A k : Within(k)
  BY DEF UnderWayInv, WalkInv, Within
<1>5. CASE pos \notin Row
  <2>1. pos = Unset \/ pos = End
    BY <1>2, <1>5 DEF Places
  <2>2. pos = Unset => rows = {}
    BY <1>2 DEF UnderWay
  <2>3. item = NoRow
    <3>0. item = next
      BY <1>1, <1>5 DEF next_dup, OnRow
    <3>1. CASE pos = Unset
      BY <3>0, <2>2, <3>1, LowestIs DEF next, first
    <3>2. CASE pos = End
      BY <3>0, <3>2, NoneIsNoRow DEF next
    <3> QED BY <2>1, <3>1, <3>2
  <2>4. item \notin Row /\ item # Failed
    BY <2>3, NoneIsNoRow
  <2>5. Met = walk.due
    BY <1>5, NothingAhead DEF UnderWayInv
  <2> QED BY <1>1, <1>2, <2>4, <2>5, NothingGiven
<1>6. CASE pos \in Row
  <2> DEFINE S == {r \in rows : r[1] = pos[1] /\ Before(pos, r)}
  <2>1. item = Lowest(S)
    BY <1>1, <1>6 DEF next_dup, OnRow
  <2>2. S \in SUBSET Row
    BY <1>2
  <2>3. CASE S = {}
    <3>1. item \notin Row /\ item # Failed
      BY <2>1, <2>2, <2>3, LowestIs, NoneIsNoRow
    <3>2. Met = walk.due
      BY <1>3, <1>6, <2>3, NothingAhead
    <3> QED BY <1>1, <1>2, <3>1, <3>2, NothingGiven
  <2>4. CASE S # {}
    <3>1. /\ item \in S /\ item \in Row /\ \A r \in S : r = item \/ Before(item, r)
      BY <2>1, <2>2, <2>4, LowestIs
    <3> HIDE DEF S
    <3>2. \A r : r \in S <=> r \in rows /\ r[1] = pos[1] /\ Before(pos, r)
      BY DEF S
    <3>3. item # Failed /\ pos' = item
      BY <1>1, <3>1, NoneIsNoRow DEF Left
    <3>4. ASSUME NEW r \in rows
          PROVE  r[1] = pos[1] /\ Before(pos, r) /\ r # item <=> r[1] = item[1] /\ Before(item, r)
      <4>1. Before(item, r) => Before(pos, r) /\ r # item
        BY <1>2, <1>6, <3>1, <3>2, OrderGoesOn, Order
      <4>2. r[1] = pos[1] /\ Before(pos, r) /\ r # item => Before(item, r)
        BY <3>1, <3>2
      <4>3. item[1] = pos[1]
        BY <3>1, <3>2
      <4> QED BY <4>1, <4>2, <4>3
    <3>5. \A r \in Row : Behind(pos, r) => Behind(item, r)
      BY <1>4, <1>6, <3>1, <3>2, OrderGoesOn
    <3>6. Coming(item)
      BY <1>3, <1>4, <1>6, <1>w, <3>1, <3>2, <3>4, <3>5, NextComes
    <3> QED BY <1>1, <1>2, <3>3, <3>6, RowGiven
  <2> QED BY <2>3, <2>4
<1> QED BY <1>5, <1>6

\* Backwards, a cursor without a row is before all of them.
LEMMA NextBack ==
    ASSUME UnderWayInv, walk.way = "back", Gives(prev), pos' \in LeftBack(prev), rows' = rows
    PROVE  WalkInv'
<1>1. PICK item : item = prev
  OBVIOUS
<1>2. /\ UnderWay /\ rows \subseteq Row /\ Bounded(rows) /\ WalkInv /\ ~walk.over
  BY DEF UnderWayInv, WalkInv, TableInv, TableTypeOK
<1>3. \A p, r : Ahead(p, r) <=> Before(r, p)
  BY DEF UnderWayInv, Ahead
<1>4. \A p, r : Behind(p, r) <=> Before(p, r)
  BY DEF UnderWayInv, Behind
<1>w. \A k : Within(k)
  BY DEF UnderWayInv, WalkInv, Within
<1> DEFINE S == {r \in rows : pos \in Row => Before(r, pos)}
<1>5. item = Highest(S)
  <2>1. CASE pos \in Row
    <3>1. item = Highest({r \in rows : Before(r, pos)})
      BY <1>1, <2>1 DEF prev, OnRow
    <3>2. S = {r \in rows : Before(r, pos)}
      BY <2>1
    <3> QED BY <3>1, <3>2
  <2>2. CASE pos \notin Row
    <3>1. item = Highest(rows)
      BY <1>1, <2>2 DEF prev, OnRow, last
    <3>2. S = rows
      BY <2>2
    <3> QED BY <3>1, <3>2
  <2> QED BY <2>1, <2>2
<1>6. S \in SUBSET Row /\ Bounded(S)
  BY <1>2, BoundedParts
<1>7. \A r : r \in S <=> r \in rows /\ (pos \in Row => Before(r, pos))
  OBVIOUS
<1> HIDE DEF S
<1>8. CASE S = {}
  <2>1. item \notin Row /\ item # Failed
    BY <1>5, <1>6, <1>8, HighestIs, NoneIsNoRow
  <2>2. Met = walk.due
    BY <1>3, <1>7, <1>8, NothingAhead
  <2> QED BY <1>1, <1>2, <2>1, <2>2, NothingGiven
<1>9. CASE S # {}
  <2>1. item \in S /\ item \in Row /\ \A r \in S : r = item \/ Before(r, item)
    BY <1>5, <1>6, <1>9, HighestIs
  <2>2. item # Failed /\ pos' = item
    BY <1>1, <2>1, NoneIsNoRow DEF LeftBack
  <2>3. CASE pos \in Row
    <3>1. ASSUME NEW r \in rows
          PROVE  Before(r, pos) /\ r # item <=> Before(r, item)
      <4>1. Before(r, item) => Before(r, pos) /\ r # item
        BY <1>2, <1>7, <2>1, <2>3, OrderGoesOn, Order
      <4>2. Before(r, pos) /\ r # item => Before(r, item)
        BY <1>7, <2>1
      <4> QED BY <4>1, <4>2
    <3>2. \A r \in Row : Behind(pos, r) => Behind(item, r)
      BY <1>4, <1>7, <2>1, <2>3, OrderGoesOn
    <3>3. Coming(item)
      BY <1>3, <1>4, <1>7, <1>w, <2>1, <2>3, <3>1, <3>2, NextComes
    <3> QED BY <1>1, <1>2, <2>2, <3>3, RowGiven
  <2>4. CASE pos \notin Row
    <3>1. Met = {}
      <4>1. walk.seen = << >>
        BY <1>2, <1>7, <2>1, <2>4 DEF UnderWay
      <4> QED BY <4>1, NothingSeen DEF Met
    <3>2. \A r \in Row : r \in walk.due <=> r \in rows
      BY <1>2, <1>w, <2>4, <3>1 DEF UnderWay, UnderWayInv
    <3>3. \A r \in rows : r # item <=> Before(r, item)
      BY <1>2, <1>7, <2>1, <2>4, Order
    <3>4. Coming(item)
      BY <1>2, <1>3, <1>7, <1>w, <2>1, <3>1, <3>2, <3>3 DEF Coming
    <3> QED BY <1>1, <1>2, <2>2, <3>4, RowGiven
  <2> QED BY <2>3, <2>4
<1> QED BY <1>8, <1>9

\* The row read ahead is given first.
LEMMA NextFirst ==
    ASSUME WalkInv, TableInv, ~walk.over, walk.start # NoRow, Gives(walk.start),
           pos' = pos, rows' = rows
    PROVE  WalkInv'
<1>1. PICK item : item = walk.start
  OBVIOUS
<1>2. ReadAhead /\ item \in Row \cup {Failed} /\ walk \in Walks
  BY <1>1 DEF WalkInv, Walks
<1>3. Met = {}
  BY <1>2, NothingSeen DEF ReadAhead, Met
<1>4. CASE item \in Row
  <2>1. Coming(item)
    BY <1>1, <1>2, <1>3, <1>4 DEF ReadAhead, Coming
  <2>2. pos = item \/ (pos = Unset /\ rows = {})
    BY <1>1, <1>2, <1>4 DEF ReadAhead
  <2> QED BY <1>1, <2>1, <2>2, RowGiven
<1>5. CASE item = Failed
  <2>1. /\ walk' \in Walks /\ walk'.start = NoRow /\ SameWay /\ ~walk'.over
        /\ walk'.due = walk.due /\ walk'.seen = walk.seen
    BY <1>1, <1>2, <1>5, NoneIsNoRow, GivesNoRow DEF SameWay
  <2>2. walk.way = "dup" /\ rows = {} /\ walk.due = {} /\ pos \notin Row /\ walk.seen = << >>
    BY <1>1, <1>2, <1>5, NoneIsNoRow DEF ReadAhead
  <2>3. Met' = {} /\ WalkSorted'
    BY <2>1, <2>2, NothingSeen DEF Met, WalkSorted
  <2>4. UnderWay'
    BY <2>1, <2>2, <2>3 DEF UnderWay
  <2>5. walk'.end_key = None
    BY <2>1, <2>2 DEF WalkInv, SameWay
  <2> QED BY <2>1, <2>2, <2>3, <2>4, <2>5 DEF WalkInv, SameWay
<1> QED BY <1>2, <1>4, <1>5

LEMMA WalkerNextKeeps ==
    ASSUME WalkInv, TableInv, WalkerNext
    PROVE  WalkInv'
<1>1. ~walk.over /\ rows' = rows
  BY DEF WalkerNext
<1>2. walk.start = NoRow => UnderWayInv
  BY <1>1 DEF UnderWayInv
<1>3. CASE walk.start # NoRow /\ Gives(walk.start) /\ UNCHANGED pos
  BY <1>1, <1>3, NextFirst
<1>4. CASE walk.start = NoRow /\ walk.way = "on" /\ Gives(next) /\ pos' = Left(next)
  BY <1>1, <1>2, <1>4, NextOn
<1>5. CASE walk.start = NoRow /\ walk.way = "dup" /\ Gives(next_dup) /\ pos' = Left(next_dup)
  BY <1>1, <1>2, <1>5, NextDup
<1>6. CASE walk.start = NoRow /\ walk.way = "back" /\ Gives(prev) /\ pos' \in LeftBack(prev)
  BY <1>1, <1>2, <1>6, NextBack
<1> QED BY <1>3, <1>4, <1>5, <1>6 DEF WalkerNext

\* A walk without the rows removed: what was due of them and not given is due no more.
DueWithout(S) ==
    walk.due \ {r \in S : r # walk.start /\ \A i \in DOMAIN walk.seen : walk.seen[i] # r}

LEMMA RemovedFromWalk ==
    ASSUME WalkInv, NEW S, Removed(S), pos' = pos \/ (pos' = Unset /\ rows \subseteq S)
    PROVE  WalkInv'
<1>1. walk' = [walk EXCEPT !.due = DueWithout(S)] /\ rows' = rows \ S
  BY DEF Removed, DueWithout
<1>2. walk \in Walks
  BY DEF WalkInv
<1>3. DueWithout(S) \in SUBSET Row
  BY <1>2 DEF DueWithout, Walks
<1>4. /\ walk' \in Walks /\ SameWay /\ walk'.over = walk.over /\ walk'.start = walk.start
      /\ walk'.seen = walk.seen /\ walk'.due = DueWithout(S)
  BY <1>1, <1>2, <1>3 DEF Walks, SameWay
<1>5. Met' = Met /\ WalkSorted'
  BY <1>4 DEF WalkInv, Met, WalkSorted, SameWay, Before
<1>6. \A r : r \in DueWithout(S) <=> r \in walk.due /\ (r \notin S \/ r = walk.start \/ r \in Met)
  BY DEF DueWithout, Met
<1>7. walk.way = "none" => walk' = NoWalk
  <2>1. SUFFICES ASSUME walk = NoWalk PROVE walk' = walk
    BY DEF WalkInv
  <2>2. walk.due = {} /\ DueWithout(S) = {}
    BY <2>1 DEF NoWalk, DueWithout
  <2>3. walk' = [walk EXCEPT !.due = {}]
    BY <1>1, <2>2
  <2> QED BY <1>2, <2>2, <2>3 DEF Walks
<1>8. CASE walk.over
  <2>1. Met = walk.due
    BY <1>8 DEF WalkInv
  <2>2. DueWithout(S) \subseteq walk.due /\ walk.due \subseteq DueWithout(S)
    BY <1>6, <2>1
  <2>3. Met' = walk'.due
    BY <1>4, <1>5, <2>1, <2>2
  <2> QED BY <1>4, <1>5, <1>7, <1>8, <2>3 DEF WalkInv, SameWay
<1>9. CASE ~walk.over /\ walk.start # NoRow
  <2>1. ReadAhead /\ Met = {}
    BY <1>9, NothingSeen DEF WalkInv, ReadAhead, Met
  <2>2. /\ \A k : Within(k)' <=> Within(k)
        /\ \A p, r : Ahead(p, r)' <=> Ahead(p, r)
    BY <1>4, SameWayIs
  <2>3. ASSUME walk.start \in Row
        PROVE  /\ walk.start \in DueWithout(S) /\ Within(walk.start[1])
               /\ pos' = walk.start \/ (pos' = Unset /\ rows' = {})
               /\ \A r \in Row : r \in DueWithout(S) /\ r # walk.start <=>
                                    r \in rows' /\ Within(r[1]) /\ Ahead(walk.start, r)
    <3>1. /\ walk.start \in walk.due /\ Within(walk.start[1])
          /\ pos = walk.start \/ (pos = Unset /\ rows = {})
          /\ \A r \in Row : r \in walk.due /\ r # walk.start <=>
                               r \in rows /\ Within(r[1]) /\ Ahead(walk.start, r)
      BY <2>1, <2>3 DEF ReadAhead
    <3>2. walk.start \in DueWithout(S)
      BY <1>6, <3>1
    <3>3. pos' = walk.start \/ (pos' = Unset /\ rows' = {})
      BY <1>1, <3>1
    <3>4. \A r \in Row : r \in DueWithout(S) /\ r # walk.start <=>
                            r \in rows' /\ Within(r[1]) /\ Ahead(walk.start, r)
      BY <1>1, <1>6, <2>1, <3>1
    <3> QED BY <3>1, <3>2, <3>3, <3>4
  <2>4. ASSUME walk.start = Failed
        PROVE  walk.way = "dup" /\ rows' = {} /\ DueWithout(S) = {} /\ pos' \notin Row
    BY <1>1, <1>6, <2>1, <2>4, NoneIsNoRow DEF ReadAhead
  <2>5. walk.seen = << >>
    BY <2>1 DEF ReadAhead
  <2>6. ReadAhead'
    BY <1>4, <2>2, <2>3, <2>4, <2>5 DEF ReadAhead, SameWay, Within, Ahead, Before
  <2> QED BY <1>4, <1>5, <1>7, <1>9, <2>6 DEF WalkInv, SameWay
<1>10. CASE ~walk.over /\ walk.start = NoRow
  <2>1. UnderWay
    BY <1>10 DEF WalkInv
  <2>2. /\ \A k : Within(k)' <=> Within(k)
        /\ \A p, r : Ahead(p, r)' <=> Ahead(p, r)
        /\ \A p, r : Behind(p, r)' <=> Behind(p, r)
    BY <1>4, SameWayIs
  <2>3. Met' \subseteq walk'.due
    BY <1>4, <1>5, <1>6, <2>1 DEF UnderWay
  <2>4. \A r \in Row : r \in DueWithout(S) /\ r \notin Met <=>
                          r \in walk.due /\ r \notin Met /\ r \notin S
    BY <1>6, <1>10, NoneIsNoRow
  <2>5. ASSUME pos' = pos PROVE UnderWay'
    <3>1. \A r \in Row : r \in walk'.due /\ r \notin Met' <=>
                         /\ r \in rows' /\ Within(r[1])
                         /\ IF pos \in Row THEN Ahead(pos, r) ELSE walk.way = "back"
      <4>1. \A r \in Row : r \in walk.due /\ r \notin Met <=>
                           /\ r \in rows /\ Within(r[1])
                           /\ IF pos \in Row THEN Ahead(pos, r) ELSE walk.way = "back"
        BY <2>1 DEF UnderWay
      <4>2. \A r : r \in rows' <=> r \in rows /\ r \notin S
        BY <1>1
      <4> QED BY <1>4, <1>5, <2>4, <4>1, <4>2
    <3>2. pos \in Row => \A r \in Met' : r = pos \/ Behind(pos, r)
      BY <1>5, <2>1 DEF UnderWay
    <3>3. /\ pos \notin Row => walk'.seen = << >> \/ rows' = {}
          /\ pos = Unset => rows' = {}
      BY <1>1, <1>4, <2>1 DEF UnderWay
    <3>4. walk'.way = walk.way
      BY <1>4 DEF SameWay
    <3>5. PICK p : p = pos
      OBVIOUS
    <3>6. p = pos'
      BY <2>5, <3>5
    <3>7. \A r \in Row : r \in walk'.due /\ r \notin Met' <=>
                         /\ r \in rows' /\ Within(r[1])'
                         /\ IF p \in Row THEN Ahead(p, r)' ELSE walk'.way = "back"
      BY <2>2, <3>1, <3>4, <3>5
    <3>8. p \in Row => \A r \in Met' : r = p \/ Behind(p, r)'
      BY <2>2, <3>2, <3>5
    <3>9. (p \notin Row => walk'.seen = << >> \/ rows' = {}) /\ (p = Unset => rows' = {})
      BY <3>3, <3>5
    <3> QED BY <2>3, <3>6, <3>7, <3>8, <3>9 DEF UnderWay, Within, Ahead, Behind, Before
  <2>6. ASSUME pos' = Unset, rows \subseteq S PROVE UnderWay'
    <3>1. rows' = {} /\ pos' \notin Row
      BY <1>1, <2>6, NoneIsNoRow
    <3>2. \A r \in Row : ~(r \in walk.due /\ r \notin Met /\ r \notin S)
      <4>1. \A r \in Row : r \in walk.due /\ r \notin Met => r \in rows
        BY <2>1 DEF UnderWay
      <4> QED BY <2>6, <4>1
    <3>3. \A r \in Row : ~(r \in walk'.due /\ r \notin Met')
      BY <1>4, <1>5, <2>4, <3>2
    <3> QED BY <2>3, <3>1, <3>3 DEF UnderWay
  <2>7. UnderWay'
    BY <2>5, <2>6
  <2> QED BY <1>4, <1>5, <1>7, <1>10, <2>7 DEF WalkInv, SameWay
<1> QED BY <1>8, <1>9, <1>10

\* A walker that deletes at its cursor forgets the row it read ahead.
LEMMA WalkerDeleteKeeps ==
    ASSUME WalkInv, TableInv, WalkerDelete
    PROVE  WalkInv'
<1>1. /\ ~walk.over /\ pos \in rows /\ rows' = rows \ {pos} /\ pos' = pos /\ pos \in Row
      /\ walk' = [walk EXCEPT !.start = NoRow,
                              !.due = IF walk.start = NoRow THEN @ ELSE @ \ {pos}]
      /\ walk \in Walks
  BY DEF WalkerDelete, WalkInv, TableInv, TableTypeOK
<1>2. /\ walk' \in Walks /\ SameWay /\ ~walk'.over /\ walk'.start = NoRow
      /\ walk'.seen = walk.seen
      /\ walk'.due = IF walk.start = NoRow THEN walk.due ELSE walk.due \ {pos}
  BY <1>1 DEF Walks, SameWay
<1>3. Met' = Met /\ WalkSorted'
  BY <1>2 DEF WalkInv, Met, WalkSorted, SameWay, Before
<1>4. walk'.way # "none" /\ (walk'.way # "on" => walk'.end_key = None)
  BY <1>1, <1>2 DEF WalkInv, SameWay, NoWalk
<1>5. /\ \A k : Within(k)' <=> Within(k)
      /\ \A p, r : Ahead(p, r)' <=> Ahead(p, r)
      /\ \A p, r : Behind(p, r)' <=> Behind(p, r)
  BY <1>2, SameWayIs
<1>6. pos # Unset /\ ~Ahead(pos, pos)
  BY <1>1, NoneIsNoRow, Order DEF Ahead
<1>7. /\ Met \subseteq walk'.due
      /\ \A r \in Row : r \in walk'.due /\ r \notin Met <=>
                           r \in rows' /\ Within(r[1]) /\ Ahead(pos, r)
      /\ \A r \in Met : r = pos \/ Behind(pos, r)
  <2>1. CASE walk.start = NoRow
    <3>1. UnderWay /\ walk'.due = walk.due
      BY <1>1, <1>2, <2>1 DEF WalkInv
    <3> QED BY <1>1, <1>6, <3>1 DEF UnderWay
  <2>2. CASE walk.start # NoRow
    <3>1. ReadAhead /\ Met = {}
      BY <1>1, <2>2, NothingSeen DEF WalkInv, ReadAhead, Met
    <3>2. walk.start \in Row /\ pos = walk.start
      BY <1>1, <1>6, <2>2, <3>1 DEF ReadAhead, Walks
    <3> QED BY <1>1, <1>2, <1>6, <2>2, <3>1, <3>2 DEF ReadAhead
  <2> QED BY <2>1, <2>2
<1>8. UnderWay'
  BY <1>1, <1>2, <1>3, <1>5, <1>6, <1>7 DEF UnderWay, Within, Ahead, Behind, Before
<1> QED BY <1>2, <1>3, <1>4, <1>8 DEF WalkInv

\* A range, and what is ahead in it, by the parts of a walk.
InRange(end_key, closed, k) ==
    end_key = None \/ k < end_key \/ (closed /\ k = end_key)

AheadBy(way, p, r) ==
    CASE way = "on"  -> Before(p, r)
      [] way = "dup" -> r[1] = p[1] /\ Before(p, r)
      [] OTHER       -> Before(r, p)

\* What is due to a walk when it is made of an answer.
Makes(way, answer, end_key, closed, over, due) ==
    /\ over => due = {}
    /\ ~over /\ answer \in Row =>
          /\ answer \in due /\ InRange(end_key, closed, answer[1])
          /\ \A r \in Row : r \in due /\ r # answer <=>
                  r \in rows /\ InRange(end_key, closed, r[1]) /\ AheadBy(way, answer, r)
    /\ ~over /\ answer = NoRow =>
          \A r \in Row : r \in due <=> r \in rows /\ InRange(end_key, closed, r[1]) /\ way = "back"
    /\ ~over /\ answer = Failed => way = "dup" /\ rows = {} /\ due = {}

LEMMA Made ==
    ASSUME NEW way \in {"on", "dup", "back"}, NEW answer \in Row \cup {NoRow, Failed},
           NEW end_key \in Keys \cup {None}, NEW closed \in BOOLEAN, NEW over \in BOOLEAN,
           NEW due \in SUBSET Row, way # "on" => end_key = None,
           Makes(way, answer, end_key, closed, over, due),
           walk' = [way |-> way, start |-> answer, end_key |-> end_key, closed |-> closed,
                    over |-> over, seen |-> << >>, due |-> due],
           pos' = IF answer \in Row THEN answer ELSE End, rows' = rows
    PROVE  WalkInv'
<1>1. /\ walk'.way = way /\ walk'.start = answer /\ walk'.end_key = end_key
      /\ walk'.closed = closed /\ walk'.over = over /\ walk'.seen = << >> /\ walk'.due = due
  OBVIOUS
<1>2. walk' \in Walks
  BY NothingSeen DEF Walks
<1>3. Met' = {} /\ WalkSorted'
  BY <1>1, NothingSeen DEF Met, WalkSorted
<1>4. \A k : Within(k)' <=> InRange(end_key, closed, k)
  BY <1>1 DEF Within, InRange
<1>5. \A p, r : Ahead(p, r)' <=> AheadBy(way, p, r)
  BY <1>1 DEF Ahead, AheadBy, Before
<1>6. CASE over
  <2>1. due = {}
    BY <1>6 DEF Makes
  <2> QED BY <1>1, <1>2, <1>3, <1>6, <2>1 DEF WalkInv
<1>7. CASE ~over /\ answer \in Row
  <2>1. pos' = answer /\ answer # NoRow /\ answer # Failed
    BY <1>7, NoneIsNoRow
  <2>2. /\ answer \in due /\ InRange(end_key, closed, answer[1])
        /\ \A r \in Row : r \in due /\ r # answer <=>
                r \in rows /\ InRange(end_key, closed, r[1]) /\ AheadBy(way, answer, r)
    BY <1>7 DEF Makes
  <2>3. /\ answer \in due /\ Within(answer[1])'
        /\ \A r \in Row : r \in due /\ r # answer <=>
                r \in rows /\ Within(r[1])' /\ Ahead(answer, r)'
    BY <1>4, <1>5, <2>2
  <2>4. ReadAhead'
    BY <1>1, <2>1, <2>3 DEF ReadAhead, Within, Ahead, Before
  <2> QED BY <1>1, <1>2, <1>3, <1>7, <2>1, <2>4 DEF WalkInv
<1>8. CASE ~over /\ answer = NoRow
  <2>1. pos' = End /\ pos' \notin Row /\ pos' # Unset
    BY <1>8, NoneIsNoRow
  <2>2. \A r \in Row : r \in due <=> r \in rows /\ InRange(end_key, closed, r[1]) /\ way = "back"
    BY <1>8 DEF Makes
  <2>3. \A r \in Row : r \in due <=> r \in rows /\ Within(r[1])' /\ way = "back"
    BY <1>4, <2>2
  <2>4. UnderWay'
    BY <1>1, <1>3, <2>1, <2>3 DEF UnderWay, Within
  <2> QED BY <1>1, <1>2, <1>3, <1>8, <2>4 DEF WalkInv
<1>9. CASE ~over /\ answer = Failed
  <2>1. way = "dup" /\ rows = {} /\ due = {} /\ pos' = End /\ answer # NoRow /\ answer \notin Row
    BY <1>9, NoneIsNoRow DEF Makes
  <2>2. ReadAhead'
    BY <1>1, <1>9, <2>1, NoneIsNoRow DEF ReadAhead
  <2> QED BY <1>1, <1>2, <1>3, <1>9, <2>1, <2>2 DEF WalkInv
<1> QED BY <1>6, <1>7, <1>8, <1>9

\* The first row at or past a key, none for the first of all.
LEMMA StartIs ==
    ASSUME TableInv, NEW k \in Keys \cup {None}
    PROVE  /\ {r \in rows : r[1] >= k} = {} => StartAt(k) = NoRow
           /\ {r \in rows : r[1] >= k} # {} =>
                 /\ StartAt(k) \in rows /\ StartAt(k) \in Row /\ StartAt(k)[1] >= k
                 /\ \A r \in rows : r[1] >= k <=> r = StartAt(k) \/ Before(StartAt(k), r)
<1>1. rows \subseteq Row
  BY DEF TableInv, TableTypeOK
<1> DEFINE S == {r \in rows : r[1] >= k}
<1>2. StartAt(k) = Lowest(S)
  <2>1. CASE k = None
    <3>1. \A r \in rows : r[1] >= k
      BY <1>1, <2>1, RowsAreNumbers DEF None
    <3>2. S = rows
      BY <3>1
    <3> QED BY <2>1, <3>2 DEF StartAt, first
  <2>2. CASE k # None
    BY <2>2 DEF StartAt, set_range
  <2> QED BY <2>1, <2>2
<1>3. S \in SUBSET Row
  BY <1>1
<1>4. ASSUME S # {}
      PROVE  /\ StartAt(k) \in rows /\ StartAt(k) \in Row /\ StartAt(k)[1] >= k
             /\ \A r \in rows : r[1] >= k <=> r = StartAt(k) \/ Before(StartAt(k), r)
  <2>1. PICK start : start = StartAt(k)
    OBVIOUS
  <2>2. start \in S /\ start \in Row /\ \A r \in S : r = start \/ Before(start, r)
    BY <1>2, <1>3, <1>4, <2>1, LowestIs
  <2>3. \A r : r \in S <=> r \in rows /\ r[1] >= k
    OBVIOUS
  <2> HIDE DEF S
  <2>4. k \in Int
    BY TableConstants DEF None
  <2>5. ASSUME NEW r \in rows, Before(start, r) PROVE r[1] >= k
    <3>1. start[1] <= r[1] /\ start[1] \in Nat /\ r[1] \in Nat /\ start[1] >= k
      BY <1>1, <2>2, <2>3, <2>5, Order, RowsAreNumbers
    <3> QED BY <2>4, <3>1
  <2> QED BY <2>1, <2>2, <2>3, <2>5
<1> QED BY <1>2, <1>3, <1>4, LowestIs

LEMMA WalkStarts ==
    ASSUME WalkInv, TableInv, NEW k \in Keys \cup {None}, Walk(k)
    PROVE  WalkInv'
<1>1. PICK start : start = StartAt(k)
  OBVIOUS
<1>2. PICK due : due = {r \in rows : r[1] >= k}
  OBVIOUS
<1>3. /\ rows' = rows /\ pos' = Left(start)
      /\ walk' = [way |-> "on", start |-> start, end_key |-> None, closed |-> FALSE,
                  over |-> FALSE, seen |-> << >>, due |-> due]
  BY <1>1, <1>2 DEF Walk, Starts
<1>4. rows \subseteq Row /\ due \in SUBSET Row
  BY <1>2 DEF TableInv, TableTypeOK
<1>5. start = NoRow \/ (start \in rows /\ start \in Row)
  BY <1>1, StartIs
<1>6. Makes("on", start, None, FALSE, FALSE, due)
  <2>1. start = NoRow => due = {}
    BY <1>1, <1>2, <1>4, NoneIsNoRow, StartIs
  <2>2. start \in Row =>
           start \in due /\ \A r \in Row : r \in due /\ r # start <=> r \in rows /\ Before(start, r)
    <3> SUFFICES ASSUME start \in Row
                 PROVE  /\ start \in due
                        /\ \A r \in Row : r \in due /\ r # start <=> r \in rows /\ Before(start, r)
      OBVIOUS
    <3>1. /\ start \in rows /\ start[1] >= k
          /\ \A r \in rows : r[1] >= k <=> r = start \/ Before(start, r)
      BY <1>1, NoneIsNoRow, StartIs
    <3>2. \A r \in Row : ~Before(r, r)
      BY Order
    <3> QED BY <1>2, <3>1, <3>2
  <2>3. start # Failed
    BY <1>5, NoneIsNoRow
  <2> QED BY <2>1, <2>2, <2>3, NoneIsNoRow DEF Makes, InRange, AheadBy
<1>7. pos' = IF start \in Row THEN start ELSE End
  BY <1>3, <1>5, NoneIsNoRow DEF Left
<1> QED BY <1>3, <1>4, <1>5, <1>6, <1>7, Made

LEMMA WalkRangeStarts ==
    ASSUME WalkInv, TableInv, NEW k \in Keys \cup {None}, NEW end_key \in Keys,
           NEW closed \in BOOLEAN, WalkRange(k, end_key, closed)
    PROVE  WalkInv'
<1>1. PICK start : start = StartAt(k)
  OBVIOUS
<1> DEFINE beyond(r) == r[1] > end_key \/ (r[1] = end_key /\ ~closed)
<1>2. PICK due : due = {r \in rows : r[1] >= k /\ ~beyond(r)}
  OBVIOUS
<1>3. PICK over \in BOOLEAN : over = (start = NoRow \/ beyond(start))
  OBVIOUS
<1>4. /\ rows' = rows /\ pos' = Left(start)
      /\ walk' = [way |-> "on", start |-> start, end_key |-> end_key, closed |-> closed,
                  over |-> over, seen |-> << >>, due |-> due]
  BY <1>1, <1>2, <1>3 DEF WalkRange, Starts
<1>5. rows \subseteq Row /\ due \in SUBSET Row
  BY <1>2 DEF TableInv, TableTypeOK
<1>6. start = NoRow \/ (start \in rows /\ start \in Row)
  BY <1>1, StartIs
<1>7. \A r \in Row : ~beyond(r) <=> InRange(end_key, closed, r[1])
  <2>1. end_key \in Nat /\ end_key # None
    BY TableConstants DEF None
  <2>2. \A r \in Row : r[1] \in Nat
    BY RowsAreNumbers
  <2> QED BY <2>1, <2>2 DEF InRange
<1>8. \A r, q \in Row : r[1] <= q[1] /\ beyond(r) => beyond(q)
  <2>1. end_key \in Nat
    BY TableConstants
  <2>2. \A r \in Row : r[1] \in Nat
    BY RowsAreNumbers
  <2> QED BY <2>1, <2>2
<1> HIDE DEF beyond
<1>9. Makes("on", start, end_key, closed, over, due)
  <2>1. ASSUME start \in Row
        PROVE  /\ start \in rows /\ start[1] >= k
               /\ \A r \in rows : r[1] >= k <=> r = start \/ Before(start, r)
    BY <1>1, <2>1, NoneIsNoRow, StartIs
  <2>2. over => due = {}
    <3>1. CASE start = NoRow
      BY <1>1, <1>2, <1>5, <3>1, NoneIsNoRow, StartIs
    <3>2. CASE start \in Row /\ beyond(start)
      <4>1. ASSUME NEW r \in rows, r[1] >= k PROVE beyond(r)
        <5>1. r = start \/ Before(start, r)
          BY <2>1, <3>2, <4>1
        <5> QED BY <1>5, <1>8, <3>2, <5>1, Order
      <4> QED BY <1>2, <4>1
    <3> QED BY <1>3, <1>6, <3>1, <3>2
  <2>3. ASSUME ~over, start \in Row
        PROVE  /\ start \in due /\ InRange(end_key, closed, start[1])
               /\ \A r \in Row : r \in due /\ r # start <=>
                       r \in rows /\ InRange(end_key, closed, r[1]) /\ Before(start, r)
    <3>1. ~beyond(start)
      BY <1>3, <2>3
    <3>2. \A r \in Row : ~Before(r, r)
      BY Order
    <3> QED BY <1>2, <1>7, <2>1, <2>3, <3>1, <3>2
  <2>4. start # Failed /\ (start = NoRow => over)
    BY <1>3, <1>6, NoneIsNoRow
  <2> QED BY <2>2, <2>3, <2>4 DEF Makes, AheadBy
<1>10. pos' = IF start \in Row THEN start ELSE End
  BY <1>4, <1>6, NoneIsNoRow DEF Left
<1> QED BY <1>4, <1>5, <1>6, <1>9, <1>10, Made

LEMMA WalkBackStarts ==
    ASSUME WalkInv, TableInv, NEW k \in Keys \cup {None}, WalkBack(k)
    PROVE  WalkInv'
<1>1. PICK start : start = IF k = None THEN last ELSE set_range(k)
  OBVIOUS
<1>2. PICK due : due = {r \in rows : k = None \/ \A q \in rows : q[1] >= k => ~Before(q, r)}
  OBVIOUS
<1>3. /\ rows' = rows /\ pos' = Left(start)
      /\ walk' = [way |-> "back", start |-> start, end_key |-> None, closed |-> FALSE,
                  over |-> FALSE, seen |-> << >>, due |-> due]
  BY <1>1, <1>2 DEF WalkBack, Starts
<1>4. rows \subseteq Row /\ due \in SUBSET Row /\ Bounded(rows)
  BY <1>2 DEF TableInv, TableTypeOK
<1>5. \/ start = NoRow /\ due = rows
      \/ /\ start \in rows /\ start \in Row /\ start \in due
         /\ \A r \in rows : r \in due /\ r # start <=> Before(r, start)
  <2>0. \A r \in Row : ~Before(r, r)
    BY Order
  <2>1. CASE k = None
    <3>1. due = rows /\ start = Highest(rows)
      BY <1>1, <1>2, <2>1 DEF last
    <3>2. CASE rows = {}
      BY <1>4, <3>1, <3>2, HighestIs
    <3>3. CASE rows # {}
      <4>1. start \in rows /\ start \in Row /\ \A r \in rows : r = start \/ Before(r, start)
        BY <1>4, <3>1, <3>3, HighestIs
      <4> QED BY <2>0, <3>1, <4>1
    <3> QED BY <3>2, <3>3
  <2>2. CASE k # None
    <3>1. start = StartAt(k)
      BY <1>1, <2>2 DEF StartAt
    <3>2. CASE {r \in rows : r[1] >= k} = {}
      <4>1. start = NoRow
        BY <3>1, <3>2, StartIs
      <4>2. due = rows
        BY <1>2, <3>2
      <4> QED BY <4>1, <4>2
    <3>3. CASE {r \in rows : r[1] >= k} # {}
      <4>1. /\ start \in rows /\ start \in Row /\ start[1] >= k
            /\ \A r \in rows : r[1] >= k <=> r = start \/ Before(start, r)
        BY <3>1, <3>3, StartIs
      <4>2. \A r \in rows : r \in due <=> \A q \in rows : q[1] >= k => ~Before(q, r)
        BY <1>2, <2>2
      <4>3. start \in due
        <5>1. \A q \in rows : q = start \/ Before(start, q) => ~Before(q, start)
          BY <1>4, <4>1, <2>0, Order
        <5> QED BY <4>1, <4>2, <5>1
      <4>4. ASSUME NEW r \in rows, r \in due, r # start PROVE Before(r, start)
        <5>1. ~Before(start, r)
          BY <4>1, <4>2, <4>4
        <5> QED BY <1>4, <4>1, <4>4, <5>1, Order
      <4>5. ASSUME NEW r \in rows, Before(r, start) PROVE r \in due /\ r # start
        <5>1. ASSUME NEW q \in rows, q[1] >= k PROVE ~Before(q, r)
          <6>1. q = start \/ Before(start, q)
            BY <4>1, <5>1
          <6>2. ~Before(q, start)
            BY <1>4, <2>0, <4>1, <6>1, Order
          <6> QED BY <1>4, <4>1, <4>5, <6>2, OrderGoesOn
        <5> QED BY <2>0, <4>1, <4>2, <4>5, <5>1
      <4> QED BY <4>1, <4>3, <4>4, <4>5
    <3> QED BY <3>2, <3>3
  <2> QED BY <2>1, <2>2
<1>6. Makes("back", start, None, FALSE, FALSE, due)
  <2>1. start # Failed
    BY <1>5, NoneIsNoRow
  <2>2. CASE start = NoRow /\ due = rows
    BY <2>1, <2>2, NoneIsNoRow DEF Makes, InRange, AheadBy
  <2>3. CASE /\ start \in rows /\ start \in Row /\ start \in due
             /\ \A r \in rows : r \in due /\ r # start <=> Before(r, start)
    <3>1. \A r \in Row : r \in due /\ r # start <=> r \in rows /\ Before(r, start)
      BY <1>2, <2>3
    <3> QED BY <2>1, <2>3, <3>1, NoneIsNoRow DEF Makes, InRange, AheadBy
  <2> QED BY <1>5, <2>2, <2>3
<1>7. pos' = IF start \in Row THEN start ELSE End
  BY <1>3, <1>5, NoneIsNoRow DEF Left
<1> QED BY <1>3, <1>4, <1>5, <1>6, <1>7, Made

LEMMA SubkeysGrow ==
    /\ \A v \in Nat : Subkey(v) \in Nat
    /\ \A v, w \in Nat : v < w => Subkey(v) <= Subkey(w)
BY DEF Subkey

(* What WalkDup takes for its start and for the rows due: key of's rows from
   subkey s on. *)
DupAsks(k, s, start, of, due) ==
  /\ start = DupStart(k, s)
  /\ of = IF k = None /\ rows # {} THEN first[1] ELSE k
  /\ due = {r \in rows : r[1] = of /\ Subkey(r[2]) >= s}

\* The walk over the duplicates of a key begins with the first of them.
LEMMA DupStartIs ==
    ASSUME TableInv, NEW k \in Keys \cup {None}, NEW s \in Nat \cup {None}, NEW start, NEW of, NEW due,
           DupAsks(k, s, start, of, due)
    PROVE  \/ start = NoRow /\ due = {}
           \/ start = Failed /\ due = {} /\ rows = {}
           \/ start \in due /\ \A r \in due : r = start \/ Before(start, r)
<1>0. start = DupStart(k, s)
  BY DEF DupAsks
<1>1. rows \subseteq Row /\ due \subseteq rows
  BY DEF TableInv, TableTypeOK, DupAsks
<1>2. of = IF k = None /\ rows # {} THEN first[1] ELSE k
  BY DEF DupAsks
<1>3. due = {r \in rows : r[1] = of /\ Subkey(r[2]) >= s}
  BY DEF DupAsks
<1>4. rows # {} => first \in rows /\ \A r \in rows : r = first \/ Before(first, r)
  BY <1>1, LowestIs DEF first
<1>5. rows = {} => first = NoRow
  BY <1>1, LowestIs DEF first
<1>6. \A r \in rows : Subkey(r[2]) >= None
  BY <1>1, RowsAreNumbers, SubkeysGrow DEF None
<1>7. CASE start = Lowest(due)
  BY <1>1, <1>7, LowestIs
<1>8. CASE k # None
  <2>1. CASE s # None
    BY <1>0, <1>2, <1>3, <1>7, <1>8, <2>1 DEF DupStart, get_both_range
  <2>2. CASE s = None
    <3>1. start = Lowest({r \in rows : r[1] = k})
      BY <1>0, <1>8, <2>2 DEF DupStart, set_key
    <3>2. due = {r \in rows : r[1] = k}
      BY <1>2, <1>3, <1>6, <1>8, <2>2
    <3> QED BY <1>7, <3>1, <3>2
  <2> QED BY <2>1, <2>2
<1>9. CASE k = None /\ rows = {}
  <2>1. due = {}
    BY <1>1, <1>9
  <2>2. CASE s = None
    BY <1>0, <1>5, <1>9, <2>1, <2>2 DEF DupStart
  <2>3. CASE s # None
    BY <1>0, <1>5, <1>9, <2>1, <2>3 DEF DupStart
  <2> QED BY <2>2, <2>3
<1>10. CASE k = None /\ rows # {}
  <2>1. of = first[1] /\ first \in rows /\ first # NoRow
    BY <1>1, <1>2, <1>4, <1>10, NoneIsNoRow
  <2>2. CASE s # None
    <3>1. start = get_both_range(of, s)
      BY <1>0, <1>10, <2>1, <2>2 DEF DupStart
    <3> QED BY <1>3, <1>7, <3>1 DEF get_both_range
  <2>3. CASE s = None
    <3>1. start = first
      BY <1>0, <1>10, <2>3 DEF DupStart
    <3>2. first \in due
      BY <1>3, <1>6, <2>1, <2>3
    <3> QED BY <1>1, <1>4, <1>10, <3>1, <3>2
  <2> QED BY <2>2, <2>3
<1> QED BY <1>8, <1>9, <1>10

LEMMA WalkDupStarts ==
    ASSUME WalkInv, TableInv, NEW k \in Keys \cup {None},
           NEW s \in {Subkey(v) : v \in Values} \cup {None}, WalkDup(k, s)
    PROVE  WalkInv'
<1>1. PICK start : start = DupStart(k, s)
  OBVIOUS
<1>2. PICK of : of = IF k = None /\ rows # {} THEN first[1] ELSE k
  OBVIOUS
<1>3. PICK due : due = {r \in rows : r[1] = of /\ Subkey(r[2]) >= s}
  OBVIOUS
<1>4. /\ rows' = rows /\ pos' = IF start \in Row THEN start ELSE End
      /\ walk' = [NoWalk EXCEPT !.way = "dup", !.start = start, !.over = FALSE, !.due = due]
  BY <1>1, <1>2, <1>3 DEF WalkDup
<1>5. walk' = [way |-> "dup", start |-> start, end_key |-> None, closed |-> FALSE,
               over |-> FALSE, seen |-> << >>, due |-> due]
  BY <1>4 DEF NoWalk
<1>6. rows \subseteq Row /\ due \in SUBSET Row
  BY <1>3 DEF TableInv, TableTypeOK
<1>7. s \in Nat \cup {None}
  BY TableConstants, SubkeysGrow
<1>8. \/ start = NoRow /\ due = {}
      \/ start = Failed /\ due = {} /\ rows = {}
      \/ start \in due /\ \A r \in due : r = start \/ Before(start, r)
  <2>1. DupAsks(k, s, start, of, due)
    BY <1>1, <1>2, <1>3 DEF DupAsks
  <2> QED BY <1>7, <2>1, DupStartIs
<1>9. Makes("dup", start, None, FALSE, FALSE, due)
  <2>1. CASE start = NoRow /\ due = {}
    BY <2>1, NoneIsNoRow DEF Makes
  <2>2. CASE start = Failed /\ due = {} /\ rows = {}
    BY <2>2, NoneIsNoRow DEF Makes
  <2>3. CASE start \in due /\ \A r \in due : r = start \/ Before(start, r)
    <3>1. start \in Row /\ start \in rows /\ start[1] = of /\ Subkey(start[2]) >= s
      BY <1>3, <1>6, <2>3
    <3>2. ASSUME NEW r \in Row
          PROVE  r \in due /\ r # start <=> r \in rows /\ r[1] = start[1] /\ Before(start, r)
      <4>1. r \in due /\ r # start => r \in rows /\ r[1] = start[1] /\ Before(start, r)
        BY <1>3, <2>3, <3>1
      <4>2. ASSUME r \in rows, r[1] = start[1], Before(start, r) PROVE r \in due /\ r # start
        <5>1. start[2] < r[2] /\ r # start /\ start[2] \in Nat /\ r[2] \in Nat
          BY <3>1, <4>2, Order, RowsAreNumbers
        <5>2. Subkey(start[2]) <= Subkey(r[2]) /\ Subkey(start[2]) \in Nat /\ Subkey(r[2]) \in Nat
          BY <5>1, SubkeysGrow
        <5>3. Subkey(r[2]) >= s
          BY <1>7, <3>1, <5>2 DEF None
        <5> QED BY <1>3, <3>1, <4>2, <5>1, <5>3
      <4> QED BY <4>1, <4>2
    <3> QED BY <2>3, <3>1, <3>2, NoneIsNoRow DEF Makes, InRange, AheadBy
  <2> QED BY <1>8, <2>1, <2>2, <2>3
<1>10. start \in Row \cup {NoRow, Failed}
  BY <1>6, <1>8
<1> QED BY <1>4, <1>5, <1>6, <1>9, <1>10, Made

\* Without a walk there is none afterwards, whatever is read or written.
LEMMA FreeStays ==
    ASSUME Free, UNCHANGED walk
    PROVE  WalkInv'
BY NoWalkIs DEF Free

LEMMA WalkStep == WalkInv /\ TableInv /\ [CursorNext]_cursorVars => WalkInv'
<1> SUFFICES ASSUME WalkInv, TableInv, [CursorNext]_cursorVars PROVE WalkInv'
  OBVIOUS
<1>1. CASE CursorReads
  BY <1>1, FreeStays DEF CursorReads, SeekEnds, StepOn, StepBack, SeekKey, SeekByKeySubkey, Looked
<1>2. CASE CursorWrites
  <2>1. ASSUME NEW k \in Keys, NEW v \in Values,
               Upsert(k, v) \/ Insert(k, v) \/ CursorAppend(k, v) \/ AppendDup(k, v) \/ TxPut(k, v)
        PROVE  WalkInv'
    BY <2>1, FreeStays DEF Upsert, Insert, CursorAppend, AppendDup, TxPut, HasRoom, Written, Refused
  <2>2. ASSUME NEW k, NEW v, TxDelete(k, v) PROVE WalkInv'
    BY <2>2, RemovedFromWalk DEF TxDelete
  <2>3. CASE DeleteCurrent
    BY <2>3, RemovedFromWalk DEF DeleteCurrent
  <2>4. CASE DeleteCurrentDuplicates
    BY <2>4, RemovedFromWalk DEF DeleteCurrentDuplicates
  <2>5. CASE TxClear
    BY <2>5, RemovedFromWalk DEF TxClear
  <2> QED BY <1>2, <2>1, <2>2, <2>3, <2>4, <2>5 DEF CursorWrites
<1>3. CASE CursorWalks
  <2>1. ASSUME NEW k \in Keys \cup {None}, NEW e \in Keys, NEW c \in BOOLEAN, WalkRange(k, e, c)
        PROVE  WalkInv'
    BY <2>1, WalkRangeStarts
  <2>2. ASSUME NEW k \in Keys \cup {None}, NEW s \in {Subkey(v) : v \in Values} \cup {None},
               WalkDup(k, s)
        PROVE  WalkInv'
    BY <2>2, WalkDupStarts
  <2>3. CASE WalkerDropped
    BY <2>3, NoWalkIs DEF WalkerDropped
  <2> QED BY <1>3, <2>1, <2>2, <2>3, WalkStarts, WalkBackStarts, WalkerNextKeeps, WalkerDeleteKeeps
          DEF CursorWalks
<1>4. CASE UNCHANGED cursorVars
  BY <1>4 DEF cursorVars, WalkInv, WalkSorted, Met, ReadAhead, UnderWay, Within, Ahead, Behind,
              Before
<1> QED BY <1>1, <1>2, <1>3, <1>4 DEF CursorNext

\* WalksMeetEveryRow, for any keys, values, walks and deletions (the walkers of cursor.rs).
THEOREM WalksAlwaysMeetEveryRow == CursorSpec => []WalksMeetEveryRow
<1>1. CursorSpec => [](WalkInv /\ TableInv)
  BY WalkInit, WalkStep, TableInit, TableStep, PTL DEF CursorSpec
<1>2. WalkInv /\ TableInv => WalksMeetEveryRow
  <2> SUFFICES ASSUME WalkInv PROVE WalksMeetEveryRow
    OBVIOUS
  <2>1. Met \subseteq walk.due
    <3>1. CASE walk.over
      BY <3>1 DEF WalkInv
    <3>2. CASE ~walk.over /\ walk.start # NoRow
      BY <3>2, NothingSeen DEF WalkInv, ReadAhead, Met
    <3>3. CASE ~walk.over /\ walk.start = NoRow
      BY <3>3 DEF WalkInv, UnderWay
    <3> QED BY <3>1, <3>2, <3>3
  <2>2. (walk.over => Met = walk.due) /\ WalkSorted
    BY DEF WalkInv
  <2> QED BY <2>1, <2>2 DEF WalksMeetEveryRow, Met, WalkSorted
<1> QED BY <1>1, <1>2, PTL

=============================================================================
