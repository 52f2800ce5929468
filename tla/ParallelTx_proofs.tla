--------------------------- MODULE ParallelTx_proofs ---------------------------
(***************************************************************************)
(* Proofs about ParallelTx, for every set of threads and every max_txs:    *)
(* the set never opens more than max_txs transactions, every held_count is *)
(* exact, a set whose safety was disabled in time never times out, no      *)
(* auxiliary transaction is shared while there is room, and what was       *)
(* opened is closed with the last cursor.                                  *)
(***************************************************************************)
EXTENDS ParallelTx, FiniteSetTheorems, TLAPS

Labels == {"idle", "lock", "create", "push", "undo", "first", "use", "release"}
Opening == {"create", "push", "undo"}
Using == {"use", "release"}

TxRecord == [snapshot : Nat, safe : BOOLEAN, timed_out : BOOLEAN]
AuxTx == [tx : TxRecord, held_count : Int]

\* What the proofs need of the types.
Types ==
    /\ pc \in [Threads -> Labels]
    /\ index \in [Threads -> 0..Len(txs)]
    /\ opening \in [Threads -> TxRecord]
    /\ tx \in TxRecord
    /\ txs \in Seq(AuxTx)
    /\ cursors \in [0..Len(txs) -> Nat]
    /\ tx_held_count \in Int /\ num_txs \in Int
    /\ commits \in Nat
    /\ disable_long_read_transaction_safety \in BOOLEAN /\ inTime \in BOOLEAN

\* DisabledInTime, with the reason: all there are, and all that are being pushed, are safe.
SafeInTime ==
    inTime =>
        /\ disable_long_read_transaction_safety
        /\ tx.safe /\ ~tx.timed_out
        /\ \A i \in DOMAIN txs : txs[i].tx.safe /\ ~txs[i].tx.timed_out
        /\ \A t \in Threads : pc[t] = "push" => opening[t].safe /\ ~opening[t].timed_out

-----------------------------------------------------------------------------
(* Threads on the move.                                                    *)

\* One thread goes from one place to another: the threads in a set of places gain it, lose it,
\* or are the same.
LEMMA Moves ==
    ASSUME pc \in [Threads -> Labels], NEW t \in Threads, NEW l, NEW S,
           pc' = [pc EXCEPT ![t] = l]
    PROVE  /\ Cardinality(Calling(S)) \in Nat
           /\ (pc[t] \in S <=> l \in S) => Calling(S)' = Calling(S)
           /\ pc[t] \in S /\ l \notin S
                  => Cardinality(Calling(S)') = Cardinality(Calling(S)) - 1
           /\ pc[t] \notin S /\ l \in S
                  => Cardinality(Calling(S)') = Cardinality(Calling(S)) + 1
  <1>1. IsFiniteSet(Calling(S))
    BY FS_Subset, ParallelTxConstants DEF Calling
  <1>2. (pc[t] \in S <=> l \in S) => Calling(S)' = Calling(S)
    BY DEF Calling
  <1>3. ASSUME pc[t] \in S, l \notin S
        PROVE  Cardinality(Calling(S)') = Cardinality(Calling(S)) - 1
    <2>1. t \in Calling(S) /\ Calling(S)' = Calling(S) \ {t}
      BY <1>3 DEF Calling
    <2>2. QED
      BY <1>1, <2>1, FS_RemoveElement
  <1>4. ASSUME pc[t] \notin S, l \in S
        PROVE  Cardinality(Calling(S)') = Cardinality(Calling(S)) + 1
    <2>1. t \notin Calling(S) /\ Calling(S)' = Calling(S) \cup {t}
      BY <1>4 DEF Calling
    <2>2. QED
      BY <1>1, <2>1, FS_AddElement
  <1>5. QED
    BY <1>1, <1>2, <1>3, <1>4, FS_CardinalityType

\* Who holds transaction j when the threads are at p and were given x: HoldersOf(j) is
\* Held(pc, index, j).  Holding[j] is how many there are.
Held(p, x, j) == {t \in Threads : p[t] \in Using /\ x[t] = j}

Holding == [j \in Nat |-> Cardinality(Held(pc, index, j))]

LEMMA HeldFinite ==
    ASSUME NEW p, NEW x, NEW j
    PROVE  IsFiniteSet(Held(p, x, j)) /\ Cardinality(Held(p, x, j)) \in Nat
  BY FS_Subset, FS_CardinalityType, ParallelTxConstants DEF Held

LEMMA HoldingType == Holding \in [Nat -> Nat]
  BY HeldFinite DEF Holding

\* A thread gets hold of transaction i, and no other thread does anything.
LEMMA Gets ==
    ASSUME Types, NEW t \in Threads, NEW i \in Nat, NEW l \in Using, pc[t] \notin Using,
           pc' = [pc EXCEPT ![t] = l], index' = [index EXCEPT ![t] = i]
    PROVE  Holding' = [Holding EXCEPT ![i] = @ + 1]
  <1>1. /\ t \notin Held(pc, index, i)
        /\ Held(pc', index', i) = Held(pc, index, i) \cup {t}
        /\ \A j \in Nat : j # i => Held(pc', index', j) = Held(pc, index, j)
    BY DEF Types, Held
  <1>2. Cardinality(Held(pc', index', i)) = Cardinality(Held(pc, index, i)) + 1
    BY <1>1, HeldFinite, FS_AddElement
  <1>3. QED
    BY <1>1, <1>2 DEF Holding

\* A thread lets go of its transaction.
LEMMA LetsGo ==
    ASSUME Types, NEW t \in Threads, NEW i \in Nat, NEW l, pc[t] \in Using, l \notin Using,
           index[t] = i,
           pc' = [pc EXCEPT ![t] = l], index' = [index EXCEPT ![t] = First]
    PROVE  Holding' = [Holding EXCEPT ![i] = @ - 1]
  <1>1. /\ t \in Held(pc, index, i)
        /\ Held(pc', index', i) = Held(pc, index, i) \ {t}
        /\ \A j \in Nat : j # i => Held(pc', index', j) = Held(pc, index, j)
    BY DEF Types, Held
  <1>2. Cardinality(Held(pc', index', i)) = Cardinality(Held(pc, index, i)) - 1
    BY <1>1, HeldFinite, FS_RemoveElement
  <1>3. QED
    BY <1>1, <1>2 DEF Holding

\* A step of a thread outside of its use of a transaction, or within it, or no step of a thread.
LEMMA Keeps ==
    ASSUME Types, UNCHANGED index,
           \/ UNCHANGED pc
           \/ \E t \in Threads, l \in Labels :
                 /\ pc' = [pc EXCEPT ![t] = l]
                 /\ pc[t] \in Using <=> l \in Using
    PROVE  Holding' = Holding
  <1>1. \A j \in Nat : Held(pc', index', j) = Held(pc, index, j)
    BY DEF Types, Held
  <1>2. QED
    BY <1>1 DEF Holding

-----------------------------------------------------------------------------
LEMMA InitTypes == Init => Types
  <1> SUFFICES ASSUME Init PROVE Types
    OBVIOUS
  <1>1. Len(txs) = 0 /\ txs \in Seq(AuxTx) /\ 0..0 = {0}
    BY DEF Init
  <1>2. cursors \in [0..Len(txs) -> Nat] /\ index \in [Threads -> 0..Len(txs)]
    BY <1>1 DEF Init, First
  <1>3. tx \in TxRecord /\ opening \in [Threads -> TxRecord] /\ pc \in [Threads -> Labels]
    BY DEF Init, NewTx, Nothing, TxRecord, Labels
  <1>4. QED
    BY <1>1, <1>2, <1>3 DEF Init, Types

\* One auxiliary transaction is replaced.
LEMMA OneReplaced ==
    ASSUME txs \in Seq(AuxTx), NEW i \in DOMAIN txs, NEW aux \in AuxTx,
           txs' = [txs EXCEPT ![i] = aux]
    PROVE  /\ txs' \in Seq(AuxTx) /\ Len(txs') = Len(txs) /\ txs'[i] = aux
           /\ \A j \in DOMAIN txs : j # i => txs'[j] = txs[j]
  OBVIOUS

\* Its count grows.
LEMMA CountGrows ==
    ASSUME txs \in Seq(AuxTx), NEW i \in DOMAIN txs,
           txs' = [txs EXCEPT ![i].held_count = @ + 1]
    PROVE  /\ txs' \in Seq(AuxTx) /\ Len(txs') = Len(txs)
           /\ txs'[i].held_count = txs[i].held_count + 1
           /\ txs'[i].tx = txs[i].tx
           /\ \A j \in DOMAIN txs : j # i => txs'[j] = txs[j]
  <1> DEFINE aux == [tx |-> txs[i].tx, held_count |-> txs[i].held_count + 1]
  <1>1. txs[i] \in AuxTx
    OBVIOUS
  <1>2. /\ aux \in AuxTx /\ aux.tx = txs[i].tx
        /\ aux.held_count = txs[i].held_count + 1
    BY <1>1 DEF AuxTx
  <1>3. [txs[i] EXCEPT !.held_count = @ + 1] = aux
    BY <1>1 DEF AuxTx
  <1>4. txs' = [txs EXCEPT ![i] = aux]
    BY <1>3
  <1> HIDE DEF aux
  <1>5. QED
    BY <1>2, <1>4, OneReplaced

\* Its count shrinks.
LEMMA CountShrinks ==
    ASSUME txs \in Seq(AuxTx), NEW i \in DOMAIN txs,
           txs' = [txs EXCEPT ![i].held_count = @ - 1]
    PROVE  /\ txs' \in Seq(AuxTx) /\ Len(txs') = Len(txs)
           /\ txs'[i].held_count = txs[i].held_count - 1
           /\ txs'[i].tx = txs[i].tx
           /\ \A j \in DOMAIN txs : j # i => txs'[j] = txs[j]
  <1> DEFINE aux == [tx |-> txs[i].tx, held_count |-> txs[i].held_count - 1]
  <1>1. txs[i] \in AuxTx
    OBVIOUS
  <1>2. /\ aux \in AuxTx /\ aux.tx = txs[i].tx
        /\ aux.held_count = txs[i].held_count - 1
    BY <1>1 DEF AuxTx
  <1>3. [txs[i] EXCEPT !.held_count = @ - 1] = aux
    BY <1>1 DEF AuxTx
  <1>4. txs' = [txs EXCEPT ![i] = aux]
    BY <1>3
  <1> HIDE DEF aux
  <1>5. QED
    BY <1>2, <1>4, OneReplaced

LEMMA Lengths ==
    ASSUME Types
    PROVE  /\ Len(txs) \in Nat /\ First \in 0..Len(txs) /\ DOMAIN txs = 1..Len(txs)
           /\ \A j \in DOMAIN txs : j # First /\ txs[j].held_count \in Int
  <1>1. Len(txs) \in Nat /\ DOMAIN txs = 1..Len(txs) /\ \A j \in DOMAIN txs : txs[j] \in AuxTx
    BY DEF Types
  <1>2. \A aux \in AuxTx : aux.held_count \in Int
    BY DEF AuxTx
  <1>3. QED
    BY <1>1, <1>2 DEF First

\* A transaction is given back.
LEMMA GivenBack ==
    ASSUME Types, NEW i \in 0..Len(txs), Released(i)
    PROVE  /\ tx_held_count' = tx_held_count - (IF i = First THEN 1 ELSE 0)
           /\ txs' \in Seq(AuxTx) /\ Len(txs') = Len(txs)
           /\ \A j \in DOMAIN txs :
                 /\ txs'[j].held_count = txs[j].held_count - (IF i = j THEN 1 ELSE 0)
                 /\ txs'[j].tx = txs[j].tx
  <1>1. \A j \in DOMAIN txs : j # First /\ txs[j].held_count \in Int
    BY Lengths
  <1>2. CASE i = First
    BY <1>1, <1>2 DEF Types, Released
  <1>3. CASE i # First
    <2>1. i \in DOMAIN txs
      BY <1>3, Lengths DEF First
    <2>2. txs' = [txs EXCEPT ![i].held_count = @ - 1] /\ UNCHANGED tx_held_count
      BY <1>3 DEF Released
    <2>3. txs \in Seq(AuxTx) /\ tx_held_count \in Int
      BY DEF Types
    <2>4. /\ txs' \in Seq(AuxTx) /\ Len(txs') = Len(txs)
          /\ txs'[i].held_count = txs[i].held_count - 1
          /\ txs'[i].tx = txs[i].tx
          /\ \A j \in DOMAIN txs : j # i => txs'[j] = txs[j]
      BY <2>1, <2>2, <2>3, CountShrinks
    <2>5. QED
      BY <1>1, <1>3, <2>1, <2>2, <2>3, <2>4
  <1>4. QED
    BY <1>2, <1>3

\* A time-out changes nothing but timed_out, and not where the safety is off.
LEMMA TimedOut ==
    ASSUME Types, TimesOut
    PROVE  /\ tx' \in TxRecord /\ tx'.safe = tx.safe /\ (tx.safe => tx' = tx)
           /\ txs' \in Seq(AuxTx) /\ DOMAIN txs' = DOMAIN txs /\ Len(txs') = Len(txs)
           /\ \A j \in DOMAIN txs :
                 /\ txs'[j].held_count = txs[j].held_count
                 /\ txs[j].tx.safe => txs'[j] = txs[j]
  <1>0. tx \in TxRecord /\ txs \in Seq(AuxTx)
    BY DEF Types
  <1>1. CASE ~tx.safe /\ tx' = [tx EXCEPT !.timed_out = TRUE] /\ UNCHANGED txs
    BY <1>0, <1>1 DEF TxRecord
  <1>2. ASSUME NEW i \in DOMAIN txs, ~txs[i].tx.safe,
               txs' = [txs EXCEPT ![i].tx.timed_out = TRUE], UNCHANGED tx
        PROVE  /\ txs' \in Seq(AuxTx) /\ DOMAIN txs' = DOMAIN txs /\ Len(txs') = Len(txs)
               /\ \A j \in DOMAIN txs :
                     /\ txs'[j].held_count = txs[j].held_count
                     /\ txs[j].tx.safe => txs'[j] = txs[j]
    <2> DEFINE aux == [txs[i] EXCEPT !.tx.timed_out = TRUE]
    <2>1. txs[i] \in AuxTx
      BY <1>0
    <2>2. aux \in AuxTx /\ aux.held_count = txs[i].held_count
      BY <2>1 DEF AuxTx, TxRecord
    <2>3. txs' = [txs EXCEPT ![i] = aux]
      BY <1>2
    <2> HIDE DEF aux
    <2>4. /\ txs' \in Seq(AuxTx) /\ Len(txs') = Len(txs) /\ txs'[i] = aux
          /\ \A j \in DOMAIN txs : j # i => txs'[j] = txs[j]
      BY <1>0, <2>2, <2>3, OneReplaced
    <2>5. QED
      BY <1>0, <1>2, <2>2, <2>4
  <1>3. QED
    BY <1>0, <1>1, <1>2 DEF TimesOut

\* Types is kept by every step.
LEMMA TypesKept == Types /\ [Next]_vars => Types'
  <1> SUFFICES ASSUME Types, [Next]_vars PROVE Types'
    OBVIOUS
  <1> USE DEF First
  <1>0. CASE UNCHANGED vars
    BY <1>0 DEF Types, vars, settings, countVars, threadVars, storeVars, historyVars
  <1>1. ASSUME NEW t \in Threads, execute_tx(t)
        PROVE  Types'
    <2>1. First \in 0..Len(txs)
      BY Lengths
    <2>2. \/ tx_held_count' = 1 /\ index' = [index EXCEPT ![t] = First] /\ Goto(t, "use")
          \/ Goto(t, "lock") /\ UNCHANGED <<index, tx_held_count>>
      BY <1>1 DEF execute_tx
    <2>3. /\ tx_held_count' \in Int
          /\ index' \in [Threads -> 0..Len(txs)]
          /\ pc' \in [Threads -> Labels]
      <3>1. "use" \in Labels /\ "lock" \in Labels
        BY DEF Labels
      <3>2. CASE tx_held_count' = 1 /\ index' = [index EXCEPT ![t] = First] /\ Goto(t, "use")
        BY <2>1, <3>1, <3>2 DEF Types, Goto
      <3>3. CASE Goto(t, "lock") /\ UNCHANGED <<index, tx_held_count>>
        BY <3>1, <3>3 DEF Types, Goto
      <3>4. QED
        BY <2>2, <3>2, <3>3
    <2>4. QED
      BY <1>1, <2>3 DEF Types, execute_tx, settings, storeVars
  <1>2. ASSUME NEW t \in Threads, ReserveAuxTx(t)
        PROVE  Types'
    BY <1>2 DEF Types, ReserveAuxTx, Goto, Labels, settings, storeVars, historyVars
  <1>3. ASSUME NEW t \in Threads, ShareAuxTx(t)
        PROVE  Types'
    <2>1. PICK i \in DOMAIN txs :
              /\ txs' = [txs EXCEPT ![i].held_count = @ + 1]
              /\ index' = [index EXCEPT ![t] = i]
      BY <1>3 DEF ShareAuxTx
    <2>2. txs' \in Seq(AuxTx) /\ Len(txs') = Len(txs)
      BY <2>1, CountGrows DEF Types
    <2>3. index' \in [Threads -> 0..Len(txs)]
      BY <2>1 DEF Types
    <2>4. pc' \in [Threads -> Labels]
      BY <1>3 DEF Types, ShareAuxTx, Goto, Labels
    <2>5. QED
      BY <1>3, <2>2, <2>3, <2>4 DEF Types, ShareAuxTx, settings, storeVars, historyVars
  <1>4. ASSUME NEW t \in Threads, PreferFirst(t)
        PROVE  Types'
    BY <1>4 DEF Types, PreferFirst, Goto, Labels, settings, countVars, storeVars, historyVars
  <1>5. ASSUME NEW t \in Threads, TakeFirst(t)
        PROVE  Types'
    <2>1. index' \in [Threads -> 0..Len(txs)] /\ pc' \in [Threads -> Labels]
      BY <1>5, Lengths DEF Types, TakeFirst, Goto, Labels
    <2>2. QED
      BY <1>5, <2>1 DEF Types, TakeFirst, settings, storeVars, historyVars
  <1>6. ASSUME NEW t \in Threads, create_tx(t)
        PROVE  Types'
    <2>1. NewTx(disable_long_read_transaction_safety) \in TxRecord
      BY DEF Types, NewTx, TxRecord
    <2>2. opening' \in [Threads -> TxRecord] /\ pc' \in [Threads -> Labels]
      BY <1>6, <2>1 DEF Types, create_tx, Goto, Labels
    <2>3. QED
      BY <1>6, <2>2 DEF Types, create_tx, settings, countVars, historyVars
  <1>7. ASSUME NEW t \in Threads, PushAuxTx(t)
        PROVE  Types'
    <2>1. /\ txs' = Append(txs, [tx |-> opening[t], held_count |-> 1])
          /\ [tx |-> opening[t], held_count |-> 1] \in AuxTx
      BY <1>7 DEF PushAuxTx, Types, AuxTx
    <2>2. txs' \in Seq(AuxTx) /\ Len(txs') = Len(txs) + 1 /\ Len(txs) \in Nat
      BY <2>1 DEF Types
    <2>3. cursors' \in [0..Len(txs') -> Nat]
      BY <1>7, <2>2 DEF PushAuxTx, Types
    <2>4. index' = [index EXCEPT ![t] = Len(txs) + 1]
      BY <1>7 DEF PushAuxTx
    <2>5. index' \in [Threads -> 0..Len(txs')]
      BY <2>2, <2>4 DEF Types
    <2>6. opening' \in [Threads -> TxRecord]
      BY <1>7 DEF PushAuxTx, Types, Nothing, TxRecord
    <2>7. pc' \in [Threads -> Labels]
      BY <1>7 DEF Types, PushAuxTx, Goto, Labels
    <2>8. QED
      BY <1>7, <2>2, <2>3, <2>5, <2>6, <2>7
      DEF Types, PushAuxTx, settings, storeVars, historyVars
  <1>8. ASSUME NEW t \in Threads, CreateTxFails(t)
        PROVE  Types'
    BY <1>8 DEF Types, CreateTxFails, Goto, Labels, settings, countVars, historyVars
  <1>9. ASSUME NEW t \in Threads, GiveBackReservation(t)
        PROVE  Types'
    BY <1>9 DEF Types, GiveBackReservation, Goto, Labels, settings, storeVars, historyVars
  <1>10. ASSUME NEW t \in Threads, get_by_encoded_key(t)
         PROVE  Types'
    BY <1>10 DEF Types, get_by_encoded_key, Goto, Labels, settings, storeVars, countVars
  <1>11. ASSUME NEW t \in Threads, CursorFails(t)
         PROVE  Types'
    BY <1>11 DEF Types, CursorFails, Goto, Labels, settings, countVars, historyVars
  <1>12. ASSUME NEW t \in Threads, cursor_read(t)
         PROVE  Types'
    <2>1. cursors' \in [0..Len(txs) -> Nat]
      BY <1>12 DEF Types, cursor_read
    <2>2. index' \in [Threads -> 0..Len(txs)] /\ pc' \in [Threads -> Labels]
      BY <1>12 DEF Types, cursor_read, Goto, Labels
    <2>3. QED
      BY <1>12, <2>1, <2>2 DEF Types, cursor_read, settings, storeVars
  <1>13. ASSUME NEW t \in Threads, post_tx_execution(t)
         PROVE  Types'
    <2>1. index[t] \in 0..Len(txs) /\ Released(index[t])
      BY <1>13 DEF Types, post_tx_execution
    <2>2. tx_held_count' \in Int /\ txs' \in Seq(AuxTx) /\ Len(txs') = Len(txs)
      BY <2>1, GivenBack DEF Types
    <2>3. index' \in [Threads -> 0..Len(txs)] /\ pc' \in [Threads -> Labels]
      BY <1>13 DEF Types, post_tx_execution, Goto, Labels
    <2>4. QED
      BY <1>13, <2>2, <2>3 DEF Types, post_tx_execution, settings, storeVars, historyVars
  <1>14. ASSUME NEW i \in DOMAIN cursors, DropCursor(i)
         PROVE  Types'
    <2>1. /\ i \in 0..Len(txs) /\ Released(i)
          /\ cursors[i] > 0 /\ cursors' = [cursors EXCEPT ![i] = @ - 1]
      BY <1>14 DEF Types, DropCursor
    <2>2. cursors' \in [0..Len(txs) -> Nat]
      <3>1. cursors \in [0..Len(txs) -> Nat]
        BY DEF Types
      <3>2. cursors[i] - 1 \in Nat
        BY <2>1, <3>1
      <3>3. QED
        BY <2>1, <3>1, <3>2
    <2>3. tx_held_count' \in Int /\ txs' \in Seq(AuxTx) /\ Len(txs') = Len(txs)
      <3>1. tx_held_count \in Int
        BY DEF Types
      <3>2. tx_held_count - (IF i = First THEN 1 ELSE 0) \in Int
        BY <3>1
      <3>3. /\ tx_held_count' = tx_held_count - (IF i = First THEN 1 ELSE 0)
            /\ txs' \in Seq(AuxTx) /\ Len(txs') = Len(txs)
        BY <2>1, GivenBack
      <3>4. QED
        BY <3>2, <3>3
    <2>4. QED
      BY <1>14, <2>2, <2>3 DEF Types, DropCursor, settings, threadVars, historyVars
  <1>15. CASE Drop
    BY <1>15 DEF Types, Drop, settings, threadVars, historyVars
  <1>16. CASE DisableSafety
    BY <1>16 DEF Types, DisableSafety, TxRecord, countVars, threadVars, storeVars
  <1>17. CASE WriterCommits
    BY <1>17 DEF Types, WriterCommits, settings, countVars, threadVars, historyVars
  <1>18. CASE TimesOut
    BY <1>18, TimedOut DEF TimesOut, Types, threadVars, storeVars, historyVars
  <1>19. QED
    BY <1>0, <1>1, <1>2, <1>3, <1>4, <1>5, <1>6, <1>7, <1>8, <1>9, <1>10, <1>11, <1>12, <1>13,
       <1>14, <1>15, <1>16, <1>17, <1>18 DEF Next

\* In every behavior counts, indices and transactions keep the types the proofs below rest on.
THEOREM SpecTypes == Spec => []Types
  BY InitTypes, TypesKept, PTL DEF Spec

-----------------------------------------------------------------------------
(* NeverMoreThanMaxTxs.                                                    *)

\* A step of a thread that is opening before and after, or neither.
LEMMA NumberStays ==
    ASSUME Types, NeverMoreThanMaxTxs, UNCHANGED num_txs, Len(txs') = Len(txs),
           \/ UNCHANGED pc
           \/ \E t \in Threads, l \in Labels :
                 /\ pc' = [pc EXCEPT ![t] = l]
                 /\ pc[t] \in Opening <=> l \in Opening
    PROVE  NeverMoreThanMaxTxs'
  <1>1. Calling(Opening)' = Calling(Opening)
    <2>1. CASE UNCHANGED pc
      BY <2>1 DEF Calling
    <2>2. ASSUME NEW t \in Threads, NEW l \in Labels,
                 pc' = [pc EXCEPT ![t] = l], pc[t] \in Opening <=> l \in Opening
          PROVE  Calling(Opening)' = Calling(Opening)
      BY <2>2, Moves DEF Types
    <2>3. QED
      BY <2>1, <2>2
  <1>2. QED
    BY <1>1 DEF NeverMoreThanMaxTxs, Opening

LEMMA NumberKept ==
    ASSUME Types, NeverMoreThanMaxTxs, [Next]_vars
    PROVE  NeverMoreThanMaxTxs'
  <1> USE DEF Labels
  <1>p. /\ \A l \in {"create", "push", "undo"} : l \in Opening
        /\ \A l \in Labels \ {"create", "push", "undo"} : l \notin Opening
    BY DEF Opening
  <1>0. CASE UNCHANGED vars
    BY <1>0, NumberStays DEF vars, settings, countVars, threadVars
  <1>1. ASSUME NEW t \in Threads,
               \/ execute_tx(t) \/ PreferFirst(t) \/ TakeFirst(t) \/ create_tx(t)
               \/ CreateTxFails(t) \/ get_by_encoded_key(t) \/ cursor_read(t) \/ CursorFails(t)
        PROVE  NeverMoreThanMaxTxs'
    <2>1. UNCHANGED <<num_txs, txs>>
      BY <1>1 DEF execute_tx, PreferFirst, TakeFirst, create_tx, CreateTxFails,
                  get_by_encoded_key, cursor_read, CursorFails, countVars
    <2>2. PICK l \in Labels : pc' = [pc EXCEPT ![t] = l] /\ (pc[t] \in Opening <=> l \in Opening)
      BY <1>1, <1>p DEF execute_tx, PreferFirst, TakeFirst, create_tx, CreateTxFails,
                  get_by_encoded_key, cursor_read, CursorFails, Goto
    <2>3. QED
      BY <2>1, <2>2, NumberStays
  <1>2. ASSUME NEW t \in Threads, ShareAuxTx(t) \/ post_tx_execution(t)
        PROVE  NeverMoreThanMaxTxs'
    <2>1. UNCHANGED num_txs
      BY <1>2 DEF ShareAuxTx, post_tx_execution
    <2>2. Len(txs') = Len(txs)
      <3>1. CASE ShareAuxTx(t)
        BY <3>1, CountGrows DEF Types, ShareAuxTx
      <3>2. CASE post_tx_execution(t)
        BY <3>2, GivenBack DEF Types, post_tx_execution
      <3>3. QED
        BY <1>2, <3>1, <3>2
    <2>3. PICK l \in Labels : pc' = [pc EXCEPT ![t] = l] /\ (pc[t] \in Opening <=> l \in Opening)
      BY <1>2, <1>p DEF ShareAuxTx, post_tx_execution, Goto
    <2>4. QED
      BY <2>1, <2>2, <2>3, NumberStays
  <1>3. ASSUME NEW t \in Threads, ReserveAuxTx(t)
        PROVE  NeverMoreThanMaxTxs'
    <2>1. /\ num_txs < max_txs /\ num_txs' = num_txs + 1 /\ UNCHANGED txs
          /\ pc[t] = "lock" /\ pc' = [pc EXCEPT ![t] = "create"]
      BY <1>3 DEF ReserveAuxTx, WantsAnother, Goto
    <2>2. /\ Cardinality(Calling(Opening)') = Cardinality(Calling(Opening)) + 1
          /\ Cardinality(Calling(Opening)) \in Nat
      BY <2>1, <1>p, Moves DEF Types
    <2>3. num_txs \in Int /\ max_txs \in Nat /\ Len(txs) \in Nat
      BY Lengths, ParallelTxConstants DEF Types
    <2>4. num_txs = 1 + Len(txs) + Cardinality(Calling(Opening))
      BY DEF NeverMoreThanMaxTxs, Opening
    <2>5. /\ num_txs' = 1 + Len(txs)' + Cardinality(Calling(Opening)')
          /\ num_txs' <= max_txs
      BY <2>1, <2>2, <2>3, <2>4
    <2>6. QED
      BY <2>5 DEF NeverMoreThanMaxTxs, Opening
  <1>4. ASSUME NEW t \in Threads, PushAuxTx(t)
        PROVE  NeverMoreThanMaxTxs'
    <2>1. /\ UNCHANGED num_txs /\ Len(txs') = Len(txs) + 1
          /\ pc[t] = "push" /\ pc' = [pc EXCEPT ![t] = "use"]
      BY <1>4 DEF PushAuxTx, Goto, Types
    <2>2. /\ Cardinality(Calling(Opening)') = Cardinality(Calling(Opening)) - 1
          /\ Cardinality(Calling(Opening)) \in Nat
      BY <2>1, <1>p, Moves DEF Types
    <2>3. QED
      BY <2>1, <2>2, Lengths, ParallelTxConstants DEF Types, NeverMoreThanMaxTxs, Opening
  <1>5. ASSUME NEW t \in Threads, GiveBackReservation(t)
        PROVE  NeverMoreThanMaxTxs'
    <2>1. /\ num_txs' = num_txs - 1 /\ UNCHANGED txs
          /\ pc[t] = "undo" /\ pc' = [pc EXCEPT ![t] = "idle"]
      BY <1>5 DEF GiveBackReservation, Goto
    <2>2. /\ Cardinality(Calling(Opening)') = Cardinality(Calling(Opening)) - 1
          /\ Cardinality(Calling(Opening)) \in Nat
      BY <2>1, <1>p, Moves DEF Types
    <2>3. QED
      BY <2>1, <2>2, Lengths, ParallelTxConstants DEF Types, NeverMoreThanMaxTxs, Opening
  <1>6. ASSUME NEW i \in DOMAIN cursors, DropCursor(i)
        PROVE  NeverMoreThanMaxTxs'
    <2>1. i \in 0..Len(txs) /\ Released(i) /\ UNCHANGED <<num_txs, pc>>
      BY <1>6 DEF DropCursor, Types, threadVars
    <2>2. QED
      BY <2>1, GivenBack, NumberStays
  <1>7. CASE Drop \/ DisableSafety \/ WriterCommits
    BY <1>7, NumberStays DEF Drop, DisableSafety, WriterCommits, countVars, threadVars
  <1>8. CASE TimesOut
    <2>1. UNCHANGED <<num_txs, pc>>
      BY <1>8 DEF TimesOut, threadVars
    <2>2. Len(txs') = Len(txs)
      BY <1>8 DEF TimesOut, Types
    <2>3. QED
      BY <2>1, <2>2, NumberStays
  <1>9. QED
    BY <1>0, <1>1, <1>2, <1>3, <1>4, <1>5, <1>6, <1>7, <1>8 DEF Next

\* In every behavior the set opens at most max_txs transactions, those being opened outside the
\* mutex and those that fail included (parallel_tx.rs:117, :93).
THEOREM AtMostMaxTxs == Spec => []NeverMoreThanMaxTxs
  <1>1. Init => NeverMoreThanMaxTxs
    <2> SUFFICES ASSUME Init PROVE NeverMoreThanMaxTxs
      OBVIOUS
    <2>1. Calling(Opening) = {} /\ Len(txs) = 0 /\ num_txs = 1
      BY DEF Init, Calling, Opening
    <2>2. QED
      BY <2>1, FS_EmptySet, ParallelTxConstants DEF NeverMoreThanMaxTxs, Opening
  <1>2. QED
    BY <1>1, SpecTypes, NumberKept, PTL DEF Spec

-----------------------------------------------------------------------------
(* HeldCountsExact.                                                        *)

\* HeldCountsExact in terms of Holding.
Exact ==
    /\ tx_held_count = Holding[First] + cursors[First]
    /\ \A j \in DOMAIN txs : txs[j].held_count = Holding[j] + cursors[j]

LEMMA ExactCounts == Types /\ Exact => HeldCountsExact
  <1>1. \A j \in Nat : Holding[j] = Cardinality(HoldersOf(j))
    BY DEF Holding, Held, HoldersOf, Calling, Using
  <1>2. Types => First \in Nat /\ DOMAIN txs \subseteq Nat
    BY Lengths DEF First
  <1>3. QED
    BY <1>1, <1>2 DEF Exact, HeldCountsExact

\* What Holding and cursors are of each transaction.
LEMMA Numbers ==
    ASSUME Types
    PROVE  /\ \A j \in 0..Len(txs) : j \in Nat /\ Holding[j] \in Nat /\ cursors[j] \in Nat
           /\ \A j \in DOMAIN txs : j \in 0..Len(txs)
           /\ First \in 0..Len(txs) /\ tx_held_count \in Int
  <1>1. Len(txs) \in Nat /\ First \in 0..Len(txs) /\ DOMAIN txs = 1..Len(txs)
    BY Lengths
  <1>2. \A j \in 0..Len(txs) : j \in Nat
    BY <1>1
  <1>3. \A j \in 0..Len(txs) : Holding[j] \in Nat
    BY <1>2, HoldingType
  <1>4. cursors \in [0..Len(txs) -> Nat] /\ tx_held_count \in Int
    BY DEF Types
  <1>5. \A j \in DOMAIN txs : j \in 0..Len(txs)
    BY <1>1
  <1>6. QED
    BY <1>1, <1>2, <1>3, <1>4, <1>5

LEMMA ExactKept ==
    ASSUME Types, Exact, [Next]_vars
    PROVE  Exact'
  <1>p. /\ \A l \in {"use", "release"} : l \in Using
        /\ \A l \in Labels \ {"use", "release"} : l \notin Using
    BY DEF Using
  <1>t. Holding \in [Nat -> Nat] /\ cursors \in [0..Len(txs) -> Nat]
    BY HoldingType DEF Types
  <1> USE DEF Labels
  <1>0. CASE UNCHANGED vars
    BY <1>0, Keeps DEF Exact, vars, settings, countVars, threadVars
  <1>1. ASSUME NEW t \in Threads,
               \/ ReserveAuxTx(t) \/ PreferFirst(t) \/ create_tx(t) \/ CreateTxFails(t)
               \/ GiveBackReservation(t) \/ get_by_encoded_key(t) \/ CursorFails(t)
        PROVE  Exact'
    <2>1. UNCHANGED <<tx_held_count, txs, cursors, index>>
      BY <1>1 DEF ReserveAuxTx, PreferFirst, create_tx, CreateTxFails, GiveBackReservation,
                  get_by_encoded_key, CursorFails, countVars
    <2>2. PICK l \in Labels : pc' = [pc EXCEPT ![t] = l] /\ (pc[t] \in Using <=> l \in Using)
      BY <1>1, <1>p DEF ReserveAuxTx, PreferFirst, create_tx, CreateTxFails, GiveBackReservation,
                  get_by_encoded_key, CursorFails, Goto
    <2>3. Holding' = Holding
      BY <2>1, <2>2, Keeps
    <2>4. QED
      BY <2>1, <2>3 DEF Exact
  <1>2. ASSUME NEW t \in Threads, pc[t] \notin Using, UNCHANGED <<txs, cursors>>,
               pc' = [pc EXCEPT ![t] = "use"], index' = [index EXCEPT ![t] = First],
               tx_held_count' = tx_held_count + 1
        PROVE  Exact'
    <2>1. Holding' = [Holding EXCEPT ![First] = @ + 1]
      BY <1>2, <1>p, Numbers, Gets
    <2>2. \A j \in DOMAIN txs : j # First /\ j \in Nat
      BY Lengths, Numbers
    <2>3. Holding'[First] = Holding[First] + 1 /\ \A j \in DOMAIN txs : Holding'[j] = Holding[j]
      BY <1>t, <2>1, <2>2, Numbers
    <2>4. tx_held_count' = Holding'[First] + cursors[First]
      BY <1>2, <2>3, Numbers DEF Exact
    <2>5. QED
      BY <1>2, <2>3, <2>4 DEF Exact
  <1>3. ASSUME NEW t \in Threads, execute_tx(t)
        PROVE  Exact'
    <2>1. UNCHANGED <<txs, cursors>> /\ pc[t] = "idle"
      BY <1>3 DEF execute_tx
    <2>2. CASE /\ tx_held_count = 0 /\ tx_held_count' = 1
               /\ index' = [index EXCEPT ![t] = First] /\ pc' = [pc EXCEPT ![t] = "use"]
      <3>1. pc[t] \notin Using /\ tx_held_count' = tx_held_count + 1
        BY <1>p, <2>1, <2>2
      <3>2. QED
        BY <1>2, <2>1, <2>2, <3>1
    <2>3. CASE pc' = [pc EXCEPT ![t] = "lock"] /\ UNCHANGED <<index, tx_held_count>>
      <3>1. Holding' = Holding
        BY <1>p, <2>1, <2>3, Keeps
      <3>2. QED
        BY <2>1, <2>3, <3>1 DEF Exact
    <2>4. QED
      BY <1>3, <2>2, <2>3 DEF execute_tx, Goto
  <1>4. ASSUME NEW t \in Threads, TakeFirst(t)
        PROVE  Exact'
    BY <1>2, <1>4, <1>p DEF TakeFirst, Goto
  <1>5. ASSUME NEW t \in Threads, ShareAuxTx(t)
        PROVE  Exact'
    <2>1. PICK i \in DOMAIN txs :
              /\ txs' = [txs EXCEPT ![i].held_count = @ + 1]
              /\ index' = [index EXCEPT ![t] = i]
      BY <1>5 DEF ShareAuxTx
    <2>2. /\ UNCHANGED <<tx_held_count, cursors>> /\ pc[t] = "lock"
          /\ pc' = [pc EXCEPT ![t] = "use"]
      BY <1>5 DEF ShareAuxTx, Goto
    <2>3. /\ txs' \in Seq(AuxTx) /\ Len(txs') = Len(txs)
          /\ txs'[i].held_count = txs[i].held_count + 1
          /\ \A j \in DOMAIN txs : j # i => txs'[j] = txs[j]
      BY <2>1, CountGrows DEF Types
    <2>4. /\ i \in 0..Len(txs) /\ i \in Nat /\ i # First /\ DOMAIN txs' = DOMAIN txs
          /\ \A j \in DOMAIN txs : j \in Nat /\ j # First
      BY <2>3, Lengths, Numbers
    <2>5. Holding' = [Holding EXCEPT ![i] = @ + 1]
      BY <1>p, <2>1, <2>2, <2>4, Gets
    <2>6. /\ Holding'[First] = Holding[First] /\ Holding'[i] = Holding[i] + 1
          /\ \A j \in DOMAIN txs : j # i => Holding'[j] = Holding[j]
      BY <1>t, <2>4, <2>5, Numbers
    <2>7. tx_held_count' = Holding'[First] + cursors'[First]
      BY <2>2, <2>6 DEF Exact
    <2>8. txs'[i].held_count = Holding'[i] + cursors'[i]
      <3>1. txs[i].held_count = Holding[i] + cursors[i]
        BY DEF Exact
      <3>2. QED
        BY <2>2, <2>3, <2>4, <2>6, <3>1, Numbers
    <2>9. \A j \in DOMAIN txs : j # i => txs'[j].held_count = Holding'[j] + cursors'[j]
      BY <2>2, <2>3, <2>6 DEF Exact
    <2>10. QED
      BY <2>4, <2>7, <2>8, <2>9 DEF Exact
  <1>6. ASSUME NEW t \in Threads, PushAuxTx(t)
        PROVE  Exact'
    <2> DEFINE n == Len(txs) + 1
    <2>1. /\ UNCHANGED tx_held_count /\ pc[t] = "push" /\ pc' = [pc EXCEPT ![t] = "use"]
          /\ index' = [index EXCEPT ![t] = n]
          /\ txs' = Append(txs, [tx |-> opening[t], held_count |-> 1])
          /\ cursors' = [i \in 0..Len(txs) + 1 |-> IF i \in DOMAIN cursors THEN cursors[i] ELSE 0]
      BY <1>6 DEF PushAuxTx, Goto
    <2>2. n \in Nat
      BY Lengths
    <2>3. Held(pc, index, n) = {}
      BY Lengths DEF Held, Types
    <2>4. Holding[n] = 0
      BY <2>2, <2>3, FS_EmptySet DEF Holding
    <2>5. Holding' = [Holding EXCEPT ![n] = @ + 1]
      BY <1>p, <2>1, <2>2, Gets
    <2>6. /\ DOMAIN txs' = 1..n /\ txs'[n].held_count = 1
          /\ \A j \in 1..Len(txs) : txs'[j] = txs[j]
      BY <2>1, Lengths DEF Types
    <2>7. /\ cursors'[n] = 0
          /\ \A j \in 0..Len(txs) : cursors'[j] = cursors[j]
      <3>1. DOMAIN cursors = 0..Len(txs) /\ n \in 0..Len(txs) + 1 /\ n \notin 0..Len(txs)
        BY <1>t, Lengths
      <3>2. \A j \in 0..Len(txs) : j \in 0..Len(txs) + 1
        BY Lengths
      <3>3. QED
        BY <2>1, <3>1, <3>2
    <2>8. Holding'[n] = 1 /\ \A j \in 0..Len(txs) : Holding'[j] = Holding[j]
      <3>1. \A j \in 0..Len(txs) : j \in Nat /\ j # n
        BY Lengths
      <3>2. QED
        BY <1>t, <2>2, <2>4, <2>5, <3>1
    <2>9. tx_held_count' = Holding'[First] + cursors'[First]
      BY <2>1, <2>7, <2>8, Lengths DEF Exact
    <2>10. \A j \in 1..Len(txs) : txs'[j].held_count = Holding'[j] + cursors'[j]
      BY <2>6, <2>7, <2>8, Lengths, Numbers DEF Exact
    <2>11. txs'[n].held_count = Holding'[n] + cursors'[n]
      BY <2>6, <2>7, <2>8
    <2>12. \A j \in 1..n : j = n \/ j \in 1..Len(txs)
      BY Lengths
    <2> HIDE DEF n
    <2>13. QED
      BY <2>6, <2>9, <2>10, <2>11, <2>12 DEF Exact
  <1>7. ASSUME NEW t \in Threads, cursor_read(t)
        PROVE  Exact'
    <2>1. PICK i \in 0..Len(txs) : index[t] = i
      BY DEF Types
    <2>2. /\ UNCHANGED <<tx_held_count, txs>> /\ pc[t] = "use" /\ pc' = [pc EXCEPT ![t] = "idle"]
          /\ index' = [index EXCEPT ![t] = First]
          /\ cursors' = [cursors EXCEPT ![i] = @ + 1]
      BY <1>7, <2>1 DEF cursor_read, Goto
    <2>3. Holding' = [Holding EXCEPT ![i] = @ - 1]
      BY <1>p, <2>1, <2>2, Numbers, LetsGo
    <2>4. \A j \in 0..Len(txs) : Holding'[j] + cursors'[j] = Holding[j] + cursors[j]
      BY <1>t, <2>2, <2>3, Numbers
    <2>5. QED
      BY <2>2, <2>4, Numbers DEF Exact
  <1>8. ASSUME NEW i \in 0..Len(txs), Released(i),
               \/ Holding' = [Holding EXCEPT ![i] = @ - 1] /\ UNCHANGED cursors
               \/ cursors' = [cursors EXCEPT ![i] = @ - 1] /\ UNCHANGED Holding
        PROVE  Exact'
    <2>1. /\ tx_held_count' = tx_held_count - (IF i = First THEN 1 ELSE 0)
          /\ txs' \in Seq(AuxTx) /\ Len(txs') = Len(txs)
          /\ \A j \in DOMAIN txs :
                 txs'[j].held_count = txs[j].held_count - (IF i = j THEN 1 ELSE 0)
      BY <1>8, GivenBack
    <2>2. \A j \in 0..Len(txs) :
              Holding'[j] + cursors'[j] = Holding[j] + cursors[j] - (IF i = j THEN 1 ELSE 0)
      <3>1. \A j \in 0..Len(txs) : j \in Nat /\ Holding[j] \in Nat /\ cursors[j] \in Nat
        BY Numbers
      <3>2. CASE Holding' = [Holding EXCEPT ![i] = @ - 1] /\ UNCHANGED cursors
        <4>1. ASSUME NEW j \in 0..Len(txs)
              PROVE  Holding'[j] = Holding[j] - (IF i = j THEN 1 ELSE 0)
          <5>1. j \in Nat /\ Holding[j] \in Nat
            BY <3>1
          <5>2. CASE i = j
            BY <1>t, <3>2, <5>1, <5>2
          <5>3. CASE i # j
            BY <1>t, <3>2, <5>1, <5>3
          <5>4. QED
            BY <5>2, <5>3
        <4>2. \A j \in 0..Len(txs) : cursors'[j] = cursors[j]
          BY <3>2
        <4>3. QED
          BY <3>1, <4>1, <4>2
      <3>3. CASE cursors' = [cursors EXCEPT ![i] = @ - 1] /\ UNCHANGED Holding
        <4>1. ASSUME NEW j \in 0..Len(txs)
              PROVE  cursors'[j] = cursors[j] - (IF i = j THEN 1 ELSE 0)
          <5>1. cursors[j] \in Nat
            BY <3>1
          <5>2. CASE i = j
            BY <1>t, <3>3, <5>1, <5>2
          <5>3. CASE i # j
            BY <1>t, <3>3, <5>1, <5>3
          <5>4. QED
            BY <5>2, <5>3
        <4>2. \A j \in 0..Len(txs) : Holding'[j] = Holding[j]
          BY <3>3
        <4>3. QED
          BY <3>1, <4>1, <4>2
      <3>4. QED
        BY <1>8, <3>2, <3>3
    <2>3. DOMAIN txs' = DOMAIN txs
      BY <2>1, Lengths
    <2>n. /\ First \in 0..Len(txs)
          /\ \A j \in 0..Len(txs) : Holding[j] \in Int /\ cursors[j] \in Int
      BY Numbers
    <2>4. tx_held_count' = Holding'[First] + cursors'[First]
      BY <2>1, <2>2, <2>n DEF Exact
    <2>5. ASSUME NEW j \in DOMAIN txs
          PROVE  txs'[j].held_count = Holding'[j] + cursors'[j]
      <3>1. txs'[j].held_count = txs[j].held_count - (IF i = j THEN 1 ELSE 0)
        BY <2>1
      <3>2. j \in 0..Len(txs) /\ txs[j].held_count = Holding[j] + cursors[j]
        BY Numbers DEF Exact
      <3>3. Holding'[j] + cursors'[j] = Holding[j] + cursors[j] - (IF i = j THEN 1 ELSE 0)
        BY <2>2, <3>2
      <3>4. QED
        BY <2>n, <3>1, <3>2, <3>3
    <2>6. QED
      BY <2>3, <2>4, <2>5 DEF Exact
  <1>9. ASSUME NEW t \in Threads, post_tx_execution(t)
        PROVE  Exact'
    <2>1. PICK i \in 0..Len(txs) : index[t] = i
      BY DEF Types
    <2>2. /\ Released(i) /\ UNCHANGED cursors /\ pc[t] = "release"
          /\ pc' = [pc EXCEPT ![t] = "idle"] /\ index' = [index EXCEPT ![t] = First]
      BY <1>9, <2>1 DEF post_tx_execution, Goto
    <2>3. Holding' = [Holding EXCEPT ![i] = @ - 1]
      BY <1>p, <2>1, <2>2, Numbers, LetsGo
    <2>4. QED
      BY <1>8, <2>2, <2>3
  <1>10. ASSUME NEW i \in DOMAIN cursors, DropCursor(i)
         PROVE  Exact'
    <2>1. /\ i \in 0..Len(txs) /\ Released(i) /\ UNCHANGED <<pc, index>>
          /\ cursors' = [cursors EXCEPT ![i] = @ - 1]
      BY <1>10 DEF DropCursor, Types, threadVars
    <2>2. Holding' = Holding
      BY <2>1, Keeps
    <2>3. QED
      BY <1>8, <2>1, <2>2
  <1>11. CASE Drop \/ DisableSafety \/ WriterCommits
    <2>1. UNCHANGED <<tx_held_count, txs, cursors, index, pc>>
      BY <1>11 DEF Drop, DisableSafety, WriterCommits, countVars, threadVars
    <2>2. QED
      BY <2>1, Keeps DEF Exact
  <1>12. CASE TimesOut
    <2>1. UNCHANGED <<tx_held_count, cursors, index, pc>>
      BY <1>12 DEF TimesOut, threadVars
    <2>2. /\ DOMAIN txs' = DOMAIN txs
          /\ \A j \in DOMAIN txs : txs'[j].held_count = txs[j].held_count
      BY <1>12, TimedOut
    <2>3. QED
      BY <2>1, <2>2, Keeps DEF Exact
  <1>13. QED
    BY <1>0, <1>1, <1>3, <1>4, <1>5, <1>6, <1>7, <1>9, <1>10, <1>11, <1>12 DEF Next

LEMMA FirstExact == Init => Exact
  <1> SUFFICES ASSUME Init PROVE Exact
    OBVIOUS
  <1>1. Held(pc, index, First) = {} /\ tx_held_count = 0 /\ cursors[First] = 0 /\ DOMAIN txs = {}
    BY DEF Init, Held, Using
  <1>2. Holding[First] = 0
    BY <1>1, FS_EmptySet DEF Holding, First
  <1>3. QED
    BY <1>1, <1>2 DEF Exact

\* In every behavior each held_count is the number of calls and cursors that hold its
\* transaction, whatever fails on the way (parallel_tx.rs:128, :182).
THEOREM CountsAreExact == Spec => []HeldCountsExact
  BY FirstExact, SpecTypes, ExactKept, ExactCounts, PTL DEF Spec

-----------------------------------------------------------------------------
(* DisabledInTime.                                                         *)

LEMMA SafeMeansInTime == Types /\ SafeInTime => DisabledInTime
  <1>1. Types => \A i \in DOMAIN cursors : i = First \/ i \in DOMAIN txs
    BY Lengths DEF Types, First
  <1>2. QED
    BY <1>1 DEF SafeInTime, DisabledInTime, TxAt

LEMMA SafeKept ==
    ASSUME Types, SafeInTime, [Next]_vars
    PROVE  SafeInTime'
  <1> USE DEF SafeInTime
  <1>1. ASSUME UNCHANGED <<inTime, disable_long_read_transaction_safety, tx, txs>>,
               \/ UNCHANGED <<pc, opening>>
               \/ \E t \in Threads, l \in Labels \ {"push"} :
                     pc' = [pc EXCEPT ![t] = l] /\ UNCHANGED opening
        PROVE  SafeInTime'
    BY <1>1 DEF Types
  <1> USE DEF Labels
  <1>2. CASE UNCHANGED vars
    BY <1>1, <1>2 DEF vars, settings, countVars, threadVars, historyVars
  <1>3. ASSUME NEW t \in Threads,
               \/ execute_tx(t) \/ ReserveAuxTx(t) \/ PreferFirst(t) \/ TakeFirst(t)
               \/ CreateTxFails(t) \/ GiveBackReservation(t) \/ get_by_encoded_key(t)
               \/ cursor_read(t) \/ CursorFails(t)
        PROVE  SafeInTime'
    <2>1. UNCHANGED <<inTime, disable_long_read_transaction_safety, tx, txs, opening>>
      BY <1>3 DEF execute_tx, ReserveAuxTx, PreferFirst, TakeFirst, CreateTxFails,
                  GiveBackReservation, get_by_encoded_key, cursor_read, CursorFails,
                  settings, countVars, historyVars
    <2>2. \E l \in Labels \ {"push"} : pc' = [pc EXCEPT ![t] = l]
      BY <1>3 DEF execute_tx, ReserveAuxTx, PreferFirst, TakeFirst, CreateTxFails,
                  GiveBackReservation, get_by_encoded_key, cursor_read, CursorFails, Goto
    <2>3. QED
      BY <1>1, <2>1, <2>2
  <1>4. ASSUME UNCHANGED <<inTime, disable_long_read_transaction_safety, tx, opening>>,
               DOMAIN txs' = DOMAIN txs,
               \A j \in DOMAIN txs : txs'[j].tx = txs[j].tx,
               \/ UNCHANGED pc
               \/ \E t \in Threads, l \in Labels \ {"push"} : pc' = [pc EXCEPT ![t] = l]
        PROVE  SafeInTime'
    BY <1>4 DEF Types
  <1>5. ASSUME NEW t \in Threads, ShareAuxTx(t)
        PROVE  SafeInTime'
    <2>1. PICK i \in DOMAIN txs : txs' = [txs EXCEPT ![i].held_count = @ + 1]
      BY <1>5 DEF ShareAuxTx
    <2>2. DOMAIN txs' = DOMAIN txs /\ \A j \in DOMAIN txs : txs'[j].tx = txs[j].tx
      BY <2>1, CountGrows DEF Types
    <2>3. QED
      BY <1>4, <1>5, <2>2 DEF ShareAuxTx, Goto, settings, historyVars
  <1>6. ASSUME NEW t \in Threads, create_tx(t)
        PROVE  SafeInTime'
    BY <1>6 DEF create_tx, Goto, NewTx, Types, settings, countVars, historyVars
  <1>7. ASSUME NEW t \in Threads, PushAuxTx(t)
        PROVE  SafeInTime'
    <2>1. /\ UNCHANGED <<inTime, disable_long_read_transaction_safety, tx>> /\ pc[t] = "push"
          /\ pc' = [pc EXCEPT ![t] = "use"] /\ opening' = [opening EXCEPT ![t] = Nothing]
          /\ txs' = Append(txs, [tx |-> opening[t], held_count |-> 1])
      BY <1>7 DEF PushAuxTx, Goto, settings, historyVars
    <2>2. \A j \in DOMAIN txs' :
              (j \in DOMAIN txs /\ txs'[j] = txs[j]) \/ txs'[j].tx = opening[t]
      BY <2>1, Lengths DEF Types
    <2>3. \A u \in Threads : pc'[u] = "push" => pc[u] = "push" /\ opening'[u] = opening[u]
      BY <2>1 DEF Types
    <2>4. QED
      BY <2>1, <2>2, <2>3
  <1>8. ASSUME NEW t \in Threads, post_tx_execution(t)
        PROVE  SafeInTime'
    <2>1. index[t] \in 0..Len(txs) /\ Released(index[t])
      BY <1>8 DEF post_tx_execution, Types
    <2>2. DOMAIN txs' = DOMAIN txs /\ \A j \in DOMAIN txs : txs'[j].tx = txs[j].tx
      BY <2>1, GivenBack, Lengths
    <2>3. QED
      BY <1>4, <1>8, <2>2 DEF post_tx_execution, Goto, settings, historyVars
  <1>9. ASSUME NEW i \in DOMAIN cursors, DropCursor(i)
        PROVE  SafeInTime'
    <2>1. i \in 0..Len(txs) /\ Released(i)
      BY <1>9 DEF DropCursor, Types
    <2>2. DOMAIN txs' = DOMAIN txs /\ \A j \in DOMAIN txs : txs'[j].tx = txs[j].tx
      BY <2>1, GivenBack, Lengths
    <2>3. QED
      BY <1>4, <1>9, <2>2 DEF DropCursor, settings, threadVars, historyVars
  <1>10. CASE Drop \/ WriterCommits
    BY <1>1, <1>10 DEF Drop, WriterCommits, settings, countVars, threadVars, historyVars
  <1>11. CASE DisableSafety
    <2>1. /\ disable_long_read_transaction_safety' = TRUE
          /\ tx' = [tx EXCEPT !.safe = TRUE] /\ UNCHANGED <<txs, pc, opening>>
          /\ inTime' = (txs = << >> /\ ~tx.timed_out)
          /\ \A t \in Threads : pc[t] = "idle"
      BY <1>11 DEF DisableSafety, countVars, threadVars
    <2>2. tx'.safe /\ tx'.timed_out = tx.timed_out
      BY <2>1 DEF Types, TxRecord
    <2>3. txs = << >> => DOMAIN txs = {}
      OBVIOUS
    <2>4. QED
      BY <2>1, <2>2, <2>3
  <1>12. CASE TimesOut
    <2>1. UNCHANGED <<inTime, disable_long_read_transaction_safety, pc, opening>>
      BY <1>12 DEF TimesOut, threadVars, historyVars
    <2>2. /\ tx.safe => tx' = tx
          /\ DOMAIN txs' = DOMAIN txs /\ \A j \in DOMAIN txs : txs[j].tx.safe => txs'[j] = txs[j]
      BY <1>12, TimedOut
    <2>3. QED
      BY <2>1, <2>2
  <1>13. QED
    BY <1>2, <1>3, <1>5, <1>6, <1>7, <1>8, <1>9, <1>10, <1>11, <1>12 DEF Next

\* Once the safety was disabled before any auxiliary transaction was opened, no transaction of
\* the set is timed out in any behavior (parallel_tx.rs:247, and :81 for those opened later).
THEOREM NeverTimedOut == Spec => []DisabledInTime
  <1>1. Init => SafeInTime
    BY DEF Init, SafeInTime
  <1>2. QED
    BY <1>1, SpecTypes, SafeKept, SafeMeansInTime, PTL DEF Spec

-----------------------------------------------------------------------------
(* Cursors, one by one.                                                    *)

\* The cursors on the transactions of S, when there are c[i] on transaction i.
Live(c, S) == UNION {{i} \X (1..c[i]) : i \in S}

LEMMA LiveAre ==
    ASSUME NEW c, NEW S, NEW i \in S
    PROVE  /\ \A k : <<i, k>> \in Live(c, S) <=> k \in 1..c[i]
           /\ \A x \in Live(c, S) : \E j \in S : \E k \in 1..c[j] : x = <<j, k>>
  BY DEF Live

\* d has one more on transaction i than c.
Grown(S, c, d, i) ==
    /\ c \in [S -> Nat] /\ d \in [S -> Nat] /\ i \in S
    /\ d[i] = c[i] + 1 /\ \A j \in S : j # i => d[j] = c[j]

LEMMA OneMore ==
    ASSUME NEW S, NEW c, NEW d, NEW i, Grown(S, c, d, i),
           NEW R \in SUBSET S, IsFiniteSet(Live(c, R))
    PROVE  /\ IsFiniteSet(Live(d, R))
           /\ Cardinality(Live(d, R)) = Cardinality(Live(c, R)) + (IF i \in R THEN 1 ELSE 0)
  <1>1. i \in S /\ c[i] \in Nat /\ d[i] = c[i] + 1 /\ \A j \in S : j # i => d[j] = c[j]
    BY DEF Grown
  <1>2. CASE i \notin R
    <2>1. \A j \in R : d[j] = c[j]
      BY <1>1, <1>2
    <2>2. Live(d, R) = Live(c, R)
      BY <2>1 DEF Live
    <2>3. QED
      BY <1>2, <2>2, FS_CardinalityType
  <1>3. CASE i \in R
    <2>1. c[i] \in Nat /\ 1..d[i] = (1..c[i]) \cup {c[i] + 1} /\ c[i] + 1 \notin 1..c[i]
      BY <1>1
    <2>2. <<i, c[i] + 1>> \notin Live(c, R)
      BY <1>3, <2>1, LiveAre
    <2>3. Live(d, R) = Live(c, R) \cup {<<i, c[i] + 1>>}
      <3>1. ASSUME NEW x \in Live(d, R)
            PROVE  x \in Live(c, R) \cup {<<i, c[i] + 1>>}
        <4>0. PICK j \in R : \E k \in 1..d[j] : x = <<j, k>>
          BY DEF Live
        <4>1. PICK k \in 1..d[j] : x = <<j, k>>
          BY <4>0
        <4>2. CASE j # i
          BY <1>1, <4>1, <4>2, LiveAre
        <4>3. CASE j = i
          BY <2>1, <4>1, <4>3, LiveAre
        <4>4. QED
          BY <4>2, <4>3
      <3>2. ASSUME NEW x \in Live(c, R)
            PROVE  x \in Live(d, R)
        <4>0. PICK j \in R : \E k \in 1..c[j] : x = <<j, k>>
          BY DEF Live
        <4>1. PICK k \in 1..c[j] : x = <<j, k>>
          BY <4>0
        <4>2. k \in 1..d[j]
          BY <1>1, <2>1, <4>1
        <4>3. QED
          BY <4>1, <4>2, LiveAre
      <3>3. <<i, c[i] + 1>> \in Live(d, R)
        BY <1>3, <2>1, LiveAre
      <3>4. QED
        BY <3>1, <3>2, <3>3
    <2>4. PICK L : L = Live(c, R)
      OBVIOUS
    <2>5. PICK e : e = <<i, c[i] + 1>>
      OBVIOUS
    <2>6. IsFiniteSet(L) /\ e \notin L
      BY <2>2, <2>4, <2>5
    <2>7. IsFiniteSet(L \cup {e}) /\ Cardinality(L \cup {e}) = Cardinality(L) + 1
      BY <2>6, FS_AddElement
    <2>8. QED
      BY <1>3, <2>3, <2>4, <2>5, <2>7
  <1>4. QED
    BY <1>2, <1>3

LEMMA OneLess ==
    ASSUME NEW S, NEW c, NEW d, NEW i, Grown(S, d, c, i),
           NEW R \in SUBSET S, IsFiniteSet(Live(c, R))
    PROVE  /\ IsFiniteSet(Live(d, R))
           /\ Cardinality(Live(d, R)) = Cardinality(Live(c, R)) - (IF i \in R THEN 1 ELSE 0)
  <1>1. /\ i \in S /\ c[i] \in Nat /\ d[i] \in Nat /\ d[i] = c[i] - 1
        /\ \A j \in S : j # i => d[j] = c[j]
    BY DEF Grown
  <1>2. Live(d, R) \subseteq Live(c, R)
    <2> SUFFICES ASSUME NEW x \in Live(d, R) PROVE x \in Live(c, R)
      OBVIOUS
    <2>0. PICK j \in R : \E k \in 1..d[j] : x = <<j, k>>
      BY DEF Live
    <2>1. PICK k \in 1..d[j] : x = <<j, k>>
      BY <2>0
    <2>2. k \in 1..c[j]
      <3>1. CASE j = i
        <4>1. c[i] \in Nat /\ d[i] = c[i] - 1
          BY <1>1
        <4>2. QED
          BY <2>1, <3>1, <4>1
      <3>2. CASE j # i
        BY <1>1, <2>1, <3>2
      <3>3. QED
        BY <3>1, <3>2
    <2>3. QED
      BY <2>1, <2>2, LiveAre
  <1>3. IsFiniteSet(Live(d, R))
    BY <1>2, FS_Subset
  <1>4. Cardinality(Live(c, R)) = Cardinality(Live(d, R)) + (IF i \in R THEN 1 ELSE 0)
    BY <1>3, OneMore
  <1>5. Cardinality(Live(d, R)) \in Nat
    BY <1>3, FS_CardinalityType
  <1>6. QED
    BY <1>3, <1>4, <1>5

\* A transaction without cursors adds none.
LEMMA SameLive ==
    ASSUME NEW S, NEW c \in [S -> Nat], NEW n, n \notin S, NEW d,
           d[n] = 0, \A j \in S : d[j] = c[j]
    PROVE  Live(d, S \cup {n}) = Live(c, S) /\ Live(d, S) = Live(c, S)
  <1>1. \A j \in S : 1..d[j] = 1..c[j]
    OBVIOUS
  <1>2. 1..d[n] = {}
    OBVIOUS
  <1>3. QED
    BY <1>1, <1>2 DEF Live

FiniteCursors == IsFiniteSet(Live(cursors, 0..Len(txs)))

AllCursors == CursorsOn(DOMAIN cursors)
AuxCursors == CursorsOn(DOMAIN txs)

\* What AllCursors and AuxCursors are, now and after a step.
LEMMA CursorsAre ==
    Types => /\ AllCursors = Cardinality(Live(cursors, 0..Len(txs)))
             /\ AuxCursors = Cardinality(Live(cursors, 1..Len(txs)))
             /\ cursors \in [0..Len(txs) -> Nat] /\ 1..Len(txs) \subseteq 0..Len(txs)
             /\ Len(txs) \in Nat
  <1> SUFFICES ASSUME Types
               PROVE  /\ AllCursors = Cardinality(Live(cursors, 0..Len(txs)))
                      /\ AuxCursors = Cardinality(Live(cursors, 1..Len(txs)))
                      /\ cursors \in [0..Len(txs) -> Nat] /\ 1..Len(txs) \subseteq 0..Len(txs)
                      /\ Len(txs) \in Nat
    OBVIOUS
  <1>1. DOMAIN cursors = 0..Len(txs) /\ DOMAIN txs = 1..Len(txs) /\ Len(txs) \in Nat
    BY Lengths DEF Types
  <1>2. QED
    BY <1>1 DEF Types, AllCursors, AuxCursors, CursorsOn, Live

LEMMA CursorsThen ==
    (Types => /\ AllCursors = Cardinality(Live(cursors, 0..Len(txs)))
              /\ AuxCursors = Cardinality(Live(cursors, 1..Len(txs)))
              /\ cursors \in [0..Len(txs) -> Nat])'
  BY CursorsAre, PTL

LEMMA CursorsCounted ==
    ASSUME Types, FiniteCursors
    PROVE  /\ AllCursors \in Nat /\ AuxCursors \in Nat
           /\ IsFiniteSet(Live(cursors, 1..Len(txs)))
           /\ AllCursors = 0 => \A i \in 0..Len(txs) : cursors[i] = 0
           /\ AuxCursors = 0 => \A i \in 1..Len(txs) : cursors[i] = 0
           /\ Len(txs) = 0 => AuxCursors = 0
  <1>1. Live(cursors, 1..Len(txs)) \subseteq Live(cursors, 0..Len(txs))
    BY CursorsAre DEF Live
  <1>2. IsFiniteSet(Live(cursors, 1..Len(txs)))
    BY <1>1, FS_Subset DEF FiniteCursors
  <1>3. AllCursors \in Nat /\ AuxCursors \in Nat
    BY <1>2, CursorsAre, FS_CardinalityType DEF FiniteCursors
  <1>4. ASSUME NEW S \in SUBSET (0..Len(txs)), Live(cursors, S) = {}, NEW i \in S
        PROVE  cursors[i] = 0
    <2>1. cursors[i] \in Nat /\ i \in 0..Len(txs)
      BY CursorsAre
    <2>2. <<i, 1>> \notin Live(cursors, S)
      BY <1>4
    <2>3. 1 \notin 1..cursors[i]
      BY <2>2, LiveAre
    <2>4. QED
      BY <2>1, <2>3
  <1>5. AllCursors = 0 => Live(cursors, 0..Len(txs)) = {}
    BY CursorsAre, FS_EmptySet DEF FiniteCursors
  <1>6. AuxCursors = 0 => Live(cursors, 1..Len(txs)) = {}
    BY <1>2, CursorsAre, FS_EmptySet
  <1>7. ASSUME Len(txs) = 0 PROVE AuxCursors = 0
    <2>1. 1..Len(txs) = {}
      BY <1>7
    <2>2. Live(cursors, 1..Len(txs)) = {}
      BY <2>1 DEF Live
    <2>3. QED
      BY <2>2, CursorsAre, FS_EmptySet
  <1>8. QED
    BY <1>2, <1>3, <1>4, <1>5, <1>6, <1>7, CursorsAre

\* The cursors stay what they were.
LEMMA CursorsStay ==
    ASSUME Types, Types', FiniteCursors, UNCHANGED cursors, Len(txs') = Len(txs)
    PROVE  FiniteCursors' /\ AllCursors' = AllCursors /\ AuxCursors' = AuxCursors
  BY CursorsAre, CursorsThen DEF FiniteCursors

\* A transaction is pushed: it has no cursor.
LEMMA CursorsPushed ==
    ASSUME Types, Types', FiniteCursors, NEW t \in Threads, PushAuxTx(t)
    PROVE  FiniteCursors' /\ AllCursors' = AllCursors /\ AuxCursors' = AuxCursors
  <1>1. PICK n : n = Len(txs) + 1
    OBVIOUS
  <1>2. Len(txs) \in Nat /\ DOMAIN cursors = 0..Len(txs) /\ Len(txs') = n
    <2>1. /\ txs' = Append(txs, [tx |-> opening[t], held_count |-> 1])
          /\ [tx |-> opening[t], held_count |-> 1] \in AuxTx
      BY DEF PushAuxTx, Types, AuxTx
    <2>2. QED
      BY <1>1, <2>1 DEF Types
  <1>3. /\ n \notin 0..Len(txs) /\ n \notin 1..Len(txs)
        /\ 0..n = (0..Len(txs)) \cup {n} /\ 1..n = (1..Len(txs)) \cup {n}
    BY <1>1, <1>2
  <1>4. cursors' = [i \in 0..n |-> IF i \in DOMAIN cursors THEN cursors[i] ELSE 0]
    BY <1>1 DEF PushAuxTx
  <1>5. cursors'[n] = 0 /\ \A j \in 0..Len(txs) : cursors'[j] = cursors[j]
    BY <1>2, <1>3, <1>4
  <1>6. Live(cursors', 0..n) = Live(cursors, 0..Len(txs))
    <2>1. PICK S : S = 0..Len(txs)
      OBVIOUS
    <2>2. PICK c : c = cursors
      OBVIOUS
    <2>3. PICK d : d = cursors'
      OBVIOUS
    <2>4. c \in [S -> Nat] /\ n \notin S /\ d[n] = 0 /\ \A j \in S : d[j] = c[j]
      BY <1>3, <1>5, <2>1, <2>2, <2>3, CursorsAre
    <2>5. Live(d, S \cup {n}) = Live(c, S)
      BY <2>4, SameLive
    <2>6. QED
      BY <1>3, <2>1, <2>2, <2>3, <2>5
  <1>7. Live(cursors', 1..n) = Live(cursors, 1..Len(txs))
    <2>1. \A j \in 1..Len(txs) : cursors'[j] = cursors[j]
      BY <1>5, CursorsAre
    <2>2. QED
      BY <1>3, <1>5, <2>1 DEF Live
  <1>8. QED
    BY <1>2, <1>6, <1>7, CursorsAre, CursorsThen DEF FiniteCursors

\* There is one more.
LEMMA CursorGained ==
    ASSUME Types, Types', FiniteCursors, NEW i \in 0..Len(txs), Len(txs') = Len(txs),
           cursors' = [cursors EXCEPT ![i] = @ + 1]
    PROVE  /\ FiniteCursors' /\ AllCursors' = AllCursors + 1
           /\ AuxCursors' = AuxCursors + (IF i = First THEN 0 ELSE 1)
  <1>1. /\ cursors'[i] = cursors[i] + 1
        /\ \A j \in 0..Len(txs) : j # i => cursors'[j] = cursors[j]
    BY CursorsAre
  <1>2. PICK S : S = 0..Len(txs)
    OBVIOUS
  <1>3. PICK R : R = 1..Len(txs)
    OBVIOUS
  <1>c. PICK c : c = cursors
    OBVIOUS
  <1>d. PICK d : d = cursors'
    OBVIOUS
  <1>4. Grown(S, c, d, i) /\ R \in SUBSET S /\ IsFiniteSet(Live(c, R))
    BY <1>1, <1>2, <1>3, <1>c, <1>d, CursorsAre, CursorsThen, CursorsCounted
    DEF FiniteCursors, Grown
  <1>m. i \in S /\ S \in SUBSET S /\ IsFiniteSet(Live(c, S))
    BY <1>2, <1>c, CursorsAre DEF FiniteCursors
  <1>s. /\ IsFiniteSet(Live(d, S))
        /\ Cardinality(Live(d, S)) = Cardinality(Live(c, S)) + 1
    BY <1>4, <1>m, OneMore
  <1>r. /\ IsFiniteSet(Live(d, R))
        /\ Cardinality(Live(d, R)) = Cardinality(Live(c, R)) + (IF i \in R THEN 1 ELSE 0)
    BY <1>4, OneMore
  <1>5. i \in R <=> i # First
    BY <1>3, CursorsAre DEF First
  <1>6. QED
    BY <1>2, <1>3, <1>c, <1>d, <1>s, <1>r, <1>5, CursorsAre, CursorsThen, CursorsCounted
    DEF FiniteCursors

\* There is one less.
LEMMA CursorLost ==
    ASSUME Types, Types', FiniteCursors, NEW i \in 0..Len(txs), Len(txs') = Len(txs),
           cursors[i] > 0, cursors' = [cursors EXCEPT ![i] = @ - 1]
    PROVE  /\ FiniteCursors' /\ AllCursors' = AllCursors - 1
           /\ AuxCursors' = AuxCursors - (IF i = First THEN 0 ELSE 1)
           /\ AllCursors' \in Nat /\ AuxCursors' \in Nat
  <1>1. /\ cursors'[i] = cursors[i] - 1
        /\ \A j \in 0..Len(txs) : j # i => cursors'[j] = cursors[j]
    BY CursorsAre
  <1>2. PICK S : S = 0..Len(txs)
    OBVIOUS
  <1>3. PICK R : R = 1..Len(txs)
    OBVIOUS
  <1>c. PICK c : c = cursors
    OBVIOUS
  <1>d. PICK d : d = cursors'
    OBVIOUS
  <1>4. Grown(S, d, c, i) /\ R \in SUBSET S /\ IsFiniteSet(Live(c, R))
    BY <1>1, <1>2, <1>3, <1>c, <1>d, CursorsAre, CursorsThen, CursorsCounted
    DEF FiniteCursors, Grown
  <1>m. i \in S /\ S \in SUBSET S /\ IsFiniteSet(Live(c, S))
    BY <1>2, <1>c, CursorsAre DEF FiniteCursors
  <1>s. /\ IsFiniteSet(Live(d, S))
        /\ Cardinality(Live(d, S)) = Cardinality(Live(c, S)) - 1
    BY <1>4, <1>m, OneLess
  <1>r. /\ IsFiniteSet(Live(d, R))
        /\ Cardinality(Live(d, R)) = Cardinality(Live(c, R)) - (IF i \in R THEN 1 ELSE 0)
    BY <1>4, OneLess
  <1>5. i \in R <=> i # First
    BY <1>3, CursorsAre DEF First
  <1>6. Cardinality(Live(d, S)) \in Nat /\ Cardinality(Live(d, R)) \in Nat
    BY <1>s, <1>r, FS_CardinalityType
  <1>7. QED
    BY <1>2, <1>3, <1>c, <1>d, <1>s, <1>r, <1>5, <1>6, CursorsAre, CursorsThen, CursorsCounted
    DEF FiniteCursors

-----------------------------------------------------------------------------
(* UsersKeptApart.                                                         *)

Busy == Labels \ {"idle"}

LEMMA UsersAre == Types => Users = Cardinality(Calling(Busy)) + AllCursors
  <1>1. Types => Calling(Busy) = {t \in Threads : pc[t] # "idle"}
    BY DEF Types, Calling, Busy
  <1>2. QED
    BY <1>1 DEF Users, AllCursors

\* The users there are never exceed the most there were.
Peak == FiniteCursors /\ peak \in Nat /\ Users <= peak

\* A step of a thread that has the set before it, or of none.
FewerBusy ==
    /\ Cardinality(Calling(Busy)) \in Nat /\ Cardinality(Calling(Busy)') \in Nat
    /\ Cardinality(Calling(Busy)') <= Cardinality(Calling(Busy))

LEMMA NoneMoves == UNCHANGED pc => FewerBusy
  <1> SUFFICES ASSUME UNCHANGED pc PROVE FewerBusy
    OBVIOUS
  <1>1. Calling(Busy)' = Calling(Busy) /\ IsFiniteSet(Calling(Busy))
    BY FS_Subset, ParallelTxConstants DEF Calling
  <1>2. QED
    BY <1>1, FS_CardinalityType DEF FewerBusy

LEMMA OneMoves ==
    ASSUME Types, NEW t \in Threads, NEW l \in Labels, pc' = [pc EXCEPT ![t] = l],
           pc[t] \in Busy
    PROVE  FewerBusy
  <1>1. pc \in [Threads -> Labels]
    BY DEF Types
  <1>2. IsFiniteSet(Calling(Busy)')
    BY FS_Subset, ParallelTxConstants DEF Calling
  <1>3. Cardinality(Calling(Busy)') \in Nat
    BY <1>2, FS_CardinalityType
  <1>4. /\ Cardinality(Calling(Busy)) \in Nat
        /\ l \in Busy => Calling(Busy)' = Calling(Busy)
        /\ l \notin Busy => Cardinality(Calling(Busy)') = Cardinality(Calling(Busy)) - 1
    BY <1>1, Moves
  <1>5. QED
    BY <1>3, <1>4 DEF FewerBusy

\* And no cursor more.
LEMMA PeakStays ==
    ASSUME Types, Types', Peak, UNCHANGED peak, FiniteCursors', AllCursors' <= AllCursors,
           FewerBusy
    PROVE  Peak'
  <1>1. (Types => Users = Cardinality(Calling(Busy)) + AllCursors)'
    BY UsersAre, PTL
  <1>2. AllCursors \in Nat
    BY CursorsCounted DEF Peak
  <1>3. AllCursors' \in Nat
    <2>1. AllCursors' = Cardinality(Live(cursors', 0..Len(txs')))
      BY CursorsThen
    <2>2. QED
      BY <2>1, FS_CardinalityType DEF FiniteCursors
  <1>4. Users' <= Users /\ Users \in Nat /\ Users' \in Nat
    BY <1>1, <1>2, <1>3, UsersAre DEF FewerBusy
  <1>5. QED
    BY <1>4 DEF Peak

LEMMA PeakKept ==
    ASSUME Types, Types', Peak, [Next]_vars
    PROVE  Peak'
  <1>p. /\ \A l \in Labels : l # "idle" => l \in Busy
        /\ "idle" \notin Busy
        /\ FiniteCursors /\ peak \in Nat /\ Users <= peak
    BY DEF Busy, Peak
  <1>n. AllCursors \in Nat
    BY <1>p, CursorsCounted
  <1>u. UNCHANGED pc => FewerBusy
    BY NoneMoves
  <1>0. CASE UNCHANGED vars
    <2>1. UNCHANGED <<cursors, txs, pc, peak>>
      BY <1>0 DEF vars, countVars, threadVars, historyVars
    <2>2. FiniteCursors' /\ AllCursors' = AllCursors
      BY <1>p, <2>1, CursorsStay
    <2>b. FewerBusy
      BY <1>u, <2>1
    <2>3. QED
      BY <1>n, <2>1, <2>2, <2>b, PeakStays
  <1>1. ASSUME NEW t \in Threads, execute_tx(t)
        PROVE  Peak'
    <2>1. /\ UNCHANGED <<cursors, txs>> /\ pc[t] = "idle"
          /\ peak' = (IF Users + 1 > peak THEN Users + 1 ELSE peak)
      BY <1>1 DEF execute_tx
    <2>2. PICK l \in Busy : pc' = [pc EXCEPT ![t] = l]
      BY <1>1, <1>p DEF execute_tx, Goto, Labels
    <2>3. FiniteCursors' /\ AllCursors' = AllCursors
      BY <1>p, <2>1, CursorsStay
    <2>4. /\ Cardinality(Calling(Busy)') = Cardinality(Calling(Busy)) + 1
          /\ Cardinality(Calling(Busy)) \in Nat
      <3>1. pc \in [Threads -> Labels]
        BY DEF Types
      <3>2. QED
        BY <1>p, <2>1, <2>2, <3>1, Moves
    <2>5. (Types => Users = Cardinality(Calling(Busy)) + AllCursors)'
      BY UsersAre, PTL
    <2>6. Users \in Nat /\ Users' = Users + 1
      BY <1>n, <2>3, <2>4, <2>5, UsersAre
    <2>7. QED
      BY <1>p, <2>1, <2>3, <2>6 DEF Peak
  <1>2. ASSUME NEW t \in Threads,
               \/ ReserveAuxTx(t) \/ PreferFirst(t) \/ TakeFirst(t) \/ create_tx(t)
               \/ CreateTxFails(t) \/ GiveBackReservation(t) \/ get_by_encoded_key(t)
               \/ CursorFails(t)
        PROVE  Peak'
    <2>1. UNCHANGED <<cursors, txs, peak>>
      BY <1>2 DEF ReserveAuxTx, PreferFirst, TakeFirst, create_tx, CreateTxFails,
                  GiveBackReservation, get_by_encoded_key, CursorFails, countVars, historyVars
    <2>2. PICK l \in Labels : pc' = [pc EXCEPT ![t] = l] /\ pc[t] \in Busy
      BY <1>2, <1>p DEF ReserveAuxTx, PreferFirst, TakeFirst, create_tx, CreateTxFails,
                  GiveBackReservation, get_by_encoded_key, CursorFails, Goto, Labels
    <2>3. FiniteCursors' /\ AllCursors' = AllCursors
      BY <1>p, <2>1, CursorsStay
    <2>b. FewerBusy
      BY <2>2, OneMoves
    <2>4. QED
      BY <1>n, <2>1, <2>b, <2>3, PeakStays
  <1>3. ASSUME NEW t \in Threads, ShareAuxTx(t) \/ post_tx_execution(t)
        PROVE  Peak'
    <2>1. UNCHANGED <<cursors, peak>>
      BY <1>3 DEF ShareAuxTx, post_tx_execution, historyVars
    <2>2. PICK l \in Labels : pc' = [pc EXCEPT ![t] = l] /\ pc[t] \in Busy
      BY <1>3, <1>p DEF ShareAuxTx, post_tx_execution, Goto, Labels
    <2>3. Len(txs') = Len(txs)
      <3>1. CASE ShareAuxTx(t)
        BY <3>1, CountGrows DEF Types, ShareAuxTx
      <3>2. CASE post_tx_execution(t)
        BY <3>2, GivenBack DEF Types, post_tx_execution
      <3>3. QED
        BY <1>3, <3>1, <3>2
    <2>4. FiniteCursors' /\ AllCursors' = AllCursors
      BY <1>p, <2>1, <2>3, CursorsStay
    <2>b. FewerBusy
      BY <2>2, OneMoves
    <2>5. QED
      BY <1>n, <2>1, <2>b, <2>4, PeakStays
  <1>4. ASSUME NEW t \in Threads, PushAuxTx(t)
        PROVE  Peak'
    <2>1. UNCHANGED peak
      BY <1>4 DEF PushAuxTx, historyVars
    <2>2. PICK l \in Labels : pc' = [pc EXCEPT ![t] = l] /\ pc[t] \in Busy
      BY <1>4, <1>p DEF PushAuxTx, Goto, Labels
    <2>3. FiniteCursors' /\ AllCursors' = AllCursors
      BY <1>4, <1>p, CursorsPushed
    <2>b. FewerBusy
      BY <2>2, OneMoves
    <2>4. QED
      BY <1>n, <2>1, <2>b, <2>3, PeakStays
  <1>5. ASSUME NEW t \in Threads, cursor_read(t)
        PROVE  Peak'
    <2>1. PICK i \in 0..Len(txs) : index[t] = i
      BY DEF Types
    <2>2. /\ UNCHANGED <<txs, peak>> /\ pc[t] = "use" /\ pc' = [pc EXCEPT ![t] = "idle"]
          /\ cursors' = [cursors EXCEPT ![i] = @ + 1]
      BY <1>5, <2>1 DEF cursor_read, Goto
    <2>3. FiniteCursors' /\ AllCursors' = AllCursors + 1
      BY <1>p, <2>2, CursorGained
    <2>4. /\ Cardinality(Calling(Busy)') = Cardinality(Calling(Busy)) - 1
          /\ Cardinality(Calling(Busy)) \in Nat
      <3>1. pc \in [Threads -> Labels] /\ pc[t] \in Busy
        BY <1>p, <2>2 DEF Types, Labels
      <3>2. QED
        BY <1>p, <2>2, <3>1, Moves
    <2>5. (Types => Users = Cardinality(Calling(Busy)) + AllCursors)'
      BY UsersAre, PTL
    <2>6. Users' = Users
      BY <1>n, <2>3, <2>4, <2>5, UsersAre
    <2>7. QED
      BY <1>p, <2>2, <2>3, <2>6 DEF Peak
  <1>6. ASSUME NEW i \in DOMAIN cursors, DropCursor(i)
        PROVE  Peak'
    <2>1. /\ i \in 0..Len(txs) /\ Released(i) /\ UNCHANGED <<pc, peak>>
          /\ cursors[i] > 0 /\ cursors' = [cursors EXCEPT ![i] = @ - 1]
      BY <1>6 DEF DropCursor, Types, threadVars, historyVars
    <2>2. Len(txs') = Len(txs)
      BY <2>1, GivenBack
    <2>3. FiniteCursors' /\ AllCursors' = AllCursors - 1
      BY <1>p, <2>1, <2>2, CursorLost
    <2>4. QED
      BY <1>n, <1>u, <2>1, <2>3, PeakStays
  <1>7. CASE Drop \/ DisableSafety \/ WriterCommits
    <2>1. UNCHANGED <<cursors, txs, pc, peak>>
      BY <1>7 DEF Drop, DisableSafety, WriterCommits, countVars, threadVars, historyVars
    <2>2. FiniteCursors' /\ AllCursors' = AllCursors
      BY <1>p, <2>1, CursorsStay
    <2>b. FewerBusy
      BY <1>u, <2>1
    <2>3. QED
      BY <1>n, <2>1, <2>2, <2>b, PeakStays
  <1>8. CASE TimesOut
    <2>1. UNCHANGED <<cursors, pc, peak>>
      BY <1>8 DEF TimesOut, threadVars, historyVars
    <2>2. Len(txs') = Len(txs)
      BY <1>8, TimedOut
    <2>3. FiniteCursors' /\ AllCursors' = AllCursors
      BY <1>p, <2>1, <2>2, CursorsStay
    <2>4. QED
      BY <1>n, <1>u, <2>1, <2>3, PeakStays
  <1>9. QED
    BY <1>0, <1>1, <1>2, <1>3, <1>4, <1>5, <1>6, <1>7, <1>8 DEF Next

\* The calls that use a transaction, open one or choose one are calls.
LEMMA CallsApart ==
    /\ Cardinality(Calling(Using)) \in Nat /\ Cardinality(Calling(Opening)) \in Nat
    /\ Cardinality(Calling({"lock"})) \in Nat /\ Cardinality(Calling(Busy)) \in Nat
    /\ Cardinality(Calling(Using)) + Cardinality(Calling(Opening)) + Cardinality(Calling({"lock"}))
         <= Cardinality(Calling(Busy))
  <1>1. \A S : IsFiniteSet(Calling(S)) /\ Cardinality(Calling(S)) \in Nat
    BY FS_Subset, FS_CardinalityType, ParallelTxConstants DEF Calling
  <1>2. PICK u : u = Calling(Using)
    OBVIOUS
  <1>3. PICK o : o = Calling(Opening)
    OBVIOUS
  <1>4. PICK l : l = Calling({"lock"})
    OBVIOUS
  <1>5. PICK b : b = Calling(Busy)
    OBVIOUS
  <1>6. /\ u \cap o = {} /\ (u \cup o) \cap l = {} /\ (u \cup o) \cup l \subseteq b
    BY <1>2, <1>3, <1>4, <1>5 DEF Calling, Using, Opening, Busy, Labels
  <1>7. IsFiniteSet(u) /\ IsFiniteSet(o) /\ IsFiniteSet(l) /\ IsFiniteSet(b)
    BY <1>1, <1>2, <1>3, <1>4, <1>5
  <1>8. IsFiniteSet(u \cup o) /\ Cardinality(u \cup o) = Cardinality(u) + Cardinality(o)
    <2>1. /\ IsFiniteSet(u \cup o)
          /\ Cardinality(u \cup o) = Cardinality(u) + Cardinality(o) - Cardinality(u \cap o)
      BY <1>7, FS_Union
    <2>2. Cardinality(u \cap o) = 0
      BY <1>6, FS_EmptySet
    <2>3. QED
      BY <1>7, <2>1, <2>2, FS_CardinalityType
  <1>9. Cardinality((u \cup o) \cup l) = Cardinality(u \cup o) + Cardinality(l)
    <2>1. Cardinality((u \cup o) \cup l)
            = Cardinality(u \cup o) + Cardinality(l) - Cardinality((u \cup o) \cap l)
      BY <1>7, <1>8, FS_Union
    <2>2. Cardinality((u \cup o) \cap l) = 0
      BY <1>6, FS_EmptySet
    <2>3. QED
      BY <1>7, <1>8, <2>1, <2>2, FS_CardinalityType
  <1>10. Cardinality((u \cup o) \cup l) <= Cardinality(b)
    BY <1>6, <1>7, FS_Subset
  <1>11. QED
    BY <1>1, <1>2, <1>3, <1>4, <1>5, <1>8, <1>9, <1>10

\* When every transaction is held, there are at least as many calls and cursors on them as
\* transactions.
LEMMA EachIsHeld ==
    ASSUME Types, Exact, FiniteCursors, tx_held_count >= 1,
           \A j \in DOMAIN txs : txs[j].held_count >= 1
    PROVE  Len(txs) + 1 <= Cardinality(Calling(Using)) + AllCursors
  <1>1. PICK n : n = Len(txs)
    OBVIOUS
  <1>2. n \in Nat /\ DOMAIN txs = 1..n /\ cursors \in [0..n -> Nat] /\ index \in [Threads -> 0..n]
    BY <1>1, Lengths DEF Types
  <1>3. PICK J : J = {j \in 0..n : Held(pc, index, j) # {}}
    OBVIOUS
  <1>4. PICK C : C = {j \in 0..n : cursors[j] > 0}
    OBVIOUS
  <1>5. 0..n \subseteq J \cup C
    <2> SUFFICES ASSUME NEW j \in 0..n, j \notin C PROVE j \in J
      OBVIOUS
    <2>1. cursors[j] = 0 /\ j \in Nat
      BY <1>2, <1>4
    <2>2. Holding[j] \in Nat /\ Holding[j] + cursors[j] >= 1
      <3>1. CASE j = First
        BY <1>1, <3>1, Numbers DEF Exact
      <3>2. CASE j # First
        <4>1. j \in DOMAIN txs
          BY <1>2, <3>2 DEF First
        <4>2. QED
          BY <1>1, <4>1, Numbers DEF Exact
      <3>3. QED
        BY <3>1, <3>2
    <2>3. Holding[j] # 0
      BY <2>1, <2>2
    <2>4. Held(pc, index, j) # {}
      BY <2>1, <2>3, FS_EmptySet DEF Holding
    <2>5. QED
      BY <1>3, <2>4
  <1>6. IsFiniteSet(J) /\ Cardinality(J) <= Cardinality(Calling(Using))
    <2>1. PICK A : A = Calling(Using)
      OBVIOUS
    <2>2. IsFiniteSet(A)
      BY <2>1, FS_Subset, ParallelTxConstants DEF Calling
    <2>3. PICK f : f = [t \in A |-> index[t]]
      OBVIOUS
    <2>4. \A t \in A : index[t] \in J
      <3> SUFFICES ASSUME NEW t \in A PROVE index[t] \in J
        OBVIOUS
      <3>1. t \in Threads /\ pc[t] \in Using
        BY <2>1 DEF Calling
      <3>2. t \in Held(pc, index, index[t]) /\ index[t] \in 0..n
        BY <1>2, <3>1 DEF Held
      <3>3. QED
        BY <1>3, <3>2
    <2>5. \A j \in J : \E t \in A : index[t] = j
      BY <1>3, <2>1 DEF Held, Calling
    <2>6. f \in Surjection(A, J)
      BY <2>3, <2>4, <2>5 DEF Surjection
    <2>7. QED
      BY <2>1, <2>2, <2>6, FS_Surjection
  <1>7. IsFiniteSet(C) /\ Cardinality(C) <= AllCursors
    <2>1. PICK L : L = Live(cursors, 0..n)
      OBVIOUS
    <2>2. IsFiniteSet(L) /\ Cardinality(L) = AllCursors
      BY <1>1, <2>1, CursorsAre DEF FiniteCursors
    <2>3. PICK g : g = [j \in C |-> <<j, 1>>]
      OBVIOUS
    <2>4. \A j \in C : <<j, 1>> \in L
      <3> SUFFICES ASSUME NEW j \in C PROVE <<j, 1>> \in L
        OBVIOUS
      <3>1. j \in 0..n /\ 1 \in 1..cursors[j]
        BY <1>2, <1>4
      <3>2. QED
        BY <2>1, <3>1, LiveAre
    <2>5. g \in Injection(C, L)
      <3>1. g \in [C -> L] /\ DOMAIN g = C
        BY <2>3, <2>4
      <3>2. \A j, k \in C : g[j] = g[k] => j = k
        BY <2>3
      <3>3. QED
        BY <3>1, <3>2 DEF Injection, IsInjective
    <2>6. IsFiniteSet(L)
      BY <2>2
    <2>7. IsFiniteSet(C) /\ Cardinality(C) <= Cardinality(L)
      BY <2>5, <2>6, FS_Injection
    <2>8. QED
      BY <2>2, <2>7
  <1>8. Cardinality(0..n) = n + 1
    BY <1>2, FS_Interval
  <1>9. IsFiniteSet(J \cup C)
        /\ Cardinality(J \cup C) = Cardinality(J) + Cardinality(C) - Cardinality(J \cap C)
    BY <1>6, <1>7, FS_Union
  <1>10. Cardinality(0..n) <= Cardinality(J \cup C)
    BY <1>5, <1>9, FS_Subset
  <1>11. Cardinality(J \cap C) \in Nat
    <2>1. IsFiniteSet(J \cap C)
      BY <1>6, FS_Subset
    <2>2. QED
      BY <2>1, FS_CardinalityType
  <1>12. /\ Cardinality(J) \in Nat /\ Cardinality(C) \in Nat /\ AllCursors \in Nat
         /\ Cardinality(Calling(Using)) \in Nat
    BY <1>6, <1>7, FS_CardinalityType, CursorsCounted, CallsApart
  <1>13. QED
    BY <1>1, <1>2, <1>6, <1>7, <1>8, <1>9, <1>10, <1>11, <1>12

\* Without room for another transaction, and with every one of them held, one more call makes
\* more than max_txs users.
LEMMA OneTooMany ==
    ASSUME Types, Exact, Peak, NeverMoreThanMaxTxs, NEW t \in Threads, pc[t] = "lock",
           ~WantsAnother, tx_held_count >= 1,
           \A j \in DOMAIN txs : txs[j].held_count >= 1
    PROVE  peak > max_txs
  <1>1. num_txs = 1 + Len(txs) + Cardinality(Calling(Opening)) /\ num_txs >= max_txs
    <2>1. \A j \in DOMAIN txs : txs[j].held_count \in Int
      BY Lengths
    <2>2. \A j \in DOMAIN txs : txs[j].held_count > 0
      BY <2>1
    <2>3. num_txs \in Int /\ max_txs \in Nat
      BY ParallelTxConstants DEF Types
    <2>4. QED
      BY <2>2, <2>3 DEF WantsAnother, NeverMoreThanMaxTxs, Opening
  <1>2. Cardinality(Calling({"lock"})) >= 1
    <2>1. t \in Calling({"lock"})
      BY DEF Calling
    <2>2. IsFiniteSet(Calling({"lock"}))
      BY FS_Subset, ParallelTxConstants DEF Calling
    <2>3. Cardinality(Calling({"lock"})) # 0
      BY <2>1, <2>2, FS_EmptySet
    <2>4. QED
      BY <2>3, CallsApart
  <1>3. Len(txs) + 1 <= Cardinality(Calling(Using)) + AllCursors
    BY EachIsHeld DEF Peak
  <1>4. Len(txs) \in Nat /\ AllCursors \in Nat /\ max_txs \in Nat
    BY Lengths, CursorsCounted, ParallelTxConstants DEF Peak
  <1>5. Users = Cardinality(Calling(Busy)) + AllCursors /\ Users <= peak /\ peak \in Nat
    BY UsersAre DEF Peak
  <1>6. QED
    BY <1>1, <1>2, <1>3, <1>4, <1>5, CallsApart

LEMMA HeldInt == Types => \A k \in DOMAIN txs : txs[k].held_count \in Int
  BY Lengths

\* A step after which no transaction is held more than before.
LEMMA NoneHeldMore ==
    ASSUME Types, Types', Peak, NotSharedWithoutNeed, peak' \in Nat, peak' >= peak,
           DOMAIN txs' = DOMAIN txs,
           \A j \in DOMAIN txs : txs'[j].held_count <= txs[j].held_count
    PROVE  NotSharedWithoutNeed'
  <1> SUFFICES ASSUME peak' <= max_txs, NEW j \in DOMAIN txs
               PROVE  txs'[j].held_count <= 1
    BY DEF NotSharedWithoutNeed
  <1>1. peak <= max_txs
    BY ParallelTxConstants DEF Peak
  <1>2. txs[j].held_count <= 1
    BY <1>1 DEF NotSharedWithoutNeed
  <1>3. txs[j].held_count \in Int
    BY Lengths
  <1>4. txs'[j].held_count \in Int
    <2>1. (Types => \A k \in DOMAIN txs : txs[k].held_count \in Int)'
      BY HeldInt, PTL
    <2>2. QED
      BY <2>1
  <1>5. QED
    BY <1>2, <1>3, <1>4

LEMMA ApartKept ==
    ASSUME Types, Types', Exact, Peak, Peak', NeverMoreThanMaxTxs, NotSharedWithoutNeed,
           [Next]_vars
    PROVE  NotSharedWithoutNeed'
  <1>p. peak \in Nat /\ peak' \in Nat
    BY DEF Peak
  <1>q. UNCHANGED peak => peak' >= peak
    BY <1>p
  <1>i. \A j \in DOMAIN txs : txs[j].held_count \in Int
    BY Lengths
  <1>s. ASSUME UNCHANGED txs, peak' >= peak
        PROVE  NotSharedWithoutNeed'
    BY <1>i, <1>p, <1>s, NoneHeldMore
  <1>0. CASE UNCHANGED vars
    BY <1>0, <1>q, <1>s DEF vars, countVars, historyVars
  <1>1. ASSUME NEW t \in Threads, execute_tx(t)
        PROVE  NotSharedWithoutNeed'
    <2>1. UNCHANGED txs /\ peak' = (IF Users + 1 > peak THEN Users + 1 ELSE peak)
      BY <1>1 DEF execute_tx
    <2>2. (IF Users + 1 > peak THEN Users + 1 ELSE peak) >= peak
      <3>1. Users \in Int
        <4>1. Cardinality(Calling(Busy)) \in Nat /\ AllCursors \in Nat
          BY CallsApart, CursorsCounted DEF Peak
        <4>2. QED
          BY <4>1, UsersAre
      <3>2. QED
        BY <1>p, <3>1
    <2>3. QED
      BY <1>s, <2>1, <2>2
  <1>2. ASSUME NEW t \in Threads,
               \/ ReserveAuxTx(t) \/ PreferFirst(t) \/ TakeFirst(t) \/ create_tx(t)
               \/ CreateTxFails(t) \/ GiveBackReservation(t) \/ get_by_encoded_key(t)
               \/ CursorFails(t) \/ cursor_read(t)
        PROVE  NotSharedWithoutNeed'
    BY <1>2, <1>q, <1>s
    DEF ReserveAuxTx, PreferFirst, TakeFirst, create_tx, CreateTxFails, GiveBackReservation,
        get_by_encoded_key, CursorFails, cursor_read, countVars, historyVars
  <1>3. ASSUME NEW t \in Threads, ShareAuxTx(t)
        PROVE  NotSharedWithoutNeed'
    <2>1. PICK i \in DOMAIN txs :
              /\ LeastHeld(i) /\ tx_held_count >= txs[i].held_count
              /\ txs' = [txs EXCEPT ![i].held_count = @ + 1]
      BY <1>3 DEF ShareAuxTx
    <2>2. pc[t] = "lock" /\ ~WantsAnother /\ UNCHANGED peak
      BY <1>3 DEF ShareAuxTx, historyVars
    <2>3. /\ DOMAIN txs' = DOMAIN txs /\ txs'[i].held_count = txs[i].held_count + 1
          /\ \A j \in DOMAIN txs : j # i => txs'[j] = txs[j]
      BY <2>1, CountGrows DEF Types
    <2>4. ASSUME peak <= max_txs
          PROVE  txs[i].held_count <= 0
      <3> SUFFICES ASSUME ~(txs[i].held_count <= 0) PROVE FALSE
        OBVIOUS
      <3>1. txs[i].held_count >= 1
        BY <1>i
      <3>2. tx_held_count >= 1
        BY <1>i, <2>1, <3>1 DEF Types
      <3>3. \A j \in DOMAIN txs : txs[j].held_count >= 1
        BY <1>i, <2>1, <3>1 DEF LeastHeld
      <3>4. peak > max_txs
        BY <2>2, <3>2, <3>3, OneTooMany
      <3>5. QED
        BY <1>p, <2>4, <3>4, ParallelTxConstants
    <2>5. ASSUME peak <= max_txs, NEW j \in DOMAIN txs
          PROVE  txs'[j].held_count <= 1
      <3>1. CASE j = i
        BY <1>i, <2>3, <2>4, <2>5, <3>1
      <3>2. CASE j # i
        BY <2>3, <2>5, <3>2 DEF NotSharedWithoutNeed
      <3>3. QED
        BY <3>1, <3>2
    <2>6. QED
      BY <2>2, <2>3, <2>5 DEF NotSharedWithoutNeed
  <1>4. ASSUME NEW t \in Threads, PushAuxTx(t)
        PROVE  NotSharedWithoutNeed'
    <2>1. /\ txs' = Append(txs, [tx |-> opening[t], held_count |-> 1]) /\ UNCHANGED peak
      BY <1>4 DEF PushAuxTx, historyVars
    <2>2. \A j \in DOMAIN txs' :
              (j \in DOMAIN txs /\ txs'[j] = txs[j]) \/ txs'[j].held_count = 1
      BY <2>1, Lengths DEF Types
    <2>3. QED
      BY <2>1, <2>2 DEF NotSharedWithoutNeed
  <1>5. ASSUME NEW i \in 0..Len(txs), Released(i), UNCHANGED peak
        PROVE  NotSharedWithoutNeed'
    <2>1. /\ txs' \in Seq(AuxTx) /\ Len(txs') = Len(txs)
          /\ \A j \in DOMAIN txs :
                txs'[j].held_count = txs[j].held_count - (IF i = j THEN 1 ELSE 0)
      BY <1>5, GivenBack
    <2>2. \A j \in DOMAIN txs : txs'[j].held_count <= txs[j].held_count
      BY <1>i, <2>1
    <2>3. DOMAIN txs' = DOMAIN txs
      BY <2>1, Lengths
    <2>4. QED
      BY <1>5, <1>p, <1>q, <2>2, <2>3, NoneHeldMore
  <1>6. ASSUME NEW t \in Threads, post_tx_execution(t)
        PROVE  NotSharedWithoutNeed'
    BY <1>5, <1>6 DEF post_tx_execution, Types, historyVars
  <1>7. ASSUME NEW i \in DOMAIN cursors, DropCursor(i)
        PROVE  NotSharedWithoutNeed'
    BY <1>5, <1>7 DEF DropCursor, Types, historyVars
  <1>8. CASE Drop \/ DisableSafety \/ WriterCommits
    BY <1>8, <1>q, <1>s DEF Drop, DisableSafety, WriterCommits, countVars, historyVars
  <1>9. CASE TimesOut
    <2>1. UNCHANGED peak
      BY <1>9 DEF TimesOut, historyVars
    <2>2. /\ DOMAIN txs' = DOMAIN txs
          /\ \A j \in DOMAIN txs : txs'[j].held_count <= txs[j].held_count
      BY <1>9, <1>i, TimedOut
    <2>3. QED
      BY <1>p, <1>q, <2>1, <2>2, NoneHeldMore
  <1>10. QED
    BY <1>0, <1>1, <1>2, <1>3, <1>4, <1>6, <1>7, <1>8, <1>9 DEF Next

-----------------------------------------------------------------------------
\* OneUserOneSnapshot, with the reason: a user alone always finds the first transaction free.
Alone ==
    peak <= 1 =>
        /\ txs = << >> /\ seen \subseteq {tx.snapshot}
        /\ \A t \in Threads : pc[t] \in {"idle", "use", "release"}

\* A step that opens nothing and sends no thread elsewhere.
LEMMA AloneStays ==
    ASSUME Types, Alone, UNCHANGED <<peak, txs, seen>>, tx'.snapshot = tx.snapshot,
           \/ UNCHANGED pc
           \/ \E t \in Threads : \E l \in {"idle", "use", "release"} : pc' = [pc EXCEPT ![t] = l]
    PROVE  Alone'
  BY DEF Types, Alone

LEMMA AloneKept ==
    ASSUME Types, Exact, Peak, Alone, [Next]_vars
    PROVE  Alone'
  <1>p. peak \in Nat /\ Users <= peak /\ FiniteCursors
    BY DEF Peak
  <1>0. CASE UNCHANGED vars
    BY <1>0, AloneStays DEF vars, settings, countVars, threadVars, historyVars
  <1>1. ASSUME NEW t \in Threads, execute_tx(t)
        PROVE  Alone'
    <2>1. /\ UNCHANGED <<tx, txs, seen>> /\ pc[t] = "idle"
          /\ peak' = (IF Users + 1 > peak THEN Users + 1 ELSE peak)
      BY <1>1 DEF execute_tx, settings
    <2> SUFFICES ASSUME peak' <= 1 PROVE Alone'
      BY DEF Alone
    <2>2. Cardinality(Calling(Busy)) \in Nat /\ AllCursors \in Nat
      BY CallsApart, CursorsCounted, <1>p
    <2>3. peak <= 1 /\ Users = 0 /\ Cardinality(Calling(Busy)) = 0 /\ AllCursors = 0
      BY <1>p, <2>1, <2>2, UsersAre
    <2>4. Calling(Busy) = {}
      <3>1. IsFiniteSet(Calling(Busy))
        BY FS_Subset, ParallelTxConstants DEF Calling
      <3>2. QED
        BY <2>3, <3>1, FS_EmptySet
    <2>5. Held(pc, index, First) = {}
      BY <2>4 DEF Held, Calling, Busy, Using, Labels
    <2>6. Holding[First] = 0 /\ cursors[First] = 0
      BY <1>p, <2>3, <2>5, FS_EmptySet, CursorsCounted, Lengths DEF Holding, First
    <2>7. tx_held_count = 0
      BY <2>6 DEF Exact
    <2>8. pc' = [pc EXCEPT ![t] = "use"]
      BY <1>1, <2>7 DEF execute_tx, Goto
    <2>9. QED
      BY <2>1, <2>3, <2>8 DEF Alone, Types
  <1>2. ASSUME peak > 1, UNCHANGED peak
        PROVE  Alone'
    BY <1>2, <1>p DEF Alone
  <1>3. ASSUME NEW t \in Threads, pc[t] \notin {"idle", "use", "release"}, UNCHANGED peak
        PROVE  Alone'
    BY <1>2, <1>3, <1>p DEF Alone
  <1>4. ASSUME NEW t \in Threads,
               \/ ReserveAuxTx(t) \/ ShareAuxTx(t) \/ PreferFirst(t) \/ TakeFirst(t)
               \/ create_tx(t) \/ PushAuxTx(t) \/ CreateTxFails(t) \/ GiveBackReservation(t)
        PROVE  Alone'
    BY <1>3, <1>4
    DEF ReserveAuxTx, ShareAuxTx, PreferFirst, TakeFirst, create_tx, PushAuxTx, CreateTxFails,
        GiveBackReservation, historyVars
  <1>5. ASSUME NEW t \in Threads, get_by_encoded_key(t) \/ cursor_read(t)
        PROVE  Alone'
    <2>1. /\ UNCHANGED <<tx, txs, peak>> /\ seen' = seen \cup Saw(t)
          /\ \E l \in {"idle", "use", "release"} : pc' = [pc EXCEPT ![t] = l]
      BY <1>5 DEF get_by_encoded_key, cursor_read, Goto, settings, countVars
    <2> SUFFICES ASSUME peak <= 1 PROVE Alone'
      BY <1>2, <1>p, <2>1
    <2>2. txs = << >> /\ index[t] \in 0..Len(txs)
      BY DEF Alone, Types
    <2>3. index[t] = First
      BY <2>2 DEF First
    <2>4. Saw(t) \subseteq {tx.snapshot}
      BY <2>3 DEF Saw, TxAt
    <2>5. QED
      BY <2>1, <2>4 DEF Alone, Types
  <1>6. ASSUME NEW t \in Threads, CursorFails(t)
        PROVE  Alone'
    BY <1>6, AloneStays DEF CursorFails, Goto, settings, countVars, historyVars
  <1>7. ASSUME NEW i \in 0..Len(txs), Released(i), UNCHANGED <<tx, peak, seen>>,
               \/ UNCHANGED pc
               \/ \E t \in Threads : \E l \in {"idle", "use", "release"} :
                     pc' = [pc EXCEPT ![t] = l]
        PROVE  Alone'
    <2> SUFFICES ASSUME peak <= 1 PROVE Alone'
      BY <1>2, <1>7, <1>p
    <2>1. txs = << >>
      BY DEF Alone
    <2>2. i = First
      BY <2>1 DEF First
    <2>3. UNCHANGED txs
      BY <1>7, <2>2 DEF Released
    <2>4. QED
      BY <1>7, <2>3, AloneStays
  <1>8. ASSUME NEW t \in Threads, post_tx_execution(t)
        PROVE  Alone'
    <2>1. /\ index[t] \in 0..Len(txs) /\ Released(index[t]) /\ UNCHANGED <<tx, peak, seen>>
          /\ pc' = [pc EXCEPT ![t] = "idle"]
      BY <1>8 DEF post_tx_execution, Goto, Types, settings, historyVars
    <2>2. QED
      BY <1>7, <2>1
  <1>9. ASSUME NEW i \in DOMAIN cursors, DropCursor(i)
        PROVE  Alone'
    BY <1>7, <1>9 DEF DropCursor, Types, settings, threadVars, historyVars
  <1>10. CASE Drop \/ WriterCommits
    BY <1>10, AloneStays DEF Drop, WriterCommits, settings, countVars, threadVars, historyVars
  <1>11. CASE DisableSafety
    <2>1. tx'.snapshot = tx.snapshot /\ UNCHANGED <<txs, pc, peak, seen>>
      BY <1>11 DEF DisableSafety, Types, TxRecord, countVars, threadVars
    <2>2. QED
      BY <2>1, AloneStays
  <1>12. CASE TimesOut
    <2>1. tx'.snapshot = tx.snapshot /\ UNCHANGED <<pc, peak, seen>>
      BY <1>12 DEF TimesOut, Types, TxRecord, threadVars, historyVars
    <2>2. DOMAIN txs' = DOMAIN txs /\ txs' \in Seq(AuxTx)
      BY <1>12, TimedOut
    <2> SUFFICES ASSUME peak <= 1 PROVE Alone'
      BY <1>2, <1>p, <2>1
    <2>3. txs = << >>
      BY DEF Alone
    <2>4. UNCHANGED txs
      BY <1>12, <2>3 DEF TimesOut
    <2>5. QED
      BY <2>1, <2>4, AloneStays
  <1>13. QED
    BY <1>0, <1>1, <1>4, <1>5, <1>6, <1>8, <1>9, <1>10, <1>11, <1>12 DEF Next

\* In every behavior of any number of threads, no auxiliary transaction is shared as long as
\* there were never more calls and cursors than max_txs, and a user alone reads one snapshot
\* (parallel_tx.rs:88, :117).
THEOREM ApartWhileThereIsRoom == Spec => []UsersKeptApart
  <1>1. Init => Peak /\ NotSharedWithoutNeed /\ Alone
    <2> SUFFICES ASSUME Init PROVE Peak /\ NotSharedWithoutNeed /\ Alone
      OBVIOUS
    <2>1. txs = << >> /\ DOMAIN txs = {} /\ Len(txs) = 0 /\ peak = 0 /\ seen = {}
      BY DEF Init
    <2>2. 0..Len(txs) = {First} /\ 1..cursors[First] = {}
      BY <2>1 DEF Init, First
    <2>3. Live(cursors, 0..Len(txs)) = {}
      BY <2>2 DEF Live
    <2>4. FiniteCursors /\ Types /\ AllCursors = 0
      BY <2>3, FS_EmptySet, InitTypes, CursorsAre DEF FiniteCursors
    <2>5. Calling(Busy) = {}
      BY DEF Init, Calling, Busy
    <2>6. Users = 0
      BY <2>4, <2>5, UsersAre, FS_EmptySet
    <2>7. \A t \in Threads : pc[t] = "idle"
      BY DEF Init
    <2>8. QED
      BY <2>1, <2>4, <2>6, <2>7 DEF Peak, NotSharedWithoutNeed, Alone
  <1>2. Init => Exact
    BY FirstExact
  <1>3. Peak /\ Types /\ NotSharedWithoutNeed /\ Alone => UsersKeptApart
    BY DEF UsersKeptApart, OneUserOneSnapshot, Alone
  <1>4. Types /\ Types' /\ Exact /\ NeverMoreThanMaxTxs /\ Peak /\ NotSharedWithoutNeed /\ Alone
          /\ [Next]_vars
        => Exact' /\ Peak' /\ NotSharedWithoutNeed' /\ Alone'
    <2> SUFFICES ASSUME Types, Types', Exact, NeverMoreThanMaxTxs, Peak, NotSharedWithoutNeed,
                        Alone, [Next]_vars
                 PROVE  Exact' /\ Peak' /\ NotSharedWithoutNeed' /\ Alone'
      OBVIOUS
    <2>1. Peak' /\ Exact'
      BY PeakKept, ExactKept
    <2>2. NotSharedWithoutNeed'
      BY <2>1, ApartKept
    <2>3. Alone'
      BY AloneKept
    <2>4. QED
      BY <2>1, <2>2, <2>3
  <1>5. QED
    BY <1>1, <1>2, <1>3, <1>4, SpecTypes, AtMostMaxTxs, PTL DEF Spec

-----------------------------------------------------------------------------
(* ClosedWithTheLastCursor.                                                *)

\* The owners of the mutex are the cursors on auxiliary transactions and the set until it is
\* dropped; what was opened was pushed or is about to be; what was closed is nothing before the
\* drop, the first transaction with it, and the others with the last owner.
Books ==
    /\ FiniteCursors
    /\ opened = 1 + Len(txs) + Cardinality(Calling({"push"}))
    /\ closed \in Nat
    /\ inner_refs = AuxCursors + (IF Dropped THEN 0 ELSE 1)
    /\ Dropped => /\ \A t \in Threads : pc[t] = "idle"
                  /\ closed = 1 + (IF inner_refs = 0 THEN Len(txs) ELSE 0)

LEMMA BooksClose ==
    ASSUME Types, Books
    PROVE  ClosedWithTheLastCursor
  <1> SUFFICES ASSUME Dropped
               PROVE  closed = opened <=> AuxCursors = 0
    BY DEF ClosedWithTheLastCursor, AuxCursors
  <1>1. Calling({"push"}) = {}
    BY DEF Books, Calling
  <1>2. opened = 1 + Len(txs) /\ Len(txs) \in Nat
    <2>1. Cardinality(Calling({"push"})) = 0
      BY <1>1, FS_EmptySet
    <2>2. Len(txs) \in Nat
      BY Lengths
    <2>3. QED
      BY <2>1, <2>2 DEF Books
  <1>f. FiniteCursors
    BY DEF Books
  <1>3. AuxCursors \in Nat /\ (Len(txs) = 0 => AuxCursors = 0)
    BY <1>f, CursorsCounted
  <1>4. closed = 1 + (IF AuxCursors = 0 THEN Len(txs) ELSE 0)
    BY <1>3 DEF Books
  <1>5. QED
    BY <1>2, <1>3, <1>4

\* A step of a running call that opens and pushes nothing, or of none.
LEMMA BooksStay ==
    ASSUME Types, Types', Books, Len(txs') = Len(txs), UNCHANGED <<cursors, inner_refs, opened, closed>>,
           \/ UNCHANGED pc
           \/ \E t \in Threads : \E l \in Labels \ {"push"} :
                 /\ pc' = [pc EXCEPT ![t] = l] /\ pc[t] # "push"
                 /\ ~Dropped
    PROVE  Books'
  <1>1. FiniteCursors' /\ AuxCursors' = AuxCursors
    BY CursorsStay DEF Books
  <1>2. Calling({"push"})' = Calling({"push"})
    BY DEF Calling, Types
  <1>3. (\A t \in Threads : pc[t] = "idle") /\ Dropped => \A t \in Threads : pc'[t] = "idle"
    OBVIOUS
  <1>4. QED
    BY <1>1, <1>2, <1>3 DEF Books, Dropped

LEMMA BooksKept ==
    ASSUME Types, Types', Books, [Next]_vars
    PROVE  Books'
  <1>d. \A t \in Threads : pc[t] # "idle" => ~Dropped
    BY DEF Books
  <1>f. FiniteCursors /\ Len(txs) \in Nat /\ AuxCursors \in Nat /\ closed \in Nat
    BY Lengths, CursorsCounted DEF Books
  <1>c. pc \in [Threads -> Labels] /\ Cardinality(Calling({"push"})) \in Nat
    <2>1. IsFiniteSet(Calling({"push"}))
      BY FS_Subset, ParallelTxConstants DEF Calling
    <2>2. QED
      BY <2>1, FS_CardinalityType DEF Types
  <1>0. CASE UNCHANGED vars
    BY <1>0, BooksStay DEF vars, countVars, threadVars, storeVars
  <1>1. ASSUME NEW t \in Threads,
               \/ execute_tx(t) \/ ReserveAuxTx(t) \/ PreferFirst(t) \/ TakeFirst(t)
               \/ CreateTxFails(t) \/ GiveBackReservation(t) \/ get_by_encoded_key(t)
               \/ CursorFails(t)
        PROVE  Books'
    <2>1. UNCHANGED <<cursors, txs, inner_refs, opened, closed>>
      BY <1>1 DEF execute_tx, ReserveAuxTx, PreferFirst, TakeFirst, CreateTxFails,
                  GiveBackReservation, get_by_encoded_key, CursorFails, countVars, storeVars
    <2>2. \E l \in Labels \ {"push"} : pc' = [pc EXCEPT ![t] = l]
      BY <1>1 DEF execute_tx, ReserveAuxTx, PreferFirst, TakeFirst, CreateTxFails,
                  GiveBackReservation, get_by_encoded_key, CursorFails, Goto, Labels
    <2>3. pc[t] # "push" /\ ~Dropped
      BY <1>1, <1>d DEF execute_tx, ReserveAuxTx, PreferFirst, TakeFirst, CreateTxFails,
                  GiveBackReservation, get_by_encoded_key, CursorFails
    <2>4. QED
      BY <2>1, <2>2, <2>3, BooksStay
  <1>2. ASSUME NEW t \in Threads, ShareAuxTx(t) \/ post_tx_execution(t)
        PROVE  Books'
    <2>1. UNCHANGED <<cursors, inner_refs, opened, closed>>
      BY <1>2 DEF ShareAuxTx, post_tx_execution, storeVars
    <2>2. \E l \in Labels \ {"push"} : pc' = [pc EXCEPT ![t] = l]
      BY <1>2 DEF ShareAuxTx, post_tx_execution, Goto, Labels
    <2>3. pc[t] # "push" /\ ~Dropped
      BY <1>2, <1>d DEF ShareAuxTx, post_tx_execution
    <2>4. Len(txs') = Len(txs)
      <3>1. CASE ShareAuxTx(t)
        BY <3>1, CountGrows DEF Types, ShareAuxTx
      <3>2. CASE post_tx_execution(t)
        BY <3>2, GivenBack DEF Types, post_tx_execution
      <3>3. QED
        BY <1>2, <3>1, <3>2
    <2>5. QED
      BY <2>1, <2>2, <2>3, <2>4, BooksStay
  <1>3. ASSUME NEW t \in Threads, create_tx(t)
        PROVE  Books'
    <2>1. /\ UNCHANGED <<cursors, txs, inner_refs, closed>> /\ opened' = opened + 1
          /\ pc[t] = "create" /\ pc' = [pc EXCEPT ![t] = "push"] /\ ~Dropped
      BY <1>3, <1>d DEF create_tx, Goto, countVars
    <2>2. FiniteCursors' /\ AuxCursors' = AuxCursors
      BY <1>f, <2>1, CursorsStay
    <2>3. Cardinality(Calling({"push"})') = Cardinality(Calling({"push"})) + 1
      BY <1>c, <2>1, Moves
    <2>4. ~Dropped'
      BY <2>1 DEF Dropped
    <2>5. opened' = 1 + Len(txs') + Cardinality(Calling({"push"})')
      BY <1>c, <1>f, <2>1, <2>3 DEF Books
    <2>6. QED
      BY <2>1, <2>2, <2>4, <2>5 DEF Books
  <1>4. ASSUME NEW t \in Threads, PushAuxTx(t)
        PROVE  Books'
    <2>1. /\ UNCHANGED <<inner_refs, opened, closed>>
          /\ pc[t] = "push" /\ pc' = [pc EXCEPT ![t] = "use"] /\ ~Dropped
          /\ Len(txs') = Len(txs) + 1
      BY <1>4, <1>d DEF PushAuxTx, Goto, storeVars, Types
    <2>2. FiniteCursors' /\ AuxCursors' = AuxCursors
      BY <1>4, <1>f, CursorsPushed
    <2>3. Cardinality(Calling({"push"})') = Cardinality(Calling({"push"})) - 1
      <3>1. pc[t] \in {"push"} /\ "use" \notin {"push"}
        BY <2>1
      <3>2. QED
        BY <1>c, <2>1, <3>1, Moves
    <2>4. ~Dropped'
      BY <2>1 DEF Dropped
    <2>5. opened' = 1 + Len(txs') + Cardinality(Calling({"push"})')
      BY <1>c, <1>f, <2>1, <2>3 DEF Books
    <2>6. QED
      BY <2>1, <2>2, <2>4, <2>5 DEF Books
  <1>5. ASSUME NEW t \in Threads, cursor_read(t)
        PROVE  Books'
    <2>1. PICK i \in 0..Len(txs) : index[t] = i
      BY DEF Types
    <2>2. /\ UNCHANGED <<txs, opened, closed>>
          /\ pc[t] = "use" /\ pc' = [pc EXCEPT ![t] = "idle"] /\ ~Dropped
          /\ cursors' = [cursors EXCEPT ![i] = @ + 1]
          /\ inner_refs' = inner_refs + (IF i = First THEN 0 ELSE 1)
      BY <1>5, <1>d, <2>1 DEF cursor_read, Goto, storeVars
    <2>3. /\ FiniteCursors'
          /\ AuxCursors' = AuxCursors + (IF i = First THEN 0 ELSE 1)
      BY <1>f, <2>2, CursorGained
    <2>4. Calling({"push"})' = Calling({"push"})
      BY <1>c, <2>2 DEF Calling
    <2>5. ~Dropped'
      BY <2>2 DEF Dropped
    <2>6. inner_refs' = AuxCursors' + 1
      BY <1>f, <2>2, <2>3 DEF Books
    <2>7. QED
      BY <2>2, <2>3, <2>4, <2>5, <2>6 DEF Books
  <1>6. ASSUME NEW i \in DOMAIN cursors, DropCursor(i)
        PROVE  Books'
    <2>1. /\ i \in 0..Len(txs) /\ Released(i) /\ UNCHANGED <<pc, opened>>
          /\ cursors[i] > 0 /\ cursors' = [cursors EXCEPT ![i] = @ - 1]
          /\ inner_refs' = inner_refs - (IF i = First THEN 0 ELSE 1)
          /\ closed' = closed + (IF i # First /\ inner_refs' = 0 THEN Len(txs) ELSE 0)
      BY <1>6 DEF DropCursor, Types, threadVars
    <2>2. Len(txs') = Len(txs)
      BY <2>1, GivenBack
    <2>3. /\ FiniteCursors' /\ AuxCursors' \in Nat
          /\ AuxCursors' = AuxCursors - (IF i = First THEN 0 ELSE 1)
      BY <1>f, <2>1, <2>2, CursorLost
    <2>4. Calling({"push"})' = Calling({"push"})
      BY <2>1 DEF Calling
    <2>5. CASE ~Dropped
      <3>1. inner_refs' = AuxCursors' + 1
        BY <1>f, <2>1, <2>3, <2>5 DEF Books
      <3>2. closed' = closed
        BY <1>f, <2>1, <2>3, <3>1
      <3>3. ~Dropped'
        BY <2>5, <3>2 DEF Dropped
      <3>4. QED
        BY <1>f, <2>1, <2>2, <2>3, <2>4, <3>1, <3>2, <3>3 DEF Books
    <2>6. CASE Dropped
      <3>1. inner_refs = AuxCursors /\ inner_refs' = AuxCursors'
        BY <1>f, <2>1, <2>3, <2>6 DEF Books
      <3>2. /\ closed = 1 + (IF inner_refs = 0 THEN Len(txs) ELSE 0)
            /\ \A t \in Threads : pc[t] = "idle"
        BY <2>6 DEF Books
      <3>3. closed' = 1 + (IF inner_refs' = 0 THEN Len(txs') ELSE 0)
        <4>1. CASE i = First
          BY <1>f, <2>1, <2>2, <3>1, <3>2, <4>1
        <4>2. CASE i # First
          <5>1. inner_refs # 0
            BY <1>f, <2>3, <3>1, <4>2
          <5>2. closed = 1 /\ closed' = closed + (IF inner_refs' = 0 THEN Len(txs) ELSE 0)
            BY <2>1, <3>2, <4>2, <5>1
          <5>3. QED
            BY <1>f, <2>2, <5>2
        <4>3. QED
          BY <4>1, <4>2
      <3>4. closed' \in Nat /\ Dropped'
        BY <1>f, <2>2, <3>3 DEF Dropped
      <3>5. QED
        <4>1. opened' = 1 + Len(txs') + Cardinality(Calling({"push"})')
          BY <2>1, <2>2, <2>4 DEF Books
        <4>2. \A t \in Threads : pc'[t] = "idle"
          BY <2>1, <3>2
        <4>3. QED
          BY <2>3, <3>1, <3>3, <3>4, <4>1, <4>2 DEF Books
    <2>7. QED
      BY <2>5, <2>6
  <1>7. CASE Drop
    <2>1. /\ UNCHANGED <<cursors, txs, pc, opened>> /\ ~Dropped
          /\ \A t \in Threads : pc[t] = "idle"
          /\ inner_refs' = inner_refs - 1
          /\ closed' = 1 + (IF inner_refs' = 0 THEN Len(txs) ELSE 0)
      BY <1>7 DEF Drop, threadVars
    <2>2. FiniteCursors' /\ AuxCursors' = AuxCursors
      BY <1>f, <2>1, CursorsStay
    <2>3. inner_refs' = AuxCursors'
      BY <1>f, <2>1, <2>2 DEF Books
    <2>4. closed' \in Nat /\ Dropped'
      BY <1>f, <2>1 DEF Dropped
    <2>5. Calling({"push"})' = Calling({"push"})
      BY <2>1 DEF Calling
    <2>6. QED
      BY <2>1, <2>2, <2>3, <2>4, <2>5 DEF Books
  <1>8. CASE DisableSafety \/ WriterCommits
    BY <1>8, BooksStay DEF DisableSafety, WriterCommits, countVars, threadVars, storeVars
  <1>9. CASE TimesOut
    <2>1. UNCHANGED <<cursors, inner_refs, opened, closed, pc>>
      BY <1>9 DEF TimesOut, threadVars, storeVars
    <2>2. Len(txs') = Len(txs)
      BY <1>9, TimedOut
    <2>3. QED
      BY <2>1, <2>2, BooksStay
  <1>10. QED
    BY <1>0, <1>1, <1>2, <1>3, <1>4, <1>5, <1>6, <1>7, <1>8, <1>9 DEF Next

\* In every behavior what was recorded as opened is recorded as closed exactly when the set and
\* the last cursor on an auxiliary transaction are gone (parallel_tx.rs:196).
THEOREM OpenedIsClosed == Spec => []ClosedWithTheLastCursor
  <1>1. Init => Books
    <2> SUFFICES ASSUME Init PROVE Books
      OBVIOUS
    <2>1. Len(txs) = 0 /\ opened = 1 /\ closed = 0 /\ inner_refs = 1
      BY DEF Init
    <2>2. 0..Len(txs) = {First} /\ 1..cursors[First] = {}
      BY <2>1 DEF Init, First
    <2>3. Live(cursors, 0..Len(txs)) = {}
      BY <2>2 DEF Live
    <2>4. FiniteCursors /\ Types
      BY <2>3, FS_EmptySet, InitTypes DEF FiniteCursors
    <2>5. AuxCursors = 0
      BY <2>1, <2>4, CursorsCounted
    <2>6. Calling({"push"}) = {}
      BY DEF Init, Calling
    <2>7. QED
      BY <2>1, <2>4, <2>5, <2>6, FS_EmptySet DEF Books, Dropped
  <1>2. QED
    BY <1>1, SpecTypes, BooksKept, BooksClose, PTL DEF Spec
=============================================================================
