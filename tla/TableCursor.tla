----------------------------- MODULE TableCursor -----------------------------
(***************************************************************************)
(* One table of an open write transaction, and a cursor over it            *)
(* (crates/storage/db/src/implementation/mdbx/cursor.rs, and the writes of *)
(* tx.rs): lookups and steps, walks over a range in either direction or    *)
(* over the duplicates of a key, writes through the cursor and through the *)
(* transaction, and deletions under the feet of a walk.                    *)
(*                                                                         *)
(* A row is <<key, value>>.  A DUPSORT table may hold several values of a  *)
(* key, in order; the first part of a value is its subkey.  What libmdbx   *)
(* answers, and where it leaves the cursor, is taken from how the code and *)
(* the tests beside it use it.                                             *)
(***************************************************************************)
EXTENDS Integers, FiniteSets, Sequences

CONSTANTS
    Keys, Values,       \* naturals: encoding keeps their order
    MaxRows

ASSUME TableConstants == Keys \subseteq Nat /\ Values \subseteq Nat /\ MaxRows \in Nat \ {0}

Subkey(v) == v \div 2

Unset == <<0>>          \* a new cursor: the next row is the first, the previous one the last
End   == <<1>>          \* past the last row, or where a lookup failed
NoRow == << >>
Failed == <<2>>         \* an error in the place of a row
None  == -1

VARIABLES
    table,          \* [dup: DUPSORT, ref: whether values have an uncompressable_ref]
    rows,
    pos,            \* of the cursor: a row, which may have been deleted since, Unset or End
    buf,            \* the values compressed into the cursor's buffer
    walk,           \* the walker over the cursor, or NoWalk
    lastWrite       \* history: the row the last write asked for, until a deletion

cursorVars == <<table, rows, pos, buf, walk, lastWrite>>

NoWalk == [way |-> "none", start |-> NoRow, end_key |-> None, closed |-> FALSE,
           over |-> TRUE, seen |-> << >>, due |-> {}]

TableKinds == {[dup |-> FALSE, ref |-> TRUE], [dup |-> FALSE, ref |-> FALSE],
               [dup |-> TRUE, ref |-> FALSE]}

CursorInit ==
    /\ table \in TableKinds
    /\ rows = {} /\ pos = Unset /\ buf = << >> /\ walk = NoWalk /\ lastWrite = NoRow

Row == Keys \X Values
Before(a, b) == a[1] < b[1] \/ (a[1] = b[1] /\ a[2] < b[2])

Lowest(S)  == IF S = {} THEN NoRow ELSE CHOOSE r \in S : \A q \in S : ~Before(q, r)
Highest(S) == IF S = {} THEN NoRow ELSE CHOOSE r \in S : \A q \in S : ~Before(r, q)

-----------------------------------------------------------------------------
(* The answers of libmdbx.                                                 *)

first == Lowest(rows)
last  == Highest(rows)
set_key(k)   == Lowest({r \in rows : r[1] = k})
set_range(k) == Lowest({r \in rows : r[1] >= k})
get_both_range(k, s) == Lowest({r \in rows : r[1] = k /\ Subkey(r[2]) >= s})

OnRow == pos \in Row
next == CASE pos = Unset -> first
          [] pos = End   -> NoRow
          [] OTHER       -> Lowest({r \in rows : Before(pos, r)})
prev == IF OnRow THEN Highest({r \in rows : Before(r, pos)}) ELSE last
next_dup == IF OnRow THEN Lowest({r \in rows : r[1] = pos[1] /\ Before(pos, r)}) ELSE next
next_nodup == IF OnRow THEN Lowest({r \in rows : r[1] > pos[1]}) ELSE next

\* Where an answer leaves the cursor.  Stepping back from the first row leaves it there, or
\* without a row.
Left(answer) == IF answer = NoRow THEN End ELSE answer
LeftBack(answer) == IF answer = NoRow THEN {pos, Unset} ELSE {answer}

-----------------------------------------------------------------------------
(* Reading without a walker.  The walker has the cursor to itself.         *)

Free == walk = NoWalk

Looked(answer) ==
    /\ Free
    /\ pos' = Left(answer)
    /\ UNCHANGED <<table, rows, buf, walk, lastWrite>>

SeekEnds == Looked(first) \/ Looked(last)
SeekKey(k) == Looked(set_key(k)) \/ Looked(set_range(k))
SeekByKeySubkey(k, s) == table.dup /\ Looked(get_both_range(k, s))
StepOn == Looked(next) \/ (table.dup /\ (Looked(next_dup) \/ Looked(next_nodup)))
StepBack ==
    /\ Free
    /\ pos' \in LeftBack(prev)
    /\ UNCHANGED <<table, rows, buf, walk, lastWrite>>

-----------------------------------------------------------------------------
(* Writing.                                                                *)

\* Faulty: the buffer is not cleared first.
CompressedAfter(v) == Append(buf, v)

\* compress_to_buf: the buffer is cleared, then filled.
Compressed(v) == <<v>>

\* What the bytes given to libmdbx decompress to: compress_to_buf_or_ref!.
Given(v) == IF table.ref THEN v ELSE Head(Compressed(v))

BufferUsed(v) == buf' = IF table.ref THEN buf ELSE Compressed(v)

\* WriteFlags::UPSERT replaces the value of the key; with duplicates it adds one.
Put(k, v) == {r \in rows : table.dup \/ r[1] # k} \cup {<<k, v>>}

HasRoom == Free /\ Cardinality(rows) < MaxRows

Written(k, v, asked) ==
    /\ rows' = Put(k, v)
    /\ pos' = <<k, v>>
    /\ lastWrite' = <<k, asked>>
    /\ UNCHANGED <<table, walk>>

Refused(left) ==
    /\ pos' \in left
    /\ UNCHANGED <<table, rows, walk, lastWrite>>

Upsert(k, v) == HasRoom /\ BufferUsed(v) /\ Written(k, Given(v), v)

\* NO_OVERWRITE: a key that is there refuses, and the cursor is on it.
Insert(k, v) ==
    /\ HasRoom /\ BufferUsed(v)
    /\ IF set_key(k) = NoRow
       THEN Written(k, Given(v), v)
       ELSE Refused({r \in rows : r[1] = k})

\* APPEND: a key below the last one refuses.  Whether a plain table takes its last key again
\* is libmdbx's.
CursorAppend(k, v) ==
    /\ HasRoom /\ BufferUsed(v)
    /\ LET below == last # NoRow /\ k < last[1]
           again == last # NoRow /\ k = last[1] /\ ~table.dup
       IN  \/ ~below /\ Written(k, Given(v), v)
           \/ (below \/ again) /\ Refused({last})

\* APPEND_DUP: a value below the last one of the key refuses.
AppendDup(k, v) ==
    /\ table.dup /\ HasRoom /\ BufferUsed(v)
    /\ IF \E r \in rows : r[1] = k /\ v < r[2]
       THEN Refused({r \in rows : r[1] = k} \cup {End})
       ELSE Written(k, Given(v), v)

\* put of the transaction has a buffer of its own and moves no cursor.
TxPut(k, v) ==
    /\ HasRoom
    /\ OnRow => pos \in rows \cap Put(k, v)
    /\ rows' = Put(k, v) /\ lastWrite' = <<k, v>>
    /\ UNCHANGED <<table, pos, buf, walk>>

-----------------------------------------------------------------------------
(* Deleting.  A walk does not give a row deleted before it came to it: but *)
(* the row it starts with was read when it was made.                       *)

Removed(S) ==
    /\ rows' = rows \ S
    /\ lastWrite' = IF lastWrite \in S THEN NoRow ELSE lastWrite
    /\ walk' = [walk EXCEPT !.due = @ \ {r \in S : r # walk.start /\
                                            \A i \in DOMAIN walk.seen : walk.seen[i] # r}]
    /\ UNCHANGED <<table, buf>>

\* Callers delete the row the cursor just gave; without a row it is an error.
DeleteCurrent == Free /\ pos \in rows /\ Removed({pos}) /\ UNCHANGED pos
DeleteCurrentDuplicates ==
    /\ Free /\ table.dup /\ pos \in rows
    /\ Removed({r \in rows : r[1] = pos[1]})
    /\ UNCHANGED pos

\* Without a value, all of the key.
TxDelete(k, v) ==
    /\ Removed({r \in rows : r[1] = k /\ (v = None \/ r[2] = v)})
    /\ UNCHANGED pos
TxClear == Removed(rows) /\ pos' = Unset

-----------------------------------------------------------------------------
(* Walks.                                                                  *)

Within(k) ==
    walk.end_key = None \/ k < walk.end_key \/ (walk.closed /\ k = walk.end_key)

\* Faulty: the walk starts at the key itself.
StartAtKey(k) == IF k = None THEN first ELSE set_key(k)

StartAt(k) == IF k = None THEN first ELSE set_range(k)

Starts(way, answer, end_key, closed, over, due) ==
    /\ Free
    /\ pos' = Left(answer)
    /\ walk' = [way |-> way, start |-> answer, end_key |-> end_key, closed |-> closed,
                over |-> over, seen |-> << >>, due |-> due]
    /\ UNCHANGED <<table, rows, buf, lastWrite>>

Walk(k) == Starts("on", StartAt(k), None, FALSE, FALSE, {r \in rows : r[1] >= k})

\* A range walker without a first row, or with one past its end, is done.
WalkRange(k, end_key, closed) ==
    LET beyond(r) == r[1] > end_key \/ (r[1] = end_key /\ ~closed)
        start     == StartAt(k)
    IN  Starts("on", start, end_key, closed, start = NoRow \/ beyond(start),
               {r \in rows : r[1] >= k /\ ~beyond(r)})

\* Backwards from the first row at or past the key.
WalkBack(k) ==
    Starts("back", IF k = None THEN last ELSE set_range(k), None, FALSE, FALSE,
           {r \in rows : k = None \/ \A q \in rows : q[1] >= k => ~Before(q, r)})

\* The first row of walk_dup: the subkey is sought in the key given, or in the first key.
DupStart(k, s) ==
    CASE k # None /\ s # None -> get_both_range(k, s)
      [] k # None /\ s = None -> set_key(k)
      [] k = None /\ s # None -> IF first = NoRow THEN Failed ELSE get_both_range(first[1], s)
      [] OTHER                -> first

WalkDup(k, s) ==
    LET of == IF k = None /\ rows # {} THEN first[1] ELSE k
    IN  /\ table.dup /\ Free
        /\ pos' = IF DupStart(k, s) \in Row THEN DupStart(k, s) ELSE End
        /\ walk' = [NoWalk EXCEPT !.way = "dup", !.start = DupStart(k, s), !.over = FALSE,
                                  !.due = {r \in rows : r[1] = of /\ Subkey(r[2]) >= s}]
        /\ UNCHANGED <<table, rows, buf, lastWrite>>

\* The walker gives the row it was made with, then those its cursor comes to; the range ends
\* at its end key.  After an error the walk goes on.
Gives(item) ==
    walk' = IF item \in Row /\ Within(item[1])
            THEN [walk EXCEPT !.seen = Append(@, item), !.start = NoRow]
            ELSE [walk EXCEPT !.over = (item # Failed), !.start = NoRow]

WalkerNext ==
    /\ ~walk.over
    /\ \/ walk.start # NoRow /\ Gives(walk.start) /\ UNCHANGED pos
       \/ walk.start = NoRow /\ walk.way = "on"   /\ Gives(next) /\ pos' = Left(next)
       \/ walk.start = NoRow /\ walk.way = "dup"  /\ Gives(next_dup) /\ pos' = Left(next_dup)
       \/ walk.start = NoRow /\ walk.way = "back" /\ Gives(prev) /\ pos' \in LeftBack(prev)
    /\ UNCHANGED <<table, rows, buf, lastWrite>>

\* delete_current of a walker forgets the row it was made with, and deletes where the cursor
\* is.
WalkerDelete ==
    /\ ~walk.over /\ pos \in rows
    /\ rows' = rows \ {pos}
    /\ lastWrite' = IF lastWrite = pos THEN NoRow ELSE lastWrite
    /\ walk' = [walk EXCEPT !.start = NoRow,
                            !.due = IF walk.start = NoRow THEN @ ELSE @ \ {pos}]
    /\ UNCHANGED <<table, pos, buf>>

WalkerDropped == ~Free /\ walk' = NoWalk /\ UNCHANGED <<table, rows, pos, buf, lastWrite>>

-----------------------------------------------------------------------------
CursorReads ==
    \/ SeekEnds \/ StepOn \/ StepBack
    \/ \E k \in Keys : SeekKey(k)
    \/ \E k \in Keys, v \in Values : SeekByKeySubkey(k, Subkey(v))

CursorWrites ==
    \/ \E k \in Keys, v \in Values :
          Upsert(k, v) \/ Insert(k, v) \/ CursorAppend(k, v) \/ AppendDup(k, v) \/ TxPut(k, v)
    \/ \E k \in Keys, v \in Values \cup {None} : TxDelete(k, v)
    \/ DeleteCurrent \/ DeleteCurrentDuplicates \/ TxClear

CursorWalks ==
    \/ \E k \in Keys \cup {None} : Walk(k) \/ WalkBack(k)
    \/ \E k \in Keys \cup {None}, e \in Keys, c \in BOOLEAN : WalkRange(k, e, c)
    \/ \E k \in Keys \cup {None}, s \in {Subkey(v) : v \in Values} \cup {None} : WalkDup(k, s)
    \/ WalkerNext \/ WalkerDelete \/ WalkerDropped

CursorNext == CursorReads \/ CursorWrites \/ CursorWalks

CursorSpec == CursorInit /\ [][CursorNext]_cursorVars

-----------------------------------------------------------------------------
\* Types; and a table without duplicates has one row of a key (the UPSERT and
\* NO_OVERWRITE flags of put).
TableTypeOK ==
    /\ table \in TableKinds
    /\ rows \subseteq Row
    /\ table.dup \/ \A r, q \in rows : r[1] = q[1] => r = q
    /\ pos \in Row \cup {Unset, End}
    /\ buf \in Seq(Values) /\ Len(buf) <= 1
    /\ lastWrite \in Row \cup {NoRow}

\* The rows a walk gives are in order, none twice, and when it is over they are all
\* the rows of its range: those that were there when it began, without the ones
\* deleted before it came to them.  This is so for every kind of walk, whatever its
\* start, and whatever is deleted meanwhile, by the walker or by the transaction.
WalksMeetEveryRow ==
    LET seen == walk.seen
        sorted == \A i, j \in DOMAIN seen :
                     i < j => IF walk.way = "back" THEN Before(seen[j], seen[i])
                                                   ELSE Before(seen[i], seen[j])
        given == {seen[i] : i \in DOMAIN seen}
    IN  /\ sorted /\ given \subseteq walk.due
        /\ walk.over => given = walk.due

\* A write that succeeds leaves in the table the value it was asked to write: what
\* earlier writes left in the cursor's buffer does not show.
WrittenAsAsked == lastWrite # NoRow => lastWrite \in rows

\* Writes reach the table as asked, and leave it the kind of table it is.
WritesReachTheTable == TableTypeOK /\ WrittenAsAsked
=============================================================================
