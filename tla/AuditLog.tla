------------------------------ MODULE AuditLog ------------------------------
(***************************************************************************)
(* The worker that copies events from the log of the server into the audit *)
(* table (AuditService of audit.py).                                        *)
(*                                                                         *)
(* It remembers in a cursor how far it has read.  A poll looks at the file, *)
(* reads what is new, records it line by line and saves the cursor, each in *)
(* a transaction of its own; what was recorded before a poll was cut short  *)
(* is recognised by a key when it is read again.                            *)
(*                                                                         *)
(* The log is the file at one path.  A line is two units long, so that the  *)
(* worker may find the first half of one, and only lines the parser knows   *)
(* are modelled: the first half of one is still known, the second is not.   *)
(* All lines have the same text, which is the hardest case for the key.     *)
(***************************************************************************)
EXTENDS Naturals, Sequences, FiniteSets

CONSTANTS
  MaxLines,      \* lines the server writes
  MaxRotations,  \* times it replaces or truncates its log
  MaxCuts,       \* polls that are cut short
  None           \* no cursor

VARIABLES
  file,      \* the log: its identity, its lines and its length in units
  cursor,    \* log_cursors
  rows,      \* audit_events
  poll,      \* the poll in progress
  todo,      \* what it has read and not recorded yet
  written,   \* lines written so far; they are numbered
  removed,   \* lines that went with a file
  torn,      \* lines read in two pieces
  swapped,   \* lines read from a file that replaced the one looked at
  rotations, \* counts
  cuts

vars == <<file, cursor, rows, poll, todo, written, removed, torn, swapped, rotations, cuts>>
history == <<written, removed, torn, swapped, rotations, cuts>>

Lines == 1..MaxLines
Units == 0..2 * MaxLines
Identities == 0..MaxRotations
Generations == 0..MaxRotations
Rows == [line : Lines, part : {"whole", "start"}, identity : Identities,
         generation : Generations, relative : Units]
Cursors == [identity : Identities, offset : Units, generation : Generations]
Reads == [line : Lines, part : {"whole", "start", "end"}, relative : Units]
Polls == [step : {"idle", "seen", "read"}, identity : Identities,
          offset : Units, generation : Generations, next : Units]
NoPoll == [step |-> "idle", identity |-> 0, offset |-> 0, generation |-> 0, next |-> 0]

Init ==
  /\ file = [identity |-> 0, lines |-> <<>>, size |-> 0]
  /\ cursor = None
  /\ rows = {}
  /\ poll = NoPoll /\ todo = <<>>
  /\ written = 0
  /\ removed = {} /\ torn = {} /\ swapped = {}
  /\ rotations = 0 /\ cuts = 0

-----------------------------------------------------------------------------
(* The server. *)

(* A log that was truncated is shorter than the cursor says until it is polled. *)
Truncated == cursor # None /\ cursor.identity = file.identity /\ file.size < cursor.offset
Grows(size) == Truncated => size < cursor.offset

HalfLine == file.size % 2 = 1

(* A line arrives in the file at once, or its first half before the second. *)
WriteLine(units) ==
  /\ ~HalfLine /\ written < MaxLines
  /\ Grows(file.size + units)
  /\ written' = written + 1
  /\ file' = [file EXCEPT !.lines = Append(@, written + 1), !.size = @ + units]
  /\ UNCHANGED <<cursor, rows, poll, todo, removed, torn, swapped, rotations, cuts>>

EndLine ==
  /\ HalfLine
  /\ Grows(file.size + 1)
  /\ file' = [file EXCEPT !.size = @ + 1]
  /\ UNCHANGED <<cursor, rows, poll, todo, history>>

Contents == {file.lines[k] : k \in 1..Len(file.lines)}

(* The log is moved out of the directory and a new one begun, or it is emptied *)
(* in place.  That can be noticed when no poll is under way and the cursor is   *)
(* past its beginning.                                                         *)
Noticeable ==
  /\ poll.step = "idle" /\ cursor # None
  /\ cursor.identity = file.identity /\ cursor.offset > 0

Rotate(identity) ==
  /\ rotations < MaxRotations
  /\ identity \in {file.identity, file.identity + 1}
  /\ identity = file.identity => file.size > 0 /\ Noticeable
  /\ rotations' = rotations + 1
  /\ removed' = removed \union Contents
  /\ file' = [identity |-> identity, lines |-> <<>>, size |-> 0]
  /\ UNCHANGED <<cursor, rows, poll, todo, written, torn, swapped, cuts>>

-----------------------------------------------------------------------------
(* A poll: ingest_logs_once. *)

(* Mutant: a log in which nothing is new is taken for a truncated one. *)
RotatedOrSame == cursor.identity # file.identity \/ file.size <= cursor.offset

Rotated == cursor.identity # file.identity \/ file.size < cursor.offset

(* Mutant: a cursor is used whatever file it belongs to. *)
OffsetOfAny == IF cursor = None THEN 0 ELSE cursor.offset

(* Where the new part of the log begins. *)
Offset == IF cursor = None \/ Rotated THEN 0 ELSE cursor.offset

Generation ==
  IF cursor = None THEN 0 ELSE IF Rotated THEN cursor.generation + 1 ELSE cursor.generation

Look ==
  /\ poll.step = "idle"
  /\ poll' = [step |-> "seen", identity |-> file.identity, offset |-> Offset,
              generation |-> Generation, next |-> 0]
  /\ UNCHANGED <<file, cursor, rows, todo, history>>

(* The pieces of lines between the offset and the end of the file. *)
Piece(k) ==
  [line |-> file.lines[k],
   part |-> IF 2 * k - 1 <= poll.offset THEN "end"
            ELSE IF 2 * k > file.size THEN "start" ELSE "whole",
   relative |-> poll.offset + k - poll.offset \div 2 - 1]

Pieces ==
  LET first == poll.offset \div 2
  IN IF file.size <= poll.offset THEN <<>>
     ELSE [i \in 1..Len(file.lines) - first |-> Piece(first + i)]

Among(pieces) == {pieces[i] : i \in 1..Len(pieces)}
LinesOf(pieces) == {p.line : p \in Among(pieces)}

(* The file may be another one than the one looked at. *)
Read ==
  /\ poll.step = "seen"
  /\ todo' = Pieces
  /\ poll' = [poll EXCEPT !.step = "read",
                          !.next = IF file.size > poll.offset THEN file.size ELSE poll.offset]
  /\ torn' = torn \union {p.line : p \in {q \in Among(Pieces) : q.part # "whole"}}
  /\ swapped' = IF file.identity = poll.identity THEN swapped
                                                 ELSE swapped \union LinesOf(Pieces)
  /\ UNCHANGED <<file, cursor, rows, written, removed, rotations, cuts>>

RowOf(p) == [line |-> p.line, part |-> p.part, identity |-> poll.identity,
             generation |-> poll.generation, relative |-> p.relative]

(* The key of a row: path, identity, generation, place and text. *)
Known(r) == \E s \in rows : [s EXCEPT !.line = r.line] = r

Parsed(p) == p.part # "end"

Record ==
  /\ poll.step = "read" /\ todo # <<>>
  /\ rows' = IF Parsed(Head(todo)) /\ ~Known(RowOf(Head(todo)))
             THEN rows \union {RowOf(Head(todo))} ELSE rows
  /\ todo' = Tail(todo)
  /\ UNCHANGED <<file, cursor, poll, history>>

SetCursor ==
  /\ poll.step = "read" /\ todo = <<>>
  /\ cursor' = [identity |-> poll.identity, offset |-> poll.next, generation |-> poll.generation]
  /\ poll' = NoPoll
  /\ UNCHANGED <<file, rows, todo, history>>

(* The database or the file fails, or the console ends; the worker polls again *)
(* after a delay, or after the next start.                                     *)
CutShort ==
  /\ poll.step # "idle"
  /\ cuts < MaxCuts /\ cuts' = cuts + 1
  /\ poll' = NoPoll /\ todo' = <<>>
  /\ UNCHANGED <<file, cursor, rows, written, removed, torn, swapped, rotations>>

Poll == Look \/ Read \/ Record \/ SetCursor

Next ==
  \/ \E units \in {1, 2} : WriteLine(units)
  \/ EndLine
  \/ \E identity \in Identities : Rotate(identity)
  \/ Poll
  \/ CutShort

(* The worker polls for as long as the console runs. *)
Fairness == WF_vars(Poll)

Spec == Init /\ [][Next]_vars /\ Fairness

-----------------------------------------------------------------------------
(* Properties. *)

(* The variables have their types. *)
TypeOK ==
  /\ file \in [identity : Identities, lines : Seq(Lines), size : Units]
  /\ cursor \in Cursors \union {None}
  /\ rows \subseteq Rows
  /\ poll \in Polls
  /\ todo \in Seq(Reads)
  /\ written \in 0..MaxLines
  /\ removed \union torn \union swapped \subseteq Lines
  /\ rotations \in 0..MaxRotations /\ cuts \in 0..MaxCuts

(* No line is recorded twice, however often polls are cut short and the log   *)
(* is rotated, unless it was read in two pieces or the file was replaced      *)
(* between the look at it and its reading (audit.py:256).                     *)
RecordedOnce ==
  \A r, s \in rows : r # s /\ r.line = s.line => r.line \in torn \union swapped

(* Every line is recorded in the end, unless its file went away first or it   *)
(* was read in two pieces: nothing is skipped by a cursor that is ahead of    *)
(* the rows, or belongs to another file (audit.py:261).                       *)
LinesArrive ==
  \A l \in Lines :
    (written >= l) ~> (l \in removed \union torn \/ \E r \in rows : r.line = l)
=============================================================================
