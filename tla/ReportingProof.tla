--------------------------- MODULE ReportingProof ---------------------------
(***************************************************************************)
(* Reporting proved for any bounds.  The audit log: a line that is read    *)
(* again after a poll was cut short is recognised.  The roster of pals:    *)
(* pages are counted from the pals on display, and every answer that       *)
(* counts is of the one snapshot the page knows.                           *)
(***************************************************************************)
EXTENDS Reporting, Integers, FiniteSetTheorems, TLAPS

(***************************************************************************)
(* The audit log: its inductive invariant.                                 *)
(***************************************************************************)

\* The lines of the log by their place.
Places == 1..Len(file.lines)

\* The line was read in one piece from the file that was looked at.
Sound(l) == l \notin torn \union swapped

\* The file looked at is still the log.
SameFile == poll.identity = file.identity

\* The row of line k of the log, read as a whole from this offset.
RowFrom(k, offset, generation) ==
  [line |-> file.lines[k], part |-> "whole", identity |-> file.identity,
   generation |-> generation, relative |-> offset + k - offset \div 2 - 1]

\* Every line is written once, and only lines that were written are read and
\* recorded.
Numbered ==
  /\ Len(file.lines) <= written
  /\ \A k \in Places : file.lines[k] \in 1..written
  /\ \A j, k \in Places : file.lines[j] = file.lines[k] => j = k
  /\ \A r \in rows : r.line <= written
  /\ \A p \in Log!Among(todo) : p.line <= written

\* A line is two units, and only the last may be half written.
Sized == file.size = 2 * Len(file.lines) \/ file.size = 2 * Len(file.lines) - 1

\* Every new generation took a rotation, and files follow each other in
\* order.
Counted ==
  /\ cursor # None => cursor.generation + (file.identity - cursor.identity) <= rotations
  /\ Log!Truncated => cursor.generation < rotations
  /\ cursor # None => cursor.identity <= file.identity
  /\ poll.step # "idle" => poll.identity <= file.identity
                             /\ poll.generation + (file.identity - poll.identity) <= rotations
  /\ file.identity <= rotations

\* What is recorded of lines behind the offset has the key the next poll
\* would give it: a cut poll left it.
AheadOfCursor ==
  \A k \in Places, r \in rows :
    Sound(file.lines[k]) /\ 2 * k > Log!Offset /\ r.line = file.lines[k]
      => r = RowFrom(k, Log!Offset, Log!Generation)

\* A line the next poll begins in the middle of was split.
SplitAtCursor == \A k \in Places : Log!Offset = 2 * k - 1 => ~Sound(file.lines[k])

\* A poll goes on from where the next one would, or its file is gone; then no
\* line of the new one is recorded.
PollFits ==
  /\ poll.step = "idle" => poll = Log!NoPoll
  /\ poll.step # "read" => todo = <<>>
  /\ poll.step # "idle" /\ SameFile =>
       poll.offset = Log!Offset /\ poll.generation = Log!Generation
  /\ poll.step # "idle" /\ ~SameFile =>
       \A k \in Places, r \in rows : Sound(file.lines[k]) => r.line # file.lines[k]

\* Behind what a poll has read nothing is recorded, and a line it ends in was
\* split.
ReadFits ==
  poll.step = "read" /\ SameFile =>
    /\ poll.next <= file.size
    /\ \A k \in Places : poll.next = 2 * k - 1 => ~Sound(file.lines[k])
    /\ \A k \in Places, r \in rows : Sound(file.lines[k]) /\ 2 * k > poll.next => r.line # file.lines[k]

\* What is to be recorded of a line is what was recorded of it before, or the
\* first.
TodoFits ==
  \A p \in Log!Among(todo) : Sound(p.line) =>
    /\ p.part = "whole"
    /\ \A q \in Log!Among(todo) : q.line = p.line => q = p
    /\ \A r \in rows : r.line = p.line => r = Log!RowOf(p)
    /\ SameFile => \E k \in Places : /\ p.line = file.lines[k] /\ 2 * k <= poll.next
                                     /\ Log!RowOf(p) = RowFrom(k, poll.offset, poll.generation)
    /\ ~SameFile => \A k \in Places : file.lines[k] # p.line

\* The inductive invariant.
IInv == Log!TypeOK /\ Numbered /\ Sized /\ Counted /\ AheadOfCursor /\ SplitAtCursor
          /\ PollFits /\ ReadFits /\ TodoFits /\ RecordedOnce

(***************************************************************************)
(* What the steps do to the file and what a poll reads of it.              *)
(***************************************************************************)

\* Types of the log.
LEMMA LinesHave ==
  ASSUME Log!TypeOK
  PROVE  /\ file.lines \in Seq(Log!Lines) /\ Len(file.lines) \in Nat
         /\ \A k \in Places : file.lines[k] \in Log!Lines /\ k \in Nat
         /\ file.size \in Nat /\ file.identity \in Nat /\ written \in Nat
  BY ReportingAssumption DEF Log!TypeOK, Log!Lines, Log!Units, Log!Identities, Places

\* A poll begins within the file.
LEMMA OffsetIs ==
  ASSUME Log!TypeOK
  PROVE  /\ Log!Offset \in Log!Units /\ Log!Offset \in Nat
         /\ Log!Offset <= file.size
  BY ReportingAssumption DEF Log!TypeOK, Log!Offset, Log!Rotated, Log!Units, Log!Cursors, Log!Generations, Log!Identities

\* A poll is of a generation for which there was a rotation.
LEMMA GenerationIs ==
  ASSUME Log!TypeOK, Counted
  PROVE  /\ Log!Generation \in Log!Generations
         /\ Log!Generation <= rotations
  BY ReportingAssumption DEF Log!TypeOK, Log!Generation, Log!Rotated, Log!Units, Log!Cursors, Log!Generations,
     Log!Identities, Counted, Log!Truncated

\* What writing a line does to the file.
LEMMA WriteLineIs ==
  ASSUME Log!TypeOK, Numbered, Sized, NEW units \in {1, 2}, Log!WriteLine(units)
  PROVE  /\ file'.identity = file.identity
         /\ file'.lines = Append(file.lines, written + 1)
         /\ file'.size = file.size + units
         /\ Len(file'.lines) = Len(file.lines) + 1
         /\ \A k \in Places : file'.lines[k] = file.lines[k]
         /\ file'.lines[Len(file.lines) + 1] = written + 1
         /\ file' \in [identity : Log!Identities, lines : Seq(Log!Lines), size : Log!Units]
         /\ file.size = 2 * Len(file.lines)
<1>1. /\ file \in [identity : Log!Identities, lines : Seq(Log!Lines), size : Log!Units]
      /\ file' = [file EXCEPT !.lines = Append(@, written + 1), !.size = @ + units]
      /\ written < MaxLines /\ written \in Nat /\ ~Log!HalfLine /\ written + 1 \in Log!Lines
  BY ReportingAssumption DEF Log!WriteLine, Log!TypeOK, Log!Lines
<1>2. file'.identity = file.identity /\ file'.lines = Append(file.lines, written + 1) /\ file'.size = file.size + units
  BY <1>1
<1>3. /\ Append(file.lines, written + 1) \in Seq(Log!Lines)
      /\ Len(Append(file.lines, written + 1)) = Len(file.lines) + 1
      /\ \A k \in 1..Len(file.lines) : Append(file.lines, written + 1)[k] = file.lines[k]
      /\ Append(file.lines, written + 1)[Len(file.lines) + 1] = written + 1
  BY <1>1, LinesHave
<1>4. file.size = 2 * Len(file.lines)
  BY <1>1, LinesHave DEF Sized, Log!HalfLine
<1>5. file.size + units \in Log!Units
  BY <1>1, <1>4, LinesHave, ReportingAssumption DEF Numbered, Log!Units
<1> QED
  BY <1>1, <1>2, <1>3, <1>4, <1>5 DEF Places

\* What ending a line does to the file.
LEMMA EndLineIs ==
  ASSUME Log!TypeOK, Numbered, Sized, Log!EndLine
  PROVE  /\ file'.identity = file.identity /\ file'.lines = file.lines
         /\ file'.size = file.size + 1
         /\ file' \in [identity : Log!Identities, lines : Seq(Log!Lines), size : Log!Units]
         /\ file.size = 2 * Len(file.lines) - 1
<1>1. /\ file \in [identity : Log!Identities, lines : Seq(Log!Lines), size : Log!Units]
      /\ file' = [file EXCEPT !.size = @ + 1]
      /\ Log!HalfLine /\ written \in Nat /\ written <= MaxLines
  BY ReportingAssumption DEF Log!EndLine, Log!TypeOK
<1>2. file.size = 2 * Len(file.lines) - 1
  BY <1>1, LinesHave DEF Sized, Log!HalfLine
<1>3. file.size + 1 \in Log!Units
  BY <1>1, <1>2, LinesHave, ReportingAssumption DEF Numbered, Log!Units
<1> QED
  BY <1>1, <1>2, <1>3

\* While the log grows the worker would go on from the same place.
LEMMA GrowthKeepsPlace ==
  ASSUME Log!TypeOK, NEW size \in Nat, size >= file.size, Log!Grows(size),
         cursor' = cursor, file'.identity = file.identity, file'.size = size
  PROVE  /\ Log!Offset' = Log!Offset /\ Log!Generation' = Log!Generation
         /\ Log!Truncated' <=> Log!Truncated
<1>1. cursor \in Log!Cursors \/ cursor = None
  BY DEF Log!TypeOK
<1>2. cursor # None => cursor.offset \in Nat
  BY <1>1 DEF Log!Cursors, Log!Units
<1>3. file.size \in Nat
  BY LinesHave
<1> QED
  BY <1>2, <1>3 DEF Log!Offset, Log!Generation, Log!Rotated, Log!Truncated, Log!Grows

\* A piece is one of a line behind the offset.
LEMMA PieceIs ==
  ASSUME Log!TypeOK, NEW p \in Log!Among(Log!Pieces)
  PROVE  /\ file.size > poll.offset
         /\ \E k \in Places : k > poll.offset \div 2 /\ p = Log!Piece(k)
<1>1. poll.offset \in Nat
  BY DEF Log!TypeOK, Log!Polls, Log!Units
<1>2. PICK i \in 1..Len(Log!Pieces) : p = Log!Pieces[i]
  BY DEF Log!Among
<1>3. file.size > poll.offset
  BY <1>1, <1>2, LinesHave DEF Log!Pieces
<1> DEFINE n == Len(file.lines) - poll.offset \div 2
<1>4. poll.offset \div 2 \in Nat /\ n \in Int
  <2>1. poll.offset \div 2 \in Nat
    BY <1>1
  <2> QED
    BY <2>1, LinesHave
<1> HIDE DEF n
<1>5. Log!Pieces = [j \in 1..n |-> Log!Piece(poll.offset \div 2 + j)]
  BY <1>1, <1>3, LinesHave DEF Log!Pieces, n
<1>6. CASE n >= 1
  <2>1. Len(Log!Pieces) = n
    BY <1>4, <1>5, <1>6
  <2>2. p = Log!Piece(poll.offset \div 2 + i) /\ i \in 1..n
    BY <1>2, <1>5, <2>1
  <2>3. poll.offset \div 2 + i \in Places /\ poll.offset \div 2 + i > poll.offset \div 2
    BY <1>4, <2>2, LinesHave DEF Places, n
  <2> QED
    BY <1>3, <2>2, <2>3
<1>7. CASE n < 1
  <2>1. Log!Pieces = <<>>
    BY <1>4, <1>5, <1>7
  <2> QED
    BY <1>2, <2>1
<1> QED
  BY <1>4, <1>6, <1>7

\* What is read is of the type of what is to be recorded.
LEMMA PiecesAreReads ==
  ASSUME Log!TypeOK, Sized, Numbered
  PROVE  Log!Pieces \in Seq(Log!Reads)
<1>1. poll.offset \in Nat
  BY DEF Log!TypeOK, Log!Polls, Log!Units
<1>2. CASE file.size > poll.offset
  <2> DEFINE n == Len(file.lines) - poll.offset \div 2
             f == poll.offset \div 2
  <2>1. n \in Nat /\ f \in Nat /\ n + f = Len(file.lines) /\ 2 * f + 1 >= poll.offset
    BY <1>1, <1>2, LinesHave DEF Sized
  <2>2. Log!Pieces = [j \in 1..n |-> Log!Piece(f + j)]
    BY <1>1, <1>2, LinesHave DEF Log!Pieces
  <2>3. \A j \in 1..n : f + j \in Places
    BY <2>1, LinesHave DEF Places
  <2>4. \A j \in 1..n : Log!Piece(f + j) \in Log!Reads
    <3> SUFFICES ASSUME NEW j \in 1..n PROVE Log!Piece(f + j) \in Log!Reads
      OBVIOUS
    <3>1. file.lines[f + j] \in Log!Lines
      BY <2>3, LinesHave
    <3>2. poll.offset + (f + j) - f - 1 \in Log!Units
      <4> DEFINE len == Len(file.lines)
      <4>1. len <= MaxLines /\ len \in Nat /\ j \in Nat /\ j <= n /\ j >= 1 /\ poll.offset <= 2 * f + 1
        BY <2>1, LinesHave, ReportingAssumption DEF Numbered, Log!TypeOK
      <4>2. n + f = len /\ n \in Nat /\ f \in Nat
        BY <2>1
      <4> HIDE DEF n, f, len
      <4>3. poll.offset + (f + j) - f - 1 = poll.offset + j - 1
        BY <4>1, <4>2, <1>1
      <4>4. poll.offset + j - 1 <= 2 * MaxLines /\ poll.offset + j - 1 \in Nat
        BY <4>1, <4>2, <1>1, ReportingAssumption
      <4> QED
        BY <4>3, <4>4, ReportingAssumption DEF Log!Units
    <3>3. Log!Piece(f + j).relative = poll.offset + (f + j) - f - 1
      BY DEF Log!Piece
    <3>4. Log!Piece(f + j).line = file.lines[f + j]
      BY DEF Log!Piece
    <3>5. Log!Piece(f + j).part \in {"whole", "start", "end"}
      BY DEF Log!Piece
    <3>6. Log!Piece(f + j) = [line |-> Log!Piece(f + j).line, part |-> Log!Piece(f + j).part,
                              relative |-> Log!Piece(f + j).relative]
      BY DEF Log!Piece
    <3> QED
      BY <3>1, <3>2, <3>3, <3>4, <3>5, <3>6 DEF Log!Reads
  <2> HIDE DEF n, f
  <2> QED
    BY <2>1, <2>2, <2>4
<1>3. CASE ~(file.size > poll.offset)
  BY <1>1, <1>3, LinesHave DEF Log!Pieces
<1> QED
  BY <1>2, <1>3

(***************************************************************************)
(* The server and the polls, step by step.                                 *)
(***************************************************************************)

\* The parts about rows and polls.
Rest == AheadOfCursor /\ SplitAtCursor /\ PollFits /\ ReadFits /\ TodoFits /\ RecordedOnce

\* Rows and pieces have numbered lines.
LEMMA RowLines ==
  ASSUME Log!TypeOK
  PROVE  /\ \A r \in rows : r \in Log!Rows /\ r.line \in Nat
         /\ \A p \in Log!Among(todo) : p \in Log!Reads /\ p.line \in Nat
<1>1. \A r \in rows : r \in Log!Rows /\ r.line \in Nat
  BY DEF Log!TypeOK, Log!Rows, Log!Lines
<1>2. \A p \in Log!Among(todo) : p \in Log!Reads
  BY DEF Log!TypeOK, Log!Among
<1>3. \A p \in Log!Reads : p.line \in Nat
  BY DEF Log!Reads, Log!Lines
<1> QED
  BY <1>1, <1>2, <1>3

\* The log grows: no row and no piece is of the new line.
LEMMA GrowthKeeps ==
  ASSUME IInv, UNCHANGED <<rows, poll, todo, torn, swapped>>,
         file'.identity = file.identity, file'.size \in Nat, file'.size >= file.size,
         file'.lines \in Seq(Log!Lines),
         \A k \in Places : k \in Places' /\ file'.lines[k] = file.lines[k],
         \A k \in Places' \ Places : file'.lines[k] = written + 1 /\ 2 * k - 1 > file.size,
         Log!Offset' = Log!Offset, Log!Generation' = Log!Generation
  PROVE  Rest'
<1>1. /\ Log!TypeOK /\ Numbered /\ AheadOfCursor /\ SplitAtCursor /\ PollFits /\ ReadFits /\ TodoFits /\ RecordedOnce
  BY DEF IInv
<1>2. /\ \A l : Sound(l)' <=> Sound(l)
      /\ SameFile' <=> SameFile
      /\ \A k \in Places : \A o, g : RowFrom(k, o, g)' = RowFrom(k, o, g)
  BY DEF Sound, SameFile, RowFrom
<1>3. \A k \in Places' \ Places :
        /\ \A r \in rows : r.line # file'.lines[k]
        /\ \A p \in Log!Among(todo) : p.line # file'.lines[k]
  BY <1>1, RowLines, LinesHave DEF Numbered
<1>4. Log!Among(todo)' = Log!Among(todo) /\ \A p : Log!RowOf(p)' = Log!RowOf(p)
  BY DEF Log!Among, Log!RowOf
<1>5. AheadOfCursor'
  <2> SUFFICES ASSUME NEW k \in Places', NEW r \in rows, Sound(file'.lines[k]), 2 * k > Log!Offset,
                      r.line = file'.lines[k]
               PROVE  r = [line |-> file'.lines[k], part |-> "whole", identity |-> file'.identity,
                           generation |-> Log!Generation, relative |-> Log!Offset + k - Log!Offset \div 2 - 1]
    BY <1>2 DEF AheadOfCursor, RowFrom
  <2>1. k \in Places
    BY <1>3
  <2> QED
    BY <1>1, <2>1 DEF AheadOfCursor, RowFrom
<1>6. SplitAtCursor'
  <2> SUFFICES ASSUME NEW k \in Places', Log!Offset = 2 * k - 1
               PROVE  file'.lines[k] \in torn \union swapped
    BY DEF SplitAtCursor, Sound
  <2>1. k \in Nat
    BY DEF Places
  <2>2. k \in Places
    BY <1>1, <2>1, OffsetIs, LinesHave
  <2> QED
    BY <1>1, <2>2 DEF SplitAtCursor, Sound
<1>7. PollFits'
  BY <1>1, <1>2, <1>3 DEF PollFits
<1>8. ReadFits'
  <2> SUFFICES ASSUME poll.step = "read", SameFile
               PROVE  /\ poll.next <= file'.size
                      /\ \A k \in Places' : poll.next = 2 * k - 1 => file'.lines[k] \in torn \union swapped
                      /\ \A k \in Places', r \in rows :
                           file'.lines[k] \notin torn \union swapped /\ 2 * k > poll.next => r.line # file'.lines[k]
    BY <1>2 DEF ReadFits, Sound
  <2>1. poll.next \in Nat
    BY <1>1 DEF Log!TypeOK, Log!Polls, Log!Units
  <2>2. /\ poll.next <= file.size
        /\ \A k \in Places : poll.next = 2 * k - 1 => file.lines[k] \in torn \union swapped
        /\ \A k \in Places, r \in rows :
             file.lines[k] \notin torn \union swapped /\ 2 * k > poll.next => r.line # file.lines[k]
    BY <1>1 DEF ReadFits, Sound
  <2>3. \A k \in Places' \ Places : poll.next # 2 * k - 1
    <3>1. \A k \in Places' : k \in Nat
      BY DEF Places
    <3> QED
      BY <1>1, <2>1, <2>2, <3>1, LinesHave
  <2> QED
    BY <1>1, <1>3, <2>1, <2>2, <2>3, LinesHave
<1>9. TodoFits'
  <2> SUFFICES ASSUME NEW p \in Log!Among(todo), Sound(p.line)
               PROVE  /\ p.part = "whole"
                      /\ \A q \in Log!Among(todo) : q.line = p.line => q = p
                      /\ \A r \in rows : r.line = p.line => r = Log!RowOf(p)
                      /\ SameFile => \E k \in Places' : /\ p.line = file'.lines[k] /\ 2 * k <= poll.next
                                                        /\ Log!RowOf(p) = RowFrom(k, poll.offset, poll.generation)'
                      /\ ~SameFile => \A k \in Places' : file'.lines[k] # p.line
    BY <1>2, <1>4 DEF TodoFits
  <2>1. /\ p.part = "whole"
        /\ \A q \in Log!Among(todo) : q.line = p.line => q = p
        /\ \A r \in rows : r.line = p.line => r = Log!RowOf(p)
    BY <1>1 DEF TodoFits
  <2>2. ASSUME SameFile
        PROVE  \E k \in Places' : /\ p.line = file'.lines[k] /\ 2 * k <= poll.next
                                  /\ Log!RowOf(p) = RowFrom(k, poll.offset, poll.generation)'
    <3>1. PICK k \in Places : /\ p.line = file.lines[k] /\ 2 * k <= poll.next
                              /\ Log!RowOf(p) = RowFrom(k, poll.offset, poll.generation)
      BY <1>1, <2>2 DEF TodoFits
    <3> QED
      BY <1>2, <3>1
  <2>3. ASSUME ~SameFile
        PROVE  \A k \in Places' : file'.lines[k] # p.line
    BY <1>1, <1>3, <2>3 DEF TodoFits
  <2> QED
    BY <2>1, <2>2, <2>3
<1>10. RecordedOnce'
  BY <1>1 DEF RecordedOnce, Log!RecordedOnce
<1> QED
  BY <1>5, <1>6, <1>7, <1>8, <1>9, <1>10 DEF Rest

\* A line is written.
LEMMA WriteLineKeeps ==
  ASSUME IInv, NEW units \in {1, 2}, Log!WriteLine(units)
  PROVE  IInv'
<1>1. Log!TypeOK /\ Numbered /\ Sized /\ Counted
  BY DEF IInv
<1>2. /\ file'.identity = file.identity
      /\ file'.lines = Append(file.lines, written + 1)
      /\ file'.size = file.size + units
      /\ Len(file'.lines) = Len(file.lines) + 1
      /\ \A k \in Places : file'.lines[k] = file.lines[k]
      /\ file'.lines[Len(file.lines) + 1] = written + 1
      /\ file' \in [identity : Log!Identities, lines : Seq(Log!Lines), size : Log!Units]
      /\ file.size = 2 * Len(file.lines)
  BY <1>1, WriteLineIs
<1>3. /\ written' = written + 1 /\ written < MaxLines /\ Log!Grows(file.size + units)
      /\ UNCHANGED <<cursor, rows, poll, todo, removed, torn, swapped, rotations, cuts>>
  BY DEF Log!WriteLine
<1>4. Log!TypeOK'
  BY <1>1, <1>2, <1>3, ReportingAssumption DEF Log!TypeOK
<1>5. /\ Log!Offset' = Log!Offset /\ Log!Generation' = Log!Generation
      /\ Log!Truncated' <=> Log!Truncated
  BY <1>1, <1>2, <1>3, GrowthKeepsPlace, LinesHave
<1>6. /\ Places' = Places \union {Len(file.lines) + 1} /\ Len(file.lines) + 1 \notin Places
  BY <1>1, <1>2, LinesHave DEF Places
<1>7. Rest'
  <2>1. /\ UNCHANGED <<rows, poll, todo, torn, swapped>>
        /\ file'.size \in Nat /\ file'.size >= file.size
        /\ file'.lines \in Seq(Log!Lines)
    BY <1>1, <1>2, <1>3, LinesHave
  <2>2. \A k \in Places : k \in Places' /\ file'.lines[k] = file.lines[k]
    BY <1>2, <1>6
  <2>3. \A k \in Places' \ Places : file'.lines[k] = written + 1 /\ 2 * k - 1 > file.size
    BY <1>1, <1>2, <1>6, LinesHave
  <2> QED
    BY <1>2, <1>5, <2>1, <2>2, <2>3, GrowthKeeps
<1>8. Numbered'
  <2>1. Log!Among(todo)' = Log!Among(todo)
    BY <1>3 DEF Log!Among
  <2>2. \A k \in Places' : k \in Places \/ k = Len(file.lines) + 1
    BY <1>6
  <2>3. \A k \in Places : file.lines[k] \in Nat /\ file.lines[k] <= written /\ file.lines[k] >= 1
    BY <1>1, LinesHave DEF Numbered
  <2>4. Len(file'.lines) <= written'
    BY <1>1, <1>2, <1>3, LinesHave DEF Numbered
  <2>5. \A k \in Places' : file'.lines[k] \in 1..written'
    <3>1. \A k \in Places : file'.lines[k] \in Nat /\ file'.lines[k] <= written + 1 /\ file'.lines[k] >= 1
      <4>1. \A k \in Places : file'.lines[k] = file.lines[k]
        BY <1>2
      <4>2. written \in Nat
        BY <1>1, LinesHave
      <4> QED
        BY <2>3, <4>1, <4>2
    <3>2. file'.lines[Len(file.lines) + 1] = written + 1 /\ written' = written + 1 /\ written \in Nat
      BY <1>1, <1>2, <1>3, LinesHave
    <3> QED
      BY <2>2, <3>1, <3>2
  <2>6. \A j, k \in Places' : file'.lines[j] = file'.lines[k] => j = k
    <3>1. \A j, k \in Places : file.lines[j] = file.lines[k] => j = k
      BY <1>1 DEF Numbered
    <3>2. \A k \in Places : file.lines[k] # written + 1
      BY <1>1, <2>3, LinesHave
    <3> QED
      BY <1>2, <2>2, <3>1, <3>2
  <2>7. \A r \in rows' : r.line <= written'
    BY <1>1, <1>3, LinesHave, RowLines DEF Numbered
  <2>8. \A p \in Log!Among(todo)' : p.line <= written'
    BY <1>1, <1>3, <2>1, LinesHave, RowLines DEF Numbered
  <2> QED
    BY <2>4, <2>5, <2>6, <2>7, <2>8 DEF Numbered
<1>9. Sized' /\ Counted'
  <2>1. Sized'
    BY <1>1, <1>2, LinesHave DEF Sized
  <2>2. Counted'
    BY <1>1, <1>2, <1>3, <1>5 DEF Counted
  <2> QED
    BY <2>1, <2>2
<1> QED
  BY <1>4, <1>7, <1>8, <1>9 DEF IInv, Rest

\* A line is ended.
LEMMA EndLineKeeps ==
  ASSUME IInv, Log!EndLine
  PROVE  IInv'
<1>1. Log!TypeOK /\ Numbered /\ Sized /\ Counted
  BY DEF IInv
<1>2. /\ file'.identity = file.identity /\ file'.lines = file.lines
      /\ file'.size = file.size + 1
      /\ file' \in [identity : Log!Identities, lines : Seq(Log!Lines), size : Log!Units]
      /\ file.size = 2 * Len(file.lines) - 1
  BY <1>1, EndLineIs
<1>3. /\ Log!Grows(file.size + 1)
      /\ UNCHANGED <<cursor, rows, poll, todo, written, removed, torn, swapped, rotations, cuts>>
  BY DEF Log!EndLine, Log!history
<1>4. Log!TypeOK'
  BY <1>1, <1>2, <1>3 DEF Log!TypeOK
<1>5. /\ Log!Offset' = Log!Offset /\ Log!Generation' = Log!Generation
      /\ Log!Truncated' <=> Log!Truncated
  BY <1>1, <1>2, <1>3, GrowthKeepsPlace, LinesHave
<1>6. Places' = Places
  BY <1>2 DEF Places
<1>7. Rest'
  BY <1>1, <1>2, <1>3, <1>5, <1>6, GrowthKeeps, LinesHave
<1>8. Numbered'
  BY <1>1, <1>2, <1>3, <1>6 DEF Numbered, Log!Among
<1>9. Sized' /\ Counted'
  BY <1>1, <1>2, <1>3, <1>5, LinesHave DEF Sized, Counted, SameFile
<1> QED
  BY <1>4, <1>7, <1>8, <1>9 DEF IInv, Rest

\* A new log has no lines, and a poll under way is of another file.
LEMMA RotateKeeps ==
  ASSUME IInv, NEW identity \in Log!Identities, Log!Rotate(identity)
  PROVE  IInv'
<1>1. /\ Log!TypeOK /\ Numbered /\ Sized /\ Counted /\ PollFits /\ TodoFits /\ RecordedOnce
  BY DEF IInv
<1>2. /\ file' = [identity |-> identity, lines |-> <<>>, size |-> 0]
      /\ rotations < MaxRotations /\ rotations' = rotations + 1
      /\ removed' = removed \union Log!Contents
      /\ identity \in {file.identity, file.identity + 1}
      /\ identity = file.identity => file.size > 0 /\ Log!Noticeable
      /\ UNCHANGED <<cursor, rows, poll, todo, written, torn, swapped, cuts>>
  BY DEF Log!Rotate
<1>3. file'.identity = identity /\ file'.lines = <<>> /\ file'.size = 0 /\ Len(file'.lines) = 0 /\ Places' = {}
  BY <1>2 DEF Places
<1>4. Log!TypeOK'
  <2>1. file' \in [identity : Log!Identities, lines : Seq(Log!Lines), size : Log!Units]
    BY <1>2, ReportingAssumption DEF Log!Units
  <2>2. removed' \subseteq Log!Lines
    BY <1>1, <1>2, LinesHave DEF Log!TypeOK, Log!Contents, Places
  <2> QED
    BY <1>1, <1>2, <2>1, <2>2, ReportingAssumption DEF Log!TypeOK
<1>5. Numbered' /\ Sized'
  BY <1>1, <1>2, <1>3 DEF Numbered, Sized, Log!Among, Log!TypeOK
<1>6. Counted'
  <2>1. /\ cursor # None => cursor.identity \in Nat /\ cursor.generation \in Nat /\ cursor.offset \in Nat
        /\ poll.identity \in Nat /\ poll.generation \in Nat /\ rotations \in Nat /\ file.identity \in Nat
    BY <1>1, LinesHave DEF Log!TypeOK, Log!Cursors, Log!Polls, Log!Identities, Log!Generations, Log!Units
  <2>2. CASE identity = file.identity + 1
    <3>1. cursor # None => cursor.identity <= file.identity
      BY <1>1 DEF Counted
    <3>2. ~Log!Truncated'
      BY <1>2, <1>3, <2>1, <2>2, <3>1 DEF Log!Truncated
    <3>3. cursor # None => cursor.generation + (file.identity - cursor.identity) <= rotations
      BY <1>1, <2>1 DEF Counted
    <3>4. /\ poll.step # "idle" => poll.identity <= file.identity
                             /\ poll.generation + (file.identity - poll.identity) <= rotations
          /\ file.identity <= rotations
      BY <1>1 DEF Counted
    <3> QED
      BY <1>2, <1>3, <2>1, <2>2, <3>1, <3>2, <3>3, <3>4 DEF Counted
  <2>3. CASE identity = file.identity
    <3>1. poll.step = "idle" /\ cursor # None /\ cursor.identity = file.identity
      BY <1>2, <2>3 DEF Log!Noticeable
    <3> QED
      BY <1>1, <1>2, <1>3, <2>1, <2>3, <3>1 DEF Counted
  <2> QED
    BY <1>2, <2>2, <2>3
<1>7. AheadOfCursor' /\ SplitAtCursor'
  BY <1>3 DEF AheadOfCursor, SplitAtCursor
<1>8. poll.step # "idle" => ~SameFile'
  <2>1. poll.step # "idle" => identity = file.identity + 1 /\ poll.identity <= file.identity
    BY <1>1, <1>2 DEF Log!Noticeable, Counted
  <2> QED
    BY <1>1, <1>2, <1>3, <2>1, LinesHave DEF SameFile, Log!TypeOK, Log!Polls, Log!Identities
<1>9. PollFits' /\ ReadFits'
  BY <1>1, <1>2, <1>3, <1>8 DEF PollFits, ReadFits
<1>10. TodoFits'
  <2>1. CASE todo = <<>>
    BY <1>2, <2>1 DEF TodoFits, Log!Among
  <2>2. CASE todo # <<>>
    <3>1. ~SameFile'
      BY <1>1, <1>8, <2>2 DEF PollFits
    <3>2. Log!Among(todo)' = Log!Among(todo) /\ \A p : Log!RowOf(p)' = Log!RowOf(p) /\ \A l : Sound(l)' <=> Sound(l)
      BY <1>2 DEF Log!Among, Log!RowOf, Sound
    <3> QED
      BY <1>1, <1>2, <1>3, <3>1, <3>2 DEF TodoFits
  <2> QED
    BY <2>1, <2>2
<1>11. RecordedOnce'
  BY <1>1, <1>2 DEF RecordedOnce, Log!RecordedOnce
<1> QED
  BY <1>4, <1>5, <1>6, <1>7, <1>9, <1>10, <1>11 DEF IInv

\* A poll begins.
LEMMA LookKeeps ==
  ASSUME IInv, Log!Look
  PROVE  IInv'
<1>1. /\ Log!TypeOK /\ Numbered /\ Sized /\ Counted /\ AheadOfCursor /\ SplitAtCursor /\ PollFits /\ RecordedOnce
  BY DEF IInv
<1>2. /\ poll.step = "idle"
      /\ poll' = [step |-> "seen", identity |-> file.identity, offset |-> Log!Offset,
                  generation |-> Log!Generation, next |-> 0]
      /\ UNCHANGED <<file, cursor, rows, todo, written, removed, torn, swapped, rotations, cuts>>
  BY DEF Log!Look, Log!history
<1>3. todo = <<>>
  BY <1>1, <1>2 DEF PollFits
<1>4. /\ poll'.step = "seen" /\ poll'.identity = file.identity /\ poll'.offset = Log!Offset
      /\ poll'.generation = Log!Generation
  BY <1>2
<1>5. Log!Offset' = Log!Offset /\ Log!Generation' = Log!Generation
  BY <1>2 DEF Log!Offset, Log!Generation, Log!Rotated
<1>6. Log!TypeOK'
  <2>1. poll' \in Log!Polls
    BY <1>1, <1>2, OffsetIs, GenerationIs, ReportingAssumption DEF Log!Polls, Log!TypeOK, Log!Units
  <2> QED
    BY <1>1, <1>2, <2>1 DEF Log!TypeOK
<1>7. Numbered' /\ Sized'
  BY <1>1, <1>2 DEF Numbered, Sized, Log!Among, Places
<1>8. Counted'
  <2>1. file.identity \in Nat /\ rotations \in Nat /\ Log!Generation \in Nat
    BY <1>1, LinesHave, GenerationIs DEF Log!TypeOK, Log!Generations
  <2> QED
    BY <1>1, <1>2, <1>4, <2>1, GenerationIs DEF Counted, Log!Truncated
<1>9. AheadOfCursor' /\ SplitAtCursor'
  BY <1>1, <1>2, <1>5 DEF AheadOfCursor, SplitAtCursor, Places, Sound, RowFrom
<1>10. PollFits' /\ ReadFits'
  BY <1>2, <1>3, <1>4, <1>5 DEF PollFits, ReadFits, SameFile
<1>11. TodoFits'
  BY <1>2, <1>3 DEF TodoFits, Log!Among
<1>12. RecordedOnce'
  BY <1>1, <1>2 DEF RecordedOnce, Log!RecordedOnce
<1> QED
  BY <1>6, <1>7, <1>8, <1>9, <1>10, <1>11, <1>12 DEF IInv

\* A poll is cut short; the next one will read the same again.
LEMMA CutShortKeeps ==
  ASSUME IInv, Log!CutShort
  PROVE  IInv'
<1>1. /\ Log!TypeOK /\ Numbered /\ Sized /\ Counted /\ AheadOfCursor /\ SplitAtCursor /\ RecordedOnce
  BY DEF IInv
<1>2. /\ cuts < MaxCuts /\ cuts' = cuts + 1
      /\ poll' = Log!NoPoll /\ todo' = <<>>
      /\ UNCHANGED <<file, cursor, rows, written, removed, torn, swapped, rotations>>
  BY DEF Log!CutShort
<1>3. Log!TypeOK'
  <2>1. Log!NoPoll \in Log!Polls
    BY ReportingAssumption DEF Log!NoPoll, Log!Polls, Log!Identities, Log!Units, Log!Generations
  <2> QED
    BY <1>1, <1>2, <2>1, ReportingAssumption DEF Log!TypeOK
<1>4. Numbered' /\ Sized'
  BY <1>1, <1>2 DEF Numbered, Sized, Log!Among, Places
<1>5. Counted'
  BY <1>1, <1>2 DEF Counted, Log!Truncated, Log!NoPoll
<1>6. AheadOfCursor' /\ SplitAtCursor'
  BY <1>1, <1>2 DEF AheadOfCursor, SplitAtCursor, Places, Sound, RowFrom, Log!Offset, Log!Generation, Log!Rotated
<1>7. PollFits' /\ ReadFits' /\ TodoFits'
  BY <1>2 DEF PollFits, ReadFits, TodoFits, Log!NoPoll, Log!Among
<1>8. RecordedOnce'
  BY <1>1, <1>2 DEF RecordedOnce, Log!RecordedOnce
<1> QED
  BY <1>3, <1>4, <1>5, <1>6, <1>7, <1>8 DEF IInv

\* Every line behind the offset is read.
LEMMA PieceIsRead ==
  ASSUME Log!TypeOK, NEW k \in Places, k > poll.offset \div 2, file.size > poll.offset
  PROVE  Log!Piece(k) \in Log!Among(Log!Pieces)
<1>1. poll.offset \in Nat
  BY DEF Log!TypeOK, Log!Polls, Log!Units
<1> DEFINE f == poll.offset \div 2
           n == Len(file.lines) - f
           i == k - f
<1>2. f \in Nat
  BY <1>1
<1>3. n \in Nat /\ i \in 1..n /\ f + i = k
  BY <1>2, LinesHave DEF Places
<1>4. Log!Pieces = [j \in 1..n |-> Log!Piece(f + j)]
  BY <1>1, LinesHave DEF Log!Pieces
<1> HIDE DEF n, f, i
<1>5. Len(Log!Pieces) = n /\ Log!Pieces[i] = Log!Piece(k)
  BY <1>3, <1>4
<1> QED
  BY <1>3, <1>5 DEF Log!Among

\* The log is read: what was recorded of its lines before has the same key.
LEMMA ReadKeeps ==
  ASSUME IInv, Log!Read
  PROVE  IInv'
<1>1. /\ Log!TypeOK /\ Numbered /\ Sized /\ Counted /\ AheadOfCursor /\ SplitAtCursor /\ PollFits /\ RecordedOnce
  BY DEF IInv
<1> DEFINE next == IF file.size > poll.offset THEN file.size ELSE poll.offset
<1>2. /\ poll.step = "seen" /\ todo' = Log!Pieces
      /\ poll' = [poll EXCEPT !.step = "read", !.next = next]
      /\ torn' = torn \union {p.line : p \in {q \in Log!Among(Log!Pieces) : q.part # "whole"}}
      /\ swapped' = IF SameFile THEN swapped ELSE swapped \union Log!LinesOf(Log!Pieces)
      /\ UNCHANGED <<file, cursor, rows, written, removed, rotations, cuts>>
  BY DEF Log!Read, SameFile
<1>3. /\ poll.offset \in Nat /\ poll.offset \in Log!Units /\ file.size \in Log!Units
      /\ poll \in Log!Polls
  BY <1>1 DEF Log!TypeOK, Log!Polls, Log!Units
<1>4. poll' \in Log!Polls /\ poll'.step = "read" /\ poll'.next = next
      /\ poll'.identity = poll.identity /\ poll'.offset = poll.offset /\ poll'.generation = poll.generation
  BY <1>2, <1>3 DEF Log!Polls
<1>5. \A p \in Log!Among(Log!Pieces) :
        /\ file.size > poll.offset
        /\ \E k \in Places : k > poll.offset \div 2 /\ p = Log!Piece(k)
        /\ p.line \in Log!Lines /\ p.line <= written
  <2>1. \A k \in Places : Log!Piece(k).line \in Log!Lines /\ Log!Piece(k).line <= written
    BY <1>1, LinesHave DEF Log!Piece, Numbered
  <2> QED
    BY <1>1, <2>1, PieceIs
<1>6. Log!Among(todo)' = Log!Among(Log!Pieces)
  BY <1>2 DEF Log!Among
<1>7. Log!TypeOK'
  <2>1. todo' \in Seq(Log!Reads)
    BY <1>1, <1>2, PiecesAreReads
  <2>2. (removed \union torn \union swapped)' \subseteq Log!Lines
    BY <1>1, <1>2, <1>5 DEF Log!TypeOK, Log!LinesOf
  <2> QED
    BY <1>1, <1>2, <1>4, <2>1, <2>2 DEF Log!TypeOK
<1>8. Numbered' /\ Sized' /\ Counted'
  <2>1. Numbered'
    BY <1>1, <1>2, <1>5, <1>6 DEF Numbered, Places
  <2>2. Sized' /\ Counted'
    BY <1>1, <1>2, <1>4 DEF Sized, Counted, Log!Truncated
  <2> QED
    BY <2>1, <2>2
<1>9. \A l : l \in torn \union swapped => l \in torn' \union swapped'
  BY <1>2
<1>10. Log!Offset' = Log!Offset /\ Log!Generation' = Log!Generation /\ Places' = Places
       /\ (SameFile' <=> SameFile)
  BY <1>2, <1>4 DEF Log!Offset, Log!Generation, Log!Rotated, Places, SameFile
<1>11. AheadOfCursor' /\ SplitAtCursor'
  BY <1>1, <1>2, <1>9, <1>10 DEF AheadOfCursor, SplitAtCursor, RowFrom, Sound
<1>12. PollFits'
  BY <1>1, <1>2, <1>4, <1>9, <1>10 DEF PollFits, Sound
<1>13. SameFile => poll.offset = Log!Offset /\ poll.generation = Log!Generation /\ next = file.size
  BY <1>1, <1>2, <1>3, OffsetIs, LinesHave DEF PollFits
<1>14. \A k \in Places : SameFile /\ 2 * k > file.size => file.lines[k] \in torn' \union swapped'
  <2> SUFFICES ASSUME NEW k \in Places, SameFile, 2 * k > file.size
               PROVE  file.lines[k] \in torn' \union swapped'
    OBVIOUS
  <2>1. k \in Nat /\ 2 * k - 1 = file.size /\ Len(file.lines) \in Nat /\ file.size \in Nat
    BY <1>1, LinesHave DEF Sized, Places
  <2>2. CASE file.size > poll.offset
    <3>1. k > poll.offset \div 2
      BY <1>3, <2>1, <2>2
    <3>2. Log!Piece(k) \in Log!Among(Log!Pieces)
      BY <1>1, <2>2, <3>1, PieceIsRead
    <3>3. Log!Piece(k).part # "whole" /\ Log!Piece(k).line = file.lines[k]
      BY <2>1 DEF Log!Piece
    <3> QED
      BY <1>2, <3>2, <3>3
  <2>3. CASE ~(file.size > poll.offset)
    <3>1. Log!Offset = 2 * k - 1
      BY <1>3, <1>13, <2>1, <2>3
    <3> QED
      BY <1>1, <1>9, <3>1 DEF SplitAtCursor, Sound
  <2> QED
    BY <2>2, <2>3
<1>15. ReadFits'
  <2> SUFFICES ASSUME SameFile
               PROVE  /\ next <= file.size
                      /\ \A k \in Places : next = 2 * k - 1 => file.lines[k] \in torn' \union swapped'
                      /\ \A k \in Places, r \in rows :
                           file.lines[k] \notin torn' \union swapped' /\ 2 * k > next => r.line # file.lines[k]
    BY <1>2, <1>4, <1>10 DEF ReadFits, Sound
  <2>1. \A k \in Places : file.size = 2 * k - 1 => 2 * k > file.size
    BY <1>1, LinesHave
  <2> QED
    BY <1>1, <1>13, <1>14, <2>1, LinesHave
<1>16. TodoFits'
  <2>1. \A p : Log!RowOf(p)' = Log!RowOf(p)
    BY <1>4 DEF Log!RowOf
  <2> SUFFICES ASSUME NEW p \in Log!Among(Log!Pieces), p.line \notin torn' \union swapped'
               PROVE  /\ p.part = "whole"
                      /\ \A q \in Log!Among(Log!Pieces) : q.line = p.line => q = p
                      /\ \A r \in rows : r.line = p.line => r = Log!RowOf(p)
                      /\ SameFile => \E k \in Places : /\ p.line = file.lines[k] /\ 2 * k <= next
                                                       /\ Log!RowOf(p) = RowFrom(k, poll.offset, poll.generation)
                      /\ ~SameFile => \A k \in Places : file.lines[k] # p.line
    <3>1. \A k \in Places : RowFrom(k, poll.offset, poll.generation)' = RowFrom(k, poll.offset, poll.generation)
      BY <1>2, <1>4 DEF RowFrom
    <3> QED
      BY <1>2, <1>4, <1>6, <1>10, <2>1, <3>1 DEF TodoFits, Sound
  <2>2. SameFile /\ p.part = "whole"
    BY <1>2 DEF Log!LinesOf
  <2>3. PICK k \in Places : k > poll.offset \div 2 /\ p = Log!Piece(k)
    BY <1>5
  <2>4. p.line = file.lines[k] /\ 2 * k <= file.size /\ ~(2 * k - 1 <= poll.offset)
        /\ p.relative = poll.offset + k - poll.offset \div 2 - 1
    BY <2>2, <2>3, LinesHave, <1>1 DEF Log!Piece
  <2>5. \A q \in Log!Among(Log!Pieces) : q.line = p.line => q = p
    <3> SUFFICES ASSUME NEW q \in Log!Among(Log!Pieces), q.line = p.line PROVE q = p
      OBVIOUS
    <3>1. PICK j \in Places : q = Log!Piece(j)
      BY <1>5
    <3>2. q.line = file.lines[j]
      BY <3>1 DEF Log!Piece
    <3> QED
      BY <1>1, <2>3, <2>4, <3>1, <3>2 DEF Numbered
  <2>6. Log!RowOf(p) = RowFrom(k, poll.offset, poll.generation)
    BY <2>2, <2>4 DEF Log!RowOf, RowFrom, SameFile
  <2>7. 2 * k > poll.offset
    BY <1>1, <1>3, <2>4, LinesHave
  <2>8. file.lines[k] \notin torn \union swapped
    BY <1>9, <2>4
  <2>9. \A r \in rows : r.line = p.line => r = Log!RowOf(p)
    BY <1>1, <1>13, <2>2, <2>4, <2>6, <2>7, <2>8 DEF AheadOfCursor, Sound
  <2>10. next = file.size
    BY <1>13, <2>2
  <2> HIDE DEF next
  <2> QED
    BY <2>2, <2>4, <2>5, <2>6, <2>9, <2>10
<1>17. RecordedOnce'
  BY <1>1, <1>2, <1>9 DEF RecordedOnce, Log!RecordedOnce
<1> QED
  BY <1>7, <1>8, <1>11, <1>12, <1>15, <1>16, <1>17 DEF IInv

\* A row of a sound line that was not there before is the first of its line.
LEMMA RecordKeeps ==
  ASSUME IInv, Log!Record
  PROVE  IInv'
<1>1. /\ Log!TypeOK /\ Numbered /\ Sized /\ Counted /\ AheadOfCursor /\ SplitAtCursor /\ PollFits
      /\ ReadFits /\ TodoFits /\ RecordedOnce
  BY DEF IInv
<1> DEFINE h == Head(todo)
<1>2. /\ poll.step = "read" /\ todo # <<>> /\ todo' = Tail(todo)
      /\ rows' = IF Log!Parsed(h) /\ ~Log!Known(Log!RowOf(h)) THEN rows \union {Log!RowOf(h)} ELSE rows
      /\ UNCHANGED <<file, cursor, poll, written, removed, torn, swapped, rotations, cuts>>
  BY DEF Log!Record, Log!history
<1>3. /\ h \in Log!Among(todo) /\ h \in Log!Reads
      /\ Tail(todo) \in Seq(Log!Reads) /\ Log!Among(Tail(todo)) \subseteq Log!Among(todo)
  <2>1. todo \in Seq(Log!Reads)
    BY <1>1 DEF Log!TypeOK
  <2>2. Len(todo) \in Nat /\ Len(todo) >= 1 /\ h = todo[1]
    BY <1>2, <2>1
  <2>3. Tail(todo) \in Seq(Log!Reads) /\ Len(Tail(todo)) = Len(todo) - 1
        /\ \A i \in 1..Len(todo) - 1 : Tail(todo)[i] = todo[i + 1]
    BY <1>2, <2>1
  <2> QED
    BY <2>1, <2>2, <2>3 DEF Log!Among
<1> HIDE DEF h
<1>4. Log!RowOf(h).line = h.line
  BY DEF Log!RowOf
<1>5. \A l : Sound(l)' <=> Sound(l)
  BY <1>2 DEF Sound
<1>6. \A r \in rows' : r \in rows \/ (r = Log!RowOf(h) /\ Log!Parsed(h) /\ ~Log!Known(Log!RowOf(h)))
  BY <1>2
<1>7. rows' \subseteq Log!Rows
  <2>1. Log!Parsed(h) => Log!RowOf(h) \in Log!Rows
    BY <1>1, <1>3 DEF Log!Parsed, Log!RowOf, Log!Rows, Log!TypeOK, Log!Reads, Log!Polls
  <2> QED
    BY <1>1, <1>6, <2>1 DEF Log!TypeOK
<1>8. Log!TypeOK'
  BY <1>1, <1>2, <1>3, <1>7 DEF Log!TypeOK
<1>9. Log!Among(todo)' \subseteq Log!Among(todo)
  BY <1>2, <1>3 DEF Log!Among
<1>10. Numbered' /\ Sized' /\ Counted'
  <2>1. Numbered'
    BY <1>1, <1>2, <1>3, <1>4, <1>6, <1>9 DEF Numbered, Places
  <2>2. Sized' /\ Counted'
    BY <1>1, <1>2 DEF Sized, Counted, Log!Truncated
  <2> QED
    BY <2>1, <2>2
<1>11. Log!Offset' = Log!Offset /\ Log!Generation' = Log!Generation /\ Places' = Places
       /\ (SameFile' <=> SameFile)
  BY <1>2 DEF Log!Offset, Log!Generation, Log!Rotated, Places, SameFile
<1>12. Sound(h.line) =>
         /\ h.part = "whole"
         /\ \A q \in Log!Among(todo) : q.line = h.line => q = h
         /\ \A r \in rows : r.line = h.line => r = Log!RowOf(h)
         /\ SameFile => \E k \in Places : /\ h.line = file.lines[k] /\ 2 * k <= poll.next
                                          /\ Log!RowOf(h) = RowFrom(k, poll.offset, poll.generation)
         /\ ~SameFile => \A k \in Places : file.lines[k] # h.line
  BY <1>1, <1>3 DEF TodoFits
<1>13. AheadOfCursor'
  <2> SUFFICES ASSUME NEW k \in Places, NEW r \in rows', Sound(file.lines[k]), 2 * k > Log!Offset,
                      r.line = file.lines[k]
               PROVE  r = RowFrom(k, Log!Offset, Log!Generation)
    BY <1>2, <1>5, <1>11 DEF AheadOfCursor, RowFrom
  <2>1. CASE r \in rows
    BY <1>1, <2>1 DEF AheadOfCursor
  <2>2. CASE r = Log!RowOf(h)
    <3>1. h.line = file.lines[k] /\ Sound(h.line)
      BY <1>4, <2>2
    <3>2. SameFile
      BY <1>12, <3>1
    <3>3. PICK j \in Places : /\ h.line = file.lines[j]
                              /\ Log!RowOf(h) = RowFrom(j, poll.offset, poll.generation)
      BY <1>12, <3>1, <3>2
    <3>4. j = k
      BY <1>1, <3>1, <3>3 DEF Numbered
    <3>5. poll.offset = Log!Offset /\ poll.generation = Log!Generation
      BY <1>1, <1>2, <3>2 DEF PollFits
    <3> QED
      BY <2>2, <3>3, <3>4, <3>5
  <2> QED
    BY <1>6, <2>1, <2>2
<1>14. SplitAtCursor'
  BY <1>1, <1>2, <1>5, <1>11 DEF SplitAtCursor
<1>15. PollFits'
  <2>1. ~SameFile => \A k \in Places, r \in rows' : Sound(file.lines[k]) => r.line # file.lines[k]
    BY <1>1, <1>2, <1>4, <1>6, <1>12 DEF PollFits
  <2> QED
    BY <1>1, <1>2, <1>5, <1>11, <2>1 DEF PollFits
<1>16. ReadFits'
  <2>1. SameFile => \A k \in Places, r \in rows' :
                      Sound(file.lines[k]) /\ 2 * k > poll.next => r.line # file.lines[k]
    <3> SUFFICES ASSUME SameFile, NEW k \in Places, NEW r \in rows', Sound(file.lines[k]), 2 * k > poll.next,
                        r.line = file.lines[k]
                 PROVE  FALSE
      OBVIOUS
    <3>1. CASE r \in rows
      BY <1>1, <1>2, <3>1 DEF ReadFits
    <3>2. CASE r = Log!RowOf(h)
      <4>1. h.line = file.lines[k] /\ Sound(h.line)
        BY <1>4, <3>2
      <4>2. PICK j \in Places : h.line = file.lines[j] /\ 2 * j <= poll.next
        BY <1>12, <4>1
      <4>3. j = k /\ k \in Nat
        BY <1>1, <4>1, <4>2, LinesHave DEF Numbered
      <4>4. poll.next \in Nat
        BY <1>1 DEF Log!TypeOK, Log!Polls, Log!Units
      <4> QED
        BY <4>2, <4>3, <4>4
    <3> QED
      BY <1>6, <3>1, <3>2
  <2> QED
    BY <1>1, <1>2, <1>5, <1>11, <2>1 DEF ReadFits
<1>17. TodoFits'
  <2> SUFFICES ASSUME NEW p \in Log!Among(todo), Sound(p.line), NEW r \in rows', r.line = p.line
               PROVE  r = Log!RowOf(p)
    <3>1. /\ \A p : Log!RowOf(p)' = Log!RowOf(p)
          /\ \A k, o, g : RowFrom(k, o, g)' = RowFrom(k, o, g)
          /\ \A k : RowFrom(k, poll.offset, poll.generation)' = RowFrom(k, poll.offset, poll.generation)
      BY <1>2 DEF Log!RowOf, RowFrom
    <3> QED
      BY <1>1, <1>2, <1>5, <1>9, <1>11, <3>1 DEF TodoFits
  <2>1. CASE r \in rows
    BY <1>1, <2>1 DEF TodoFits
  <2>2. CASE r = Log!RowOf(h)
    <3>1. p.line = h.line /\ Sound(h.line)
      BY <1>4, <2>2
    <3>2. p = h
      BY <1>12, <3>1
    <3> QED
      BY <2>2, <3>2
  <2> QED
    BY <1>6, <2>1, <2>2
<1>18. RecordedOnce'
  <2> SUFFICES ASSUME NEW r \in rows', NEW s \in rows', r.line = s.line, Sound(r.line)
               PROVE  r = s
    BY <1>2 DEF RecordedOnce, Log!RecordedOnce, Sound
  <2>1. r \in rows /\ s \in rows => r = s
    BY <1>1 DEF RecordedOnce, Log!RecordedOnce, Sound
  <2>2. r = Log!RowOf(h) /\ s \in rows => r = s
    BY <1>4, <1>12
  <2>3. r \in rows /\ s = Log!RowOf(h) => r = s
    BY <1>4, <1>12
  <2> QED
    BY <1>6, <2>1, <2>2, <2>3
<1> QED
  BY <1>8, <1>10, <1>13, <1>14, <1>15, <1>16, <1>17, <1>18 DEF IInv

\* The cursor moves behind what was recorded, or belongs to a file that is
\* gone.
LEMMA SetCursorKeeps ==
  ASSUME IInv, Log!SetCursor
  PROVE  IInv'
<1>1. /\ Log!TypeOK /\ Numbered /\ Sized /\ Counted /\ AheadOfCursor /\ SplitAtCursor /\ PollFits
      /\ ReadFits /\ RecordedOnce
  BY DEF IInv
<1>2. /\ poll.step = "read" /\ todo = <<>> /\ todo' = <<>> /\ poll' = Log!NoPoll
      /\ cursor' = [identity |-> poll.identity, offset |-> poll.next, generation |-> poll.generation]
      /\ UNCHANGED <<file, rows, written, removed, torn, swapped, rotations, cuts>>
  BY DEF Log!SetCursor, Log!history
<1>3. /\ poll \in Log!Polls /\ poll.identity \in Nat /\ poll.next \in Nat /\ poll.generation \in Nat
      /\ poll.offset \in Nat /\ rotations \in Nat
  BY <1>1 DEF Log!TypeOK, Log!Polls, Log!Units, Log!Identities, Log!Generations
<1>4. /\ cursor' \in Log!Cursors /\ cursor' # None
      /\ cursor'.identity = poll.identity /\ cursor'.offset = poll.next /\ cursor'.generation = poll.generation
  BY <1>2, <1>3, NoneIsNoCursor DEF Log!Cursors, Log!Polls
<1>5. Log!TypeOK'
  <2>1. Log!NoPoll \in Log!Polls
    BY ReportingAssumption DEF Log!NoPoll, Log!Polls, Log!Identities, Log!Units, Log!Generations
  <2> QED
    BY <1>1, <1>2, <1>4, <2>1 DEF Log!TypeOK
<1>6. Numbered' /\ Sized'
  BY <1>1, <1>2 DEF Numbered, Sized, Log!Among, Places
<1>7. \A l : Sound(l)' <=> Sound(l)
  BY <1>2 DEF Sound
<1>8. poll'.step = "idle" /\ Log!Among(todo)' = {}
  BY <1>2 DEF Log!NoPoll, Log!Among
<1>9. PollFits' /\ ReadFits' /\ TodoFits'
  BY <1>2, <1>8 DEF PollFits, ReadFits, TodoFits
<1>10. RecordedOnce'
  BY <1>1, <1>2 DEF RecordedOnce, Log!RecordedOnce
<1>11. CASE SameFile
  <2>1. poll.next <= file.size
    BY <1>1, <1>2, <1>11 DEF ReadFits
  <2>2. ~Log!Truncated' /\ ~Log!Rotated'
    BY <1>1, <1>2, <1>3, <1>4, <1>11, <2>1, LinesHave DEF Log!Truncated, Log!Rotated, SameFile
  <2>3. Log!Offset' = poll.next /\ Log!Generation' = poll.generation
    BY <1>4, <2>2 DEF Log!Offset, Log!Generation
  <2>4. Counted'
    BY <1>1, <1>2, <1>3, <1>4, <1>8, <1>11, <2>2 DEF Counted, SameFile
  <2>5. AheadOfCursor'
    <3> SUFFICES ASSUME NEW k \in Places, NEW r \in rows, Sound(file.lines[k]), 2 * k > poll.next,
                        r.line = file.lines[k]
                 PROVE  FALSE
      BY <1>2, <1>7, <2>3 DEF AheadOfCursor, Places
    <3> QED
      BY <1>1, <1>2, <1>11 DEF ReadFits
  <2>6. SplitAtCursor'
    BY <1>1, <1>2, <1>7, <1>11, <2>3 DEF SplitAtCursor, ReadFits, Places
  <2> QED
    BY <1>5, <1>6, <1>9, <1>10, <2>4, <2>5, <2>6 DEF IInv
<1>12. CASE ~SameFile
  <2>1. poll.identity < file.identity
    BY <1>1, <1>2, <1>3, <1>12, LinesHave DEF Counted, SameFile
  <2>2. ~Log!Truncated' /\ Log!Rotated'
    BY <1>1, <1>2, <1>3, <1>4, <2>1, LinesHave DEF Log!Truncated, Log!Rotated
  <2>3. Log!Offset' = 0
    BY <1>4, <2>2 DEF Log!Offset
  <2>4. Counted'
    BY <1>1, <1>2, <1>3, <1>4, <1>8, <2>2 DEF Counted
  <2>5. AheadOfCursor'
    <3> SUFFICES ASSUME NEW k \in Places, NEW r \in rows, Sound(file.lines[k]), r.line = file.lines[k]
                 PROVE  FALSE
      BY <1>2, <1>7 DEF AheadOfCursor, Places
    <3> QED
      BY <1>1, <1>2, <1>12 DEF PollFits
  <2>6. SplitAtCursor'
    <3>1. \A k \in Places' : k \in Nat /\ 0 # 2 * k - 1
      BY DEF Places
    <3> QED
      BY <2>3, <3>1 DEF SplitAtCursor
  <2> QED
    BY <1>5, <1>6, <1>9, <1>10, <2>4, <2>5, <2>6 DEF IInv
<1> QED
  BY <1>11, <1>12

(***************************************************************************)
(* The theorems.                                                           *)
(***************************************************************************)

\* At the start there is no log.
LEMMA InitLog == Init => IInv
<1> SUFFICES ASSUME Log!Init PROVE IInv
  BY DEF Init
<1>1. /\ file = [identity |-> 0, lines |-> <<>>, size |-> 0]
      /\ cursor = None /\ rows = {} /\ poll = Log!NoPoll /\ todo = <<>> /\ written = 0
      /\ removed = {} /\ torn = {} /\ swapped = {} /\ rotations = 0 /\ cuts = 0
  BY DEF Log!Init
<1>2. Places = {} /\ Len(file.lines) = 0 /\ file.size = 0 /\ file.identity = 0 /\ Log!Among(todo) = {}
      /\ poll.step = "idle"
  BY <1>1 DEF Places, Log!Among, Log!NoPoll
<1>3. Log!TypeOK
  <2>1. Log!NoPoll \in Log!Polls
    BY ReportingAssumption DEF Log!NoPoll, Log!Polls, Log!Identities, Log!Units, Log!Generations
  <2>2. file \in [identity : Log!Identities, lines : Seq(Log!Lines), size : Log!Units]
    BY <1>1, ReportingAssumption DEF Log!Identities, Log!Units
  <2> QED
    BY <1>1, <2>1, <2>2, ReportingAssumption DEF Log!TypeOK
<1>4. Numbered /\ Sized
  BY <1>1, <1>2 DEF Numbered, Sized
<1>5. Counted
  BY <1>1, <1>2 DEF Counted, Log!Truncated
<1>6. AheadOfCursor /\ SplitAtCursor /\ PollFits /\ ReadFits /\ TodoFits
  BY <1>1, <1>2 DEF AheadOfCursor, SplitAtCursor, PollFits, ReadFits, TodoFits
<1>7. RecordedOnce
  BY <1>1 DEF RecordedOnce, Log!RecordedOnce
<1> QED
  BY <1>3, <1>4, <1>5, <1>6, <1>7 DEF IInv

\* The other workers leave the log alone.
LEMMA RestKeeps ==
  ASSUME IInv, UNCHANGED logVars
  PROVE  IInv'
<1>1. UNCHANGED <<file, cursor, rows, poll, todo, written, removed, torn, swapped, rotations, cuts>>
  BY DEF logVars
<1>2. Log!TypeOK'
  BY <1>1 DEF IInv, Log!TypeOK
<1>3. (Numbered /\ Sized /\ Counted)'
  BY <1>1 DEF IInv, Numbered, Sized, Counted, Places, Log!Among, Log!Truncated
<1>4. (AheadOfCursor /\ SplitAtCursor)'
  BY <1>1 DEF IInv, AheadOfCursor, SplitAtCursor, Places, Sound, RowFrom, Log!Offset, Log!Generation, Log!Rotated
<1>5. (PollFits /\ ReadFits)'
  BY <1>1 DEF IInv, PollFits, ReadFits, SameFile, Places, Sound, Log!Offset, Log!Generation, Log!Rotated
<1>6. TodoFits'
  BY <1>1 DEF IInv, TodoFits, SameFile, Places, Sound, RowFrom, Log!RowOf, Log!Among
<1>7. RecordedOnce'
  BY <1>1 DEF IInv, RecordedOnce, Log!RecordedOnce
<1> QED
  BY <1>2, <1>3, <1>4, <1>5, <1>6, <1>7 DEF IInv

\* Every step keeps the invariant.
LEMMA StepKeeps == IInv /\ [Next]_vars => IInv'
<1> SUFFICES ASSUME IInv, [Next]_vars PROVE IInv'
  OBVIOUS
<1>1. CASE LogStep
  <2>1. ASSUME NEW units \in {1, 2}, Log!WriteLine(units) PROVE IInv'
    BY <2>1, WriteLineKeeps
  <2>2. CASE Log!EndLine
    BY <2>2, EndLineKeeps
  <2>3. ASSUME NEW identity \in Log!Identities, Log!Rotate(identity) PROVE IInv'
    BY <2>3, RotateKeeps
  <2>4. CASE Log!Poll
    BY <2>4, LookKeeps, ReadKeeps, RecordKeeps, SetCursorKeeps DEF Log!Poll
  <2>5. CASE Log!CutShort
    BY <2>5, CutShortKeeps
  <2> QED
    BY <1>1, <2>1, <2>2, <2>3, <2>4, <2>5 DEF LogStep, Log!Next
<1>2. CASE NoticesStep \/ MonitorStep \/ RosterStep
  BY <1>2, RestKeeps DEF NoticesStep, MonitorStep, RosterStep
<1>3. CASE UNCHANGED vars
  BY <1>3, RestKeeps DEF vars
<1> QED
  BY <1>1, <1>2, <1>3 DEF Next

\* The invariant holds in every behaviour.
LEMMA LogInvariant == Spec => []IInv
  BY InitLog, StepKeeps, PTL DEF Spec

\* The log, its cursor, the rows and the poll keep their types, for any
\* number of lines, rotations and cut polls.
THEOREM LogTypeCorrect == Spec => []Log!TypeOK
<1>1. IInv => Log!TypeOK
  BY DEF IInv
<1> QED
  BY <1>1, LogInvariant, PTL

\* No line of the log is in the audit table twice (ingest_logs_once,
\* audit.py:243), however often polls are cut short between two rows and
\* whenever the log is rotated, unless the line was read in two pieces or
\* from a file that replaced the one looked at.
THEOREM RecordedOnceAlways == Spec => []RecordedOnce
<1>1. IInv => RecordedOnce
  BY DEF IInv
<1> QED
  BY <1>1, LogInvariant, PTL

(***************************************************************************)
(* The roster of pals: its inductive invariant.                            *)
(***************************************************************************)

\* The list of a filter in a snapshot.
ListAt(s, f) == published[s][f]

\* What is on display is of the snapshot the page knows, and the first pages of
\* one of its lists.
OnDisplay ==
  shows.pages > 0 =>
    /\ shows.snapshot = known /\ known # 0
    /\ ~mixed => /\ items = Roster!FirstPages(ListAt(known, shows.filter), shows.pages)
                 /\ total = Len(ListAt(known, shows.filter))

\* A page that shows no page of a list shows nothing.
Blank == shows.pages = 0 => items = {} /\ total = 0 /\ ~mixed

\* A request asks for the snapshot and the filter the page names, for the page of
\* the list behind the ones on display.
AskedAsNamed ==
  asked.at # "idle" =>
    /\ asked.snapshot = known /\ known # 0 /\ asked.filter = filter
    /\ asked.at = "answered" => asked.from = known
    /\ IF asked.append THEN shows.pages > 0 /\ (~mixed /\ shows.filter = filter => asked.page = shows.pages + 1)
                       ELSE asked.page = 1

\* Once no request is under way and none failed, the list is that of the filter.
AtRest ==
  asked.at = "idle" /\ ~failed /\ ~mixed /\ known # 0 => shows.pages > 0 /\ shows.filter = filter

\* The invariant of the roster.
RosterInv == Roster!TypeOK /\ OnDisplay /\ Blank /\ AskedAsNamed /\ AtRest


-----------------------------------------------------------------------------
(* Lists and pages. *)

\* The first k entries of a list are k pals.
LEMMA CountOfFirst ==
  ASSUME NEW l, Roster!IsList(l), NEW k \in 0..Len(l)
  PROVE  IsFiniteSet({l[i] : i \in 1..k}) /\ Cardinality({l[i] : i \in 1..k}) = k
<1> DEFINE S == {l[i] : i \in 1..k}
           g == [i \in 1..k |-> l[i]]
<1>1. l \in Seq(Pals) /\ DOMAIN l = 1..Len(l) /\ Len(l) \in Nat
  BY DEF Roster!IsList
<1>2. k \in Nat /\ \A i \in 1..k : i \in DOMAIN l
  BY <1>1
<1>3. g \in Injection(1..k, S)
  BY <1>2 DEF Roster!IsList, Injection, IsInjective
<1>4. g \in Surjection(1..k, S)
  BY DEF Surjection
<1>5. ExistsBijection(1..k, S)
  BY <1>3, <1>4 DEF ExistsBijection, Bijection
<1>6. IsFiniteSet(1..k) /\ Cardinality(1..k) = k
  BY <1>2, FS_Interval
<1> QED
  BY <1>5, <1>6, FS_Bijection

\* The sets of the roster are counted as sets are.
LEMMA OneCount ==
  ASSUME NEW S
  PROVE  /\ Roster!IsFiniteSet(S) <=> IsFiniteSet(S)
         /\ Roster!Cardinality(S) = Cardinality(S)
<1>1. Roster!IsFiniteSet(S) <=> IsFiniteSet(S)
  BY DEF Roster!IsFiniteSet, IsFiniteSet
<1>2. Roster!Cardinality(S) = Cardinality(S)
  BY Zenon DEF Roster!Cardinality, Cardinality
<1> QED
  BY <1>1, <1>2

\* So many whole pages divide into as many.
LEMMA PagesEnd ==
  ASSUME NEW n \in Nat, NEW p \in Nat \ {0}
  PROVE  (n * p) \div p = n /\ n * p \in Nat
OBVIOUS

\* What a snapshot gives for a filter is a list.
LEMMA ListsFit ==
  ASSUME Roster!TypeOK, NEW s \in 1..Roster!Current, NEW f \in Filters
  PROVE  /\ Roster!IsList(ListAt(s, f)) /\ ListAt(s, f) \in Seq(Pals)
         /\ Len(ListAt(s, f)) \in Nat /\ DOMAIN ListAt(s, f) = 1..Len(ListAt(s, f))
<1>1. published \in Seq(Roster!Contents) /\ s \in 1..Len(published)
  BY DEF Roster!TypeOK, Roster!Current
<1>2. published[s] \in Roster!Contents
  BY <1>1
<1>3. ListAt(s, f) \in Listings
  BY <1>2 DEF ListAt, Roster!Contents
<1> QED
  BY <1>3, RosterAssumption DEF Roster!IsList

\* When pals are left, the first pages are full.
LEMMA FirstPagesAre ==
  ASSUME NEW l, Roster!IsList(l), NEW n \in Nat
  PROVE  /\ IsFiniteSet(Roster!FirstPages(l, n)) /\ Roster!FirstPages(l, n) \subseteq Pals
         /\ Cardinality(Roster!FirstPages(l, n)) < Len(l)
              => Cardinality(Roster!FirstPages(l, n)) = n * PageSize
<1> DEFINE m == n * PageSize
           k == IF m < Len(l) THEN m ELSE Len(l)
<1>1. l \in Seq(Pals) /\ DOMAIN l = 1..Len(l) /\ Len(l) \in Nat
  BY DEF Roster!IsList
<1>2. m \in Nat
  BY PagesEnd, RosterAssumption
<1> HIDE DEF m
<1>3. k \in 0..Len(l)
  BY <1>1, <1>2
<1>4. {j \in DOMAIN l : j <= m} = 1..k
  BY <1>1, <1>2
<1>5. Roster!FirstPages(l, n) = {l[i] : i \in 1..k}
  BY <1>4 DEF Roster!FirstPages, m
<1>6. Cardinality(Roster!FirstPages(l, n)) = k /\ IsFiniteSet(Roster!FirstPages(l, n))
  BY <1>3, <1>5, CountOfFirst
<1>7. Roster!FirstPages(l, n) \subseteq Pals
  BY <1>1 DEF Roster!FirstPages
<1>8. k = m \/ k = Len(l)
  OBVIOUS
<1> HIDE DEF k
<1>9. Cardinality(Roster!FirstPages(l, n)) < Len(l) => Cardinality(Roster!FirstPages(l, n)) = m
  BY <1>1, <1>6, <1>8
<1>10. n * PageSize = m
  BY DEF m
<1> DEFINE c == Cardinality(Roster!FirstPages(l, n))
<1>11. c < Len(l) => c = m
  BY <1>9
<1> HIDE DEF m, c
<1>12. c < Len(l) => c = n * PageSize
  BY <1>10, <1>11, Zenon
<1> QED
  BY <1>6, <1>7, <1>12, Zenon DEF c

\* The first pages and the one behind them are the first pages, one more.
LEMMA NextPage ==
  ASSUME NEW l, Roster!IsList(l), NEW n \in Nat
  PROVE  /\ Roster!FirstPages(l, n) \union Roster!PageOf(l, n + 1) = Roster!FirstPages(l, n + 1)
         /\ Roster!PageOf(l, 1) = Roster!FirstPages(l, 1)
<1> DEFINE m == n * PageSize
<1>1. l \in Seq(Pals) /\ DOMAIN l = 1..Len(l) /\ Len(l) \in Nat
  BY DEF Roster!IsList
<1>2. m \in Nat /\ (n + 1) * PageSize = m + PageSize /\ (n + 1 - 1) * PageSize = m /\ PageSize \in Nat
  BY PagesEnd, RosterAssumption
<1> HIDE DEF m
<1>3. {j \in DOMAIN l : j <= m} \union {j \in DOMAIN l : m < j /\ j <= m + PageSize}
        = {j \in DOMAIN l : j <= m + PageSize}
  BY <1>1, <1>2
<1>4. Roster!FirstPages(l, n) \union Roster!PageOf(l, n + 1) = Roster!FirstPages(l, n + 1)
  <2>1. Roster!FirstPages(l, n) = {l[i] : i \in {j \in DOMAIN l : j <= m}}
    BY DEF Roster!FirstPages, m
  <2>2. Roster!PageOf(l, n + 1) = {l[i] : i \in {j \in DOMAIN l : m < j /\ j <= m + PageSize}}
    BY <1>2 DEF Roster!PageOf
  <2>3. Roster!FirstPages(l, n + 1) = {l[i] : i \in {j \in DOMAIN l : j <= m + PageSize}}
    BY <1>2 DEF Roster!FirstPages
  <2> QED
    BY <2>1, <2>2, <2>3, <1>3
<1>5. (1 - 1) * PageSize = 0 /\ 1 * PageSize = PageSize
  BY <1>2
<1>6. {j \in DOMAIN l : 0 < j /\ j <= PageSize} = {j \in DOMAIN l : j <= PageSize}
  BY <1>1, <1>2
<1>7. Roster!PageOf(l, 1) = Roster!FirstPages(l, 1)
  BY <1>5, <1>6 DEF Roster!PageOf, Roster!FirstPages
<1> QED
  BY <1>4, <1>7

\* A page is a finite set of pals.
LEMMA PageIs ==
  ASSUME NEW l, Roster!IsList(l), NEW n
  PROVE  Roster!PageOf(l, n) \subseteq Pals /\ IsFiniteSet(Roster!PageOf(l, n))
<1>1. l \in Seq(Pals) /\ DOMAIN l = 1..Len(l) /\ Len(l) \in Nat
  BY DEF Roster!IsList
<1>2. Roster!PageOf(l, n) \subseteq {l[i] : i \in 1..Len(l)}
  BY <1>1 DEF Roster!PageOf
<1>3. IsFiniteSet({l[i] : i \in 1..Len(l)})
  BY <1>1, CountOfFirst
<1>4. {l[i] : i \in 1..Len(l)} \subseteq Pals
  BY <1>1
<1> QED
  BY <1>2, <1>3, <1>4, FS_Subset

-----------------------------------------------------------------------------
(* The steps of the roster. *)

\* The invariant of the roster holds at the start.
LEMMA InitRoster == Init => RosterInv
<1> SUFFICES ASSUME Init PROVE RosterInv
  OBVIOUS
<1>1. Roster!Init
  BY DEF Init
<1>2. Roster!TypeOK
  <2>1. published = <<>> /\ published \in Seq(Roster!Contents) /\ Roster!Current = 0
    BY <1>1 DEF Roster!Init, Roster!Current
  <2>2. asked \in Roster!Requests /\ asked.snapshot = 0 /\ asked.from = 0
    BY <1>1, RosterAssumption DEF Roster!Init, Roster!Request, Roster!Requests
  <2>3. shows \in [snapshot : 0..0, filter : Filters, pages : Nat]
    BY <1>1, RosterAssumption DEF Roster!Init, Roster!Nothing
  <2>4. Roster!IsFiniteSet(items) /\ items \subseteq Pals
    BY <1>1, OneCount, FS_EmptySet DEF Roster!Init
  <2>5. known \in 0..0 /\ filter \in Filters /\ total \in Nat /\ 0 <= MaxSnapshots
    BY <1>1, RosterAssumption DEF Roster!Init
  <2>6. loadingMore \in BOOLEAN /\ failed \in BOOLEAN /\ mixed \in BOOLEAN
    BY <1>1, Zenon DEF Roster!Init
  <2> QED
    BY <2>1, <2>2, <2>3, <2>4, <2>5, <2>6 DEF Roster!TypeOK
<1>3. OnDisplay /\ Blank /\ AskedAsNamed /\ AtRest
  BY <1>1 DEF Roster!Init, Roster!Request, Roster!Nothing, OnDisplay, Blank, AskedAsNamed, AtRest
<1> QED
  BY <1>2, <1>3 DEF RosterInv

\* The parts of the request and of what the page shows.
LEMMA AskedIs ==
  ASSUME Roster!TypeOK
  PROVE  /\ asked.snapshot \in 0..Roster!Current /\ asked.from \in 0..Roster!Current
         /\ asked.filter \in Filters /\ asked.page \in Nat \ {0} /\ asked.append \in BOOLEAN
         /\ shows.snapshot \in 0..Roster!Current /\ shows.filter \in Filters /\ shows.pages \in Nat
         /\ known \in 0..Roster!Current /\ Roster!Current \in Nat
BY DEF Roster!TypeOK, Roster!Requests, Roster!Current

\* The parts of a new request.
LEMMA RequestIs ==
  ASSUME NEW s \in Nat, NEW f \in Filters, NEW n \in Nat \ {0}, NEW a \in BOOLEAN
  PROVE  /\ Roster!Request(s, f, n, a) \in Roster!Requests
         /\ Roster!Request(s, f, n, a).snapshot = s /\ Roster!Request(s, f, n, a).filter = f
         /\ Roster!Request(s, f, n, a).page = n /\ Roster!Request(s, f, n, a).append = a
         /\ Roster!Request(s, f, n, a).from = 0
         /\ Roster!Request(s, f, n, a).at = IF s = 0 THEN "idle" ELSE "sent"
BY DEF Roster!Request, Roster!Requests

\* A new snapshot leaves the ones before it as they are.
LEMMA PublishKeeps ==
  ASSUME RosterInv, Roster!Publish
  PROVE  RosterInv'
<1>1. PICK c \in Roster!Contents : published' = Append(published, c)
  BY DEF Roster!Publish
<1>2. published' \in Seq(Roster!Contents) /\ Roster!Current' = Roster!Current + 1
      /\ \A s \in 1..Roster!Current : published'[s] = published[s]
  BY <1>1 DEF RosterInv, Roster!TypeOK, Roster!Current
<1>3. UNCHANGED <<known, filter, items, total, asked, loadingMore, failed, shows, mixed>>
  BY DEF Roster!Publish
<1>4. Roster!TypeOK'
  <2>1. Roster!Current' <= MaxSnapshots
    BY <1>2, AskedIs, RosterAssumption DEF RosterInv, Roster!Publish
  <2> QED
    BY <1>2, <1>3, <2>1, AskedIs DEF RosterInv, Roster!TypeOK
<1>5. OnDisplay'
  BY <1>2, <1>3, AskedIs DEF RosterInv, OnDisplay, ListAt, Roster!FirstPages
<1>6. (Blank /\ AskedAsNamed /\ AtRest)'
  BY <1>3 DEF RosterInv, Blank, AskedAsNamed, AtRest
<1> QED
  BY <1>4, <1>5, <1>6 DEF RosterInv

\* An answer is of the snapshot that was asked for.
LEMMA ServeKeeps ==
  ASSUME RosterInv, Roster!Serve
  PROVE  RosterInv'
<1>1. UNCHANGED <<published, known, filter, items, total, loadingMore, failed, shows, mixed>> /\ asked.at = "sent"
  BY DEF Roster!Serve
<1>2. asked' = (IF asked.snapshot = Roster!Current THEN Roster!Answered ELSE Roster!Refused)
  BY DEF Roster!Serve
<1>3. asked' \in Roster!Requests /\ asked'.at \in {"answered", "refused"} /\ asked'.from \in 0..Roster!Current
  BY <1>2, AskedIs DEF RosterInv, Roster!TypeOK, Roster!Requests, Roster!Answered, Roster!Refused
<1>4. /\ asked'.snapshot = asked.snapshot /\ asked'.filter = asked.filter
      /\ asked'.page = asked.page /\ asked'.append = asked.append
      /\ asked'.at = "answered" => asked'.from = asked.snapshot
  BY <1>2 DEF RosterInv, Roster!TypeOK, Roster!Requests, Roster!Answered, Roster!Refused
<1>5. Roster!TypeOK'
  BY <1>1, <1>3, <1>4 DEF RosterInv, Roster!TypeOK, Roster!Current
<1>6. (OnDisplay /\ Blank)'
  BY <1>1 DEF RosterInv, OnDisplay, Blank, ListAt, Roster!FirstPages
<1>7. AskedAsNamed'
  BY <1>1, <1>4 DEF RosterInv, AskedAsNamed
<1>8. AtRest'
  BY <1>3 DEF AtRest
<1> QED
  BY <1>5, <1>6, <1>7, <1>8 DEF RosterInv

\* Another snapshot mounts a blank roster.
LEMMA HearKeeps ==
  ASSUME RosterInv, NEW s \in 1..Roster!Current, Roster!Hear(s)
  PROVE  RosterInv'
<1>1. /\ known' = s /\ filter' = DefaultFilter /\ items' = {} /\ total' = 0
      /\ asked' = Roster!Request(s, DefaultFilter, 1, FALSE)
      /\ loadingMore' = FALSE /\ failed' = FALSE /\ shows' = Roster!Nothing /\ mixed' = FALSE
      /\ published' = published
  BY DEF Roster!Hear
<1>2. s \in Nat \ {0} /\ s <= Roster!Current /\ Roster!Current \in Nat /\ DefaultFilter \in Filters
  BY AskedIs, RosterAssumption DEF RosterInv
<1>3. /\ asked' \in Roster!Requests /\ asked'.snapshot = s /\ asked'.filter = DefaultFilter
      /\ asked'.page = 1 /\ asked'.append = FALSE /\ asked'.from = 0 /\ asked'.at = "sent"
  <2>1. s \in Nat /\ s # 0 /\ 1 \in Nat \ {0} /\ FALSE \in BOOLEAN
    BY <1>2
  <2>2. asked' = Roster!Request(s, DefaultFilter, 1, FALSE)
    BY <1>1
  <2> QED
    BY <1>2, <2>1, <2>2 DEF Roster!Request, Roster!Requests
<1>4. shows'.pages = 0 /\ shows' \in [snapshot : 0..Roster!Current, filter : Filters, pages : Nat]
  BY <1>1, <1>2 DEF Roster!Nothing
<1>5. Roster!TypeOK'
  <2>1. Roster!Current' = Roster!Current /\ published' \in Seq(Roster!Contents) /\ Roster!Current <= MaxSnapshots
    BY <1>1 DEF RosterInv, Roster!TypeOK, Roster!Current
  <2>2. Roster!IsFiniteSet(items)' /\ items' \subseteq Pals
    BY <1>1, OneCount, FS_EmptySet
  <2>3. asked'.snapshot \in 0..Roster!Current /\ asked'.from \in 0..Roster!Current
    BY <1>2, <1>3
  <2> QED
    BY <1>1, <1>2, <1>3, <1>4, <2>1, <2>2, <2>3 DEF Roster!TypeOK
<1>6. (OnDisplay /\ Blank)'
  BY <1>1, <1>4 DEF OnDisplay, Blank
<1>7. (AskedAsNamed /\ AtRest)'
  BY <1>1, <1>2, <1>3 DEF AskedAsNamed, AtRest
<1> QED
  BY <1>5, <1>6, <1>7 DEF RosterInv

\* A request for a first page, or for the page behind those on display.
LEMMA LoadPageKeeps ==
  ASSUME RosterInv, NEW f \in Filters, NEW n \in Nat \ {0}, NEW a \in BOOLEAN,
         Roster!LoadPage(f, n, a), filter' = f,
         known = 0 => shows.pages = 0,
         IF a THEN /\ shows.pages > 0
                   /\ ~mixed /\ shows.filter = f => n = shows.pages + 1
              ELSE n = 1
  PROVE  RosterInv'
<1>1. /\ asked' = Roster!Request(known, f, n, a)
      /\ loadingMore' = (loadingMore \/ a) /\ failed' = FALSE
      /\ UNCHANGED <<published, known, items, total, shows, mixed>>
  BY DEF Roster!LoadPage
<1>2. known \in Nat /\ known \in 0..Roster!Current /\ 0 \in 0..Roster!Current
  BY AskedIs DEF RosterInv
<1>3. /\ asked' \in Roster!Requests /\ asked'.snapshot = known /\ asked'.filter = f
      /\ asked'.page = n /\ asked'.append = a /\ asked'.from = 0
      /\ asked'.at = IF known = 0 THEN "idle" ELSE "sent"
  BY <1>1, <1>2, RequestIs
<1>4. Roster!TypeOK'
  BY <1>1, <1>2, <1>3 DEF RosterInv, Roster!TypeOK, Roster!Current
<1>5. (OnDisplay /\ Blank)'
  BY <1>1 DEF RosterInv, OnDisplay, Blank, ListAt, Roster!FirstPages
<1>6. AskedAsNamed'
  BY <1>1, <1>3 DEF AskedAsNamed
<1>7. AtRest'
  BY <1>1, <1>3 DEF AtRest
<1> QED
  BY <1>4, <1>5, <1>6, <1>7 DEF RosterInv

\* The page after the pals on display is counted right from their number.
LEMMA LoadMoreKeeps ==
  ASSUME RosterInv, Roster!LoadMore
  PROVE  RosterInv'
<1> DEFINE n == Cardinality(items) \div PageSize + 1
<1>1. Roster!LoadPage(filter, n, TRUE) /\ filter' = filter /\ Cardinality(items) < total
  BY OneCount DEF Roster!LoadMore
<1>2. Cardinality(items) \in Nat /\ total \in Nat /\ filter \in Filters
  BY FS_CardinalityType, OneCount DEF RosterInv, Roster!TypeOK
<1>3. n \in Nat \ {0}
  BY <1>2, RosterAssumption
<1>4. shows.pages > 0 /\ known # 0 /\ shows.pages \in Nat
  <2>1. shows.pages # 0
    BY <1>1, <1>2 DEF RosterInv, Blank
  <2> QED
    BY <2>1, AskedIs DEF RosterInv, OnDisplay
<1>5. ASSUME ~mixed PROVE n = shows.pages + 1
  <2> DEFINE l == ListAt(known, shows.filter)
  <2>1. items = Roster!FirstPages(l, shows.pages) /\ total = Len(l)
    BY <1>4, <1>5 DEF RosterInv, OnDisplay
  <2>2. Roster!IsList(l)
    BY <1>4, ListsFit, AskedIs DEF RosterInv
  <2>3. Cardinality(items) = shows.pages * PageSize
    BY <1>1, <1>4, <2>1, <2>2, FirstPagesAre
  <2> QED
    BY <1>4, <2>3, PagesEnd, RosterAssumption
<1> HIDE DEF n
<1> QED
  BY <1>1, <1>2, <1>3, <1>4, <1>5, LoadPageKeeps

\* The page asked for is added to what was on display when it was asked for.
LEMMA ShowKeeps ==
  ASSUME RosterInv, Roster!Receive, Roster!Show
  PROVE  RosterInv'
<1> DEFINE l == ListAt(known, filter)
           more == Roster!PageOf(l, asked.page)
<1>1. /\ asked.at = "answered" /\ asked' = [asked EXCEPT !.at = "idle"] /\ loadingMore' = FALSE
      /\ UNCHANGED <<published, known, filter, failed>>
  BY DEF Roster!Receive
<1>2. /\ asked.filter = filter /\ asked.from = known /\ known # 0
      /\ IF asked.append THEN /\ shows.pages > 0
                              /\ ~mixed /\ shows.filter = filter => asked.page = shows.pages + 1
                         ELSE asked.page = 1
  BY <1>1 DEF RosterInv, AskedAsNamed
<1>3. known \in 1..Roster!Current /\ filter \in Filters
  BY <1>2, AskedIs DEF RosterInv
<1>4. Roster!IsList(l) /\ l \in Seq(Pals) /\ Len(l) \in Nat /\ DOMAIN l = 1..Len(l)
  BY <1>3, ListsFit DEF RosterInv
<1>5. /\ items' = (IF asked.append THEN items \union more ELSE more) /\ total' = Len(l)
      /\ mixed' = (asked.append /\ (mixed \/ shows.filter # filter))
      /\ shows' = IF mixed' THEN shows
                  ELSE [snapshot |-> known, filter |-> filter,
                        pages |-> IF asked.append THEN shows.pages + 1 ELSE 1]
  BY <1>2 DEF Roster!Show, Roster!Merged, ListAt
<1> HIDE DEF l
<1>6. asked' \in Roster!Requests /\ asked'.at = "idle"
      /\ asked'.snapshot = asked.snapshot /\ asked'.from = asked.from
  BY <1>1 DEF RosterInv, Roster!TypeOK, Roster!Requests
<1>7. more \subseteq Pals /\ IsFiniteSet(more)
  BY <1>4, PageIs, AskedIs DEF RosterInv
<1> HIDE DEF more
<1>8. items' \subseteq Pals /\ IsFiniteSet(items')
  BY <1>5, <1>7, OneCount, FS_Union DEF RosterInv, Roster!TypeOK
<1>9. /\ shows' \in [snapshot : 0..Roster!Current, filter : Filters, pages : Nat]
      /\ shows'.pages > 0 /\ shows'.snapshot = known
  <2>1. CASE mixed'
    <3>1. shows' = shows /\ shows.pages > 0
      BY <1>2, <1>5, <2>1
    <3> QED
      BY <3>1 DEF RosterInv, OnDisplay, Roster!TypeOK
  <2>2. CASE ~mixed'
    <3>1. shows' = [snapshot |-> known, filter |-> filter,
                    pages |-> IF asked.append THEN shows.pages + 1 ELSE 1]
      BY <1>5, <2>2
    <3>2. (IF asked.append THEN shows.pages + 1 ELSE 1) \in Nat \ {0} /\ known \in 0..Roster!Current
      BY <1>3, AskedIs DEF RosterInv
    <3> QED
      BY <1>3, <3>1, <3>2
  <2> QED
    BY <2>1, <2>2
<1>10. Roster!TypeOK'
  <2>1. Roster!Current' = Roster!Current /\ published' \in Seq(Roster!Contents) /\ Roster!Current <= MaxSnapshots
    BY <1>1 DEF RosterInv, Roster!TypeOK, Roster!Current
  <2>2. Roster!IsFiniteSet(items)'
    BY <1>8, OneCount
  <2>3. mixed' \in BOOLEAN /\ loadingMore' \in BOOLEAN /\ failed' \in BOOLEAN
    BY <1>1, <1>5 DEF RosterInv, Roster!TypeOK
  <2>4. asked'.snapshot \in 0..Roster!Current /\ asked'.from \in 0..Roster!Current
    BY <1>6, AskedIs DEF RosterInv
  <2>5. known' \in 0..Roster!Current /\ filter' \in Filters
    BY <1>1, <1>3, AskedIs DEF RosterInv
  <2> QED
    BY <1>4, <1>5, <1>6, <1>8, <1>9, <2>1, <2>2, <2>3, <2>4, <2>5 DEF Roster!TypeOK
<1>11. ASSUME ~mixed' PROVE shows'.filter = filter /\ items' = Roster!FirstPages(l, shows'.pages)
  <2>1. shows'.filter = filter /\ shows'.pages = IF asked.append THEN shows.pages + 1 ELSE 1
    BY <1>5, <1>11
  <2>2. CASE asked.append
    <3>1. ~mixed /\ shows.filter = filter
      BY <1>5, <1>11, <2>2
    <3>2. asked.page = shows.pages + 1 /\ shows.pages > 0 /\ items' = items \union more
      BY <1>2, <1>5, <2>2, <3>1
    <3>3. items = Roster!FirstPages(l, shows.pages)
      BY <3>1, <3>2 DEF RosterInv, OnDisplay, l
    <3>4. shows.pages \in Nat /\ more = Roster!PageOf(l, shows.pages + 1)
      BY <3>2, AskedIs DEF RosterInv, more
    <3>5. Roster!FirstPages(l, shows.pages) \union Roster!PageOf(l, shows.pages + 1) = Roster!FirstPages(l, shows.pages + 1)
      BY <1>4, <3>4, NextPage
    <3>6. shows'.pages = shows.pages + 1
      BY <2>1, <2>2
    <3> QED
      BY <2>1, <3>2, <3>3, <3>4, <3>5, <3>6, Zenon
  <2>3. CASE ~asked.append
    <3>1. items' = more /\ asked.page = 1 /\ shows'.pages = 1
      BY <1>2, <1>5, <2>1, <2>3
    <3>2. Roster!PageOf(l, 1) = Roster!FirstPages(l, 1)
      BY <1>4, NextPage
    <3> QED
      BY <2>1, <3>1, <3>2 DEF more
  <2> QED
    BY <2>2, <2>3
<1>12. OnDisplay'
  <2>1. ListAt(known, filter)' = l
    BY <1>1 DEF ListAt, l
  <2>2. ASSUME ~mixed' PROVE /\ items' = Roster!FirstPages(ListAt(known, shows.filter), shows.pages)'
                              /\ total' = Len(ListAt(known, shows.filter))'
    <3>1. ListAt(known, shows.filter)' = l
      BY <1>1, <1>11, <2>2 DEF ListAt, l
    <3> QED
      BY <1>5, <1>11, <2>2, <3>1 DEF Roster!FirstPages
  <2> QED
    BY <1>1, <1>2, <1>9, <2>2 DEF OnDisplay
<1>13. (Blank /\ AskedAsNamed)'
  BY <1>6, <1>9 DEF Blank, AskedAsNamed
<1>14. AtRest'
  BY <1>1, <1>9, <1>11 DEF AtRest
<1> QED
  BY <1>10, <1>12, <1>13, <1>14 DEF RosterInv

\* An answer that counts is shown.
LEMMA ReceiveKeeps ==
  ASSUME RosterInv, Roster!Receive
  PROVE  RosterInv'
<1>1. asked.at = "answered" /\ asked.snapshot = known /\ asked.from = known
  BY DEF Roster!Receive, RosterInv, AskedAsNamed
<1>2. Roster!Show
  BY <1>1 DEF Roster!Receive
<1> QED
  BY <1>2, ShowKeeps

\* A failure leaves what is on display.
LEMMA FailsKeeps ==
  ASSUME RosterInv, Roster!Fails
  PROVE  RosterInv'
<1>1. /\ UNCHANGED <<published, known, filter, items, total, shows, mixed>>
      /\ asked' = [asked EXCEPT !.at = "idle"] /\ loadingMore' = FALSE /\ failed' = TRUE
  BY DEF Roster!Fails
<1>2. asked' \in Roster!Requests /\ asked'.at = "idle"
      /\ asked'.snapshot = asked.snapshot /\ asked'.from = asked.from
  BY <1>1 DEF RosterInv, Roster!TypeOK, Roster!Requests
<1>3. Roster!TypeOK'
  BY <1>1, <1>2 DEF RosterInv, Roster!TypeOK, Roster!Current
<1>4. (OnDisplay /\ Blank)'
  BY <1>1 DEF RosterInv, OnDisplay, Blank, ListAt, Roster!FirstPages
<1>5. (AskedAsNamed /\ AtRest)'
  BY <1>1, <1>2 DEF AskedAsNamed, AtRest
<1> QED
  BY <1>3, <1>4, <1>5 DEF RosterInv

\* A new filter or another attempt asks for a first page.
LEMMA FirstPageKeeps ==
  ASSUME RosterInv, NEW f \in Filters, Roster!LoadPage(f, 1, FALSE), filter' = f
  PROVE  RosterInv'
<1>1. known = 0 => shows.pages = 0
  BY AskedIs DEF RosterInv, OnDisplay
<1>2. 1 \in Nat \ {0} /\ FALSE \in BOOLEAN
  OBVIOUS
<1> QED
  BY <1>1, <1>2, LoadPageKeeps

\* A step of another part leaves the roster alone.
LEMMA RosterRestKeeps ==
  ASSUME RosterInv, UNCHANGED rosterVars
  PROVE  RosterInv'
<1>1. UNCHANGED <<published, known, filter, items, total, asked, loadingMore, failed, shows, mixed>>
  BY DEF rosterVars
<1>2. Roster!TypeOK'
  BY <1>1 DEF RosterInv, Roster!TypeOK, Roster!Current
<1>3. (OnDisplay /\ Blank)'
  BY <1>1 DEF RosterInv, OnDisplay, Blank, ListAt, Roster!FirstPages
<1>4. (AskedAsNamed /\ AtRest)'
  BY <1>1 DEF RosterInv, AskedAsNamed, AtRest
<1> QED
  BY <1>2, <1>3, <1>4 DEF RosterInv

\* Every step keeps the invariant of the roster.
LEMMA RosterStepKeeps ==
  ASSUME RosterInv, [Next]_vars
  PROVE  RosterInv'
<1>1. CASE LogStep \/ NoticesStep \/ MonitorStep \/ UNCHANGED vars
  <2>1. UNCHANGED rosterVars
    BY <1>1 DEF LogStep, NoticesStep, MonitorStep, vars, rosterVars
  <2> QED
    BY <2>1, RosterRestKeeps
<1>2. CASE RosterStep
  <2>1. Roster!Next
    BY <1>2 DEF RosterStep
  <2>2. CASE Roster!Publish
    BY <2>2, PublishKeeps
  <2>3. CASE Roster!Serve
    BY <2>3, ServeKeeps
  <2>4. ASSUME NEW s \in 1..Roster!Current, Roster!Hear(s) PROVE RosterInv'
    BY <2>4, HearKeeps
  <2>5. ASSUME NEW f \in Filters, Roster!ChooseFilter(f) PROVE RosterInv'
    BY <2>5, FirstPageKeeps DEF Roster!ChooseFilter
  <2>6. CASE Roster!TryAgain
    <3>1. filter \in Filters
      BY DEF RosterInv, Roster!TypeOK
    <3> QED
      BY <2>6, <3>1, FirstPageKeeps DEF Roster!TryAgain
  <2>7. CASE Roster!LoadMore
    BY <2>7, LoadMoreKeeps
  <2>8. CASE Roster!Receive
    BY <2>8, ReceiveKeeps
  <2>9. CASE Roster!Fails
    BY <2>9, FailsKeeps
  <2> QED
    BY <2>1, <2>2, <2>3, <2>4, <2>5, <2>6, <2>7, <2>8, <2>9 DEF Roster!Next
<1> QED
  BY <1>1, <1>2 DEF Next

\* The invariant implies the property.
LEMMA WholeFromInv ==
  ASSUME RosterInv
  PROVE  RosterIsWhole
<1>1. ASSUME ~mixed, shows.pages > 0
      PROVE  LET list == published[shows.snapshot][shows.filter] IN
             items = Roster!FirstPages(list, shows.pages) /\ total = Len(list)
  BY <1>1 DEF RosterInv, OnDisplay, ListAt
<1>2. ASSUME asked.at = "idle", ~failed, ~mixed, known # 0
      PROVE  shows.pages > 0 /\ shows.snapshot = known /\ shows.filter = filter
  BY <1>2 DEF RosterInv, OnDisplay, AtRest
<1> QED
  BY <1>1, <1>2 DEF RosterIsWhole, Roster!RosterIsWhole


\* The invariant of the roster holds in every behaviour.
LEMMA RosterInvariant == Spec => []RosterInv
  BY InitRoster, RosterStepKeeps, PTL DEF Spec

\* What the roster shows are the first pages of one list of one snapshot, for any
\* pals, filters, lists, page size and number of snapshots published meanwhile;
\* once it rests, of the filter it names (PalRoster.tsx, palRosterState.ts:3),
\* unless "load more" added to the pals of another filter (PalRoster.tsx:354).
THEOREM RosterIsWholeAlways == Spec => []RosterIsWhole
  BY RosterInvariant, WholeFromInv, PTL

-----------------------------------------------------------------------------
(* The types of the monitor and of the notices. *)

\* A page shows the values or loses its stream.
LEMMA ShowKeepsTypes ==
  ASSUME Live!TypeOK, NEW p \in Pages, NEW x \in [Live!Values -> Live!LiveValues] \union {None},
         shown' = [shown EXCEPT ![p] = x], behind' = behind \ {p},
         UNCHANGED <<online, working, step, live, changes, raised>>
  PROVE  Live!TypeOK'
<1>1. shown' \in [Pages -> [Live!Values -> Live!LiveValues] \union {None}]
  BY DEF Live!TypeOK
<1>2. behind' \subseteq Live!Open'
  BY DEF Live!TypeOK, Live!Open
<1> QED
  BY <1>1, <1>2 DEF Live!TypeOK

\* A value that becomes stale is a value.
LEMMA StalesAreValues ==
  ASSUME NEW x \in Live!LiveValues
  PROVE  [x EXCEPT !.stale = TRUE] \in Live!LiveValues
BY DEF Live!LiveValues

\* A step of a cycle keeps the types.
LEMMA CycleKeepsTypes ==
  ASSUME Live!TypeOK, Live!Cycle
  PROVE  Live!TypeOK'
<1>1. CASE Live!Load
  <2>1. step' \in {"players", "publish"}
    BY <1>1 DEF Live!Load
  <2>2. live' \in [Live!Values -> Live!LiveValues]
    <3>1. CASE live' = live
      BY <3>1 DEF Live!TypeOK
    <3>2. CASE live' = [v \in Live!Values |-> [live[v] EXCEPT !.stale = TRUE]]
      BY <3>2, StalesAreValues DEF Live!TypeOK
    <3> QED
      BY <1>1, <3>1, <3>2 DEF Live!Load
  <2> QED
    BY <1>1, <2>1, <2>2 DEF Live!Load, Live!TypeOK, Live!Open, Live!Values
<1>2. ASSUME NEW v \in Live!Values, Live!Collect(v) PROVE Live!TypeOK'
  <2>1. step' \in Live!Values \union {"observe", "close"}
    BY <1>2 DEF Live!Collect, Live!After, Live!Values
  <2>2. live[v] \in Live!LiveValues
    BY DEF Live!TypeOK
  <2>3. [data |-> online, stale |-> FALSE] \in Live!LiveValues
    BY DEF Live!TypeOK, Live!LiveValues
  <2>4. live' \in [Live!Values -> Live!LiveValues]
    <3>1. PICK x \in Live!LiveValues : live' = [live EXCEPT ![v] = x]
      BY <1>2, <2>2, <2>3, StalesAreValues DEF Live!Collect
    <3> QED
      BY <3>1 DEF Live!TypeOK
  <2> QED
    BY <1>2, <2>1, <2>4 DEF Live!Collect, Live!TypeOK, Live!Open
<1>3. CASE Live!Observe
  BY <1>3 DEF Live!Observe, Live!TypeOK, Live!Open, Live!Values
<1>4. CASE Live!CloseSource
  BY <1>4 DEF Live!CloseSource, Live!TypeOK, Live!Open
<1>5. CASE Live!Publish
  BY <1>5 DEF Live!Publish, Live!TypeOK, Live!Open
<1> QED
  BY <1>1, <1>2, <1>3, <1>4, <1>5 DEF Live!Cycle

\* A step of the monitor keeps the types.
LEMMA LiveNextKeepsTypes ==
  ASSUME Live!TypeOK, Live!Next
  PROVE  Live!TypeOK'
<1>1. CASE Live!Change
  <2>1. online' \subseteq Players /\ working' \subseteq Live!Parts /\ changes' \in 0..MaxChanges
    BY <1>1, NotificationsAssumption DEF Live!Change, Live!TypeOK
  <2> QED
    BY <1>1, <2>1 DEF Live!Change, Live!TypeOK, Live!Open
<1>2. CASE Live!Cycle
  BY <1>2, CycleKeepsTypes
<1>3. CASE Live!Fails
  <2>1. raised' \in 0..MaxFailures
    BY <1>3, NotificationsAssumption DEF Live!Fails, Live!TypeOK
  <2> QED
    BY <1>3, <2>1 DEF Live!Fails, Live!TypeOK, Live!Open
<1>4. CASE Live!Restart
  <2>1. raised' \in 0..MaxFailures
    BY <1>4, NotificationsAssumption DEF Live!Restart, Live!TypeOK
  <2>2. live' \in [Live!Values -> Live!LiveValues]
    BY <1>4 DEF Live!Restart, Live!Uncollected, Live!LiveValues
  <2>3. shown' \in [Pages -> [Live!Values -> Live!LiveValues] \union {None}] /\ behind' = {}
    BY <1>4 DEF Live!Restart
  <2> QED
    BY <1>4, <2>1, <2>2, <2>3 DEF Live!Restart, Live!TypeOK
<1>5. ASSUME NEW p \in Pages, Live!Show(p) PROVE Live!TypeOK'
  BY <1>5, ShowKeepsTypes DEF Live!Show, Live!TypeOK
<1>6. ASSUME NEW p \in Pages, Live!Disconnect(p) PROVE Live!TypeOK'
  BY <1>6, ShowKeepsTypes DEF Live!Disconnect
<1> QED
  BY <1>1, <1>2, <1>3, <1>4, <1>5, <1>6
     DEF Live!Next, Live!Connect, Live!Follow, Live!Refresh

\* Every step keeps the types of the monitor.
LEMMA LiveStepKeepsTypes ==
  ASSUME Live!TypeOK, [Next]_vars
  PROVE  Live!TypeOK'
<1>1. CASE MonitorStep
  BY <1>1, LiveNextKeepsTypes DEF MonitorStep
<1>2. CASE LogStep \/ NoticesStep \/ RosterStep \/ UNCHANGED vars
  <2>1. UNCHANGED monitorVars
    BY <1>2 DEF LogStep, NoticesStep, RosterStep, vars
  <2> QED
    BY <2>1 DEF monitorVars, Live!TypeOK, Live!Open
<1> QED
  BY <1>1, <1>2 DEF Next

\* The monitor has its types at the start.
LEMMA LiveInit == Init => Live!TypeOK
<1> SUFFICES ASSUME Init PROVE Live!TypeOK
  OBVIOUS
<1>1. Live!Init
  BY DEF Init
<1>2. live \in [Live!Values -> Live!LiveValues]
  BY <1>1 DEF Live!Init, Live!Uncollected, Live!LiveValues
<1> QED
  BY <1>1, <1>2, NotificationsAssumption DEF Live!Init, Live!TypeOK, Live!Open

\* The proofs about the notices.
Sent == INSTANCE NotificationsProof


\* The notices of Reporting are those NotificationsProof is about.
LEMMA SameNotices ==
  /\ Notes!Init => Sent!Init
  /\ Notes!Next => Sent!Next
  /\ Sent!TypeOK => Notes!TypeOK
<1>1. ASSUME NEW c \in Callers, Notes!Report(c) \/ Notes!Queue(c) PROVE Sent!Report(c) \/ Sent!Queue(c)
  BY <1>1, Zenon
     DEF Notes!Report, Notes!Queue, Notes!Put, Notes!Started, Notes!NotStarted,
         Sent!Report, Sent!Queue, Sent!Put, Sent!Started, Sent!NotStarted
<1>2. ASSUME NEW t \in Notes!Threads, Notes!Dispatch(t) PROVE t \in Sent!Threads /\ Sent!Dispatch(t)
  BY <1>2, Zenon
     DEF Notes!Threads, Notes!Dispatch, Notes!Take, Notes!Send,
         Sent!Threads, Sent!Dispatch, Sent!Take, Sent!Send
<1>3. Notes!Configure => Sent!Configure
  BY Zenon DEF Notes!Configure, Sent!Configure
<1>4. Notes!Crash => Sent!Crash
  BY Zenon DEF Notes!Crash, Sent!Crash, Notes!NoDispatcher, Sent!NoDispatcher, Notes!Threads, Sent!Threads
<1>5. Notes!Next => Sent!Next
  BY <1>1, <1>2, <1>3, <1>4, Zenon DEF Notes!Next, Sent!Next
<1>6. Notes!Init => Sent!Init
  BY Zenon DEF Notes!Init, Sent!Init, Notes!NoDispatcher, Sent!NoDispatcher, Notes!Threads, Sent!Threads
<1>7. Sent!TypeOK => Notes!TypeOK
  BY Zenon DEF Notes!TypeOK, Sent!TypeOK, Notes!Threads, Sent!Threads, Notes!Notices, Sent!Notices
<1> QED
  BY <1>5, <1>6, <1>7, Zenon

\* The invariant of the notices holds at the start.
LEMMA NoticesInit == Init => Sent!IInv
  BY SameNotices, Sent!InitInv, NotificationsAssumption DEF Init

\* Every step keeps the invariant of the notices.
LEMMA NoticesStepKeeps == Sent!IInv /\ [Next]_vars => Sent!IInv'
<1> SUFFICES ASSUME Sent!IInv, [Next]_vars PROVE Sent!IInv'
  OBVIOUS
<1>1. [Sent!Next]_(Sent!vars)
  <2>1. CASE NoticesStep
    BY <2>1, SameNotices DEF NoticesStep
  <2>2. CASE LogStep \/ MonitorStep \/ RosterStep \/ UNCHANGED vars
    BY <2>2 DEF LogStep, MonitorStep, RosterStep, vars, noticesVars, Sent!vars
  <2> QED
    BY <2>1, <2>2 DEF Next
<1> QED
  BY <1>1, Sent!StepInv, NotificationsAssumption

\* It implies their types.
LEMMA NoticesTypes == Sent!IInv => Notes!TypeOK
  BY SameNotices, Zenon DEF Sent!IInv, Sent!Flags, Sent!Others, Sent!TypeOK

\* All variables of the four parts have their types, for any bounds.
THEOREM TypeCorrect == Spec => []TypeOK
<1>1. IInv /\ Sent!IInv /\ Live!TypeOK /\ RosterInv => TypeOK
  BY NoticesTypes DEF IInv, RosterInv, TypeOK
<1>2. Spec => []Live!TypeOK
  BY LiveInit, LiveStepKeepsTypes, PTL DEF Spec
<1>3. Spec => []Sent!IInv
  BY NoticesInit, NoticesStepKeeps, PTL DEF Spec
<1> QED
  BY <1>1, <1>2, <1>3, LogInvariant, RosterInvariant, PTL
=============================================================================
