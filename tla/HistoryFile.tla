---------------------------- MODULE HistoryFile -----------------------------
(***************************************************************************)
(* A history of unlimited length: three append-only files, one of cells,   *)
(* one with the position in it where each line ends, and one with the      *)
(* lines' flags.  Each file counts how many more writes than reads it has  *)
(* seen and is mapped into memory when it is mostly read; the map shows    *)
(* the file as long as it was when it was made.                            *)
(***************************************************************************)
EXTENDS Integers, Sequences

CONSTANTS
    MapThreshold,   \* a file is mapped when its balance falls below this
    IntMin, IntMax, \* where the balance stops
    Garbage         \* what a read beyond the end of a file or a map returns

ASSUME HistoryFileAssumption ==
    /\ MapThreshold \in Int /\ IntMin \in Int /\ IntMax \in Int
    /\ IntMin < MapThreshold /\ MapThreshold < 0 /\ 0 < IntMax

NotMapped == -1
NewFile == [data |-> <<>>, map |-> NotMapped, balance |-> 0]

LessOf(a, b) == IF a <= b THEN a ELSE b
MoreOf(a, b) == IF a >= b THEN a ELSE b

(* HistoryFile::add.  It unmaps the file, whose map would not show what is *)
(* added; a write that fails adds nothing.                                 *)
Added(f, items, written) ==
    [data    |-> IF written THEN f.data \o items ELSE f.data,
     map     |-> NotMapped,
     balance |-> LessOf(f.balance + 1, IntMax)]

ValidGet(f, n, loc) == 0 <= loc /\ 0 <= n /\ loc + n <= Len(f.data)

(* The file after a valid get: it may have been mapped, unless the flush   *)
(* before it fails or there is nothing to map.                             *)
Got(f, flushed) ==
    LET balance == MoreOf(f.balance - 1, IntMin)
        mustMap == f.map = NotMapped /\ balance < MapThreshold IN
    IF ~mustMap THEN [f EXCEPT !.balance = balance]
    ELSE IF flushed /\ f.data # <<>> THEN [f EXCEPT !.balance = balance, !.map = Len(f.data)]
    ELSE [f EXCEPT !.balance = 0]

(* What a get of n items from loc copies: from the map, if there is one *)
Copied(f, n, loc) ==
    LET end == IF f.map = NotMapped THEN Len(f.data) ELSE f.map
    IN  [i \in 1 .. n |-> IF loc + i <= end THEN f.data[loc + i] ELSE Garbage]

-----------------------------------------------------------------------------
(* HistoryScrollFile; lines count from 0 *)
Files == {"index", "cells", "flags"}
NewScroll == [f \in Files |-> NewFile]

GetLines(h) == Len(h.index.data)

(* startOfLine: index[0] is the start of the second line *)
StartOfLine(h, line) ==
    IF line <= 0 THEN 0
    ELSE IF line <= GetLines(h) THEN Copied(h.index, 1, line - 1)[1]
    ELSE Len(h.cells.data)
LineLen(h, line) == StartOfLine(h, line + 1) - StartOfLine(h, line)

FlagsGiven(h, line) == ValidGet(h.flags, 1, line)
IsWrappedLine(h, line) == FlagsGiven(h, line) /\ Copied(h.flags, 1, line)[1]
LineAt(h, line) ==
    [cells   |-> Copied(h.cells, LineLen(h, line), StartOfLine(h, line)),
     wrapped |-> IsWrappedLine(h, line)]

AddedFirst(h, cells, failed) == Len(h.cells.data)   \* mutant: the start of the line
(* The position that addLine writes: the end of the cells just added *)
EndOfCells(h, cells, failed) == Len(h.cells.data) + IF "cells" \in failed THEN 0 ELSE Len(cells)

(* addCells and then addLine; the files in failed refuse their write *)
WithLine(h, cells, wrapped, failed) ==
    [cells |-> Added(h.cells, cells, "cells" \notin failed),
     index |-> Added(h.index, <<EndOfCells(h, cells, failed)>>, "index" \notin failed),
     flags |-> Added(h.flags, <<wrapped>>, "flags" \notin failed)]

(* A scroll of the lines, each written without a failure *)
ScrollOf(lines) ==
    LET upTo[n \in 0 .. Len(lines)] ==
          IF n = 0 THEN NewScroll
          ELSE WithLine(upTo[n - 1], lines[n].cells, lines[n].wrapped, {})
    IN  upTo[Len(lines)]

(* The gets by which Screen reads one line (copyFromHistory and            *)
(* getLineProperties): the index is read for its end and twice for its     *)
(* start, but not for the start of line 0.                                 *)
LineRead(h, line, flushed) ==
    [index |-> IF line = 0 THEN Got(h.index, flushed)
               ELSE Got(Got(Got(h.index, flushed), flushed), flushed),
     cells |-> Got(h.cells, flushed),
     flags |-> IF FlagsGiven(h, line) THEN Got(h.flags, flushed) ELSE h.flags]

(* Every get that reading a line makes is one that get accepts *)
GetsValid(h) ==
    \A line \in 0 .. GetLines(h) - 1 :
        /\ LineLen(h, line) >= 0
        /\ ValidGet(h.cells, LineLen(h, line), StartOfLine(h, line))
=============================================================================
