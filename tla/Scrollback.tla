----------------------------- MODULE Scrollback -----------------------------
(***************************************************************************)
(* What happens to a character from the moment it is written until it is   *)
(* read from the history: the last rows of a screen (class Screen), the    *)
(* table of extended characters, and the storage of the history in a file  *)
(* or in compact blocks.  The cursor is on the bottom row, where a shell   *)
(* writes; the other operations of the screen are in module Screen.        *)
(***************************************************************************)
EXTENDS ExtendedCharTable, HistoryFile, CompactHistory

CONSTANTS
    Codes,     \* the code points of characters one cell wide
    Marks,     \* the code points of combining marks
    Pens,  \* renditions and colours
    Default,   \* the default one
    Height,    \* rows of the screen that are modelled
    Columns,
    Sizes      \* the fixed sizes a history may be given

ASSUME ScrollbackAssumption ==
    /\ Codes \subseteq Nat /\ Marks \subseteq Nat /\ Default \in Pens
    /\ Height \in Nat \ {0, 1} /\ Columns \in Nat \ {0} /\ Sizes \subseteq Nat
    \* the formats and the text of a line are never too long for a block
    /\ FormatSize * Columns <= BlockLength /\ CodeSize * Columns <= BlockLength

Space == 32
None == "None"
File == "File"
Compact == "Compact"

VARIABLES
    rows,      \* _screenLines and the wrapped flag of each row
    x,         \* _cuX; _cuY is the bottom row
    table,     \* ExtendedCharTable::instance
    kind,      \* the class of _history
    type,      \* the size the history was created with: getType()
    history,   \* what it stores
    typed,     \* for the properties: the sequence that each cell of rows should show
    damaged    \* for the properties: a write to the present file has failed

vars == <<rows, x, table, kind, type, history, typed, damaged>>

Bottom == Height
EmptyRow == [cells |-> <<>>, wrapped |-> FALSE]

(* The cells that QVector::resize adds, and those that clearImage writes *)
FreshCell == [code |-> Space, ext |-> FALSE, real |-> TRUE, format |-> Default]
PlaceHolder(f) == [code |-> Space, ext |-> FALSE, real |-> FALSE, format |-> f]
Cell(c, f) == [code |-> c, ext |-> FALSE, real |-> TRUE, format |-> f]
TypedSpace(f) == [seq |-> <<Space>>, format |-> f]

Grown(cells, n, fresh) ==
    [i \in 1 .. Max({n, Len(cells)}) |-> IF i <= Len(cells) THEN cells[i] ELSE fresh]

(* What a cell shows: the decoders and the painter look extended ones up *)
Shown(t, cell) ==
    [seq |-> IF cell.ext THEN Lookup(t, cell.code) ELSE <<cell.code>>, format |-> cell.format]
ShownLine(t, line) ==
    [cells |-> [i \in DOMAIN line.cells |-> Shown(t, line.cells[i])], wrapped |-> line.wrapped]

-----------------------------------------------------------------------------
(* The history, whatever its kind *)

Lines ==
    CASE kind = None -> <<>>
      [] kind = File -> [i \in 1 .. GetLines(history) |-> LineAt(history, i - 1)]
      [] kind = Compact -> [i \in DOMAIN history.lines |-> CompactLineAt(history.lines[i])]

(* addHistLine; failed are the files whose write fails *)
WithRecorded(line, failed) ==
    CASE kind = None -> history
      [] kind = File -> WithLine(history, line.cells, line.wrapped, failed)
      [] kind = Compact -> WithCompactLine(history, line.cells, line.wrapped)

FailingWrites == IF kind = File THEN SUBSET Files ELSE {{}}

(* nextLine on the bottom row: the top row is recorded, the rows move up *)
Feeds(from, shown, failed) ==
    /\ history' = WithRecorded(from[1], failed)
    /\ damaged' = (damaged \/ failed # {})
    /\ rows' = Append(Tail(from), EmptyRow)
    /\ typed' = Append(Tail(shown), <<>>)

-----------------------------------------------------------------------------
Init ==
    /\ rows = [y \in 1 .. Height |-> EmptyRow]
    /\ x = 0
    /\ table = EmptyTable
    /\ kind = None /\ type = 0 /\ history = <<>>
    /\ typed = [y \in 1 .. Height |-> <<>>]
    /\ damaged = FALSE

KeepsHistory == UNCHANGED <<kind, type, history, damaged>>

(* displayCharacter on a row that has room *)
Put(c, f) ==
    LET cells == Grown(rows[Bottom].cells, x + 1, FreshCell)
        shown == Grown(typed[Bottom], x + 1, TypedSpace(Default)) IN
    /\ x < Columns
    /\ rows' = [rows EXCEPT ![Bottom].cells = [cells EXCEPT ![x + 1] = Cell(c, f)]]
    /\ typed' = [typed EXCEPT ![Bottom] = [shown EXCEPT ![x + 1] = [seq |-> <<c>>, format |-> f]]]
    /\ x' = x + 1
    /\ UNCHANGED table /\ KeepsHistory

(* displayCharacter past the end of a full row wraps: the row is marked,   *)
(* the screen feeds a line, and the character starts the new row.          *)
PutWrapping(c, f, failed) ==
    LET marked == [rows EXCEPT ![Bottom].wrapped = TRUE] IN
    /\ x = Columns
    /\ history' = WithRecorded(marked[1], failed)
    /\ damaged' = (damaged \/ failed # {})
    /\ rows' = Append(Tail(marked), [cells |-> <<Cell(c, f)>>, wrapped |-> FALSE])
    /\ typed' = Append(Tail(typed), <<[seq |-> <<c>>, format |-> f]>>)
    /\ x' = 1
    /\ UNCHANGED <<table, kind, type>>

(* The cell a combining mark joins: the last real one before the cursor,   *)
(* on this row or an earlier one, but no row beyond an empty one is tried. *)
BeforeCursor(y) == IF y = Bottom THEN 1 .. Min({x, Len(rows[y].cells)}) ELSE DOMAIN rows[y].cells
RealBefore(y) == {i \in BeforeCursor(y) : rows[y].cells[i].real}
CombineRows ==
    {y \in 1 .. Height : /\ RealBefore(y) # {}
                         /\ \A z \in y + 1 .. Height : RealBefore(z) = {}
                         /\ \A z \in y .. Height - 1 : rows[z].cells # <<>>}

(* A cell takes at most two marks *)
TakesMark(cell) == cell.ext => Len(Lookup(table, cell.code)) < 3

(* displayCharacter of a mark of width 0 *)
Combine(m) ==
    \E y \in CombineRows :
        LET i == Max(RealBefore(y))
            cell == rows[y].cells[i]
            seq == Append(IF cell.ext THEN Lookup(table, cell.code) ELSE <<cell.code>>, m) IN
        /\ TakesMark(cell)
        /\ table' = Inserted(table, seq)
        /\ rows' = [rows EXCEPT ![y].cells[i] = [@ EXCEPT !.ext = TRUE, !.code = Slot(table, seq)]]
        /\ typed' = [typed EXCEPT ![y][i].seq = Append(@, m)]
        /\ UNCHANGED x /\ KeepsHistory

CarriageReturn == x' = 0 /\ UNCHANGED <<rows, typed, table>> /\ KeepsHistory

NextLine(failed) == Feeds(rows, typed, failed) /\ x' = 0 /\ UNCHANGED <<table, kind, type>>

(* clearToBeginOfLine with the colours of f *)
ClearToBeginOfLine(f) ==
    LET last == IF x = Columns THEN Columns ELSE x + 1
        shrinks == f = Default /\ last = Columns
        cells == Grown(rows[Bottom].cells, last, FreshCell)
        shown == Grown(typed[Bottom], last, TypedSpace(Default)) IN
    /\ rows' = [rows EXCEPT ![Bottom] =
                  [cells |-> IF shrinks THEN <<>>
                             ELSE [i \in DOMAIN cells |-> IF i <= last THEN PlaceHolder(f) ELSE cells[i]],
                   wrapped |-> FALSE]]
    /\ typed' = [typed EXCEPT ![Bottom] =
                  IF shrinks THEN <<>>
                  ELSE [i \in DOMAIN shown |-> IF i <= last THEN TypedSpace(f) ELSE shown[i]]]
    /\ UNCHANGED <<x, table>> /\ KeepsHistory

-----------------------------------------------------------------------------
KeepsRows == UNCHANGED <<rows, x, table, typed>>

(* copyFromHistory and getLineProperties for one line *)
ReadLine(line, flushed) ==
    /\ kind = File /\ line < GetLines(history)
    /\ history' = LineRead(history, line, flushed)
    /\ UNCHANGED <<kind, type, damaged>> /\ KeepsRows

CreatedNone == kind' = None /\ type' = 0 /\ history' = <<>> /\ damaged' = FALSE
CreatedCompact(n) == kind' = Compact /\ type' = n /\ history' = NewCompact(n) /\ damaged' = FALSE
CreatedFile(lines) == kind' = File /\ type' = 0 /\ history' = ScrollOf(lines)

(* setScroll with copyPreviousScroll: HistoryType::scroll(old).  A file is *)
(* always copied to another, since the cast that would keep it never       *)
(* succeeds; only a compact history survives a change to a fixed size.     *)
SetHistoryNone == CreatedNone /\ KeepsRows
SetHistoryFile == CreatedFile(Lines) /\ damaged' = damaged /\ KeepsRows
SetHistoryCompact(n) ==
    /\ IF kind = Compact
       THEN history' = Trimmed(history, n) /\ UNCHANGED <<kind, type, damaged>>
       ELSE CreatedCompact(n)
    /\ KeepsRows

(* Emulation::clearHistory: a new history of the type of the old one *)
ClearHistory ==
    /\ \/ kind = None /\ CreatedNone
       \/ kind = File /\ CreatedFile(<<>>) /\ damaged' = FALSE
       \/ kind = Compact /\ CreatedCompact(type)
    /\ KeepsRows

Next ==
    \/ \E c \in Codes, f \in Pens : Put(c, f)
    \/ \E c \in Codes, f \in Pens, failed \in FailingWrites : PutWrapping(c, f, failed)
    \/ \E m \in Marks : Combine(m)
    \/ CarriageReturn
    \/ \E failed \in FailingWrites : NextLine(failed)
    \/ \E f \in Pens : ClearToBeginOfLine(f)
    \/ kind = File /\ \E line \in 0 .. GetLines(history) - 1, flushed \in BOOLEAN : ReadLine(line, flushed)
    \/ SetHistoryNone \/ SetHistoryFile \/ \E n \in Sizes : SetHistoryCompact(n)
    \/ ClearHistory

Spec == Init /\ [][Next]_vars

-----------------------------------------------------------------------------
CellType == [code : Nat, ext : BOOLEAN, real : BOOLEAN, format : Pens]
TypedType == [seq : Seq(Nat), format : Pens]

TypeOK ==
    /\ rows \in [1 .. Height -> [cells : Seq(CellType), wrapped : BOOLEAN]]
    /\ \A y \in 1 .. Height : Len(rows[y].cells) <= Columns
    /\ x \in 0 .. Columns
    /\ \A h \in DOMAIN table : h \in Nat /\ table[h] \in Seq(Nat) /\ Len(table[h]) \in {2, 3}
    /\ kind \in {None, File, Compact} /\ type \in Sizes \cup {0}
    /\ \A i \in DOMAIN Lines : damaged \/ Lines[i].cells \in Seq(CellType)
    /\ typed \in [1 .. Height -> Seq(TypedType)]
    /\ damaged \in BOOLEAN

(* Every cell of the screen shows the characters that were written to it,  *)
(* with the marks that joined them, although the cells of two different    *)
(* sequences with the same hash share the table (createExtendedChar).      *)
RowsShowTyped ==
    \A y \in 1 .. Height : [i \in DOMAIN rows[y].cells |-> Shown(table, rows[y].cells[i])] = typed[y]

(* The blocks of a compact history count exactly the parts of the lines    *)
(* that live in them, whatever lines are added, dropped or trimmed.        *)
BlocksAccounted == kind = Compact => Accounted(history)

(* A history file can be read without leaving the file, or the map of it:  *)
(* after writes that failed in one of the three files, and after any       *)
(* sequence of reads and writes that maps and unmaps them.                 *)
ReadsInside ==
    kind = File =>
        /\ \A f \in Files : history[f].map \in {NotMapped, Len(history[f].data)}
        /\ GetsValid(history)

(* What the stores need to go on working.                                  *)
StorageInv == TypeOK /\ BlocksAccounted /\ ReadsInside

(* The whole is a store of lines: what a reader is shown of the history is *)
(* what was written, in order, down to the marks, the formats and the      *)
(* wrapping of lines, for every kind of history and change between them.   *)
Store == INSTANCE LineStore WITH
    page   <- [y \in 1 .. Height |-> [cells |-> typed[y], wrapped |-> rows[y].wrapped]],
    stored <- IF damaged THEN <<>> ELSE [i \in DOMAIN Lines |-> ShownLine(table, Lines[i])],
    room   <- CASE kind = None -> 0 [] kind = File -> -1 [] kind = Compact -> history.max + 1,
    broken <- damaged
ImplementsLineStore == Store!Spec

-----------------------------------------------------------------------------
(* What PlainTextDecoder::decodeLine copies: the real characters, and the  *)
(* place holders before the last of them.                                  *)
LastReal(cells) == Max({0} \cup {i \in DOMAIN cells : cells[i].real})
CopiedText(t, cells) ==
    LET copied == SelectSeq([i \in DOMAIN cells |-> i],
                            LAMBDA i : cells[i].ext \/ i <= LastReal(cells))
    IN  [j \in DOMAIN copied |-> Shown(t, cells[copied[j]]).seq]

(* "Indicate whether this character really exists, or exists simply as     *)
(* place holder" (Character.h): so a line that scrolls into a compact      *)
(* history is copied to the clipboard as it was before.  A run of a        *)
(* compact line takes the mark of its first cell for all of its cells.     *)
HistoryKeepsText ==
    [][ kind = Compact /\ rows' # rows /\ history' # history
        => CopiedText(table, Last(Lines').cells) = CopiedText(table, rows[1].cells) ]_vars
=============================================================================
