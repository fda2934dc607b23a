------------------------------- MODULE Screen -------------------------------
(***************************************************************************)
(* The character screen of the terminal emulation (class Screen): a grid   *)
(* of rows with a cursor, scrolling margins, modes, tab stops, a history   *)
(* that takes the rows scrolled off the top, and the user's selection.     *)
(* One action is one call the VT102 decoder or the view makes.             *)
(*                                                                         *)
(* Abstracted: colours and renditions (all cells have the default ones),   *)
(* combining characters, and the counters _scrolledLines and _droppedLines *)
(* that Screen never reads (module ScreenView has them).  tab, backtab and *)
(* repeatChars with a count repeat a body; the model takes one turn of     *)
(* that loop per step.                                                     *)
(*                                                                         *)
(* Rows and columns count from 0.  A position loc(x, y) is the pair        *)
(* <<row, column>>; a column past the last is one of a later row, as it is *)
(* for the number y * columns + x.                                         *)
(***************************************************************************)
EXTENDS Integers, Sequences, FiniteSets

CONSTANTS
    Chars,         \* the visible characters that are written
    Args,          \* the numeric arguments of control sequences
    Sizes,         \* the sizes a view or a program may ask for
    FirstSize,     \* the size the screen is built with
    HistoryTypes   \* what setScroll may be given: None, File or a line count

None == 0
File == -1
Blank == " "
WideTail == "0"    \* the second cell of a double-width character

(* A view asks for at least two lines and two columns (updateTerminalSize), *)
(* a program for one of each (ESC [ 8 ; <lines> ; <columns> t).             *)
ASSUME ScreenAssumption ==
    /\ Args \subseteq Nat
    /\ Sizes \subseteq [lines : Nat \ {0}, columns : Nat \ {0}]
    /\ FirstSize \in Sizes
    /\ HistoryTypes \subseteq Nat \cup {File}
    /\ Blank \notin Chars /\ WideTail \notin Chars

VARIABLES
    size,        \* _lines, _columns
    cursor,      \* _cuX, _cuY
    margin,      \* _topMargin, _bottomMargin
    mode,        \* _currentModes: Origin, Wrap, Insert, NewLine
    savedMode,   \* _savedModes
    saved,       \* _savedState, the position in it
    tabStops,    \* _tabStops, as the set of the columns that are set
    lastChar,    \* _lastDrawnChar
    image,       \* the rows (one more than _lines), the history, the
                 \* selection, and whether a row out of bounds was used
    histType     \* the type of _history

vars == <<size, cursor, margin, mode, savedMode, saved, tabStops, lastChar, image, histType>>

Cells == Chars \cup {Blank, WideTail, "E"}
Modes == {"Origin", "Wrap", "Insert", "NewLine"}

Min2(a, b) == IF a <= b THEN a ELSE b
Max2(a, b) == IF a >= b THEN a ELSE b
Default(n) == IF n = 0 THEN 1 ELSE n

EmptyRow == [cells |-> <<>>, wrapped |-> FALSE]

-----------------------------------------------------------------------------
(* Positions *)

Loc(x, y) ==
    IF x < size.columns THEN <<y, x>> ELSE <<y + x \div size.columns, x % size.columns>>
NoPos == <<-1, 0>>

AtOrBefore(p, q) == p[1] < q[1] \/ (p[1] = q[1] /\ p[2] <= q[2])
Before(p, q) == AtOrBefore(p, q) /\ p # q
Shift(p, rows) == <<p[1] + rows, p[2]>>

(* The selection: _selBegin, _selTopLeft, _selBottomRight and block mode.  *)
NoSelection(s) == [s EXCEPT !.begin = NoPos, !.tl = NoPos, !.br = NoPos]
Selecting(s) == s.begin # NoPos

SettleUncut(s, tl, br) ==   \* mutant: the start is not cut off at the top
    IF br[1] < 0 THEN NoSelection(s)
    ELSE [s EXCEPT !.tl = tl, !.br = br, !.begin = IF s.begin = s.tl THEN tl ELSE br]
(* Both addHistLine and moveImage end like this: a selection whose end has *)
(* left the top is dropped, one whose start has is cut off at the top.     *)
Settle(s, tl, br) ==
    IF br[1] < 0 THEN NoSelection(s)
    ELSE LET top == IF tl[1] < 0 THEN <<0, 0>> ELSE tl
         IN  [s EXCEPT !.tl = top, !.br = br,
                       !.begin = IF s.begin = s.tl THEN top ELSE br]

-----------------------------------------------------------------------------
(* Rows *)

Resize(cells, n) == [i \in 1 .. n |-> IF i <= Len(cells) THEN cells[i] ELSE Blank]
Grown(cells, n) == IF Len(cells) < n THEN Resize(cells, n) ELSE cells

(* One row of clearImage, from column a to column b *)
ClearedRow(row, a, b, ch) ==
    [cells |-> IF ch = Blank /\ b = size.columns - 1
               THEN Resize(row.cells, a)
               ELSE [i \in 1 .. Max2(Len(row.cells), b + 1) |->
                       IF i - 1 \in a .. b THEN ch
                       ELSE IF i <= Len(row.cells) THEN row.cells[i] ELSE Blank],
     wrapped |-> FALSE]

InsertedCells(cells, x, n) ==
    LET c == Grown(cells, x)
        inserted == SubSeq(c, 1, x) \o [i \in 1 .. n |-> Blank] \o SubSeq(c, x + 1, Len(c))
    IN  IF Len(inserted) > size.columns THEN SubSeq(inserted, 1, size.columns) ELSE inserted

DeletedCells(cells, x, n) ==
    IF x >= Len(cells) THEN cells
    ELSE LET k == Min2(n, Len(cells) - x)
         IN  SubSeq(cells, 1, x) \o SubSeq(cells, x + k + 1, Len(cells)) \o [i \in 1 .. k |-> Blank]

-----------------------------------------------------------------------------
(* The history and the image *)

(* The history after rows were added one by one: a fixed-size history      *)
(* drops a line before it appends when it holds more than its maximum.     *)
Recorded(h, rows) ==
    LET all == h \o rows
        kept == IF histType = File THEN Len(all) ELSE Min2(Len(all), histType + 1)
    IN  SubSeq(all, Len(all) - kept + 1, Len(all))

HasScroll == histType # None

(* The rows an operation indexes, first to last, against the rows there are *)
Outside(first, last) == first <= last /\ ~(0 <= first /\ last <= size.lines)

GrownAlways(before, after) == 1   \* mutant: a full history drops a line instead
(* The lines a history gained *)
GrownBy(before, after) == IF Len(after) > Len(before) THEN 1 ELSE 0

RecordsSecondRow(img) == img.rows[1]   \* mutant: scrolled before it is recorded
(* What addHistLine records *)
RecordsRow(img) == img.rows[0]

(* addHistLine *)
AddHistLine(img) ==
    IF ~HasScroll THEN img
    ELSE LET history == Recorded(img.history, <<RecordsRow(img)>>)
             grown == GrownBy(img.history, history)
             Up(p) == LET q == Shift(p, grown)
                      IN  IF q[1] < 1 + Len(history) THEN Shift(q, -1) ELSE q
         IN  [rows |-> img.rows, history |-> history, outside |-> img.outside,
              sel |-> IF Selecting(img.sel)
                      THEN Settle(img.sel, Up(img.sel.tl), Up(img.sel.br))
                      ELSE img.sel]

(* How moveImage takes the selection along with rows that move by d *)
MovedSelection(s, first, last, d) ==
    LET Moves(p) == AtOrBefore(first, p) /\ AtOrBefore(p, last)
        Overwritten(p) == AtOrBefore(Shift(first, d), p) /\ AtOrBefore(p, Shift(last, d))
        br == IF ~Moves(s.tl) /\ Overwritten(s.tl) THEN NoPos ELSE s.br
    IN  Settle(s,
               IF Moves(s.tl) THEN Shift(s.tl, d) ELSE s.tl,
               IF Moves(br) THEN Shift(br, d) ELSE IF Overwritten(br) THEN NoPos ELSE br)

(* moveImage(loc(0, dest), loc(0, source), last) *)
MoveImage(img, dest, source, last) ==
    LET k == last[1] - source
        d == dest - source
        h == Len(img.history)
    IN  [rows |-> [y \in DOMAIN img.rows |->
                     IF dest <= y /\ y <= dest + k /\ y - d \in DOMAIN img.rows
                     THEN img.rows[y - d] ELSE img.rows[y]],
         history |-> img.history,
         sel |-> IF Selecting(img.sel)
                 THEN MovedSelection(img.sel, <<source + h, 0>>, Shift(last, h), d)
                 ELSE img.sel,
         outside |-> img.outside \/ k < 0
                     \/ Outside(dest, dest + k) \/ Outside(source, source + k)]

(* The overlap test of clearImage: both comparisons are strict *)
ClearTouches(s, first, last) == Before(first, s.br) /\ Before(s.tl, last)

(* The row and column of a position that may be before the first one: the  *)
(* division that finds them rounds towards zero.                           *)
Truncated(p) == IF p[1] < 0 /\ p[2] > 0 THEN <<p[1] + 1, p[2] - size.columns>> ELSE p

(* clearImage(first, last, ch) *)
ClearImage(img, first, last, ch) ==
    LET h == Len(img.history)
        end == Truncated(last)
    IN  [rows |-> [y \in DOMAIN img.rows |->
                     IF first[1] <= y /\ y <= end[1]
                     THEN ClearedRow(img.rows[y],
                                     IF y = first[1] THEN first[2] ELSE 0,
                                     IF y = end[1] THEN end[2] ELSE size.columns - 1, ch)
                     ELSE img.rows[y]],
         history |-> img.history,
         sel |-> IF ClearTouches(img.sel, Shift(first, h), Shift(last, h))
                 THEN NoSelection(img.sel) ELSE img.sel,
         outside |-> img.outside \/ Outside(first[1], end[1])]

(* The lines scrollUp(from, n) can scroll: at most the rest of the region *)
UpBy(from, n) == IF from + n > margin.bottom THEN margin.bottom + 1 - from ELSE n

(* scrollUp(from, n), the private one *)
ScrollRegionUp(img, from, n) ==
    IF n <= 0 \/ from > margin.bottom THEN img
    ELSE LET k == UpBy(from, n)
         IN  ClearImage(MoveImage(img, from, from + k, Loc(size.columns, margin.bottom)),
                        Loc(0, margin.bottom - k + 1), Loc(size.columns - 1, margin.bottom), Blank)

(* scrollDown(from, n), the private one *)
ScrollRegionDown(img, from, n) ==
    IF n <= 0 \/ from > margin.bottom THEN img
    ELSE LET k == IF from + n > margin.bottom THEN margin.bottom - from ELSE n
         IN  ClearImage(MoveImage(img, from + k, from, Loc(size.columns - 1, margin.bottom - k)),
                        Loc(0, from), Loc(size.columns - 1, from + k - 1), Blank)

(* scrollUp(n): one line goes to the history, however many are scrolled *)
ScrollUpBy(img, n) ==
    ScrollRegionUp(IF margin.top = 0 THEN AddHistLine(img) ELSE img, margin.top, Default(n))

(* index(), as what becomes of the image and of the cursor's line *)
IndexImage(img, y) == IF y = margin.bottom THEN ScrollUpBy(img, 1) ELSE img
IndexLine(y) == IF y # margin.bottom /\ y < size.lines - 1 THEN y + 1 ELSE y

(* A change of the cells of row y *)
WithCells(img, y, cells) ==
    [rows |-> [r \in DOMAIN img.rows |->
                 IF r = y THEN [cells |-> cells, wrapped |-> img.rows[y].wrapped] ELSE img.rows[r]],
     history |-> img.history, sel |-> img.sel, outside |-> img.outside \/ Outside(y, y)]

WithWrapped(img, y) ==
    [rows |-> [r \in DOMAIN img.rows |->
                 IF r = y THEN [cells |-> img.rows[y].cells, wrapped |-> TRUE] ELSE img.rows[r]],
     history |-> img.history, sel |-> img.sel, outside |-> img.outside \/ Outside(y, y)]

(* checkSelection(pos, pos) *)
CheckSelection(img, pos) ==
    LET p == Shift(pos, Len(img.history))
    IN  [rows |-> img.rows, history |-> img.history, outside |-> img.outside,
         sel |-> IF Selecting(img.sel) /\ AtOrBefore(p, img.sel.br) /\ AtOrBefore(img.sel.tl, p)
                 THEN NoSelection(img.sel) ELSE img.sel]

-----------------------------------------------------------------------------
TabsOf(columns) == {i \in 1 .. columns - 1 : i % 8 = 0}    \* initTabStops
NoChar == [c |-> Blank, w |-> 0]

ResetModes == [m \in Modes |-> m = "Wrap"]

InitAt(first, rows, type, last) ==
    /\ size = first
    /\ cursor = [x |-> 0, y |-> 0]
    /\ margin = [top |-> 0, bottom |-> first.lines - 1]
    /\ mode = ResetModes
    /\ savedMode = ResetModes
    /\ saved = [x |-> 0, y |-> 0]
    /\ tabStops = TabsOf(first.columns)
    /\ lastChar = last
    /\ image = [rows |-> rows, history |-> <<>>,
                sel |-> [begin |-> NoPos, tl |-> NoPos, br |-> NoPos, block |-> FALSE],
                outside |-> FALSE]
    /\ histType = type

EmptyRows(first) == [y \in 0 .. first.lines |-> EmptyRow]

Init == InitAt(FirstSize, EmptyRows(FirstSize), None, NoChar)

(* What each kind of operation leaves alone *)
KeepsModes == UNCHANGED <<mode, savedMode, saved, tabStops, lastChar, histType>>
MovesCursor == UNCHANGED <<size, margin, image>> /\ KeepsModes
ChangesImage == UNCHANGED <<size, margin, cursor>> /\ KeepsModes

LastColumn == size.columns - 1
LastLineBeyond == size.lines   \* mutant
LastLine == size.lines - 1
NoWrapTooFar == Min2(LastColumn, cursor.x) - 1   \* mutant
NoWrapX == Min2(LastColumn, cursor.x)   \* the cursor, no longer past the end

-----------------------------------------------------------------------------
(* Moving the cursor *)

CursorUp(n) ==
    LET stop == IF cursor.y < margin.top THEN 0 ELSE margin.top IN
    /\ cursor' = [x |-> NoWrapX, y |-> Max2(stop, cursor.y - Default(n))]
    /\ MovesCursor

CursorDown(n) ==
    LET stop == IF cursor.y > margin.bottom THEN LastLine ELSE margin.bottom IN
    /\ cursor' = [x |-> NoWrapX, y |-> Min2(stop, cursor.y + Default(n))]
    /\ MovesCursor

CursorLeft(n) ==
    /\ cursor' = [cursor EXCEPT !.x = Max2(0, NoWrapX - Default(n))]
    /\ MovesCursor

CursorRight(n) ==
    /\ cursor' = [cursor EXCEPT !.x = Min2(LastColumn, cursor.x + Default(n))]
    /\ MovesCursor

XOf(x) == Max2(0, Min2(LastColumn, Default(x) - 1))
YOf(y) == Max2(0, Min2(LastLine,
                       Default(y) - 1 + IF mode.Origin THEN margin.top ELSE 0))

SetCursorX(x) == cursor' = [cursor EXCEPT !.x = XOf(x)] /\ MovesCursor
SetCursorY(y) == cursor' = [cursor EXCEPT !.y = YOf(y)] /\ MovesCursor
SetCursorYX(y, x) == cursor' = [x |-> XOf(x), y |-> YOf(y)] /\ MovesCursor

ToStartOfLine == cursor' = [cursor EXCEPT !.x = 0] /\ MovesCursor

(* One turn of the loops of tab and backtab: to the next stop, or the edge *)
Tab ==
    /\ \E x \in cursor.x + 1 .. LastColumn :
         /\ x \in tabStops \/ x = LastColumn
         /\ tabStops \cap (cursor.x + 1 .. x - 1) = {}
         /\ cursor' = [cursor EXCEPT !.x = x]
    /\ MovesCursor

Backtab ==
    /\ \E x \in 0 .. NoWrapX - 1 :
         /\ x \in tabStops \/ x = 0
         /\ tabStops \cap (x + 1 .. NoWrapX - 1) = {}
         /\ cursor' = [cursor EXCEPT !.x = x]
    /\ MovesCursor

Backspace ==
    LET x == Max2(0, NoWrapX - 1) IN
    /\ cursor' = [cursor EXCEPT !.x = x]
    /\ image' = WithCells(image, cursor.y, Grown(image.rows[cursor.y].cells, x + 1))
    /\ UNCHANGED <<size, margin>> /\ KeepsModes

SaveCursor ==
    /\ saved' = cursor
    /\ UNCHANGED <<size, cursor, margin, mode, savedMode, tabStops, lastChar, image, histType>>

RestoreCursor ==
    /\ cursor' = [x |-> Min2(saved.x, LastColumn), y |-> Min2(saved.y, LastLine)]
    /\ MovesCursor

-----------------------------------------------------------------------------
(* Margins, modes and tab stops *)

SetMargins(top, bottom) ==
    LET t == Default(top) - 1
        b == (IF bottom = 0 THEN size.lines ELSE bottom) - 1 IN
    /\ 0 <= t /\ t < b /\ b < size.lines
    /\ margin' = [top |-> t, bottom |-> b]
    /\ cursor' = [x |-> 0, y |-> IF mode.Origin THEN t ELSE 0]
    /\ UNCHANGED <<size, image>> /\ KeepsModes

SetDefaultMargins ==
    /\ margin' = [top |-> 0, bottom |-> size.lines - 1]
    /\ UNCHANGED <<size, cursor, image>> /\ KeepsModes

ChangeMode(m, on) ==
    /\ mode' = [mode EXCEPT ![m] = on]
    /\ cursor' = IF m = "Origin" THEN [x |-> 0, y |-> IF on THEN margin.top ELSE 0] ELSE cursor
    /\ UNCHANGED <<size, margin, savedMode, saved, tabStops, lastChar, image, histType>>

SaveMode(m) ==
    /\ savedMode' = [savedMode EXCEPT ![m] = mode[m]]
    /\ UNCHANGED <<size, cursor, margin, mode, saved, tabStops, lastChar, image, histType>>

RestoreMode(m) ==
    /\ mode' = [mode EXCEPT ![m] = savedMode[m]]
    /\ UNCHANGED <<size, cursor, margin, savedMode, saved, tabStops, lastChar, image, histType>>

SetTabStops(stops) ==
    /\ tabStops' = stops
    /\ UNCHANGED <<size, cursor, margin, mode, savedMode, saved, lastChar, image, histType>>

ChangeTabStop(set) ==
    /\ cursor.x < size.columns
    /\ SetTabStops(IF set THEN tabStops \cup {cursor.x} ELSE tabStops \ {cursor.x})

ClearTabStops == SetTabStops({})

-----------------------------------------------------------------------------
(* Lines *)

Index ==
    /\ image' = IndexImage(image, cursor.y)
    /\ cursor' = [cursor EXCEPT !.y = IndexLine(cursor.y)]
    /\ UNCHANGED <<size, margin>> /\ KeepsModes

NextLine ==
    /\ image' = IndexImage(image, cursor.y)
    /\ cursor' = [x |-> 0, y |-> IndexLine(cursor.y)]
    /\ UNCHANGED <<size, margin>> /\ KeepsModes

NewLine == IF mode.NewLine THEN NextLine ELSE Index

ReverseIndex ==
    /\ image' = IF cursor.y = margin.top
                THEN ScrollRegionDown(image, margin.top, 1) ELSE image
    /\ cursor' = [cursor EXCEPT !.y =
                    IF cursor.y # margin.top /\ cursor.y > 0 THEN cursor.y - 1 ELSE cursor.y]
    /\ UNCHANGED <<size, margin>> /\ KeepsModes

ScrollUp(n) == image' = ScrollUpBy(image, n) /\ ChangesImage
ScrollDown(n) == image' = ScrollRegionDown(image, margin.top, Default(n)) /\ ChangesImage
DeleteLines(n) == image' = ScrollRegionUp(image, cursor.y, Default(n)) /\ ChangesImage
InsertLines(n) == image' = ScrollRegionDown(image, cursor.y, Default(n)) /\ ChangesImage

-----------------------------------------------------------------------------
(* Characters *)

(* The column a character of w cells is written at *)
WriteX(w) ==
    IF cursor.x + w <= size.columns THEN cursor.x
    ELSE IF mode.Wrap THEN 0 ELSE Max2(size.columns - w, 0)

(* displayCharacter for a character of w cells: wrap first if it does not  *)
(* fit, make room in insert mode, then write.  The only column there is    *)
(* has no room for two cells; the row grows all the same.                  *)
DisplayCharacter(c, w) ==
    LET wraps == cursor.x + w > size.columns /\ mode.Wrap
        x == WriteX(w)
        y == IF wraps THEN IndexLine(cursor.y) ELSE cursor.y
        img == IF wraps THEN IndexImage(WithWrapped(image, cursor.y), cursor.y) ELSE image
        room == Grown(img.rows[y].cells, x + w)
        cells == IF mode.Insert THEN Grown(InsertedCells(room, x, w), x + w) ELSE room
        written == [i \in DOMAIN cells |->
                      IF i = x + 1 THEN c
                      ELSE IF w = 2 /\ i = x + 2 THEN WideTail ELSE cells[i]] IN
    /\ image' = CheckSelection(WithCells(img, y, written), <<y, x>>)
    /\ cursor' = [x |-> x + w, y |-> y]
    /\ lastChar' = [c |-> c, w |-> w]
    /\ UNCHANGED <<size, margin, mode, savedMode, saved, tabStops, histType>>

(* One turn of repeatChars *)
RepeatChar == lastChar # NoChar /\ DisplayCharacter(lastChar.c, lastChar.w)

InsertChars(n) ==
    /\ image' = WithCells(image, cursor.y,
                   InsertedCells(image.rows[cursor.y].cells, cursor.x, Default(n)))
    /\ ChangesImage

DeleteChars(n) ==
    /\ image' = WithCells(image, cursor.y,
                   DeletedCells(image.rows[cursor.y].cells, cursor.x, Default(n)))
    /\ ChangesImage

-----------------------------------------------------------------------------
(* Erasing *)

AtCursor == Loc(cursor.x, cursor.y)
LineStart == Loc(0, cursor.y)
LineEnd == Loc(LastColumn, cursor.y)
Home == Loc(0, 0)
ScreenEnd == Loc(LastColumn, LastLine)

Erase(first, last, ch) == image' = ClearImage(image, first, last, ch) /\ ChangesImage

EraseChars(n) ==
    Erase(AtCursor, Loc(Max2(0, Min2(cursor.x + Default(n) - 1, LastColumn)), cursor.y), Blank)
ClearToEndOfScreen == Erase(AtCursor, ScreenEnd, Blank)
ClearToBeginOfScreen == Erase(Home, AtCursor, Blank)
ClearEntireScreen == Erase(Home, ScreenEnd, Blank)
HelpAlign == Erase(Home, ScreenEnd, "E")
ClearToEndOfLine == Erase(AtCursor, LineEnd, Blank)
ClearToBeginOfLine == Erase(LineStart, AtCursor, Blank)
ClearEntireLine == Erase(LineStart, LineEnd, Blank)

-----------------------------------------------------------------------------
(* Size, reset, history *)

(* resizeImage.  When the cursor's line would be cut off, the loop pushes  *)
(* the top line to the history and scrolls the whole screen up by one, as  *)
(* often as it takes: k turns of it are done here at once.                 *)
ResizeImage(new) ==
    LET k == Max2(0, cursor.y - (new.lines - 1))
        scrolled == [y \in 0 .. size.lines |->
                       IF y + k < size.lines THEN image.rows[y + k]
                       ELSE IF y < size.lines THEN EmptyRow ELSE image.rows[y]] IN
    /\ new # size
    /\ size' = new
    /\ image' = [rows |-> [y \in 0 .. new.lines |->
                            IF y < size.lines THEN scrolled[y] ELSE EmptyRow],
                 history |-> IF HasScroll
                             THEN Recorded(image.history, [i \in 1 .. k |-> image.rows[i - 1]])
                             ELSE image.history,
                 sel |-> NoSelection(image.sel),
                 outside |-> image.outside \/ Outside(0, k - 1)]
    /\ cursor' = [x |-> Min2(cursor.x, new.columns - 1), y |-> Min2(cursor.y, new.lines - 1)]
    /\ margin' = [top |-> 0, bottom |-> new.lines - 1]
    /\ tabStops' = TabsOf(new.columns)
    /\ UNCHANGED <<mode, savedMode, saved, lastChar, histType>>

(* reset: the current line is scrolled to the top *)
Reset ==
    /\ image' = ScrollRegionUp(image, 0, cursor.y)
    /\ cursor' = [cursor EXCEPT !.y = 0]
    /\ mode' = ResetModes
    /\ savedMode' = [m \in Modes |-> IF m = "NewLine" THEN savedMode[m] ELSE m = "Wrap"]
    /\ margin' = [top |-> 0, bottom |-> size.lines - 1]
    /\ saved' = [x |-> cursor.x, y |-> 0]
    /\ UNCHANGED <<size, tabStops, lastChar, histType>>

LastLines(h, n) == SubSeq(h, Len(h) - Min2(n, Len(h)) + 1, Len(h))

(* HistoryType::scroll: what becomes of the history under type t *)
Converted(h, t) ==
    IF t = None THEN <<>>
    ELSE IF t = File THEN h
    ELSE IF histType \notin {None, File} THEN LastLines(h, t)
    ELSE <<>>

SetScroll(t, copyPreviousScroll) ==
    /\ histType' = t
    /\ image' = [rows |-> image.rows, outside |-> image.outside,
                 sel |-> NoSelection(image.sel),
                 history |-> IF copyPreviousScroll THEN Converted(image.history, t) ELSE <<>>]
    /\ UNCHANGED <<size, cursor, margin, mode, savedMode, saved, tabStops, lastChar>>

-----------------------------------------------------------------------------
(* The selection; y counts lines from the start of the history *)

WithSelection(sel) ==
    /\ image' = [rows |-> image.rows, history |-> image.history, outside |-> image.outside,
                 sel |-> sel]
    /\ ChangesImage

SetSelectionStart(x, y, block) ==
    LET p == <<y, Min2(x, LastColumn)>>
    IN  WithSelection([begin |-> p, tl |-> p, br |-> p, block |-> block])

SetSelectionEnd(x, y) ==
    LET s == image.sel
        end == Loc(x, y)
        tl == IF Before(end, s.begin) THEN end ELSE s.begin
        br == IF Before(end, s.begin) THEN s.begin ELSE <<y, Min2(x, LastColumn)>> IN
    /\ Selecting(s)
    /\ WithSelection(
         IF s.block
         THEN [s EXCEPT !.tl = <<tl[1], Min2(tl[2], br[2])>>, !.br = <<br[1], Max2(tl[2], br[2])>>]
         ELSE [s EXCEPT !.tl = tl, !.br = br])

ClearSelection == WithSelection(NoSelection(image.sel))

-----------------------------------------------------------------------------
CursorOps ==
    \/ \E n \in Args : \/ CursorUp(n) \/ CursorDown(n) \/ CursorLeft(n) \/ CursorRight(n)
                      \/ SetCursorX(n) \/ SetCursorY(n)
    \/ \E y, x \in Args : SetCursorYX(y, x)
    \/ ToStartOfLine \/ Tab \/ Backtab \/ SaveCursor \/ RestoreCursor

ModeOps ==
    \/ \E t, b \in Args : SetMargins(t, b)
    \/ SetDefaultMargins
    \/ \E m \in Modes : SaveMode(m) \/ RestoreMode(m) \/ \E on \in BOOLEAN : ChangeMode(m, on)
    \/ \E set \in BOOLEAN : ChangeTabStop(set)
    \/ ClearTabStops

TextOps ==
    \/ \E c \in Chars, w \in {1, 2} : DisplayCharacter(c, w)
    \/ RepeatChar \/ Backspace \/ Index \/ NextLine \/ NewLine \/ ReverseIndex

ScrollOps == \E n \in Args : ScrollUp(n) \/ ScrollDown(n) \/ DeleteLines(n) \/ InsertLines(n)

EditOps == \E n \in Args : InsertChars(n) \/ DeleteChars(n) \/ EraseChars(n)

ClearOps ==
    \/ ClearToEndOfScreen \/ ClearToBeginOfScreen \/ ClearEntireScreen \/ HelpAlign
    \/ ClearToEndOfLine \/ ClearToBeginOfLine \/ ClearEntireLine

SizeOps ==
    \/ \E new \in Sizes : ResizeImage(new)
    \/ Reset
    \/ \E t \in HistoryTypes : SetScroll(t, TRUE)
    \/ SetScroll(histType, FALSE)    \* Emulation::clearHistory

SelectOps ==
    \/ \E x \in 0 .. size.columns, y \in 0 .. Len(image.history) + size.lines - 1 :
         \/ \E block \in BOOLEAN : SetSelectionStart(x, y, block)
         \/ SetSelectionEnd(x, y)
    \/ ClearSelection

(* What the program does once it has used a row that does not exist is not *)
(* said: the model stops there.                                            *)
Next ==
    /\ ~image.outside
    /\ \/ CursorOps \/ ModeOps \/ TextOps \/ ScrollOps \/ EditOps \/ ClearOps
       \/ SizeOps \/ SelectOps

Spec == Init /\ [][Next]_vars

-----------------------------------------------------------------------------
(* Types, for every variable *)
RowType == [cells : Seq(Cells), wrapped : BOOLEAN]
PosType == Int \X Nat

TypeOK ==
    /\ size \in Sizes
    /\ cursor \in [x : Nat, y : Nat]
    /\ margin \in [top : Nat, bottom : Nat]
    /\ mode \in [Modes -> BOOLEAN] /\ savedMode \in [Modes -> BOOLEAN]
    /\ saved \in [x : Nat, y : Nat]
    /\ tabStops \subseteq Nat
    /\ lastChar \in [c : Chars \cup {Blank}, w : 0 .. 2]
    /\ histType \in HistoryTypes \cup {None}
    /\ image.rows \in [0 .. size.lines -> RowType]
    /\ image.history \in Seq(RowType)
    /\ image.sel \in [begin : PosType, tl : PosType, br : PosType, block : BOOLEAN]

(* Two cells past the start of the only column: where a double-width       *)
(* character leaves the cursor of a screen of one column.                  *)
PastOnlyColumn == size.columns = 1 /\ cursor.x = 2

(* The cursor stays on the screen or one past the end of its line, but for *)
(* that; the margins enclose at least two of its lines, if it has as many, *)
(* and tab stops are columns, through every resize, restore and change of  *)
(* mode or margin.                                                         *)
Geometry ==
    /\ cursor.x \in 0 .. size.columns \/ PastOnlyColumn
    /\ cursor.y \in 0 .. size.lines - 1
    /\ 0 <= margin.top /\ margin.bottom < size.lines
    /\ margin.top < margin.bottom \/ (size.lines = 1 /\ margin.top = margin.bottom)
    /\ tabStops \subseteq 0 .. size.columns - 1

(* No operation indexes a row that does not exist, and moveImage is never  *)
(* given an inverted range (its Q_ASSERT): the answer to the FIXMEs of     *)
(* scrollUp, scrollDown and clearImage ("make sure ... is in bounds").     *)
(* One exception: clearing to the beginning of the screen or the line from *)
(* two cells past the start of the only column.                            *)
RowsInBounds == image.outside => PastOnlyColumn
InBounds == Geometry /\ RowsInBounds

(* A selection lies within the lines there are, at both ends, whatever is  *)
(* scrolled, recorded in the history or resized under it: getSelectedText  *)
(* reads no line that does not exist.                                      *)
SelectionInside ==
    Selecting(image.sel) =>
        \A p \in {image.sel.tl, image.sel.br} :
            p[1] \in 0 .. Len(image.history) + size.lines - 1 /\ p[2] < size.columns

-----------------------------------------------------------------------------
(* The text of the selection, line by line, as isSelected delimits it *)
LineOf(img, y) ==
    IF y < Len(img.history) THEN img.history[y + 1] ELSE img.rows[y - Len(img.history)]
CellAt(img, x, y) ==
    LET cells == LineOf(img, y).cells IN IF x < Len(cells) THEN cells[x + 1] ELSE Blank
IsSelected(s, x, y) ==
    /\ AtOrBefore(s.tl, <<y, x>>) /\ AtOrBefore(<<y, x>>, s.br)
    /\ s.block => s.tl[2] <= x /\ x <= s.br[2]
SelectedText(img) ==
    [i \in 1 .. img.sel.br[1] - img.sel.tl[1] + 1 |->
        LET y == img.sel.tl[1] + i - 1
        IN  [x \in {c \in 0 .. size.columns - 1 : IsSelected(img.sel, c, y)} |-> CellAt(img, x, y)]]

(* Text that is selected stays selected while lines scroll into the        *)
(* history: moveImage and addHistLine together keep the selection on its   *)
(* text, and what a full history drops is cut off its front.               *)
SelectionFollowsText ==
    [][ (/\ image'.rows # image.rows /\ histType' = histType
         /\ Selecting(image.sel) /\ Selecting(image'.sel) /\ ~image.sel.block)
        => LET before == SelectedText(image)
               after == SelectedText(image')
           IN  /\ Len(after) <= Len(before)
               /\ after = SubSeq(before, Len(before) - Len(after) + 1, Len(before)) ]_vars
=============================================================================
