---------------------------- MODULE ScreenProofs ----------------------------
(* Theorems about Screen for every alphabet, every set of arguments, sizes *)
(* and history types: where the cursor, the margins and the tab stops are, *)
(* that no operation uses a row that does not exist, that every variable   *)
(* keeps its type, and that the selection stays on lines that exist.       *)
EXTENDS Screen, SequenceTheorems, TLAPS

(* The parts of the state that decide which rows an operation uses *)
Shape ==
    /\ size \in Sizes
    /\ cursor \in [x : Nat, y : Nat]
    /\ margin \in [top : Nat, bottom : Nat]
    /\ saved \in [x : Nat, y : Nat]
    /\ lastChar.w \in 0 .. 2

(* Inductive: the arguments of every row operation are computed from the   *)
(* cursor, the margins and the size, so they are in bounds only as long as *)
(* Geometry holds; Geometry in turn needs the saved position to be a       *)
(* natural number, which restoreCursor clips to the screen, and the last   *)
(* character to be at most two cells wide.  Next is only taken while no    *)
(* row outside the screen has been used.                                   *)
IInv == Shape /\ Geometry /\ RowsInBounds

-----------------------------------------------------------------------------
(* Row operations stay in bounds when their arguments are in bounds *)

LEMMA SizesAreNatural ==
    ASSUME NEW s \in Sizes
    PROVE  s.lines \in Nat /\ s.columns \in Nat /\ s.lines >= 1 /\ s.columns >= 1
BY ScreenAssumption

(* The positions that occur: on a line, one past its end, and two past the *)
(* start of the only column.                                               *)
LEMMA Positions ==
    ASSUME size.columns \in Nat, size.columns >= 1, NEW y \in Int
    PROVE  /\ \A x \in 0 .. size.columns - 1 : Loc(x, y) = <<y, x>>
           /\ Loc(size.columns, y) = <<y + 1, 0>>
           /\ size.columns = 1 => Loc(2, y) = <<y + 2, 0>>
<1> DEFINE c == size.columns
<1>1. c \div c = 1
  OBVIOUS
<1>2. c % c = 0
  OBVIOUS
<1>3. 2 \div 1 = 2
  OBVIOUS
<1>4. 2 % 1 = 0
  OBVIOUS
<1>5. \A x \in 0 .. c - 1 : Loc(x, y) = <<y, x>>
  BY DEF Loc
<1>6. Loc(c, y) = <<y + c \div c, c % c>>
  BY DEF Loc
<1>7. c = 1 => Loc(2, y) = <<y + 2 \div 1, 2 % 1>>
  BY DEF Loc
<1> QED
  BY <1>1, <1>2, <1>3, <1>4, <1>5, <1>6, <1>7

LEMMA EndsOfLines ==
    ASSUME size.columns \in Nat, size.columns >= 1, NEW y \in Int
    PROVE  /\ Loc(0, y) = <<y, 0>> /\ Loc(size.columns - 1, y) = <<y, size.columns - 1>>
           /\ Loc(size.columns, y) = <<y + 1, 0>>
<1>1. 0 \in 0 .. size.columns - 1 /\ size.columns - 1 \in 0 .. size.columns - 1
  OBVIOUS
<1> QED
  BY <1>1, Positions

LEMMA RowsTruncateToThemselves ==
    ASSUME NEW y \in Nat, NEW x
    PROVE  Truncated(<<y, x>>) = <<y, x>>
BY DEF Truncated

LEMMA ClearStaysInside ==
    ASSUME NEW img, NEW first, NEW last, NEW ch, ~img.outside,
           ~Outside(first[1], Truncated(last)[1])
    PROVE  ~ClearImage(img, first, last, ch).outside
BY DEF ClearImage

LEMMA MoveStaysInside ==
    ASSUME NEW img, NEW dest, NEW source, NEW last, ~img.outside,
           ~(last[1] - source < 0),
           ~Outside(dest, dest + (last[1] - source)),
           ~Outside(source, source + (last[1] - source))
    PROVE  ~MoveImage(img, dest, source, last).outside
BY DEF MoveImage

LEMMA ScrollUpStaysInside ==
    ASSUME IInv, NEW img, ~img.outside, NEW from \in Nat, NEW n \in Int
    PROVE  ~ScrollRegionUp(img, from, n).outside
PROOF
<1>1. CASE n <= 0 \/ from > margin.bottom
  BY <1>1 DEF ScrollRegionUp
<1>2. CASE ~(n <= 0 \/ from > margin.bottom)
  <2> DEFINE k == UpBy(from, n)
             last == Loc(size.columns, margin.bottom)
             moved == MoveImage(img, from, from + k, last)
  <2>1. /\ margin.bottom \in Nat /\ margin.bottom < size.lines
        /\ size.lines \in Nat /\ size.columns \in Nat /\ size.columns >= 1
    BY SizesAreNatural DEF IInv, Shape, Geometry
  <2>2. k \in Nat /\ k >= 1 /\ from + k <= margin.bottom + 1
    BY <1>2, <2>1 DEF UpBy
  <2>3. last[1] = margin.bottom + 1
    BY <2>1, EndsOfLines
  <2>4. /\ Loc(0, margin.bottom - k + 1)[1] = margin.bottom - k + 1
        /\ Truncated(Loc(size.columns - 1, margin.bottom))[1] = margin.bottom
    BY <2>1, <2>2, EndsOfLines, RowsTruncateToThemselves
  <2>5. ScrollRegionUp(img, from, n) =
          ClearImage(moved, Loc(0, margin.bottom - k + 1),
                     Loc(size.columns - 1, margin.bottom), Blank)
    BY <1>2 DEF ScrollRegionUp
  <2> HIDE DEF k, last
  <2>6. ~moved.outside
    <3>1. ~(last[1] - (from + k) < 0)
      BY <2>1, <2>2, <2>3
    <3>2. ~Outside(from, from + (last[1] - (from + k)))
      BY <2>1, <2>2, <2>3 DEF Outside
    <3>3. ~Outside(from + k, from + k + (last[1] - (from + k)))
      BY <2>1, <2>2, <2>3 DEF Outside
    <3> QED
      BY <3>1, <3>2, <3>3, MoveStaysInside
  <2> HIDE DEF moved
  <2>7. ~Outside(margin.bottom - k + 1, margin.bottom)
    BY <2>1, <2>2 DEF Outside
  <2> QED
    BY <2>4, <2>5, <2>6, <2>7, ClearStaysInside
<1> QED
  BY <1>1, <1>2

LEMMA ScrollDownStaysInside ==
    ASSUME IInv, NEW img, ~img.outside, NEW from \in Nat, NEW n \in Int
    PROVE  ~ScrollRegionDown(img, from, n).outside
PROOF
<1>1. CASE n <= 0 \/ from > margin.bottom
  BY <1>1 DEF ScrollRegionDown
<1>2. CASE ~(n <= 0 \/ from > margin.bottom)
  <2> DEFINE k == IF from + n > margin.bottom THEN margin.bottom - from ELSE n
             last == Loc(size.columns - 1, margin.bottom - k)
             moved == MoveImage(img, from + k, from, last)
  <2>1. /\ margin.bottom \in Nat /\ margin.bottom < size.lines
        /\ size.lines \in Nat /\ size.columns \in Nat /\ size.columns >= 1
    BY SizesAreNatural DEF IInv, Shape, Geometry
  <2>2. k \in Nat /\ from + k <= margin.bottom
    BY <1>2, <2>1
  <2> DEFINE end == Loc(size.columns - 1, from + k - 1)
  <2>a. margin.bottom - k \in Int /\ from + k - 1 \in Int
    BY <2>1, <2>2
  <2>3. last[1] = margin.bottom - k
    BY <2>1, <2>a, EndsOfLines
  <2>4. Loc(0, from)[1] = from /\ end = <<from + k - 1, size.columns - 1>>
    BY <2>1, <2>a, EndsOfLines
  <2>5. ScrollRegionDown(img, from, n) =
          ClearImage(moved, Loc(0, from), end, Blank)
    BY <1>2 DEF ScrollRegionDown
  <2> HIDE DEF k, last
  <2>6. ~moved.outside
    <3>1. ~(last[1] - from < 0)
      BY <2>1, <2>2, <2>3
    <3>2. ~Outside(from + k, from + k + (last[1] - from))
      BY <2>1, <2>2, <2>3 DEF Outside
    <3>3. ~Outside(from, from + (last[1] - from))
      BY <2>1, <2>2, <2>3 DEF Outside
    <3> QED
      BY <3>1, <3>2, <3>3, MoveStaysInside
  <2> HIDE DEF moved, end
  <2>7. ~Outside(from, Truncated(end)[1])
    BY <2>1, <2>2, <2>4 DEF Outside, Truncated
  <2> QED
    BY <2>4, <2>5, <2>6, <2>7, ClearStaysInside
<1> QED
  BY <1>1, <1>2

LEMMA HistoryLineStaysInside ==
    ASSUME NEW img, ~img.outside
    PROVE  ~AddHistLine(img).outside
BY DEF AddHistLine

LEMMA ScreenScrollStaysInside ==
    ASSUME IInv, NEW img, ~img.outside, NEW n \in Nat
    PROVE  ~ScrollUpBy(img, n).outside
PROOF
<1>1. margin.top \in Nat /\ Default(n) \in Int
  BY DEF IInv, Shape, Default
<1>2. ~(IF margin.top = 0 THEN AddHistLine(img) ELSE img).outside
  BY HistoryLineStaysInside
<1> QED
  BY <1>1, <1>2, ScrollUpStaysInside DEF ScrollUpBy

LEMMA IndexStaysInside ==
    ASSUME IInv, NEW img, ~img.outside, NEW y
    PROVE  ~IndexImage(img, y).outside
BY ScreenScrollStaysInside DEF IndexImage

LEMMA RowChangeStaysInside ==
    ASSUME IInv, NEW img, ~img.outside, NEW y \in 0 .. size.lines - 1, NEW cells
    PROVE  ~WithCells(img, y, cells).outside /\ ~WithWrapped(img, y).outside
PROOF
<1>1. ~Outside(y, y)
  BY SizesAreNatural DEF IInv, Shape, Outside
<1> QED
  BY <1>1 DEF WithCells, WithWrapped

LEMMA CheckStaysInside ==
    ASSUME NEW img, ~img.outside, NEW pos
    PROVE  ~CheckSelection(img, pos).outside
BY DEF CheckSelection

(* The line after index: on the screen, whether or not it scrolls *)
LEMMA IndexLineOnScreen ==
    ASSUME IInv, NEW y \in 0 .. size.lines - 1
    PROVE  IndexLine(y) \in 0 .. size.lines - 1
BY SizesAreNatural DEF IInv, Shape, IndexLine

-----------------------------------------------------------------------------
(* What an operation must show to keep the invariant when it leaves the    *)
(* size, the margins and the tab stops alone                               *)
RightMost == IF size.columns = 1 THEN 2 ELSE size.columns
OnScreen == [x : 0 .. RightMost, y : 0 .. size.lines - 1]

LEMMA StepKeepsInvariant ==
    ASSUME IInv, UNCHANGED <<size, margin, tabStops, saved>>,
           cursor' \in OnScreen, lastChar'.w \in 0 .. 2, ~image'.outside
    PROVE  IInv'
PROOF
<1>1. size.lines \in Nat /\ size.columns \in Nat
  BY SizesAreNatural DEF IInv, Shape
<1>2. Shape'
  BY <1>1 DEF IInv, Shape, OnScreen
<1>3. Geometry'
  BY <1>1 DEF IInv, Geometry, OnScreen, RightMost, PastOnlyColumn
<1> QED
  BY <1>2, <1>3 DEF IInv, RowsInBounds

LEMMA CursorOnScreen ==
    ASSUME IInv
    PROVE  /\ cursor \in OnScreen
           /\ cursor.x \in 0 .. RightMost /\ cursor.y \in 0 .. size.lines - 1
           /\ RightMost \in Nat /\ RightMost >= size.columns
           /\ size.lines \in Nat /\ size.columns \in Nat
           /\ size.lines >= 1 /\ size.columns >= 1
           /\ margin.top \in Nat /\ margin.bottom \in Nat
           /\ margin.top <= margin.bottom /\ margin.bottom < size.lines
           /\ lastChar.w \in 0 .. 2
BY SizesAreNatural DEF IInv, Shape, Geometry, RightMost, PastOnlyColumn, OnScreen

(* The row of the cursor's position in the image.                          *)
LEMMA CursorRow ==
    ASSUME IInv
    PROVE  /\ AtCursor[1] \in {cursor.y, cursor.y + 1} \/ PastOnlyColumn
           /\ AtCursor[1] \in cursor.y .. cursor.y + 2
<1>1. /\ cursor.y \in Int /\ size.columns \in Nat /\ size.columns >= 1
      /\ cursor.x \in 0 .. RightMost
  BY CursorOnScreen
<1>2. CASE cursor.x \in 0 .. size.columns - 1
  BY <1>1, <1>2, Positions DEF AtCursor
<1>3. CASE cursor.x = size.columns
  BY <1>1, <1>3, Positions DEF AtCursor
<1>4. CASE PastOnlyColumn
  <2>1. AtCursor = <<cursor.y + 2, 0>>
    BY <1>1, <1>4, Positions DEF AtCursor, PastOnlyColumn
  <2> QED
    BY <1>1, <1>4, <2>1
<1> QED
  BY <1>1, <1>2, <1>3, <1>4 DEF RightMost, PastOnlyColumn

LEMMA CursorMoveKeepsInvariant ==
    ASSUME IInv, ~image.outside, MovesCursor, cursor' \in OnScreen
    PROVE  IInv'
BY StepKeepsInvariant, CursorOnScreen DEF MovesCursor, KeepsModes, IInv, RowsInBounds

LEMMA ImageChangeKeepsInvariant ==
    ASSUME IInv, ChangesImage, ~image'.outside
    PROVE  IInv'
BY StepKeepsInvariant, CursorOnScreen DEF ChangesImage, KeepsModes

-----------------------------------------------------------------------------
(* The operations, family by family *)

LEMMA ArgsAreNatural ==
    ASSUME NEW n \in Args
    PROVE  n \in Nat /\ Default(n) \in Nat /\ Default(n) >= 1
BY ScreenAssumption DEF Default

LEMMA CursorOpsKeepInvariant ==
    ASSUME IInv, ~image.outside, CursorOps
    PROVE  IInv'
PROOF
<1> USE CursorOnScreen, CursorMoveKeepsInvariant, ArgsAreNatural
<1> USE DEF OnScreen, NoWrapX, LastColumn, LastLine, Min2, Max2
<1>0. NoWrapX \in 0 .. size.columns - 1
  OBVIOUS
<1>1. ASSUME NEW n \in Args, CursorUp(n) PROVE IInv'
  BY <1>1, <1>0 DEF CursorUp
<1>2. ASSUME NEW n \in Args, CursorDown(n) PROVE IInv'
  BY <1>2, <1>0 DEF CursorDown
<1>3. ASSUME NEW n \in Args, CursorLeft(n) PROVE IInv'
  BY <1>3, <1>0 DEF CursorLeft
<1>4. ASSUME NEW n \in Args, CursorRight(n) PROVE IInv'
  BY <1>4 DEF CursorRight
<1>5. ASSUME NEW n \in Args PROVE XOf(n) \in 0 .. size.columns - 1 /\ YOf(n) \in 0 .. size.lines - 1
  BY DEF XOf, YOf
<1>6. ASSUME NEW n \in Args, SetCursorX(n) PROVE IInv'
  BY <1>5, <1>6 DEF SetCursorX
<1>7. ASSUME NEW n \in Args, SetCursorY(n) PROVE IInv'
  BY <1>5, <1>7 DEF SetCursorY
<1>8. ASSUME NEW y \in Args, NEW x \in Args, SetCursorYX(y, x) PROVE IInv'
  BY <1>5, <1>8 DEF SetCursorYX
<1>9. CASE ToStartOfLine
  BY <1>9 DEF ToStartOfLine
<1>10. CASE Tab
  BY <1>10 DEF Tab
<1>11. CASE Backtab
  BY <1>11, <1>0 DEF Backtab
<1>12. CASE SaveCursor
  <2>1. cursor \in [x : Nat, y : Nat]
    BY DEF IInv, Shape
  <2>2. Shape'
    BY <1>12, <2>1 DEF SaveCursor, IInv, Shape
  <2>3. Geometry' /\ RowsInBounds'
    BY <1>12 DEF SaveCursor, IInv, Geometry, RowsInBounds, PastOnlyColumn
  <2> QED
    BY <2>2, <2>3 DEF IInv
<1>13. CASE RestoreCursor
  <2>1. saved \in [x : Nat, y : Nat]
    BY DEF IInv, Shape
  <2> QED
    BY <1>13, <2>1 DEF RestoreCursor
<1> QED
  BY <1>1, <1>2, <1>3, <1>4, <1>6, <1>7, <1>8, <1>9, <1>10, <1>11, <1>12, <1>13
  DEF CursorOps

LEMMA ModeOpsKeepInvariant ==
    ASSUME IInv, ~image.outside, ModeOps
    PROVE  IInv'
PROOF
<1> USE CursorOnScreen
<1>1. ASSUME NEW t \in Args, NEW b \in Args, SetMargins(t, b) PROVE IInv'
  <2>1. /\ margin' = [top |-> Default(t) - 1, bottom |-> (IF b = 0 THEN size.lines ELSE b) - 1]
        /\ 0 <= margin'.top /\ margin'.top < margin'.bottom /\ margin'.bottom < size.lines
    BY <1>1 DEF SetMargins
  <2>2. margin' \in [top : Nat, bottom : Nat]
    BY <2>1, ArgsAreNatural
  <2>3. cursor' \in OnScreen
    BY <1>1, <2>1, <2>2 DEF SetMargins, OnScreen
  <2>4. UNCHANGED <<size, image, tabStops, saved, lastChar>>
    BY <1>1 DEF SetMargins, KeepsModes
  <2>5. Shape'
    BY <2>2, <2>3, <2>4 DEF IInv, Shape, OnScreen
  <2>6. Geometry'
    BY <2>1, <2>3, <2>4 DEF IInv, Geometry, OnScreen, RightMost, PastOnlyColumn
  <2> QED
    BY <2>4, <2>5, <2>6 DEF IInv, RowsInBounds
<1>2. CASE SetDefaultMargins
  <2>1. UNCHANGED <<size, cursor, image, tabStops, saved, lastChar>>
    BY <1>2 DEF SetDefaultMargins, KeepsModes
  <2>2. Shape'
    BY <1>2, <2>1 DEF SetDefaultMargins, IInv, Shape
  <2>3. Geometry'
    BY <1>2, <2>1 DEF SetDefaultMargins, IInv, Geometry, PastOnlyColumn
  <2> QED
    BY <2>1, <2>2, <2>3 DEF IInv, RowsInBounds
<1>3. ASSUME NEW m \in Modes, NEW on \in BOOLEAN, ChangeMode(m, on) PROVE IInv'
  <2>1. cursor' \in OnScreen
    BY <1>3 DEF ChangeMode, OnScreen
  <2> QED
    BY <1>3, <2>1, StepKeepsInvariant DEF ChangeMode
<1>4. ASSUME NEW m \in Modes, SaveMode(m) PROVE IInv'
  BY <1>4, StepKeepsInvariant DEF SaveMode
<1>5. ASSUME NEW m \in Modes, RestoreMode(m) PROVE IInv'
  BY <1>5, StepKeepsInvariant DEF RestoreMode
<1>6. ASSUME NEW stops, stops \subseteq 0 .. size.columns - 1, SetTabStops(stops) PROVE IInv'
  <2>1. Shape'
    BY <1>6 DEF SetTabStops, IInv, Shape
  <2>2. Geometry'
    BY <1>6 DEF SetTabStops, IInv, Geometry, PastOnlyColumn
  <2> QED
    BY <1>6, <2>1, <2>2 DEF SetTabStops, IInv, RowsInBounds
<1>7. ASSUME NEW set \in BOOLEAN, ChangeTabStop(set) PROVE IInv'
  <2>1. tabStops \subseteq 0 .. size.columns - 1 /\ cursor.x \in 0 .. size.columns - 1
    BY <1>7 DEF ChangeTabStop, IInv, Geometry
  <2> QED
    BY <1>6, <1>7, <2>1 DEF ChangeTabStop
<1>8. CASE ClearTabStops
  BY <1>6, <1>8 DEF ClearTabStops
<1> QED
  BY <1>1, <1>2, <1>3, <1>4, <1>5, <1>7, <1>8 DEF ModeOps

LEMMA LineFeedKeepsInvariant ==
    ASSUME IInv, ~image.outside, Index \/ NextLine \/ NewLine
    PROVE  IInv'
PROOF
<1>1. Index \/ NextLine
  BY DEF NewLine
<1>2. ~IndexImage(image, cursor.y).outside /\ IndexLine(cursor.y) \in 0 .. size.lines - 1
  BY CursorOnScreen, IndexStaysInside, IndexLineOnScreen
<1>3. cursor' \in OnScreen
  BY <1>1, <1>2, CursorOnScreen DEF Index, NextLine, OnScreen
<1>4. UNCHANGED <<size, margin, tabStops, saved, lastChar>> /\ ~image'.outside
  BY <1>1, <1>2 DEF Index, NextLine, KeepsModes
<1> QED
  BY <1>3, <1>4, CursorOnScreen, StepKeepsInvariant

LEMMA DisplayKeepsInvariant ==
    ASSUME IInv, ~image.outside, NEW c, NEW w \in 0 .. 2, DisplayCharacter(c, w)
    PROVE  IInv'
PROOF
<1> DEFINE wraps == cursor.x + w > size.columns /\ mode.Wrap
           x == WriteX(w)
           y == IF wraps THEN IndexLine(cursor.y) ELSE cursor.y
           img == IF wraps THEN IndexImage(WithWrapped(image, cursor.y), cursor.y) ELSE image
<1>1. x \in Nat /\ x + w \in 0 .. RightMost
  <2>1. CASE size.columns = 1
    BY <2>1, CursorOnScreen DEF WriteX, Max2, RightMost
  <2>2. CASE size.columns # 1
    BY <2>2, CursorOnScreen DEF WriteX, Max2, RightMost
  <2> QED
    BY <2>1, <2>2
<1>2. y \in 0 .. size.lines - 1
  BY CursorOnScreen, IndexLineOnScreen
<1>3. ~WithWrapped(image, cursor.y).outside
  BY CursorOnScreen, RowChangeStaysInside
<1>4. ~img.outside
  BY <1>3, CursorOnScreen, IndexStaysInside
<1>5. PICK cells : image' = CheckSelection(WithCells(img, y, cells), <<y, x>>)
  BY DEF DisplayCharacter
<1> HIDE DEF img, y, x
<1>6. ~image'.outside
  BY <1>2, <1>4, <1>5, RowChangeStaysInside, CheckStaysInside
<1>7. cursor' = [x |-> x + w, y |-> y] /\ lastChar' = [c |-> c, w |-> w]
      /\ UNCHANGED <<size, margin, tabStops, saved>>
  BY DEF DisplayCharacter, x, y
<1>8. cursor' \in OnScreen
  BY <1>1, <1>2, <1>7 DEF OnScreen
<1>9. lastChar'.w \in 0 .. 2
  BY <1>7
<1> QED
  BY <1>6, <1>7, <1>8, <1>9, StepKeepsInvariant

LEMMA TextOpsKeepInvariant ==
    ASSUME IInv, ~image.outside, TextOps
    PROVE  IInv'
PROOF
<1>1. ASSUME NEW c \in Chars, NEW w \in {1, 2}, DisplayCharacter(c, w) PROVE IInv'
  BY <1>1, DisplayKeepsInvariant
<1>2. CASE RepeatChar
  BY <1>2, CursorOnScreen, DisplayKeepsInvariant DEF RepeatChar
<1>3. CASE Backspace
  <2>1. cursor' \in OnScreen
    BY <1>3, CursorOnScreen
    DEF Backspace, OnScreen, NoWrapX, LastColumn, Min2, Max2
  <2>2. ~image'.outside
    BY <1>3, CursorOnScreen, RowChangeStaysInside DEF Backspace
  <2>3. UNCHANGED <<size, margin, tabStops, saved, lastChar>>
    BY <1>3 DEF Backspace, KeepsModes
  <2> QED
    BY <2>1, <2>2, <2>3, CursorOnScreen, StepKeepsInvariant
<1>4. CASE Index \/ NextLine \/ NewLine
  BY <1>4, LineFeedKeepsInvariant
<1>5. CASE ReverseIndex
  <2>1. cursor' \in OnScreen
    BY <1>5, CursorOnScreen DEF ReverseIndex, OnScreen
  <2>2. margin.top \in Nat /\ 1 \in Int
    BY CursorOnScreen
  <2>4. ~ScrollRegionDown(image, margin.top, 1).outside
    BY <2>2, ScrollDownStaysInside
  <2>5. ~image'.outside
    BY <1>5, <2>4 DEF ReverseIndex
  <2>3. UNCHANGED <<size, margin, tabStops, saved, lastChar>>
    BY <1>5 DEF ReverseIndex, KeepsModes
  <2> QED
    BY <2>1, <2>5, <2>3, CursorOnScreen, StepKeepsInvariant
<1> QED
  BY <1>1, <1>2, <1>3, <1>4, <1>5 DEF TextOps

LEMMA ScrollOpsKeepInvariant ==
    ASSUME IInv, ~image.outside, ScrollOps
    PROVE  IInv'
PROOF
<1>1. PICK n \in Args : ScrollUp(n) \/ ScrollDown(n) \/ DeleteLines(n) \/ InsertLines(n)
  BY DEF ScrollOps
<1>2. n \in Nat /\ Default(n) \in Int /\ margin.top \in Nat /\ cursor.y \in Nat
  BY ArgsAreNatural, CursorOnScreen
<1>3. ChangesImage
  BY <1>1 DEF ScrollUp, ScrollDown, DeleteLines, InsertLines
<1>4. CASE ScrollUp(n)
  BY <1>2, <1>3, <1>4, CursorOnScreen, ScreenScrollStaysInside, ImageChangeKeepsInvariant
  DEF ScrollUp
<1>5. CASE ScrollDown(n) \/ InsertLines(n)
  BY <1>2, <1>3, <1>5, CursorOnScreen, ScrollDownStaysInside, ImageChangeKeepsInvariant
  DEF ScrollDown, InsertLines
<1>6. CASE DeleteLines(n)
  BY <1>2, <1>3, <1>6, CursorOnScreen, ScrollUpStaysInside, ImageChangeKeepsInvariant
  DEF DeleteLines
<1> QED
  BY <1>1, <1>4, <1>5, <1>6

LEMMA EraseKeepsInvariant ==
    ASSUME IInv, ~image.outside, NEW first, NEW last, NEW ch,
           ~Outside(first[1], Truncated(last)[1]), Erase(first, last, ch)
    PROVE  IInv'
BY CursorOnScreen, ClearStaysInside, ImageChangeKeepsInvariant DEF Erase

LEMMA EditOpsKeepInvariant ==
    ASSUME IInv, ~image.outside, EditOps
    PROVE  IInv'
PROOF
<1>1. PICK n \in Args : InsertChars(n) \/ DeleteChars(n) \/ EraseChars(n)
  BY DEF EditOps
<1>2. CASE InsertChars(n)
  BY <1>2, CursorOnScreen, RowChangeStaysInside, ImageChangeKeepsInvariant DEF InsertChars
<1>3. CASE DeleteChars(n)
  BY <1>3, CursorOnScreen, RowChangeStaysInside, ImageChangeKeepsInvariant DEF DeleteChars
<1>4. CASE EraseChars(n)
  <2> DEFINE x == Max2(0, Min2(cursor.x + Default(n) - 1, LastColumn))
  <2>1. x \in 0 .. size.columns - 1
    BY ArgsAreNatural, CursorOnScreen DEF Max2, Min2, LastColumn
  <2>2. Truncated(Loc(x, cursor.y))[1] = cursor.y /\ AtCursor[1] \in cursor.y .. cursor.y + 2
    <3>1. Loc(x, cursor.y) = <<cursor.y, x>> /\ cursor.y \in Nat
      BY <2>1, CursorOnScreen, Positions
    <3> HIDE DEF x
    <3> QED
      BY <3>1, CursorRow, RowsTruncateToThemselves
  <2>3. ~Outside(AtCursor[1], Truncated(Loc(x, cursor.y))[1])
    BY <2>2, CursorOnScreen DEF Outside
  <2> QED
    BY <1>4, <2>3, EraseKeepsInvariant DEF EraseChars
<1> QED
  BY <1>1, <1>2, <1>3, <1>4

LEMMA ClearOpsKeepInvariant ==
    ASSUME IInv, ~image.outside, ClearOps
    PROVE  IInv'
PROOF
<1>1. /\ Home[1] = 0 /\ Truncated(ScreenEnd)[1] = size.lines - 1
      /\ LineStart[1] = cursor.y /\ Truncated(LineEnd)[1] = cursor.y
  <2>1. 0 \in Int /\ size.lines - 1 \in Nat /\ cursor.y \in Nat
    BY CursorOnScreen
  <2>2. /\ Home = <<0, 0>> /\ ScreenEnd = <<size.lines - 1, size.columns - 1>>
        /\ LineStart = <<cursor.y, 0>> /\ LineEnd = <<cursor.y, size.columns - 1>>
    BY <2>1, CursorOnScreen, EndsOfLines
    DEF Home, ScreenEnd, LineStart, LineEnd, LastColumn, LastLine
  <2> QED
    BY <2>1, <2>2, RowsTruncateToThemselves
<1>c. /\ AtCursor[1] \in cursor.y .. cursor.y + 2 /\ Truncated(AtCursor)[1] = AtCursor[1]
      /\ AtCursor[1] \in {cursor.y, cursor.y + 1} \/ PastOnlyColumn
  BY CursorRow, CursorOnScreen DEF Truncated
<1>2. /\ ~Outside(AtCursor[1], Truncated(ScreenEnd)[1])
      /\ ~Outside(Home[1], Truncated(ScreenEnd)[1])
      /\ ~Outside(AtCursor[1], Truncated(LineEnd)[1])
      /\ ~Outside(LineStart[1], Truncated(LineEnd)[1])
  BY <1>1, <1>c, CursorOnScreen DEF Outside
<1>d. ASSUME ~PastOnlyColumn
      PROVE  /\ ~Outside(Home[1], Truncated(AtCursor)[1])
             /\ ~Outside(LineStart[1], Truncated(AtCursor)[1])
  BY <1>1, <1>c, <1>d, CursorOnScreen DEF Outside
<1>e. ASSUME PastOnlyColumn, ChangesImage PROVE IInv'
  BY <1>e DEF ChangesImage, KeepsModes, IInv, Shape, Geometry, RowsInBounds, PastOnlyColumn
<1>3. CASE ClearToEndOfScreen
  BY <1>2, <1>3, EraseKeepsInvariant DEF ClearToEndOfScreen
<1>4. CASE ClearToBeginOfScreen
  BY <1>4, <1>d, <1>e, EraseKeepsInvariant DEF ClearToBeginOfScreen, Erase
<1>5. CASE ClearEntireScreen
  BY <1>2, <1>5, EraseKeepsInvariant DEF ClearEntireScreen
<1>6. CASE HelpAlign
  BY <1>2, <1>6, EraseKeepsInvariant DEF HelpAlign
<1>7. CASE ClearToEndOfLine
  BY <1>2, <1>7, EraseKeepsInvariant DEF ClearToEndOfLine
<1>8. CASE ClearToBeginOfLine
  BY <1>8, <1>d, <1>e, EraseKeepsInvariant DEF ClearToBeginOfLine, Erase
<1>9. CASE ClearEntireLine
  BY <1>2, <1>9, EraseKeepsInvariant DEF ClearEntireLine
<1> QED
  BY <1>3, <1>4, <1>5, <1>6, <1>7, <1>8, <1>9 DEF ClearOps

LEMMA SelectOpsKeepInvariant ==
    ASSUME IInv, ~image.outside, SelectOps
    PROVE  IInv'
PROOF
<1>1. ASSUME NEW sel, WithSelection(sel) PROVE IInv'
  BY <1>1, CursorOnScreen, ImageChangeKeepsInvariant DEF WithSelection
<1>2. ASSUME NEW x, NEW y, NEW block, SetSelectionStart(x, y, block) PROVE IInv'
  BY <1>1, <1>2 DEF SetSelectionStart
<1>3. ASSUME NEW x, NEW y, SetSelectionEnd(x, y) PROVE IInv'
  BY <1>1, <1>3 DEF SetSelectionEnd
<1>4. CASE ClearSelection
  BY <1>1, <1>4 DEF ClearSelection
<1> QED
  BY <1>2, <1>3, <1>4 DEF SelectOps

LEMMA SizeOpsKeepInvariant ==
    ASSUME IInv, ~image.outside, SizeOps
    PROVE  IInv'
PROOF
<1>1. ASSUME NEW new \in Sizes, ResizeImage(new) PROVE IInv'
  <2>1. new.lines \in Nat /\ new.columns \in Nat /\ new.lines >= 1 /\ new.columns >= 1
    BY SizesAreNatural
  <2>2. UNCHANGED <<saved, lastChar>> /\ size' = new
        /\ margin' = [top |-> 0, bottom |-> new.lines - 1] /\ tabStops' = TabsOf(new.columns)
    BY <1>1 DEF ResizeImage
  <2>. DEFINE x == Min2(cursor.x, new.columns - 1)
              y == Min2(cursor.y, new.lines - 1)
  <2>. x \in 0 .. new.columns - 1 /\ y \in 0 .. new.lines - 1
    BY <2>1, CursorOnScreen DEF Min2
  <2>. cursor' = [x |-> x, y |-> y]
    BY <1>1 DEF ResizeImage
  <2>3. cursor' \in [x : 0 .. new.columns - 1, y : 0 .. new.lines - 1]
    OBVIOUS
  <2>4. ~Outside(0, Max2(0, cursor.y - (new.lines - 1)) - 1)
    BY <2>1, CursorOnScreen DEF Outside, Max2
  <2>5. ~image'.outside
    BY <1>1, <2>4, CursorOnScreen DEF ResizeImage
  <2>6. Shape'
    BY <2>1, <2>2, <2>3 DEF IInv, Shape
  <2>7. Geometry'
    BY <2>1, <2>2, <2>3 DEF Geometry, TabsOf
  <2> QED
    BY <2>5, <2>6, <2>7 DEF IInv, RowsInBounds
<1>2. CASE Reset
  <2>1. ~image'.outside
    <3>1. 0 \in Nat /\ cursor.y \in Int /\ image' = ScrollRegionUp(image, 0, cursor.y)
      BY <1>2, CursorOnScreen DEF Reset
    <3> QED
      BY <3>1, CursorOnScreen, ScrollUpStaysInside
  <2>2. /\ cursor' \in OnScreen
        /\ margin' = [top |-> 0, bottom |-> size.lines - 1]
        /\ saved' \in [x : Nat, y : Nat]
        /\ UNCHANGED <<size, tabStops, lastChar>>
    BY <1>2, CursorOnScreen DEF Reset, OnScreen
  <2>3. Shape'
    BY <2>2, CursorOnScreen DEF IInv, Shape, OnScreen
  <2>4. Geometry'
    BY <2>2, CursorOnScreen DEF IInv, Geometry, OnScreen, RightMost, PastOnlyColumn
  <2> QED
    BY <2>1, <2>3, <2>4 DEF IInv, RowsInBounds
<1>3. ASSUME NEW t, NEW copy, SetScroll(t, copy) PROVE IInv'
  BY <1>3, CursorOnScreen, StepKeepsInvariant DEF SetScroll
<1> QED
  BY <1>1, <1>2, <1>3 DEF SizeOps

-----------------------------------------------------------------------------
LEMMA InitEstablishesInvariant == Init => IInv
PROOF
<1> SUFFICES ASSUME Init PROVE IInv
  OBVIOUS
<1>1. FirstSize \in Sizes /\ FirstSize.lines \in Nat /\ FirstSize.columns \in Nat
      /\ FirstSize.lines >= 1 /\ FirstSize.columns >= 1
  BY ScreenAssumption, SizesAreNatural
<1>2. Shape
  BY <1>1 DEF Init, InitAt, EmptyRows, Shape, NoChar
<1>3. Geometry
  BY <1>1 DEF Init, InitAt, EmptyRows, Geometry, TabsOf
<1>4. RowsInBounds
  BY DEF Init, InitAt, EmptyRows, RowsInBounds
<1> QED
  BY <1>2, <1>3, <1>4 DEF IInv

LEMMA StepsKeepInvariant == IInv /\ [Next]_vars => IInv'
PROOF
<1> SUFFICES ASSUME IInv, [Next]_vars PROVE IInv'
  OBVIOUS
<1>1. CASE Next
  BY <1>1, CursorOpsKeepInvariant, ModeOpsKeepInvariant, TextOpsKeepInvariant,
     ScrollOpsKeepInvariant, EditOpsKeepInvariant, ClearOpsKeepInvariant,
     SizeOpsKeepInvariant, SelectOpsKeepInvariant DEF Next
<1>2. CASE UNCHANGED vars
  BY <1>2 DEF vars, IInv, Shape, Geometry, RowsInBounds, PastOnlyColumn
<1> QED
  BY <1>1, <1>2

LEMMA InvariantHolds == Spec => []IInv
BY InitEstablishesInvariant, StepsKeepInvariant, PTL DEF Spec

(* The cursor, but for PastOnlyColumn, and the margins stay on the screen, *)
(* whatever its sizes, from one line and one column, and                   *)
(* whatever sequence of operations the decoder, the view and the user call *)
(* (setCursorX, setMargins, resizeImage, restoreCursor, ...).              *)
THEOREM GeometryHolds == Spec => []Geometry
BY InvariantHolds, PTL DEF IInv

(* No operation uses a row that does not exist, and the Q_ASSERT of        *)
(* moveImage holds: what the FIXMEs of scrollUp and scrollDown ask for.    *)
(* Only clearing to the beginning of the line or the screen can, from two  *)
(* cells past the start of the only column (clearImage).                   *)
THEOREM RowsStayInBounds == Spec => []RowsInBounds
BY InvariantHolds, PTL DEF IInv

(* The two together.                                                       *)
THEOREM EverythingStaysInBounds == Spec => []InBounds
BY GeometryHolds, RowsStayInBounds, PTL DEF InBounds

-----------------------------------------------------------------------------
(* Types.  The rows, the history and the selection are typed operator by   *)
(* operator; the numbers come from the inductive invariant above.          *)

SelType == [begin : PosType, tl : PosType, br : PosType, block : BOOLEAN]

ImageTyped(img, lines) ==
    /\ img.rows \in [0 .. lines -> RowType]
    /\ img.history \in Seq(RowType)
    /\ img.sel \in SelType

TInv == IInv /\ TypeOK

-----------------------------------------------------------------------------
(* Cells of a row *)

LEMMA FunctionIsSeq ==
    ASSUME NEW T, NEW n \in Nat, NEW f \in [1 .. n -> T]
    PROVE  f \in Seq(T) /\ Len(f) = n
OBVIOUS

LEMMA BlankIsCell == Blank \in Cells /\ WideTail \in Cells /\ "E" \in Cells /\ Chars \subseteq Cells
BY DEF Cells

LEMMA ResizeTyped ==
    ASSUME NEW cells \in Seq(Cells), NEW n \in Nat
    PROVE  Resize(cells, n) \in Seq(Cells) /\ Grown(cells, n) \in Seq(Cells)
           /\ Len(Grown(cells, n)) >= n
PROOF
<1>1. Resize(cells, n) \in [1 .. n -> Cells]
  BY BlankIsCell, LenProperties, ElementOfSeq DEF Resize
<1>2. Resize(cells, n) \in Seq(Cells) /\ Len(Resize(cells, n)) = n
  BY <1>1, FunctionIsSeq
<1> QED
  BY <1>2, LenProperties DEF Grown

LEMMA ClearedRowTyped ==
    ASSUME NEW row \in RowType, NEW a \in Nat, NEW b \in Int, NEW ch \in Cells
    PROVE  ClearedRow(row, a, b, ch) \in RowType
PROOF
<1>1. row.cells \in Seq(Cells) /\ Len(row.cells) \in Nat
  BY DEF RowType
<1>2. Resize(row.cells, a) \in Seq(Cells)
  BY <1>1, ResizeTyped
<1> DEFINE n == Max2(Len(row.cells), b + 1)
           f == [i \in 1 .. n |->
                   IF i - 1 \in a .. b THEN ch
                   ELSE IF i <= Len(row.cells) THEN row.cells[i] ELSE Blank]
<1>3. n \in Nat
  BY <1>1 DEF Max2
<1>4. f \in [1 .. n -> Cells]
  <2> SUFFICES ASSUME NEW i \in 1 .. n
               PROVE  (IF i - 1 \in a .. b THEN ch
                       ELSE IF i <= Len(row.cells) THEN row.cells[i] ELSE Blank) \in Cells
    OBVIOUS
  <2>1. i <= Len(row.cells) => row.cells[i] \in Cells
    BY <1>1, <1>3, ElementOfSeq
  <2> QED
    BY <2>1, BlankIsCell
<1>5. f \in Seq(Cells)
  BY <1>3, <1>4, FunctionIsSeq
<1> HIDE DEF f, n
<1>6. ClearedRow(row, a, b, ch) =
        [cells |-> IF ch = Blank /\ b = size.columns - 1 THEN Resize(row.cells, a) ELSE f,
         wrapped |-> FALSE]
  BY DEF ClearedRow, f, n
<1> QED
  BY <1>2, <1>5, <1>6 DEF RowType

LEMMA BlanksTyped ==
    ASSUME NEW n \in Nat
    PROVE  [i \in 1 .. n |-> Blank] \in Seq(Cells)
PROOF
<1>1. [i \in 1 .. n |-> Blank] \in [1 .. n -> Cells]
  BY BlankIsCell
<1> QED
  BY <1>1, FunctionIsSeq

LEMMA PartTyped ==
    ASSUME NEW T, NEW s \in Seq(T), NEW m \in Int, NEW n \in Int, m >= 1, n <= Len(s)
    PROVE  SubSeq(s, m, n) \in Seq(T)
PROOF
<1>1. \A i \in m .. n : s[i] \in T
  BY LenProperties, ElementOfSeq
<1> QED
  BY <1>1, SubSeqProperties

LEMMA InsertedTyped ==
    ASSUME NEW cells \in Seq(Cells), NEW x \in Nat, NEW n \in Nat, size.columns \in Nat
    PROVE  InsertedCells(cells, x, n) \in Seq(Cells)
PROOF
<1> DEFINE c == Grown(cells, x)
           inserted == SubSeq(c, 1, x) \o [i \in 1 .. n |-> Blank] \o SubSeq(c, x + 1, Len(c))
<1>1. c \in Seq(Cells) /\ Len(c) \in Nat /\ Len(c) >= x
  BY ResizeTyped, LenProperties
<1> HIDE DEF c
<1>2. SubSeq(c, 1, x) \in Seq(Cells) /\ SubSeq(c, x + 1, Len(c)) \in Seq(Cells)
  BY <1>1, PartTyped
<1>3. inserted \in Seq(Cells) /\ Len(inserted) \in Nat
  BY <1>2, BlanksTyped, ConcatProperties, LenProperties
<1> HIDE DEF inserted
<1>4. Len(inserted) > size.columns => SubSeq(inserted, 1, size.columns) \in Seq(Cells)
  BY <1>3, PartTyped
<1>5. InsertedCells(cells, x, n) =
        IF Len(inserted) > size.columns THEN SubSeq(inserted, 1, size.columns) ELSE inserted
  BY DEF InsertedCells, inserted, c
<1> QED
  BY <1>3, <1>4, <1>5

LEMMA DeletedTyped ==
    ASSUME NEW cells \in Seq(Cells), NEW x \in Nat, NEW n \in Nat
    PROVE  DeletedCells(cells, x, n) \in Seq(Cells)
PROOF
<1> DEFINE k == Min2(n, Len(cells) - x)
<1>1. Len(cells) \in Nat
  BY LenProperties
<1>2. CASE x >= Len(cells)
  BY <1>2 DEF DeletedCells
<1>3. CASE ~(x >= Len(cells))
  <2>1. k \in Nat /\ x + k <= Len(cells)
    BY <1>1, <1>3 DEF Min2
  <2> HIDE DEF k
  <2>2. /\ SubSeq(cells, 1, x) \in Seq(Cells)
        /\ SubSeq(cells, x + k + 1, Len(cells)) \in Seq(Cells)
        /\ [i \in 1 .. k |-> Blank] \in Seq(Cells)
    <3>1. x <= Len(cells) /\ x \in Int /\ x + k + 1 \in Int /\ x + k + 1 >= 1
      BY <1>1, <1>3, <2>1
    <3>2. SubSeq(cells, 1, x) \in Seq(Cells)
      BY <3>1, PartTyped
    <3>3. SubSeq(cells, x + k + 1, Len(cells)) \in Seq(Cells)
      BY <1>1, <3>1, PartTyped
    <3> QED
      BY <2>1, <3>2, <3>3, BlanksTyped
  <2>3. DeletedCells(cells, x, n) =
          SubSeq(cells, 1, x) \o SubSeq(cells, x + k + 1, Len(cells)) \o [i \in 1 .. k |-> Blank]
    BY <1>3 DEF DeletedCells, k
  <2>4. \A s1, s2 \in Seq(Cells) : s1 \o s2 \in Seq(Cells)
    BY ConcatProperties
  <2> QED
    BY <2>2, <2>3, <2>4, ZenonT(60)
<1> QED
  BY <1>2, <1>3

-----------------------------------------------------------------------------
(* The selection *)

LEMMA PositionsTyped ==
    /\ NoPos \in PosType
    /\ \A p \in PosType, n \in Int : Shift(p, n) \in PosType
BY DEF NoPos, PosType, Shift

LEMMA LocationsTyped ==
    ASSUME size.columns \in Nat \ {0}, NEW x \in Nat, NEW y \in Int
    PROVE  Loc(x, y) \in PosType
<1> DEFINE c == size.columns
<1>1. x \div c \in Int
  OBVIOUS
<1>2. x % c \in Nat
  OBVIOUS
<1>3. y + x \div c \in Int
  BY <1>1
<1> QED
  BY <1>2, <1>3 DEF Loc, PosType

LEMMA NoSelectionTyped ==
    ASSUME NEW s \in SelType
    PROVE  NoSelection(s) \in SelType
BY PositionsTyped DEF NoSelection, SelType

LEMMA SettleTyped ==
    ASSUME NEW s \in SelType, NEW tl \in PosType, NEW br \in PosType
    PROVE  Settle(s, tl, br) \in SelType
PROOF
<1> DEFINE top == IF tl[1] < 0 THEN <<0, 0>> ELSE tl
<1>1. top \in PosType
  BY DEF PosType
<1>2. CASE br[1] < 0
  BY <1>2, NoSelectionTyped DEF Settle
<1>3. CASE ~(br[1] < 0)
  <2>1. Settle(s, tl, br) =
          [s EXCEPT !.tl = top, !.br = br, !.begin = IF s.begin = s.tl THEN top ELSE br]
    BY <1>3 DEF Settle
  <2> HIDE DEF top
  <2> QED
    BY <1>1, <2>1 DEF SelType
<1> QED
  BY <1>2, <1>3

LEMMA MovedSelectionTyped ==
    ASSUME NEW s \in SelType, NEW first, NEW last, NEW d \in Int
    PROVE  MovedSelection(s, first, last, d) \in SelType
PROOF
<1>1. s.tl \in PosType /\ s.br \in PosType
  BY DEF SelType
<1>2. \A p \in PosType : Shift(p, d) \in PosType
  BY PositionsTyped
<1>3. PICK tl \in PosType, br \in PosType : MovedSelection(s, first, last, d) = Settle(s, tl, br)
  BY <1>1, <1>2, PositionsTyped DEF MovedSelection
<1> QED
  BY <1>3, SettleTyped

-----------------------------------------------------------------------------
(* The image *)

LEMMA RecordedTyped ==
    ASSUME NEW h \in Seq(RowType), NEW rows \in Seq(RowType), histType \in Nat \cup {File}
    PROVE  Recorded(h, rows) \in Seq(RowType)
PROOF
<1> DEFINE all == h \o rows
           kept == IF histType = File THEN Len(all) ELSE Min2(Len(all), histType + 1)
<1>1. all \in Seq(RowType) /\ Len(all) \in Nat
  BY ConcatProperties, LenProperties
<1> HIDE DEF all
<1>2. kept \in 0 .. Len(all)
  BY <1>1 DEF Min2
<1> HIDE DEF kept
<1>3. SubSeq(all, Len(all) - kept + 1, Len(all)) \in Seq(RowType)
  BY <1>1, <1>2, PartTyped
<1> QED
  BY <1>3 DEF Recorded, all, kept

LEMMA AddHistLineTyped ==
    ASSUME NEW img, ImageTyped(img, size.lines), size.lines \in Nat,
           histType \in Nat \cup {File}
    PROVE  ImageTyped(AddHistLine(img), size.lines)
PROOF
<1> DEFINE history == Recorded(img.history, <<RecordsRow(img)>>)
<1>1. <<img.rows[0]>> \in Seq(RowType)
  BY DEF ImageTyped
<1>2. history \in Seq(RowType) /\ Len(history) \in Nat
  BY <1>1, RecordedTyped, LenProperties DEF ImageTyped, RecordsRow
<1>3. img.sel \in SelType /\ img.sel.tl \in PosType /\ img.sel.br \in PosType
  BY DEF ImageTyped, SelType
<1> HIDE DEF history
<1> DEFINE grown == GrownBy(img.history, history)
           Up(p) == LET q == Shift(p, grown)
                    IN  IF q[1] < 1 + Len(history) THEN Shift(q, -1) ELSE q
<1>4. grown \in Int
  BY DEF GrownBy
<1> HIDE DEF grown
<1>5. Up(img.sel.tl) \in PosType /\ Up(img.sel.br) \in PosType
  BY <1>3, <1>4, PositionsTyped
<1> HIDE DEF Up
<1>6. Settle(img.sel, Up(img.sel.tl), Up(img.sel.br)) \in SelType
  BY <1>3, <1>5, SettleTyped
<1>7. HasScroll =>
        /\ AddHistLine(img).rows = img.rows
        /\ AddHistLine(img).history = history
        /\ AddHistLine(img).sel = IF Selecting(img.sel)
                                  THEN Settle(img.sel, Up(img.sel.tl), Up(img.sel.br))
                                  ELSE img.sel
  BY DEF AddHistLine, history, grown, Up
<1> QED
  BY <1>2, <1>3, <1>6, <1>7 DEF ImageTyped, AddHistLine

LEMMA MoveImageTyped ==
    ASSUME NEW img, NEW lines \in Nat, ImageTyped(img, lines), NEW dest \in Int, NEW source \in Int,
           NEW last \in PosType
    PROVE  ImageTyped(MoveImage(img, dest, source, last), lines)
PROOF
<1> DEFINE k == last[1] - source
           d == dest - source
           h == Len(img.history)
           rows == [y \in DOMAIN img.rows |->
                     IF dest <= y /\ y <= dest + k /\ y - d \in DOMAIN img.rows
                     THEN img.rows[y - d] ELSE img.rows[y]]
<1>1. rows \in [0 .. lines -> RowType]
  BY DEF ImageTyped
<1>2. d \in Int /\ img.sel \in SelType
  BY DEF ImageTyped
<1>3. MovedSelection(img.sel, <<source + h, 0>>, Shift(last, h), d) \in SelType
  BY <1>2, MovedSelectionTyped
<1>4. /\ MoveImage(img, dest, source, last).rows = rows
      /\ MoveImage(img, dest, source, last).history = img.history
      /\ MoveImage(img, dest, source, last).sel =
           IF Selecting(img.sel)
           THEN MovedSelection(img.sel, <<source + h, 0>>, Shift(last, h), d) ELSE img.sel
  BY DEF MoveImage
<1> HIDE DEF rows
<1> QED
  BY <1>1, <1>2, <1>3, <1>4 DEF ImageTyped

LEMMA ClearImageTyped ==
    ASSUME NEW img, NEW lines \in Nat, ImageTyped(img, lines), size.columns \in Nat \ {0},
           NEW first \in PosType, NEW last \in PosType, NEW ch \in Cells
    PROVE  ImageTyped(ClearImage(img, first, last, ch), lines)
PROOF
<1> DEFINE end == Truncated(last)
           a(y) == IF y = first[1] THEN first[2] ELSE 0
           b(y) == IF y = end[1] THEN end[2] ELSE size.columns - 1
           rows == [y \in DOMAIN img.rows |->
                     IF first[1] <= y /\ y <= end[1]
                     THEN ClearedRow(img.rows[y], a(y), b(y), ch) ELSE img.rows[y]]
<1>1. \A y : a(y) \in Nat /\ b(y) \in Int
  BY DEF PosType, Truncated
<1>2. DOMAIN img.rows = 0 .. lines /\ \A y \in 0 .. lines : img.rows[y] \in RowType
  BY DEF ImageTyped
<1>3. ClearImage(img, first, last, ch).rows = rows
  BY DEF ClearImage
<1> HIDE DEF a, b
<1>4. rows \in [0 .. lines -> RowType]
  BY <1>1, <1>2, ClearedRowTyped
<1>5. /\ ClearImage(img, first, last, ch).history = img.history
      /\ ClearImage(img, first, last, ch).sel \in {img.sel, NoSelection(img.sel)}
  BY DEF ClearImage
<1> HIDE DEF rows
<1> QED
  BY <1>3, <1>4, <1>5, NoSelectionTyped DEF ImageTyped

LEMMA RowChangeTyped ==
    ASSUME NEW img, NEW lines \in Nat, ImageTyped(img, lines), NEW y \in 0 .. lines,
           NEW cells \in Seq(Cells)
    PROVE  ImageTyped(WithCells(img, y, cells), lines) /\ ImageTyped(WithWrapped(img, y), lines)
PROOF
<1>1. DOMAIN img.rows = 0 .. lines /\ \A r \in 0 .. lines : img.rows[r] \in RowType
  BY DEF ImageTyped
<1>2. [cells |-> cells, wrapped |-> img.rows[y].wrapped] \in RowType
      /\ [cells |-> img.rows[y].cells, wrapped |-> TRUE] \in RowType
  BY <1>1 DEF RowType
<1>3. WithCells(img, y, cells).rows \in [0 .. lines -> RowType]
      /\ WithWrapped(img, y).rows \in [0 .. lines -> RowType]
  BY <1>1, <1>2 DEF WithCells, WithWrapped
<1> QED
  BY <1>3 DEF ImageTyped, WithCells, WithWrapped

LEMMA CheckTyped ==
    ASSUME NEW img, NEW lines, ImageTyped(img, lines), NEW pos
    PROVE  ImageTyped(CheckSelection(img, pos), lines)
BY NoSelectionTyped DEF ImageTyped, CheckSelection

-----------------------------------------------------------------------------
(* The operations on the image, in a state of the invariant *)

LEMMA NumbersTyped ==
    ASSUME TInv
    PROVE  /\ size.lines \in Nat /\ size.columns \in Nat \ {0}
           /\ cursor.x \in Nat /\ cursor.y \in 0 .. size.lines - 1 /\ cursor.y \in 0 .. size.lines
           /\ margin.top \in Nat /\ margin.bottom \in Nat /\ margin.bottom < size.lines
           /\ histType \in Nat \cup {File}
           /\ ImageTyped(image, size.lines)
PROOF
<1>1. histType \in HistoryTypes \cup {None} /\ HistoryTypes \subseteq Nat \cup {File} /\ None \in Nat
  BY ScreenAssumption DEF TInv, TypeOK, None
<1>2. histType \in Nat \cup {File}
  BY <1>1
<1>3. ImageTyped(image, size.lines)
  BY DEF TInv, TypeOK, ImageTyped, SelType
<1> QED
  BY <1>2, <1>3, CursorOnScreen DEF TInv

LEMMA ScrollRegionTyped ==
    ASSUME TInv, NEW img, ImageTyped(img, size.lines), NEW from \in Nat, NEW n \in Int
    PROVE  /\ ImageTyped(ScrollRegionUp(img, from, n), size.lines)
           /\ ImageTyped(ScrollRegionDown(img, from, n), size.lines)
PROOF
<1> USE NumbersTyped
<1>1. CASE n <= 0 \/ from > margin.bottom
  BY <1>1 DEF ScrollRegionUp, ScrollRegionDown
<1>2. CASE ~(n <= 0 \/ from > margin.bottom)
  <2>1. \A dest, source \in Int, last, a, b \in PosType :
          ImageTyped(ClearImage(MoveImage(img, dest, source, last), a, b, Blank), size.lines)
    BY MoveImageTyped, ClearImageTyped, BlankIsCell
  <2>2. ImageTyped(ScrollRegionUp(img, from, n), size.lines)
    <3> DEFINE k == UpBy(from, n)
    <3>1. k \in Int /\ from \in Int /\ from + k \in Int
      BY DEF UpBy
    <3>2. /\ Loc(size.columns, margin.bottom) \in PosType
          /\ Loc(0, margin.bottom - k + 1) \in PosType
          /\ Loc(size.columns - 1, margin.bottom) \in PosType
      <4>1. /\ 0 \in Nat /\ size.columns \in Nat /\ size.columns - 1 \in Nat
            /\ margin.bottom \in Int /\ margin.bottom - k + 1 \in Int
        BY <3>1
      <4> QED
        BY <4>1, NumbersTyped, LocationsTyped
    <3>3. ScrollRegionUp(img, from, n) =
            ClearImage(MoveImage(img, from, from + k, Loc(size.columns, margin.bottom)),
                       Loc(0, margin.bottom - k + 1), Loc(size.columns - 1, margin.bottom), Blank)
      BY <1>2 DEF ScrollRegionUp
    <3> HIDE DEF k
    <3> QED
      BY <2>1, <3>1, <3>2, <3>3, ZenonT(60)
  <2>3. ImageTyped(ScrollRegionDown(img, from, n), size.lines)
    <3> DEFINE k == IF from + n > margin.bottom THEN margin.bottom - from ELSE n
    <3>1. k \in Int /\ from \in Int /\ from + k \in Int
      OBVIOUS
    <3>2. /\ Loc(size.columns - 1, margin.bottom - k) \in PosType
          /\ Loc(0, from) \in PosType
          /\ Loc(size.columns - 1, from + k - 1) \in PosType
      <4>1. /\ 0 \in Nat /\ size.columns - 1 \in Nat
            /\ margin.bottom - k \in Int /\ from + k - 1 \in Int
        BY <3>1
      <4> QED
        BY <3>1, <4>1, NumbersTyped, LocationsTyped
    <3>3. ScrollRegionDown(img, from, n) =
            ClearImage(MoveImage(img, from + k, from, Loc(size.columns - 1, margin.bottom - k)),
                       Loc(0, from), Loc(size.columns - 1, from + k - 1), Blank)
      BY <1>2 DEF ScrollRegionDown
    <3> HIDE DEF k
    <3> QED
      BY <2>1, <3>1, <3>2, <3>3, ZenonT(60)
  <2> QED
    BY <2>2, <2>3
<1> QED
  BY <1>1, <1>2

LEMMA ScrollUpTyped ==
    ASSUME TInv, NEW img, ImageTyped(img, size.lines), NEW n \in Nat
    PROVE  ImageTyped(ScrollUpBy(img, n), size.lines)
PROOF
<1>1. ImageTyped(IF margin.top = 0 THEN AddHistLine(img) ELSE img, size.lines)
  BY NumbersTyped, AddHistLineTyped
<1>2. Default(n) \in Int
  BY DEF Default
<1> QED
  BY <1>1, <1>2, NumbersTyped, ScrollRegionTyped DEF ScrollUpBy

LEMMA IndexTyped ==
    ASSUME TInv, NEW img, ImageTyped(img, size.lines), NEW y
    PROVE  ImageTyped(IndexImage(img, y), size.lines)
BY ScrollUpTyped DEF IndexImage

-----------------------------------------------------------------------------
(* The steps.  The invariant of ScreenProofs gives the numbers of the next *)
(* state; what is left is the image, the modes and the last character.     *)

LastCharType == [c : Chars \cup {Blank}, w : 0 .. 2]
ModeType == [Modes -> BOOLEAN]

LEMMA StepKeepsTypes ==
    ASSUME TInv, IInv', size' \in Sizes,
           mode' \in ModeType, savedMode' \in ModeType,
           lastChar' \in LastCharType,
           histType' \in HistoryTypes \cup {None},
           ImageTyped(image', size'.lines)
    PROVE  TInv'
PROOF
<1>1. cursor' \in [x : Nat, y : Nat] /\ margin' \in [top : Nat, bottom : Nat]
      /\ saved' \in [x : Nat, y : Nat]
  BY DEF IInv, Shape
<1>2. tabStops' \subseteq Nat
  BY SizesAreNatural DEF IInv, Geometry
<1> QED
  BY <1>1, <1>2 DEF TInv, TypeOK, ImageTyped, SelType, ModeType, LastCharType

LEMMA CurrentTypes ==
    ASSUME TInv
    PROVE  /\ IInv /\ size \in Sizes /\ mode \in ModeType /\ savedMode \in ModeType
           /\ lastChar \in LastCharType /\ histType \in HistoryTypes \cup {None}
           /\ ImageTyped(image, size.lines)
BY NumbersTyped DEF TInv, TypeOK, ModeType, LastCharType

LEMMA ImageChangeKeepsTypes ==
    ASSUME TInv, IInv', KeepsModes, UNCHANGED size, ImageTyped(image', size.lines)
    PROVE  TInv'
BY CurrentTypes, StepKeepsTypes DEF KeepsModes

LEMMA NoImageChangeKeepsTypes ==
    ASSUME TInv, IInv', UNCHANGED <<size, lastChar, image, histType>>,
           mode' \in ModeType, savedMode' \in ModeType
    PROVE  TInv'
BY CurrentTypes, StepKeepsTypes

LEMMA CursorAndModeOpsKeepTypes ==
    ASSUME TInv, IInv', CursorOps \/ ModeOps
    PROVE  TInv'
PROOF
<1>1. CASE CursorOps
  <2>1. MovesCursor \/ SaveCursor
    BY <1>1 DEF CursorOps, CursorUp, CursorDown, CursorLeft, CursorRight, SetCursorX, SetCursorY,
               SetCursorYX, ToStartOfLine, Tab, Backtab, RestoreCursor
  <2>2. UNCHANGED <<size, lastChar, image, histType, mode, savedMode>>
    BY <2>1 DEF MovesCursor, KeepsModes, SaveCursor
  <2> QED
    BY <2>2, CurrentTypes, NoImageChangeKeepsTypes
<1>2. ASSUME NEW t, NEW b, SetMargins(t, b) PROVE TInv'
  BY <1>2, CurrentTypes, NoImageChangeKeepsTypes DEF SetMargins, KeepsModes
<1>3. CASE SetDefaultMargins
  BY <1>3, CurrentTypes, NoImageChangeKeepsTypes DEF SetDefaultMargins, KeepsModes
<1>4. ASSUME NEW m \in Modes, NEW on \in BOOLEAN, ChangeMode(m, on) PROVE TInv'
  <2>1. mode' \in ModeType
    BY <1>4, CurrentTypes DEF ChangeMode, ModeType
  <2> QED
    BY <1>4, <2>1, CurrentTypes, NoImageChangeKeepsTypes DEF ChangeMode
<1>5. ASSUME NEW m \in Modes, SaveMode(m) PROVE TInv'
  <2>1. savedMode' \in ModeType
    BY <1>5, CurrentTypes DEF SaveMode, ModeType
  <2> QED
    BY <1>5, <2>1, CurrentTypes, NoImageChangeKeepsTypes DEF SaveMode
<1>6. ASSUME NEW m \in Modes, RestoreMode(m) PROVE TInv'
  <2>1. mode' \in ModeType
    BY <1>6, CurrentTypes DEF RestoreMode, ModeType
  <2> QED
    BY <1>6, <2>1, CurrentTypes, NoImageChangeKeepsTypes DEF RestoreMode
<1>7. ASSUME NEW stops, SetTabStops(stops) PROVE TInv'
  BY <1>7, CurrentTypes, NoImageChangeKeepsTypes DEF SetTabStops
<1> QED
  BY <1>1, <1>2, <1>3, <1>4, <1>5, <1>6, <1>7 DEF CursorOps, ModeOps, ChangeTabStop, ClearTabStops

LEMMA DisplayKeepsTypes ==
    ASSUME TInv, IInv', NEW c \in Chars \cup {Blank}, NEW w \in 0 .. 2, DisplayCharacter(c, w)
    PROVE  TInv'
PROOF
<1> DEFINE wraps == cursor.x + w > size.columns /\ mode.Wrap
           x == WriteX(w)
           y == IF wraps THEN IndexLine(cursor.y) ELSE cursor.y
           img == IF wraps THEN IndexImage(WithWrapped(image, cursor.y), cursor.y) ELSE image
           room == Grown(img.rows[y].cells, x + w)
           cells == IF mode.Insert THEN Grown(InsertedCells(room, x, w), x + w) ELSE room
           written == [i \in DOMAIN cells |->
                         IF i = x + 1 THEN c
                         ELSE IF w = 2 /\ i = x + 2 THEN WideTail ELSE cells[i]]
<1>1. IInv /\ size.lines \in Nat /\ size.columns \in Nat
  BY NumbersTyped DEF TInv
<1>2. x \in Nat /\ x + w \in Nat
  BY NumbersTyped DEF WriteX, Max2
<1>3. y \in 0 .. size.lines
  BY <1>1, NumbersTyped, IndexLineOnScreen
<1>4. ImageTyped(WithWrapped(image, cursor.y), size.lines)
  BY NumbersTyped, EmptySeq, RowChangeTyped
<1>5. ImageTyped(img, size.lines)
  BY <1>4, NumbersTyped, IndexTyped
<1> HIDE DEF x, y, img
<1>6. img.rows[y].cells \in Seq(Cells)
  BY <1>3, <1>5 DEF ImageTyped, RowType
<1>7. room \in Seq(Cells)
  BY <1>2, <1>6, ResizeTyped
<1> HIDE DEF room
<1>8. cells \in Seq(Cells)
  <2>1. w \in Nat
    OBVIOUS
  <2>2. InsertedCells(room, x, w) \in Seq(Cells)
    BY <1>1, <1>2, <1>7, <2>1, InsertedTyped
  <2>3. Grown(InsertedCells(room, x, w), x + w) \in Seq(Cells)
    BY <1>2, <2>2, ResizeTyped
  <2> QED
    BY <1>7, <2>3
<1> HIDE DEF cells
<1>9. DOMAIN cells = 1 .. Len(cells) /\ Len(cells) \in Nat /\ \A i \in 1 .. Len(cells) : cells[i] \in Cells
  BY <1>8, LenProperties, ElementOfSeq
<1>10. c \in Cells
  BY BlankIsCell
<1>11. written \in [1 .. Len(cells) -> Cells]
  BY <1>9, <1>10, BlankIsCell
<1>12. written \in Seq(Cells)
  BY <1>9, <1>11, FunctionIsSeq
<1>13. image' = CheckSelection(WithCells(img, y, written), <<y, x>>)
  BY DEF DisplayCharacter, img, y, x, room, cells
<1> HIDE DEF written
<1>14. ImageTyped(WithCells(img, y, written), size.lines)
  BY <1>1, <1>3, <1>5, <1>12, RowChangeTyped
<1>15. ImageTyped(image', size.lines)
  BY <1>13, <1>14, CheckTyped
<1>16. lastChar' = [c |-> c, w |-> w] /\ UNCHANGED <<size, mode, savedMode, histType>>
  BY DEF DisplayCharacter
<1> QED
  BY <1>15, <1>16, CurrentTypes, StepKeepsTypes DEF LastCharType

LEMMA TextOpsKeepTypes ==
    ASSUME TInv, IInv', TextOps
    PROVE  TInv'
PROOF
<1>1. ASSUME NEW c \in Chars, NEW w \in {1, 2}, DisplayCharacter(c, w) PROVE TInv'
  BY <1>1, DisplayKeepsTypes
<1>2. CASE RepeatChar
  <2>1. lastChar.c \in Chars \cup {Blank} /\ lastChar.w \in 0 .. 2
    BY CurrentTypes DEF LastCharType
  <2> QED
    BY <1>2, <2>1, DisplayKeepsTypes DEF RepeatChar
<1>3. CASE Backspace
  <2>1. image.rows[cursor.y].cells \in Seq(Cells)
    BY NumbersTyped DEF ImageTyped, RowType
  <2>2. Max2(0, NoWrapX - 1) + 1 \in Nat
    BY NumbersTyped DEF Max2, NoWrapX, Min2, LastColumn
  <2>3. Grown(image.rows[cursor.y].cells, Max2(0, NoWrapX - 1) + 1) \in Seq(Cells)
    BY <2>1, <2>2, ResizeTyped
  <2>4. ImageTyped(image', size.lines)
    BY <1>3, <2>3, NumbersTyped, RowChangeTyped DEF Backspace
  <2> QED
    BY <1>3, <2>4, ImageChangeKeepsTypes DEF Backspace
<1>4. CASE Index \/ NextLine \/ NewLine
  <2>1. Index \/ NextLine
    BY <1>4 DEF NewLine
  <2>2. ImageTyped(image', size.lines)
    BY <2>1, NumbersTyped, IndexTyped DEF Index, NextLine
  <2> QED
    BY <2>1, <2>2, ImageChangeKeepsTypes DEF Index, NextLine
<1>5. CASE ReverseIndex
  <2>1. ImageTyped(ScrollRegionDown(image, margin.top, 1), size.lines)
    BY NumbersTyped, ScrollRegionTyped
  <2>2. ImageTyped(image', size.lines)
    BY <1>5, <2>1, NumbersTyped DEF ReverseIndex
  <2> QED
    BY <1>5, <2>2, ImageChangeKeepsTypes DEF ReverseIndex
<1> QED
  BY <1>1, <1>2, <1>3, <1>4, <1>5 DEF TextOps

LEMMA ScrollAndEditOpsKeepTypes ==
    ASSUME TInv, IInv', ScrollOps \/ EditOps
    PROVE  TInv'
PROOF
<1>1. ASSUME NEW n \in Args, ScrollUp(n) \/ ScrollDown(n) \/ DeleteLines(n) \/ InsertLines(n)
      PROVE  TInv'
  <2>1. n \in Nat /\ Default(n) \in Int /\ cursor.y \in Nat /\ margin.top \in Nat
    BY ArgsAreNatural, NumbersTyped
  <2>2. /\ ImageTyped(ScrollUpBy(image, n), size.lines)
        /\ ImageTyped(ScrollRegionDown(image, margin.top, Default(n)), size.lines)
        /\ ImageTyped(ScrollRegionUp(image, cursor.y, Default(n)), size.lines)
        /\ ImageTyped(ScrollRegionDown(image, cursor.y, Default(n)), size.lines)
    BY <2>1, NumbersTyped, ScrollUpTyped, ScrollRegionTyped
  <2>3. ImageTyped(image', size.lines)
    BY <1>1, <2>2 DEF ScrollUp, ScrollDown, DeleteLines, InsertLines
  <2> QED
    BY <1>1, <2>3, ImageChangeKeepsTypes
    DEF ScrollUp, ScrollDown, DeleteLines, InsertLines, ChangesImage
<1>2. ASSUME NEW n \in Args, InsertChars(n) \/ DeleteChars(n) PROVE TInv'
  <2>1. image.rows[cursor.y].cells \in Seq(Cells)
    BY NumbersTyped DEF ImageTyped, RowType
  <2>2. cursor.x \in Nat /\ Default(n) \in Nat /\ size.columns \in Nat
    BY ArgsAreNatural, NumbersTyped
  <2>3. /\ InsertedCells(image.rows[cursor.y].cells, cursor.x, Default(n)) \in Seq(Cells)
        /\ DeletedCells(image.rows[cursor.y].cells, cursor.x, Default(n)) \in Seq(Cells)
    BY <2>1, <2>2, InsertedTyped, DeletedTyped
  <2>4. ImageTyped(image', size.lines)
    BY <1>2, <2>3, NumbersTyped, RowChangeTyped DEF InsertChars, DeleteChars
  <2> QED
    BY <1>2, <2>4, ImageChangeKeepsTypes DEF InsertChars, DeleteChars, ChangesImage
<1>3. ASSUME NEW n \in Args, EraseChars(n) PROVE TInv'
  <2> DEFINE x == Max2(0, Min2(cursor.x + Default(n) - 1, LastColumn))
  <2>1. x \in Nat
    BY ArgsAreNatural, NumbersTyped DEF Max2, Min2, LastColumn
  <2> HIDE DEF x
  <2>2. AtCursor \in PosType /\ Loc(x, cursor.y) \in PosType
    <3>1. cursor.x \in Nat /\ cursor.y \in Int
      BY NumbersTyped
    <3> QED
      BY <2>1, <3>1, NumbersTyped, LocationsTyped DEF AtCursor
  <2>3. image' = ClearImage(image, AtCursor, Loc(x, cursor.y), Blank) /\ ChangesImage
    BY <1>3 DEF EraseChars, Erase, x
  <2>4. ImageTyped(image', size.lines)
    BY <2>2, <2>3, NumbersTyped, ClearImageTyped, BlankIsCell
  <2> QED
    BY <2>3, <2>4, ImageChangeKeepsTypes DEF ChangesImage
<1> QED
  BY <1>1, <1>2, <1>3 DEF ScrollOps, EditOps

LEMMA ClearOpsKeepTypes ==
    ASSUME TInv, IInv', ClearOps
    PROVE  TInv'
PROOF
<1>1. 0 \in Nat /\ 0 \in Int /\ size.columns - 1 \in Nat /\ size.lines - 1 \in Int
      /\ cursor.x \in Nat /\ cursor.y \in Int
  BY NumbersTyped
<1>2. {AtCursor, LineStart, LineEnd, Home, ScreenEnd} \subseteq PosType
  BY <1>1, NumbersTyped, LocationsTyped DEF AtCursor, LineStart, LineEnd, Home, ScreenEnd, LastColumn, LastLine
<1>3. ASSUME NEW first \in PosType, NEW last \in PosType, NEW ch \in Cells, Erase(first, last, ch)
      PROVE  TInv'
  BY <1>3, NumbersTyped, ClearImageTyped, ImageChangeKeepsTypes DEF Erase, ChangesImage
<1> QED
  BY <1>2, <1>3, BlankIsCell
  DEF ClearOps, ClearToEndOfScreen, ClearToBeginOfScreen, ClearEntireScreen, HelpAlign,
      ClearToEndOfLine, ClearToBeginOfLine, ClearEntireLine

LEMMA SelectOpsKeepTypes ==
    ASSUME TInv, IInv', SelectOps
    PROVE  TInv'
PROOF
<1>1. image.sel \in SelType /\ size.columns \in Nat \ {0} /\ size.lines \in Nat
      /\ Len(image.history) \in Nat
  BY NumbersTyped, LenProperties DEF ImageTyped
<1>2. ASSUME NEW sel \in SelType, WithSelection(sel) PROVE TInv'
  <2>1. ImageTyped(image', size.lines)
    BY <1>2, NumbersTyped DEF WithSelection, ImageTyped
  <2> QED
    BY <1>2, <2>1, ImageChangeKeepsTypes DEF WithSelection, ChangesImage
<1>3. ASSUME NEW x \in 0 .. size.columns, NEW y \in 0 .. Len(image.history) + size.lines - 1,
             NEW block \in BOOLEAN, SetSelectionStart(x, y, block)
      PROVE  TInv'
  <2>1. <<y, Min2(x, LastColumn)>> \in PosType
    BY <1>1 DEF PosType, Min2, LastColumn
  <2> QED
    BY <1>2, <1>3, <2>1 DEF SetSelectionStart, SelType
<1>4. ASSUME NEW x \in 0 .. size.columns, NEW y \in 0 .. Len(image.history) + size.lines - 1,
             SetSelectionEnd(x, y)
      PROVE  TInv'
  <2> DEFINE s == image.sel
             end == Loc(x, y)
             tl == IF Before(end, s.begin) THEN end ELSE s.begin
             br == IF Before(end, s.begin) THEN s.begin ELSE <<y, Min2(x, LastColumn)>>
             sel == IF s.block
                    THEN [s EXCEPT !.tl = <<tl[1], Min2(tl[2], br[2])>>,
                                   !.br = <<br[1], Max2(tl[2], br[2])>>]
                    ELSE [s EXCEPT !.tl = tl, !.br = br]
  <2>1. x \in Nat /\ y \in Int /\ Min2(x, LastColumn) \in Nat
    BY <1>1 DEF Min2, LastColumn
  <2>2. end \in PosType /\ <<y, Min2(x, LastColumn)>> \in PosType /\ s.begin \in PosType
    BY <1>1, <2>1, LocationsTyped DEF PosType, SelType
  <2>3. WithSelection(sel)
    BY <1>4 DEF SetSelectionEnd
  <2> HIDE DEF end
  <2>4. tl \in PosType /\ br \in PosType
    BY <2>2
  <2> HIDE DEF tl, br
  <2>5. <<tl[1], Min2(tl[2], br[2])>> \in PosType /\ <<br[1], Max2(tl[2], br[2])>> \in PosType
    BY <2>4 DEF PosType, Min2, Max2
  <2>6. sel \in SelType
    BY <1>1, <2>4, <2>5 DEF SelType
  <2> QED
    BY <1>2, <2>3, <2>6
<1>5. CASE ClearSelection
  BY <1>1, <1>2, <1>5, NoSelectionTyped DEF ClearSelection
<1> QED
  BY <1>3, <1>4, <1>5 DEF SelectOps

LEMMA SizeOpsKeepTypes ==
    ASSUME TInv, IInv', SizeOps
    PROVE  TInv'
PROOF
<1>1. image.rows \in [0 .. size.lines -> RowType] /\ image.history \in Seq(RowType)
      /\ image.sel \in SelType /\ NoSelection(image.sel) \in SelType
  BY NumbersTyped, NoSelectionTyped DEF ImageTyped
<1>2. EmptyRow \in RowType
  BY EmptySeq DEF EmptyRow, RowType
<1>3. ASSUME NEW new \in Sizes, ResizeImage(new) PROVE TInv'
  <2> DEFINE k == Max2(0, cursor.y - (new.lines - 1))
             scrolled == [y \in 0 .. size.lines |->
                            IF y + k < size.lines THEN image.rows[y + k]
                            ELSE IF y < size.lines THEN EmptyRow ELSE image.rows[y]]
             rows == [y \in 0 .. new.lines |-> IF y < size.lines THEN scrolled[y] ELSE EmptyRow]
             top == [i \in 1 .. k |-> image.rows[i - 1]]
             history == IF HasScroll THEN Recorded(image.history, top) ELSE image.history
  <2>1. new.lines \in Nat /\ new.lines >= 1
    BY SizesAreNatural
  <2>2. k \in Nat /\ k <= size.lines
    BY <2>1, NumbersTyped DEF Max2
  <2>3. /\ size' = new /\ image'.rows = rows /\ image'.history = history
        /\ image'.sel = NoSelection(image.sel)
        /\ UNCHANGED <<mode, savedMode, lastChar, histType>>
    BY <1>3 DEF ResizeImage
  <2> HIDE DEF k
  <2>4. scrolled \in [0 .. size.lines -> RowType]
    <3> SUFFICES ASSUME NEW y \in 0 .. size.lines
                 PROVE  (IF y + k < size.lines THEN image.rows[y + k]
                         ELSE IF y < size.lines THEN EmptyRow ELSE image.rows[y]) \in RowType
      OBVIOUS
    <3>1. size.lines \in Nat /\ y \in Nat /\ (y + k < size.lines => y + k \in 0 .. size.lines)
      BY <2>2, NumbersTyped
    <3> QED
      BY <1>1, <1>2, <3>1
  <2> HIDE DEF scrolled
  <2>5. rows \in [0 .. new.lines -> RowType]
    BY <1>2, <2>1, <2>4, NumbersTyped
  <2>6. top \in [1 .. k -> RowType]
    <3>1. ASSUME NEW i \in 1 .. k PROVE image.rows[i - 1] \in RowType
      <4>1. size.lines \in Nat /\ i - 1 \in 0 .. size.lines
        BY <2>2, NumbersTyped
      <4> QED
        BY <1>1, <4>1
    <3> QED
      BY <3>1
  <2>7. top \in Seq(RowType)
    BY <2>2, <2>6, FunctionIsSeq
  <2> HIDE DEF rows, top
  <2>8. history \in Seq(RowType)
    BY <1>1, <2>7, NumbersTyped, RecordedTyped
  <2>9. ImageTyped(image', size'.lines)
    BY <1>1, <2>3, <2>5, <2>8 DEF ImageTyped
  <2> QED
    BY <2>3, <2>9, CurrentTypes, StepKeepsTypes
<1>4. CASE Reset
  <2>1. ImageTyped(ScrollRegionUp(image, 0, cursor.y), size.lines)
    <3>1. 0 \in Nat /\ cursor.y \in Int
      BY NumbersTyped
    <3> QED
      BY <3>1, NumbersTyped, ScrollRegionTyped
  <2>2. mode' \in ModeType /\ savedMode' \in ModeType
    BY <1>4, CurrentTypes DEF Reset, ResetModes, ModeType
  <2>3. UNCHANGED <<size, lastChar, histType>> /\ image' = ScrollRegionUp(image, 0, cursor.y)
    BY <1>4 DEF Reset
  <2> QED
    BY <2>1, <2>2, <2>3, CurrentTypes, StepKeepsTypes
<1>5. ASSUME NEW t \in HistoryTypes \cup {None}, NEW copy \in BOOLEAN, SetScroll(t, copy) PROVE TInv'
  <2>1. t \in Nat \cup {File}
    BY ScreenAssumption DEF None
  <2>2. t \in Nat => LastLines(image.history, t) \in Seq(RowType)
    <3> SUFFICES ASSUME t \in Nat PROVE LastLines(image.history, t) \in Seq(RowType)
      OBVIOUS
    <3>1. Len(image.history) \in Nat
      BY <1>1, LenProperties
    <3>2. Min2(t, Len(image.history)) \in 0 .. Len(image.history)
      BY <3>1 DEF Min2
    <3>3. /\ Len(image.history) - Min2(t, Len(image.history)) + 1 \in Int
          /\ Len(image.history) - Min2(t, Len(image.history)) + 1 >= 1
      BY <3>1, <3>2
    <3> QED
      BY <1>1, <3>1, <3>3, PartTyped DEF LastLines
  <2>3. Converted(image.history, t) \in Seq(RowType) /\ <<>> \in Seq(RowType)
    BY <1>1, <2>1, <2>2, EmptySeq DEF Converted
  <2>4. /\ image'.rows = image.rows /\ image'.sel = NoSelection(image.sel)
        /\ image'.history \in {Converted(image.history, t), <<>>}
        /\ histType' = t /\ UNCHANGED <<size, mode, savedMode, lastChar>>
    BY <1>5 DEF SetScroll
  <2>5. ImageTyped(image', size.lines)
    BY <1>1, <2>3, <2>4 DEF ImageTyped
  <2> QED
    BY <2>4, <2>5, CurrentTypes, StepKeepsTypes
<1>6. histType \in HistoryTypes \cup {None}
  BY CurrentTypes
<1> QED
  BY <1>3, <1>4, <1>5, <1>6 DEF SizeOps

-----------------------------------------------------------------------------
LEMMA InitTyped == Init => TInv
PROOF
<1> SUFFICES ASSUME Init PROVE TInv
  OBVIOUS
<1>1. FirstSize \in Sizes /\ FirstSize.lines \in Nat /\ FirstSize.columns \in Nat
  BY ScreenAssumption, SizesAreNatural
<1>2. EmptyRow \in RowType /\ <<>> \in Seq(RowType)
  BY EmptySeq DEF EmptyRow, RowType
<1>3. ResetModes \in [Modes -> BOOLEAN]
  BY DEF ResetModes
<1>4. [begin |-> NoPos, tl |-> NoPos, br |-> NoPos, block |-> FALSE]
        \in [begin : PosType, tl : PosType, br : PosType, block : BOOLEAN]
  BY PositionsTyped
<1>5. IInv
  BY InitEstablishesInvariant
<1>6. tabStops \subseteq Nat /\ histType \in HistoryTypes \cup {None}
      /\ lastChar \in [c : Chars \cup {Blank}, w : 0 .. 2]
      /\ cursor \in [x : Nat, y : Nat] /\ saved \in [x : Nat, y : Nat]
  BY <1>1 DEF Init, InitAt, EmptyRows, TabsOf, NoChar
<1>7. margin \in [top : Nat, bottom : Nat]
  BY <1>5 DEF IInv, Shape
<1>8. image.rows \in [0 .. size.lines -> RowType]
      /\ image.history = <<>>
      /\ image.sel = [begin |-> NoPos, tl |-> NoPos, br |-> NoPos, block |-> FALSE]
      /\ mode = ResetModes /\ savedMode = ResetModes /\ size = FirstSize
  BY <1>1, <1>2 DEF Init, InitAt, EmptyRows
<1>9. TypeOK
  BY <1>1, <1>2, <1>3, <1>4, <1>6, <1>7, <1>8 DEF TypeOK
<1> QED
  BY <1>5, <1>9 DEF TInv

LEMMA StepsKeepTypes == TInv /\ [Next]_vars => TInv'
PROOF
<1> SUFFICES ASSUME TInv, [Next]_vars PROVE TInv'
  OBVIOUS
<1>1. IInv'
  BY StepsKeepInvariant DEF TInv
<1>2. CASE Next
  BY <1>1, <1>2, CursorAndModeOpsKeepTypes, TextOpsKeepTypes, ScrollAndEditOpsKeepTypes,
     ClearOpsKeepTypes, SizeOpsKeepTypes, SelectOpsKeepTypes DEF Next
<1>3. CASE UNCHANGED vars
  BY <1>1, <1>3 DEF vars, TInv, TypeOK
<1> QED
  BY <1>2, <1>3

(* Type correctness: in particular a row never holds anything but cells,   *)
(* however characters are inserted, deleted, erased or moved, and there    *)
(* are always exactly one more rows than lines after resizeImage.          *)
THEOREM TypesHold == Spec => []TypeOK
BY InitTyped, StepsKeepTypes, PTL DEF Spec, TInv

-----------------------------------------------------------------------------

(***************************************************************************)
(* Where the selection is                                                  *)
(***************************************************************************)

(* A position within the screen, or above its top by mistake *)
NotBelow(h, p) == p[1] <= h + size.lines - 1 /\ p[2] <= size.columns - 1
Spot(h, p) == 0 <= p[1] /\ NotBelow(h, p)

(* All three positions matter: setSelectionEnd starts from _selBegin.  A   *)
(* history of fixed size never holds more than one line too many, so that  *)
(* recording a line never makes it shorter under the selection.            *)
SelFits(img) ==
    LET h == Len(img.history) IN
    /\ Selecting(img.sel) => Spot(h, img.sel.begin) /\ Spot(h, img.sel.tl) /\ Spot(h, img.sel.br)
    /\ histType # File => h <= histType + 1

Fits(img) == ImageTyped(img, size.lines) /\ SelFits(img)
SInv == TInv /\ SelFits(image)

LEMMA NumbersFit ==
    ASSUME SInv
    PROVE  /\ size.lines \in Nat /\ size.columns \in Nat
           /\ size.lines >= 1 /\ size.columns >= 1
           /\ cursor.x \in Nat /\ cursor.y \in 0 .. size.lines - 1
           /\ margin.top \in Nat /\ margin.bottom \in Nat /\ margin.bottom < size.lines
           /\ histType \in Nat \cup {File} /\ Fits(image) /\ TInv
BY NumbersTyped, CursorOnScreen DEF SInv, Fits, TInv

LEMMA LengthOfHistory ==
    ASSUME NEW img, NEW lines, ImageTyped(img, lines)
    PROVE  Len(img.history) \in Nat /\ img.sel \in SelType
           /\ img.sel.begin \in PosType /\ img.sel.tl \in PosType /\ img.sel.br \in PosType
BY LenProperties DEF ImageTyped, SelType

LEMMA ShiftFacts ==
    ASSUME NEW p \in PosType, NEW n \in Int
    PROVE  /\ Shift(p, n)[1] = p[1] + n /\ Shift(p, n)[2] = p[2]
           /\ p[1] \in Int /\ p[2] \in Nat /\ Shift(p, n) \in PosType
BY DEF Shift, PosType

LEMMA NothingSelected ==
    ASSUME NEW s \in SelType
    PROVE  ~Selecting(NoSelection(s))
BY DEF NoSelection, Selecting, SelType

LEMMA SettleSpots ==
    ASSUME NEW s \in SelType, NEW tl \in PosType, NEW br \in PosType, NEW h \in Nat,
           size.lines \in Nat, size.columns \in Nat, size.lines >= 1, size.columns >= 1,
           NotBelow(h, tl), NotBelow(h, br),
           Selecting(Settle(s, tl, br))
    PROVE  LET t == Settle(s, tl, br) IN Spot(h, t.begin) /\ Spot(h, t.tl) /\ Spot(h, t.br)
PROOF
<1> DEFINE top == IF tl[1] < 0 THEN <<0, 0>> ELSE tl
           t == Settle(s, tl, br)
           begin == IF s.begin = s.tl THEN top ELSE br
<1>1. ~(br[1] < 0)
  BY NothingSelected DEF Settle
<1>2. t = [s EXCEPT !.tl = top, !.br = br, !.begin = begin]
  BY <1>1 DEF Settle
<1>3. Spot(h, top)
  BY DEF Spot, NotBelow, PosType
<1>4. Spot(h, br)
  BY <1>1 DEF Spot, PosType
<1> HIDE DEF top
<1>5. Spot(h, begin)
  BY <1>3, <1>4
<1> HIDE DEF begin, t
<1>6. t.tl = top /\ t.br = br /\ t.begin = begin
  BY <1>2 DEF SelType
<1> QED
  BY <1>3, <1>4, <1>5, <1>6 DEF t

(* Rows first to last move by d, to rows that are on the screen.           *)
LEMMA MovedSpots ==
    ASSUME NEW s \in SelType, NEW first \in PosType, NEW last \in PosType, NEW d \in Int,
           NEW h \in Nat, size.lines \in Nat, size.columns \in Nat,
           size.lines >= 1, size.columns >= 1,
           Spot(h, s.tl), Spot(h, s.br),
           first[1] >= 0, first[1] + d >= 0, last[1] + d <= h + size.lines - 1,
           Selecting(MovedSelection(s, first, last, d))
    PROVE  LET t == MovedSelection(s, first, last, d)
           IN  Spot(h, t.begin) /\ Spot(h, t.tl) /\ Spot(h, t.br)
PROOF
<1> DEFINE Moves(p) == AtOrBefore(first, p) /\ AtOrBefore(p, last)
           Overwritten(p) == AtOrBefore(Shift(first, d), p) /\ AtOrBefore(p, Shift(last, d))
           br == IF ~Moves(s.tl) /\ Overwritten(s.tl) THEN NoPos ELSE s.br
           tl1 == IF Moves(s.tl) THEN Shift(s.tl, d) ELSE s.tl
           br1 == IF Moves(br) THEN Shift(br, d) ELSE IF Overwritten(br) THEN NoPos ELSE br
<1>1. MovedSelection(s, first, last, d) = Settle(s, tl1, br1)
  BY DEF MovedSelection
<1>2. s.tl \in PosType /\ s.br \in PosType /\ NoPos \in PosType
  BY PositionsTyped DEF SelType
<1>3. ASSUME NEW p \in PosType, NotBelow(h, p)
      PROVE  NotBelow(h, IF Moves(p) THEN Shift(p, d) ELSE p)
  <2>1. CASE Moves(p)
    <3>1. p[1] <= last[1] /\ p[1] \in Int /\ last[1] \in Int
      BY <2>1 DEF AtOrBefore, PosType
    <3>2. Shift(p, d)[1] = p[1] + d /\ Shift(p, d)[2] = p[2]
      BY ShiftFacts
    <3> QED
      BY <1>3, <2>1, <3>1, <3>2 DEF NotBelow
  <2>2. CASE ~Moves(p)
    BY <1>3, <2>2
  <2> QED
    BY <2>1, <2>2
<1>4. NotBelow(h, NoPos) /\ NotBelow(h, s.tl) /\ NotBelow(h, s.br)
  BY DEF NoPos, NotBelow, Spot
<1>5. \A p \in PosType : Shift(p, d) \in PosType
  BY PositionsTyped
<1>6. br \in PosType /\ NotBelow(h, br)
  BY <1>2, <1>4
<1> HIDE DEF br
<1>7. br1 \in PosType /\ NotBelow(h, br1)
  BY <1>2, <1>3, <1>4, <1>5, <1>6
<1>8. tl1 \in PosType /\ NotBelow(h, tl1)
  BY <1>2, <1>3, <1>4, <1>5
<1> HIDE DEF tl1, br1
<1> QED
  BY <1>1, <1>7, <1>8, SettleSpots

LEMMA RecordedLength ==
    ASSUME NEW h \in Seq(RowType), NEW row \in RowType, histType \in Nat \cup {File},
           histType # File => Len(h) <= histType + 1
    PROVE  LET r == Recorded(h, <<row>>)
           IN  /\ Len(r) = Len(h) + GrownBy(h, r)
               /\ GrownBy(h, r) \in {0, 1}
               /\ histType # File => Len(r) <= histType + 1
PROOF
<1> DEFINE all == h \o <<row>>
           kept == IF histType = File THEN Len(all) ELSE Min2(Len(all), histType + 1)
           r == Recorded(h, <<row>>)
<1>1. <<row>> \in Seq(RowType) /\ Len(<<row>>) = 1 /\ Len(h) \in Nat
  BY LenProperties
<1>2. all \in Seq(RowType) /\ Len(all) = Len(h) + 1
  BY <1>1, ConcatProperties
<1>3. kept \in Nat /\ kept >= 1 /\ kept <= Len(all)
      /\ kept \in {Len(h), Len(h) + 1} /\ (histType # File => kept <= histType + 1)
  <2> HIDE DEF all
  <2>1. CASE histType = File
    BY <1>1, <1>2, <2>1
  <2>2. CASE histType # File
    <3>1. histType \in Nat /\ kept = Min2(Len(all), histType + 1)
      BY <2>2
    <3> QED
      BY <1>1, <1>2, <2>2, <3>1 DEF Min2
  <2> QED
    BY <2>1, <2>2
<1>4. r = SubSeq(all, Len(all) - kept + 1, Len(all))
  BY DEF Recorded
<1> HIDE DEF all, kept, r
<1>5. Len(r) = kept
  <2>1. \A i \in Len(all) - kept + 1 .. Len(all) : all[i] \in RowType
    <3>1. \A i \in Len(all) - kept + 1 .. Len(all) : i \in 1 .. Len(all)
      BY <1>1, <1>2, <1>3
    <3> QED
      BY <1>2, <3>1, ElementOfSeq
  <2>2. Len(all) - kept + 1 \in Int /\ Len(all) \in Int /\ Len(all) - kept + 1 <= Len(all)
        /\ Len(all) - (Len(all) - kept + 1) + 1 = kept
    BY <1>1, <1>2, <1>3
  <2> QED
    BY <1>4, <2>1, <2>2, SubSeqProperties
<1>6. GrownBy(h, r) = kept - Len(h)
  BY <1>1, <1>3, <1>5 DEF GrownBy
<1>7. Len(r) = Len(h) + GrownBy(h, r) /\ GrownBy(h, r) \in {0, 1}
      /\ (histType # File => Len(r) <= histType + 1)
  BY <1>1, <1>3, <1>5, <1>6
<1> QED
  BY <1>7 DEF r

LEMMA AddHistLineFits ==
    ASSUME SInv, NEW img, Fits(img)
    PROVE  Fits(AddHistLine(img))
PROOF
<1> DEFINE history == Recorded(img.history, <<RecordsRow(img)>>)
           grown == GrownBy(img.history, history)
           Up(p) == LET q == Shift(p, grown)
                    IN  IF q[1] < 1 + Len(history) THEN Shift(q, -1) ELSE q
           h == Len(img.history)
           new == AddHistLine(img)
<1>0. size.lines \in Nat /\ size.columns \in Nat /\ size.lines >= 1 /\ size.columns >= 1
      /\ histType \in Nat \cup {File} /\ ImageTyped(img, size.lines) /\ SelFits(img)
  BY NumbersFit DEF Fits
<1>1. ImageTyped(new, size.lines)
  BY <1>0, AddHistLineTyped
<1>2. CASE ~HasScroll
  BY <1>2 DEF AddHistLine
<1>3. CASE HasScroll
  <2>1. /\ new.history = history
        /\ new.sel = IF Selecting(img.sel)
                     THEN Settle(img.sel, Up(img.sel.tl), Up(img.sel.br)) ELSE img.sel
    BY <1>3 DEF AddHistLine
  <2>2. img.history \in Seq(RowType) /\ RecordsRow(img) \in RowType
    BY <1>0 DEF ImageTyped, RecordsRow
  <2>3. /\ h \in Nat /\ img.sel \in SelType /\ img.sel.tl \in PosType /\ img.sel.br \in PosType
    BY <1>0, LengthOfHistory
  <2>4. histType # File => h <= histType + 1
    BY <1>0 DEF SelFits
  <2>5. Len(history) = h + grown /\ grown \in {0, 1} /\ (histType # File => Len(history) <= histType + 1)
    BY <1>0, <2>2, <2>4, RecordedLength
  <2> HIDE DEF history, grown, h, new
  <2>6. ASSUME NEW p \in PosType, Spot(h, p)
        PROVE  Up(p) \in PosType /\ NotBelow(Len(history), Up(p))
    <3>1. grown \in Int /\ -1 \in Int
      BY <2>5
    <3> DEFINE q == Shift(p, grown)
    <3>2. q[1] = p[1] + grown /\ q[2] = p[2] /\ q \in PosType /\ p[1] \in Int
      BY <3>1, ShiftFacts
    <3> HIDE DEF q
    <3>3. Shift(q, -1)[1] = q[1] - 1 /\ Shift(q, -1)[2] = q[2] /\ Shift(q, -1) \in PosType
          /\ q[1] \in Int
      BY <3>1, <3>2, ShiftFacts
    <3>4. NotBelow(Len(history), q) /\ NotBelow(Len(history), Shift(q, -1))
      <4>1. p[1] <= h + size.lines - 1 /\ p[2] <= size.columns - 1
        BY <2>6 DEF Spot, NotBelow
      <4>2. h \in Nat /\ Len(history) = h + grown /\ grown \in Int /\ size.lines \in Nat
        BY <1>0, <2>3, <2>5, <3>1
      <4>3. q[1] <= Len(history) + size.lines - 1
        BY <3>2, <4>1, <4>2
      <4>4. q[1] - 1 <= Len(history) + size.lines - 1
        BY <3>3, <4>2, <4>3
      <4> QED
        BY <3>2, <3>3, <4>1, <4>3, <4>4 DEF NotBelow
    <3>5. Up(p) \in {q, Shift(q, -1)}
      BY DEF q
    <3> HIDE DEF Up
    <3> QED
      BY <3>2, <3>3, <3>4, <3>5
  <2> HIDE DEF Up
  <2>7. Selecting(img.sel) => Spot(h, img.sel.tl) /\ Spot(h, img.sel.br)
    BY <1>0 DEF SelFits, h
  <2>8. ASSUME Selecting(new.sel)
        PROVE  Spot(Len(history), new.sel.begin) /\ Spot(Len(history), new.sel.tl)
               /\ Spot(Len(history), new.sel.br)
    <3>1. Selecting(img.sel)
      BY <2>1, <2>8
    <3>2. new.sel = Settle(img.sel, Up(img.sel.tl), Up(img.sel.br))
      BY <2>1, <3>1
    <3>3. /\ Up(img.sel.tl) \in PosType /\ NotBelow(Len(history), Up(img.sel.tl))
          /\ Up(img.sel.br) \in PosType /\ NotBelow(Len(history), Up(img.sel.br))
      BY <2>3, <2>6, <2>7, <3>1
    <3>4. Len(history) \in Nat /\ size.lines >= 1 /\ size.columns >= 1
      BY <1>0, <2>3, <2>5
    <3> QED
      BY <1>0, <2>3, <2>8, <3>2, <3>3, <3>4, SettleSpots
  <2>9. SelFits(new)
    BY <2>1, <2>5, <2>8 DEF SelFits
  <2> QED
    BY <1>1, <2>9 DEF Fits, new
<1> QED
  BY <1>2, <1>3

(* An operation that neither moves lines nor selects may drop the selection. *)
SameLines(a, b) == b.history = a.history /\ b.sel \in {a.sel, NoSelection(a.sel)}

LEMMA SameLinesFit ==
    ASSUME NEW a, Fits(a), NEW b, SameLines(a, b)
    PROVE  SelFits(b)
PROOF
<1>1. a.sel \in SelType /\ SelFits(a)
  BY LengthOfHistory DEF Fits
<1>2. CASE b.sel = a.sel
  BY <1>1, <1>2 DEF SelFits, SameLines
<1>3. CASE b.sel = NoSelection(a.sel)
  BY <1>1, <1>3, NothingSelected DEF SelFits, SameLines
<1> QED
  BY <1>2, <1>3 DEF SameLines

LEMMA ErasingAndWriting ==
    ASSUME NEW img
    PROVE  /\ \A first, last, ch : SameLines(img, ClearImage(img, first, last, ch))
           /\ \A y, cells : SameLines(img, WithCells(img, y, cells))
           /\ \A y : SameLines(img, WithWrapped(img, y))
           /\ \A p : SameLines(img, CheckSelection(img, p))
BY DEF SameLines, ClearImage, WithCells, WithWrapped, CheckSelection

LEMMA MoveImageFits ==
    ASSUME SInv, NEW img, Fits(img), NEW dest \in Nat, NEW source \in Nat, NEW last \in PosType,
           last[1] + (dest - source) <= size.lines - 1
    PROVE  Fits(MoveImage(img, dest, source, last))
PROOF
<1> DEFINE d == dest - source
           h == Len(img.history)
           new == MoveImage(img, dest, source, last)
           a == <<source + h, 0>>
           b == Shift(last, h)
<1>1. /\ size.lines \in Nat /\ size.columns \in Nat /\ size.lines >= 1 /\ size.columns >= 1
      /\ ImageTyped(img, size.lines) /\ SelFits(img)
  BY NumbersFit DEF Fits
<1>2. h \in Nat /\ img.sel \in SelType
  BY <1>1, LengthOfHistory
<1>3. ImageTyped(new, size.lines)
  BY <1>1, MoveImageTyped
<1>4. /\ new.history = img.history
      /\ new.sel = IF Selecting(img.sel) THEN MovedSelection(img.sel, a, b, d) ELSE img.sel
  BY DEF MoveImage
<1>5. a \in PosType /\ a[1] = source + h
  BY <1>2 DEF PosType
<1>6. b \in PosType /\ b[1] = last[1] + h /\ last[1] \in Int
  <2>1. h \in Int
    BY <1>2
  <2> HIDE DEF h
  <2> QED
    BY <2>1, ShiftFacts
<1>7. (Selecting(img.sel) => Spot(h, img.sel.tl) /\ Spot(h, img.sel.br))
      /\ (histType # File => h <= histType + 1)
  BY <1>1 DEF SelFits
<1> HIDE DEF a, b, new, h
<1>8. a[1] >= 0 /\ a[1] + d >= 0 /\ b[1] + d <= h + size.lines - 1 /\ d \in Int
  BY <1>1, <1>2, <1>5, <1>6
<1> HIDE DEF d
<1>9. ASSUME Selecting(new.sel)
      PROVE  Spot(h, new.sel.begin) /\ Spot(h, new.sel.tl) /\ Spot(h, new.sel.br)
  <2>1. Selecting(img.sel) /\ new.sel = MovedSelection(img.sel, a, b, d)
    BY <1>4, <1>9
  <2> QED
    BY <1>1, <1>2, <1>5, <1>6, <1>7, <1>8, <1>9, <2>1, MovedSpots
<1>10. SelFits(new)
  BY <1>4, <1>7, <1>9 DEF SelFits, h
<1> QED
  BY <1>3, <1>10 DEF Fits, new

LEMMA ClearImageFits ==
    ASSUME SInv, NEW img, Fits(img), NEW first \in PosType, NEW last \in PosType, NEW ch \in Cells
    PROVE  Fits(ClearImage(img, first, last, ch))
PROOF
<1>1. size.lines \in Nat /\ size.columns \in Nat \ {0} /\ ImageTyped(img, size.lines)
  BY NumbersFit DEF Fits
<1>2. ImageTyped(ClearImage(img, first, last, ch), size.lines)
  BY <1>1, ClearImageTyped
<1>3. SelFits(ClearImage(img, first, last, ch))
  BY ErasingAndWriting, SameLinesFit
<1> QED
  BY <1>2, <1>3 DEF Fits

LEMMA ScrollRegionFits ==
    ASSUME SInv, NEW img, Fits(img), NEW from \in Nat, NEW n \in Int
    PROVE  Fits(ScrollRegionUp(img, from, n)) /\ Fits(ScrollRegionDown(img, from, n))
PROOF
<1>0. /\ size.lines \in Nat /\ size.columns \in Nat /\ size.columns >= 1
      /\ margin.bottom \in Nat /\ margin.bottom < size.lines
  BY NumbersFit
<1>1. CASE n <= 0 \/ from > margin.bottom
  BY <1>1 DEF ScrollRegionUp, ScrollRegionDown
<1>2. CASE ~(n <= 0 \/ from > margin.bottom)
  <2>1. Fits(ScrollRegionUp(img, from, n))
    <3> DEFINE k == UpBy(from, n)
               last == Loc(size.columns, margin.bottom)
               a == Loc(0, margin.bottom - k + 1)
               b == Loc(size.columns - 1, margin.bottom)
               moved == MoveImage(img, from, from + k, last)
    <3>1. k \in Nat /\ k >= 1
      BY <1>0, <1>2 DEF UpBy
    <3>2. last \in PosType /\ last[1] = margin.bottom + 1
      <4>1. last = <<margin.bottom + 1, 0>>
        BY <1>0, EndsOfLines
      <4> QED
        BY <1>0, <4>1 DEF PosType
    <3>3. ScrollRegionUp(img, from, n) = ClearImage(moved, a, b, Blank)
      BY <1>2 DEF ScrollRegionUp
    <3> HIDE DEF k
    <3>4. a \in PosType /\ b \in PosType
      <4>1. 0 \in Nat /\ size.columns - 1 \in Nat /\ margin.bottom - k + 1 \in Int
            /\ margin.bottom \in Int
        BY <1>0, <3>1
      <4> QED
        BY <1>0, <4>1, LocationsTyped
    <3> HIDE DEF last, a, b
    <3>5. from + k \in Nat /\ last[1] + (from - (from + k)) <= size.lines - 1
      BY <1>0, <3>1, <3>2
    <3>6. Fits(moved)
      BY <3>2, <3>5, MoveImageFits
    <3> HIDE DEF moved
    <3> QED
      BY <3>3, <3>4, <3>6, ClearImageFits, BlankIsCell
  <2>2. Fits(ScrollRegionDown(img, from, n))
    <3> DEFINE k == IF from + n > margin.bottom THEN margin.bottom - from ELSE n
               last == Loc(size.columns - 1, margin.bottom - k)
               a == Loc(0, from)
               b == Loc(size.columns - 1, from + k - 1)
               moved == MoveImage(img, from + k, from, last)
    <3>1. k \in Nat
      BY <1>0, <1>2
    <3>2. ScrollRegionDown(img, from, n) = ClearImage(moved, a, b, Blank)
      BY <1>2 DEF ScrollRegionDown
    <3> HIDE DEF k
    <3>3. last \in PosType /\ last[1] = margin.bottom - k
      <4>1. size.columns - 1 \in Nat /\ margin.bottom - k \in Int
            /\ size.columns - 1 # size.columns
        BY <1>0, <3>1
      <4>2. last = <<margin.bottom - k, size.columns - 1>>
        BY <1>0, <4>1, EndsOfLines
      <4> QED
        BY <4>1, <4>2 DEF PosType
    <3>4. a \in PosType /\ b \in PosType
      <4>1. 0 \in Nat /\ size.columns - 1 \in Nat /\ from \in Int /\ from + k - 1 \in Int
        BY <1>0, <3>1
      <4> QED
        BY <1>0, <4>1, LocationsTyped
    <3> HIDE DEF last, a, b
    <3>5. from + k \in Nat /\ last[1] + ((from + k) - from) <= size.lines - 1
      BY <1>0, <3>1, <3>3
    <3>6. Fits(moved)
      BY <3>3, <3>5, MoveImageFits
    <3> HIDE DEF moved
    <3> QED
      BY <3>2, <3>4, <3>6, ClearImageFits, BlankIsCell
  <2> QED
    BY <2>1, <2>2
<1> QED
  BY <1>1, <1>2

LEMMA ScrollUpFits ==
    ASSUME SInv, NEW img, Fits(img), NEW n \in Nat
    PROVE  Fits(ScrollUpBy(img, n))
PROOF
<1>1. Fits(IF margin.top = 0 THEN AddHistLine(img) ELSE img)
  BY AddHistLineFits
<1>2. Default(n) \in Int /\ margin.top \in Nat
  BY NumbersFit DEF Default
<1> QED
  BY <1>1, <1>2, ScrollRegionFits DEF ScrollUpBy

LEMMA IndexFits ==
    ASSUME SInv, NEW img, Fits(img), NEW y
    PROVE  Fits(IndexImage(img, y))
BY ScrollUpFits DEF IndexImage

-----------------------------------------------------------------------------
(* The steps *)

LEMMA StepFits ==
    ASSUME SInv, UNCHANGED <<size, histType>>, SelFits(image')
    PROVE  SelFits(image)'
BY DEF SelFits, Spot, NotBelow

LEMMA DisplayFits ==
    ASSUME SInv, NEW c \in Chars \cup {Blank}, NEW w \in 0 .. 2, DisplayCharacter(c, w)
    PROVE  SelFits(image)'
PROOF
<1> DEFINE wraps == cursor.x + w > size.columns /\ mode.Wrap
           y == IF wraps THEN IndexLine(cursor.y) ELSE cursor.y
           img == IF wraps THEN IndexImage(WithWrapped(image, cursor.y), cursor.y) ELSE image
<1>1. PICK cells : image' = CheckSelection(WithCells(img, y, cells), <<y, WriteX(w)>>)
  BY DEF DisplayCharacter
<1>2. UNCHANGED <<size, histType>>
  BY DEF DisplayCharacter
<1>3. Fits(WithWrapped(image, cursor.y))
  <2>1. ImageTyped(WithWrapped(image, cursor.y), size.lines)
    <3>1. TInv
      BY NumbersFit
    <3> QED
      BY <3>1, NumbersTyped, EmptySeq, RowChangeTyped
  <2>2. SelFits(WithWrapped(image, cursor.y))
    BY NumbersFit, ErasingAndWriting, SameLinesFit
  <2> QED
    BY <2>1, <2>2 DEF Fits
<1>4. Fits(img)
  BY <1>3, NumbersFit, IndexFits
<1> HIDE DEF img, y
<1>5. SameLines(img, image')
  <2> DEFINE written == WithCells(img, y, cells)
  <2>1. SameLines(img, written)
    BY ErasingAndWriting
  <2>2. SameLines(written, image')
    BY <1>1, ErasingAndWriting
  <2> HIDE DEF written
  <2>3. img.sel \in SelType
    BY <1>4, LengthOfHistory DEF Fits
  <2>4. NoSelection(NoSelection(img.sel)) = NoSelection(img.sel)
    BY <2>3 DEF NoSelection, SelType
  <2> QED
    BY <2>1, <2>2, <2>4 DEF SameLines
<1>6. SelFits(image')
  BY <1>4, <1>5, SameLinesFit
<1> QED
  BY <1>2, <1>6, StepFits


LEMMA RowStepFits ==
    ASSUME SInv, UNCHANGED <<size, histType>>, SameLines(image, image')
    PROVE  SelFits(image)'
BY NumbersFit, SameLinesFit, StepFits

LEMMA CursorAndModeOpsFit ==
    ASSUME SInv, CursorOps \/ ModeOps
    PROVE  SelFits(image)'
PROOF
<1>1. UNCHANGED <<size, histType, image>>
  BY DEF CursorOps, ModeOps, CursorUp, CursorDown, CursorLeft, CursorRight, SetCursorX,
         SetCursorY, SetCursorYX, ToStartOfLine, Tab, Backtab, SaveCursor, RestoreCursor,
         SetMargins, SetDefaultMargins, SaveMode, RestoreMode, ChangeMode, ChangeTabStop,
         ClearTabStops, SetTabStops, MovesCursor, KeepsModes
<1>2. SameLines(image, image')
  BY <1>1 DEF SameLines
<1> QED
  BY <1>1, <1>2, RowStepFits

LEMMA TextOpsFit ==
    ASSUME SInv, TextOps
    PROVE  SelFits(image)'
PROOF
<1>1. ASSUME NEW c \in Chars, NEW w \in {1, 2}, DisplayCharacter(c, w)
      PROVE  SelFits(image)'
  BY <1>1, DisplayFits
<1>2. CASE RepeatChar
  <2>1. lastChar.c \in Chars \cup {Blank} /\ lastChar.w \in 0 .. 2
    BY CurrentTypes DEF LastCharType, SInv
  <2> QED
    BY <1>2, <2>1, DisplayFits DEF RepeatChar
<1>3. CASE Backspace
  <2>1. SameLines(image, image') /\ UNCHANGED <<size, histType>>
    BY <1>3, ErasingAndWriting DEF Backspace, KeepsModes
  <2> QED
    BY <2>1, RowStepFits
<1>4. CASE Index \/ NextLine \/ NewLine
  <2>1. image' = IndexImage(image, cursor.y) /\ UNCHANGED <<size, histType>>
    BY <1>4 DEF Index, NextLine, NewLine, KeepsModes
  <2> QED
    BY <2>1, NumbersFit, IndexFits, StepFits DEF Fits
<1>5. CASE ReverseIndex
  <2>1. image' \in {ScrollRegionDown(image, margin.top, 1), image}
        /\ UNCHANGED <<size, histType>>
    BY <1>5 DEF ReverseIndex, KeepsModes
  <2>2. Fits(ScrollRegionDown(image, margin.top, 1))
    <3>1. margin.top \in Nat /\ 1 \in Int /\ Fits(image)
      BY NumbersFit
    <3> QED
      BY <3>1, ScrollRegionFits, Zenon
  <2> QED
    BY <2>1, <2>2, NumbersFit, StepFits DEF Fits
<1> QED
  BY <1>1, <1>2, <1>3, <1>4, <1>5 DEF TextOps

LEMMA ScrollOpsFit ==
    ASSUME SInv, ScrollOps
    PROVE  SelFits(image)'
PROOF
<1>1. PICK n \in Args : ScrollUp(n) \/ ScrollDown(n) \/ DeleteLines(n) \/ InsertLines(n)
  BY DEF ScrollOps
<1>2. n \in Nat /\ Default(n) \in Int /\ cursor.y \in Nat /\ margin.top \in Nat
  BY ArgsAreNatural, NumbersFit
<1>3. /\ Fits(ScrollUpBy(image, n))
      /\ Fits(ScrollRegionDown(image, margin.top, Default(n)))
      /\ Fits(ScrollRegionUp(image, cursor.y, Default(n)))
      /\ Fits(ScrollRegionDown(image, cursor.y, Default(n)))
  BY <1>2, NumbersFit, ScrollUpFits, ScrollRegionFits
<1>4. Fits(image') /\ UNCHANGED <<size, histType>>
  BY <1>1, <1>3
  DEF ScrollUp, ScrollDown, DeleteLines, InsertLines, ChangesImage, KeepsModes
<1> QED
  BY <1>4, StepFits DEF Fits

LEMMA EditAndClearOpsFit ==
    ASSUME SInv, EditOps \/ ClearOps
    PROVE  SelFits(image)'
PROOF
<1>1. ASSUME NEW first, NEW last, NEW ch, Erase(first, last, ch)
      PROVE  SameLines(image, image') /\ UNCHANGED <<size, histType>>
  BY <1>1, ErasingAndWriting DEF Erase, ChangesImage, KeepsModes
<1>2. CASE ClearOps
  BY <1>1, <1>2, RowStepFits
  DEF ClearOps, ClearToEndOfScreen, ClearToBeginOfScreen, ClearEntireScreen, HelpAlign,
      ClearToEndOfLine, ClearToBeginOfLine, ClearEntireLine
<1>3. CASE EditOps
  <2>1. PICK n \in Args : InsertChars(n) \/ DeleteChars(n) \/ EraseChars(n)
    BY <1>3 DEF EditOps
  <2>2. CASE EraseChars(n)
    BY <1>1, <2>2, RowStepFits DEF EraseChars
  <2>3. CASE InsertChars(n) \/ DeleteChars(n)
    <3>1. SameLines(image, image') /\ UNCHANGED <<size, histType>>
      BY <2>3, ErasingAndWriting DEF InsertChars, DeleteChars, ChangesImage, KeepsModes
    <3> QED
      BY <3>1, RowStepFits
  <2> QED
    BY <2>1, <2>2, <2>3
<1> QED
  BY <1>2, <1>3

LEMMA SelectOpsFit ==
    ASSUME SInv, SelectOps
    PROVE  SelFits(image)'
PROOF
<1> DEFINE h == Len(image.history)
           s == image.sel
<1>1. /\ size.lines \in Nat /\ size.columns \in Nat /\ size.lines >= 1 /\ size.columns >= 1
      /\ ImageTyped(image, size.lines) /\ SelFits(image)
  BY NumbersFit DEF Fits
<1>2. h \in Nat /\ s \in SelType /\ s.begin \in PosType
  BY <1>1, LengthOfHistory
<1>3. ASSUME NEW sel, WithSelection(sel),
             Selecting(sel) => Spot(h, sel.begin) /\ Spot(h, sel.tl) /\ Spot(h, sel.br)
      PROVE  SelFits(image)'
  <2>1. image'.history = image.history /\ image'.sel = sel /\ UNCHANGED <<size, histType>>
    BY <1>3 DEF WithSelection, ChangesImage, KeepsModes
  <2>2. SelFits(image')
    BY <1>1, <1>3, <2>1 DEF SelFits
  <2> QED
    BY <2>1, <2>2, StepFits
<1>4. ASSUME NEW x \in 0 .. size.columns, NEW y \in 0 .. h + size.lines - 1
      PROVE  /\ <<y, Min2(x, LastColumn)>> \in PosType
             /\ Spot(h, <<y, Min2(x, LastColumn)>>)
  BY <1>1, <1>2 DEF PosType, Spot, NotBelow, Min2, LastColumn
<1>5. ASSUME NEW x \in 0 .. size.columns, NEW y \in 0 .. h + size.lines - 1,
             NEW block \in BOOLEAN, SetSelectionStart(x, y, block)
      PROVE  SelFits(image)'
  BY <1>3, <1>4, <1>5 DEF SetSelectionStart
<1>6. ASSUME NEW x \in 0 .. size.columns, NEW y \in 0 .. h + size.lines - 1,
             SetSelectionEnd(x, y)
      PROVE  SelFits(image)'
  <2> DEFINE end == Loc(x, y)
             at == <<y, Min2(x, LastColumn)>>
             tl == IF Before(end, s.begin) THEN end ELSE s.begin
             br == IF Before(end, s.begin) THEN s.begin ELSE at
             sel == IF s.block
                    THEN [s EXCEPT !.tl = <<tl[1], Min2(tl[2], br[2])>>,
                                   !.br = <<br[1], Max2(tl[2], br[2])>>]
                    ELSE [s EXCEPT !.tl = tl, !.br = br]
  <2>1. Selecting(s) /\ WithSelection(sel)
    BY <1>6 DEF SetSelectionEnd
  <2>2. Spot(h, s.begin)
    BY <1>1, <2>1 DEF SelFits
  <2>3. at \in PosType /\ Spot(h, at)
    BY <1>4
  <2>4. end \in PosType /\ end[1] >= 0 /\ end[2] <= size.columns - 1
    <3>1. y \in Int
      BY <1>1, <1>2
    <3>2. CASE x \in 0 .. size.columns - 1
      <4>1. end = <<y, x>>
        BY <1>1, <3>1, <3>2, Positions
      <4> QED
        BY <1>1, <3>1, <3>2, <4>1 DEF PosType
    <3>3. CASE x = size.columns
      <4>1. end = <<y + 1, 0>>
        BY <1>1, <3>1, <3>3, EndsOfLines
      <4> QED
        BY <1>1, <3>1, <4>1 DEF PosType
    <3> QED
      BY <1>1, <3>2, <3>3
  <2>5. Before(end, s.begin) => Spot(h, end)
    <3>1. Before(end, s.begin) => end[1] <= s.begin[1]
      BY <1>2, <2>4 DEF Before, AtOrBefore, PosType
    <3>2. end[1] \in Int /\ s.begin[1] \in Int
      BY <1>2, <2>4 DEF PosType
    <3> HIDE DEF end
    <3> QED
      BY <1>1, <1>2, <2>2, <2>4, <3>1, <3>2 DEF Spot, NotBelow
  <2> HIDE DEF end, at
  <2>6. tl \in PosType /\ br \in PosType /\ Spot(h, tl) /\ Spot(h, br)
    BY <1>2, <2>2, <2>3, <2>4, <2>5
  <2> HIDE DEF tl, br
  <2>7. /\ Spot(h, <<tl[1], Min2(tl[2], br[2])>>)
        /\ Spot(h, <<br[1], Max2(tl[2], br[2])>>)
    BY <2>6 DEF Spot, NotBelow, Min2, Max2, PosType
  <2>8. /\ sel.begin = s.begin
        /\ sel.tl \in {tl, <<tl[1], Min2(tl[2], br[2])>>}
        /\ sel.br \in {br, <<br[1], Max2(tl[2], br[2])>>}
    BY <1>2 DEF SelType
  <2> HIDE DEF sel
  <2>9. Spot(h, sel.begin) /\ Spot(h, sel.tl) /\ Spot(h, sel.br)
    BY <2>2, <2>6, <2>7, <2>8
  <2> QED
    BY <1>3, <2>1, <2>9
<1>7. CASE ClearSelection
  BY <1>2, <1>3, <1>7, NothingSelected DEF ClearSelection
<1> QED
  BY <1>5, <1>6, <1>7 DEF SelectOps

LEMMA LastPartLength ==
    ASSUME NEW T, NEW s \in Seq(T), NEW n \in 0 .. Len(s)
    PROVE  Len(SubSeq(s, Len(s) - n + 1, Len(s))) = n
PROOF
<1>1. Len(s) \in Nat
  BY LenProperties
<1>2. \A i \in Len(s) - n + 1 .. Len(s) : s[i] \in T
  <2>1. \A i \in Len(s) - n + 1 .. Len(s) : i \in 1 .. Len(s)
    BY <1>1
  <2> QED
    BY <2>1, ElementOfSeq
<1> DEFINE m == Len(s) - n + 1
<1>3. m \in Int /\ Len(s) \in Int /\ m <= Len(s) + 1 /\ Len(s) - m + 1 = n
  BY <1>1
<1> HIDE DEF m
<1>4. Len(SubSeq(s, m, Len(s))) = IF m <= Len(s) THEN Len(s) - m + 1 ELSE 0
  BY <1>2, <1>3, SubSeqProperties DEF m
<1> QED
  BY <1>1, <1>3, <1>4 DEF m

LEMMA SizeOpsFit ==
    ASSUME SInv, SizeOps
    PROVE  SelFits(image)'
PROOF
<1>1. /\ size.lines \in Nat /\ ImageTyped(image, size.lines) /\ SelFits(image)
      /\ histType \in Nat \cup {File} /\ cursor.y \in 0 .. size.lines - 1
  BY NumbersFit DEF Fits
<1>2. /\ Len(image.history) \in Nat /\ image.sel \in SelType /\ image.history \in Seq(RowType)
      /\ image.rows \in [0 .. size.lines -> RowType]
  BY <1>1, LengthOfHistory DEF ImageTyped
<1>3. ASSUME image'.sel = NoSelection(image.sel),
             histType' # File => Len(image'.history) <= histType' + 1
      PROVE  SelFits(image)'
  BY <1>2, <1>3, NothingSelected DEF SelFits
<1>4. ASSUME NEW new \in Sizes, ResizeImage(new) PROVE SelFits(image)'
  <2> DEFINE k == Max2(0, cursor.y - (new.lines - 1))
             top == [i \in 1 .. k |-> image.rows[i - 1]]
  <2>1. new.lines \in Nat /\ new.lines >= 1
    BY SizesAreNatural
  <2>2. k \in Nat /\ k <= size.lines
    BY <1>1, <2>1 DEF Max2
  <2>3. /\ image'.history = IF HasScroll THEN Recorded(image.history, top) ELSE image.history
        /\ image'.sel = NoSelection(image.sel) /\ histType' = histType
    BY <1>4 DEF ResizeImage
  <2> HIDE DEF k
  <2>4. top \in Seq(RowType)
    <3>1. top \in [1 .. k -> RowType]
      BY <1>1, <1>2, <2>2
    <3> QED
      BY <2>2, <3>1, FunctionIsSeq
  <2> HIDE DEF top
  <2>5. histType # File => Len(Recorded(image.history, top)) <= histType + 1
    <3> DEFINE all == image.history \o top
               kept == Min2(Len(all), histType + 1)
    <3> SUFFICES ASSUME histType # File
                 PROVE  Len(Recorded(image.history, top)) <= histType + 1
      OBVIOUS
    <3>1. all \in Seq(RowType) /\ Len(all) \in Nat /\ histType \in Nat
      BY <1>1, <1>2, <2>4, ConcatProperties, LenProperties
    <3>2. Recorded(image.history, top) = SubSeq(all, Len(all) - kept + 1, Len(all))
      BY DEF Recorded
    <3> HIDE DEF all
    <3>3. kept \in 0 .. Len(all) /\ kept <= histType + 1
      BY <3>1 DEF Min2
    <3> HIDE DEF kept
    <3> QED
      BY <3>1, <3>2, <3>3, LastPartLength
  <2>6. histType # File => Len(image.history) <= histType + 1
    BY <1>1 DEF SelFits
  <2> QED
    BY <1>3, <2>3, <2>5, <2>6
<1>5. CASE Reset
  <2>1. image' = ScrollRegionUp(image, 0, cursor.y) /\ UNCHANGED <<size, histType>>
    BY <1>5 DEF Reset
  <2>2. cursor.y \in Int /\ 0 \in Nat /\ Fits(image)
    BY <1>1, NumbersFit
  <2> QED
    BY <2>1, <2>2, ScrollRegionFits, StepFits DEF Fits
<1>6. ASSUME NEW t \in Nat \cup {File}, NEW copy \in BOOLEAN, SetScroll(t, copy)
      PROVE  SelFits(image)'
  <2>1. /\ image'.sel = NoSelection(image.sel) /\ histType' = t
        /\ image'.history = IF copy THEN Converted(image.history, t) ELSE <<>>
    BY <1>6 DEF SetScroll
  <2>2. t # File => Len(Converted(image.history, t)) <= t + 1
    <3> SUFFICES ASSUME t # File PROVE Len(Converted(image.history, t)) <= t + 1
      OBVIOUS
    <3>1. t \in Nat /\ Len(<<>>) = 0
      BY EmptySeq
    <3>2. Min2(t, Len(image.history)) \in 0 .. Len(image.history)
          /\ Min2(t, Len(image.history)) <= t
      BY <1>2, <3>1 DEF Min2
    <3>3. Len(LastLines(image.history, t)) = Min2(t, Len(image.history))
      BY <1>2, <3>2, LastPartLength DEF LastLines
    <3>4. Len(LastLines(image.history, t)) <= t + 1
      <4> HIDE DEF LastLines
      <4> QED
        BY <1>2, <3>1, <3>2, <3>3 DEF Min2
    <3> QED
      BY <3>1, <3>4 DEF Converted
  <2>3. Len(<<>>) = 0
    BY EmptySeq
  <2> QED
    BY <1>3, <2>1, <2>2, <2>3
<1>7. HistoryTypes \subseteq Nat \cup {File}
  BY ScreenAssumption
<1> QED
  BY <1>1, <1>4, <1>5, <1>6, <1>7 DEF SizeOps

LEMMA SelectionFitsInitially == Init => SInv
PROOF
<1> SUFFICES ASSUME Init PROVE SInv
  OBVIOUS
<1>1. image.history = <<>> /\ image.sel.begin = NoPos /\ histType = None
  BY DEF Init, InitAt
<1>2. SelFits(image)
  BY <1>1, EmptySeq DEF SelFits, Selecting, None, File
<1> QED
  BY <1>2, InitTyped DEF SInv

LEMMA StepsKeepSelection == SInv /\ [Next]_vars => SInv'
PROOF
<1> SUFFICES ASSUME SInv, [Next]_vars PROVE SInv'
  OBVIOUS
<1>1. TInv'
  BY StepsKeepTypes DEF SInv
<1>2. CASE Next
  <2>1. SelFits(image)'
    BY <1>2, CursorAndModeOpsFit, TextOpsFit, ScrollOpsFit, EditAndClearOpsFit, SizeOpsFit,
       SelectOpsFit DEF Next
  <2> QED
    BY <1>1, <2>1 DEF SInv
<1>3. CASE UNCHANGED vars
  <2>1. SameLines(image, image') /\ UNCHANGED <<size, histType>>
    BY <1>3 DEF vars, SameLines
  <2>2. SelFits(image)'
    BY <2>1, RowStepFits
  <2> QED
    BY <1>1, <2>2 DEF SInv
<1> QED
  BY <1>2, <1>3

LEMMA FittingIsInside == SInv => SelectionInside
PROOF
<1> SUFFICES ASSUME SInv, Selecting(image.sel)
             PROVE  \A p \in {image.sel.tl, image.sel.br} :
                      p[1] \in 0 .. Len(image.history) + size.lines - 1 /\ p[2] < size.columns
  BY DEF SelectionInside
<1>1. /\ Spot(Len(image.history), image.sel.tl) /\ Spot(Len(image.history), image.sel.br)
      /\ Len(image.history) \in Nat /\ image.sel.tl \in PosType /\ image.sel.br \in PosType
      /\ size.lines \in Nat /\ size.columns \in Nat
  BY NumbersFit, LengthOfHistory DEF SInv, SelFits, Fits
<1> QED
  BY <1>1 DEF Spot, NotBelow, PosType

(* A selection stays within the lines there are, whatever is scrolled,     *)
(* recorded, resized or converted under it.  The positions alone are not   *)
(* inductive: the point the user began at counts too, and a fixed history  *)
(* never holds more than one line above its limit.                         *)
THEOREM SelectionStaysInside == Spec => []SelectionInside
BY SelectionFitsInitially, StepsKeepSelection, FittingIsInside, PTL DEF Spec
=============================================================================
