----------------------------- MODULE TextSearch -----------------------------
(***************************************************************************)
(* How TerminalDisplay finds the ends of a word or a line around a cell.   *)
(* A text is the sequence of the history's lines and the screen's; what    *)
(* the display has of it is a picture of Lines rows from row `top', and    *)
(* further regions of RegionSize rows that a search fetches when it gets   *)
(* to an end of what it has.  Rows and columns count from 0.               *)
(***************************************************************************)
EXTENDS Integers, Sequences, FiniteSetsExt

CONSTANTS Columns,     \* _columns
          Lines,       \* _lines, the rows of the picture
          MinRegion    \* the least number of rows that is fetched at once

ASSUME SearchAssumption == /\ Columns \in Nat /\ Columns >= 2
                           /\ Lines \in Nat \ {0} /\ MinRegion \in Nat /\ MinRegion >= 2

RegionSize == IF Lines > MinRegion THEN Lines ELSE MinRegion

Cell(t, x, y) == t[y + 1].cells[x + 1]
LastRow(t) == Len(t) - 1

(* A picture is its first row, the wrap flags the display keeps for its    *)
(* rows, and what lies in memory after its last cell.                      *)
Bottom(pic) == pic.top + Lines - 1
Shown(pic, y) == y \in pic.top .. Bottom(pic)

(* Whether row y goes on in the next one, as the text has it               *)
IsWrapped(t, y) == t[y + 1].wrapped
(* and as the display sees it: of a row that it shows it asks its own flag.*)
SeenInPicture(t, pic, y) == Shown(pic, y) /\ IsWrapped(t, y)   \* mutant: fetches no rows
SeenWrapped(t, pic, y) ==
  IF Shown(pic, y) THEN pic.flags[y - pic.top + 1] ELSE IsWrapped(t, y)

(* Cells are " ", a word character that no rule names, or one of the two   *)
(* that have a rule; all but " " are of the class of letters.              *)
charClass(c) == IF c = " " THEN " " ELSE "a"

(* The cell after (x, y) in the memory of rows that end with `last' *)
After(t, pic, x, y, last) ==
  IF x < Columns - 1 THEN Cell(t, x + 1, y)
  ELSE IF y < last THEN Cell(t, 0, y + 1) ELSE pic.edge

-----------------------------------------------------------------------------
findLineStart(t, pic, y) ==
  LET up[v \in Nat] == IF v > 0 /\ SeenWrapped(t, pic, v - 1) THEN up[v - 1] ELSE v
  IN  up[y]

findLineEnd(t, pic, y) ==
  LET down[v \in Nat] == IF v < LastRow(t) /\ SeenWrapped(t, pic, v) THEN down[v + 1] ELSE v
  IN  down[y]

(* The first cell of the word at (x, y).  A column past the last one takes *)
(* its class from the next cell in memory.                                 *)
findWordStart(t, pic, x, y) ==
  LET class == charClass(IF x < Columns THEN Cell(t, x, y)
                         ELSE After(t, pic, Columns - 1, y, Bottom(pic)))
      back[p \in Nat \X Nat] ==
        CASE p[1] > 0 /\ charClass(Cell(t, p[1] - 1, p[2])) = class -> back[<<p[1] - 1, p[2]>>]
          [] p[1] = 0 /\ p[2] > 0 /\ SeenWrapped(t, pic, p[2] - 1)
             /\ charClass(Cell(t, Columns - 1, p[2] - 1)) = class -> back[<<Columns - 1, p[2] - 1>>]
          [] OTHER -> p
  IN  back[<<x, y>>]

(* "A colon right before whitespace is never part of a word": whether the  *)
(* word goes on with the cell after (x, y), of rows that end with `last'.  *)
GoesOn(t, pic, x, y, last, class) ==
  LET next == After(t, pic, x, y, last)
      beyond == IF x < Columns - 1 THEN After(t, pic, x + 1, y, last)
                                   ELSE After(t, pic, 0, y + 1, last)
  IN  charClass(next) = class /\ ~(next = ":" /\ charClass(beyond) = " ")

(* The last cell of the word at (x, y), before the rule about "@".  At the *)
(* end of what there is the search fetches rows from the present one on,   *)
(* with their flags, and looks at its last cell again.                     *)
WordEnd(t, pic, x, y) ==
  LET class == charClass(Cell(t, x, y))
      ahead[p \in Nat \X Nat \X Nat] ==
        LET px == p[1]  py == p[2]  last == p[3]
            wraps == IF last = Bottom(pic) THEN SeenWrapped(t, pic, py) ELSE IsWrapped(t, py) IN
        CASE px < Columns - 1 ->
               IF GoesOn(t, pic, px, py, last, class) THEN ahead[<<px + 1, py, last>>] ELSE <<px, py>>
          [] px = Columns - 1 /\ py < last ->
               IF wraps /\ GoesOn(t, pic, px, py, last, class)
               THEN ahead[<<0, py + 1, last>>] ELSE <<px, py>>
          [] px = Columns - 1 /\ py = last /\ py < LastRow(t) /\ wraps ->
               ahead[<<px - 1, py, Min({py + RegionSize - 1, LastRow(t)})>>]
          [] OTHER -> <<px, py>>
  IN  ahead[<<x, y, Bottom(pic)>>]

(* "don't select @ (64) if at end of word": the cell before an "@", which  *)
(* in column 0 is not the last of the row before.                          *)
BeforeAt(x, y) == IF x > 0 THEN <<x - 1, y>> ELSE <<0, y - 1>>

findWordEnd(t, pic, x, y) ==
  LET end == WordEnd(t, pic, x, y)
  IN  IF Cell(t, end[1], end[2]) = "@" /\ (end[2] > y \/ end[1] > x)
      THEN BeforeAt(end[1], end[2]) ELSE end

-----------------------------------------------------------------------------
(* What they are to find.  Cells are numbered row after row; a word ends   *)
(* where the class of the cells changes and where a row ends that is not   *)
(* wrapped.                                                                *)
CellAt(t, k) == Cell(t, k % Columns, k \div Columns)
Joined(t, k) == /\ charClass(CellAt(t, k)) = charClass(CellAt(t, k + 1))
                /\ (k + 1) % Columns = 0 => IsWrapped(t, k \div Columns)

(* The last rows of what a search has in memory at a time                  *)
RegionEnds(t, pic) ==
  {y \in Bottom(pic) .. LastRow(t) : y = LastRow(t) \/ (y - Bottom(pic)) % (RegionSize - 1) = 0}

(* A colon with a blank next to it in memory.  Next to the last cell of a  *)
(* picture or region is whatever lies there, and, when the search goes on  *)
(* with the rows below, the cell of the text.                              *)
Cuts(t, pic, d) ==
  LET y == d \div Columns
      unknown == (d + 1) % Columns = 0 /\ y \in RegionEnds(t, pic)
      known == (d + 1) % Columns # 0 \/ (y < LastRow(t) /\ (~unknown \/ IsWrapped(t, y)))
  IN  /\ CellAt(t, d) = ":"
      /\ (unknown /\ pic.edge = " ") \/ (known /\ CellAt(t, d + 1) = " ")

FinalCell(t) == Len(t) * Columns - 1
FirstOfWord(t, k) == k = 0 \/ ~Joined(t, k - 1)
LastOfWord(t, pic, k) == k = FinalCell(t) \/ ~Joined(t, k) \/ Cuts(t, pic, k + 1)

(* The searches from the k-th cell return the ends of its word, less what  *)
(* the rules take away at its end.  Two cells are not what the rules say:  *)
(* see BeforeAt, and a colon in the last cell of the picture, which is     *)
(* looked at again after the rows below it were fetched.                   *)
WordFound(t, pic, k) ==
  LET y == k \div Columns
      start == findWordStart(t, pic, k % Columns, y)
      end == findWordEnd(t, pic, k % Columns, y)
      last == Min({q \in k .. FinalCell(t) : LastOfWord(t, pic, q)})
      taken == IF CellAt(t, last) = "@" /\ last > k THEN 1 ELSE 0
  IN  /\ start[2] * Columns + start[1] = Max({q \in 0 .. k : FirstOfWord(t, q)})
      /\ \/ end[2] * Columns + end[1] = last - taken
         \/ taken = 1 /\ last % Columns = 0
         \/ k + 1 = (Bottom(pic) + 1) * Columns /\ Cuts(t, pic, k)
=============================================================================
