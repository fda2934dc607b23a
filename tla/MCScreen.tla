------------------------------ MODULE MCScreen ------------------------------
(* Bounded instances of Screen for TLC.  The run has five families of      *)
(* behaviours; each gives the decoder or the user the operations that are  *)
(* interesting together, on a screen of its own, and the family is chosen  *)
(* by the initial state.                                                   *)
EXTENDS Screen

VARIABLE family

S(l, c) == [lines |-> l, columns |-> c]
S22 == S(2, 2)
S32 == S(3, 2)
S23 == S(2, 3)
S11 == S(1, 1)
S21 == S(2, 1)
S12 == S(1, 2)
S31 == S(3, 1)
AllSizes == {S22, S32, S23, S11, S21, S12, S31}
AllTypes == {None, File, 1}

(* The bounds of a family: sizes, visible characters, kinds of history,    *)
(* modes that may change, lines of history, and cells that are not blank.  *)
Limits ==
    [cursor |-> [sizes |-> {S32, S23}, chars |-> {}, types |-> {None},
                 modes |-> {"Origin"}, history |-> 0, ink |-> 0],
     text   |-> [sizes |-> {S22}, chars |-> {"a"}, types |-> {None},
                 modes |-> {"Wrap", "Insert"}, history |-> 0, ink |-> 2],
     select |-> [sizes |-> {S22}, chars |-> {"a", "b"}, types |-> {None, 1},
                 modes |-> {}, history |-> 2, ink |-> 12],
     narrow |-> [sizes |-> {S11, S21, S12}, chars |-> {"a"}, types |-> {None},
                 modes |-> {"Wrap"}, history |-> 0, ink |-> 1],
     paper  |-> [sizes |-> {S31}, chars |-> {"a"}, types |-> {File},
                 modes |-> {}, history |-> 2, ink |-> 1]]

Inked(img, cells) ==
    {p \in (0 .. size.lines) \X (1 .. size.columns) :
        /\ p[1] \in DOMAIN img.rows
        /\ p[2] \in DOMAIN img.rows[p[1]].cells
        /\ img.rows[p[1]].cells[p[2]] \in cells}

Bounded(f) ==
    LET max == Limits[f] IN
    /\ size' \in max.sizes
    /\ histType' \in max.types
    /\ Len(image'.history) <= max.history
    /\ Cardinality(Inked(image', Cells \ {Blank})) <= max.ink
    /\ Inked(image', Chars \ max.chars) = {}
    /\ \A m \in Modes \ max.modes : mode'[m] = ResetModes[m] /\ savedMode'[m] = ResetModes[m]

(* Moving around: no text is written *)
CursorNext == CursorOps \/ ModeOps \/ SizeOps

(* Writing and erasing text *)
SomeModes == \E m \in {"Wrap", "Insert"}, on \in BOOLEAN : ChangeMode(m, on)
TextNext ==
    \/ \E w \in {1, 2} : DisplayCharacter("a", w)
    \/ RepeatChar \/ Backspace \/ NewLine \/ NextLine \/ ReverseIndex
    \/ ClearOps \/ SizeOps \/ SomeModes
    \/ \E n \in {0, 2} : InsertChars(n) \/ DeleteChars(n) \/ EraseChars(n)

(* Selecting text while it scrolls: the screen starts full of text that    *)
(* tells its rows and columns apart.                                       *)
Row(a, b) == [cells |-> <<a, b>>, wrapped |-> FALSE]
FullRows == [y \in 0 .. 2 |-> IF y = 0 THEN Row("a", "b") ELSE IF y = 1 THEN Row("b", "b") ELSE EmptyRow]
Drawn == [c |-> "b", w |-> 1]
SelectNext ==
    \/ Index
    \/ DisplayCharacter("a", 1)
    \/ ScrollUp(1)
    \/ \E y \in 0 .. Len(image.history) + size.lines - 1 :
          \/ \E x \in {0, size.columns}, block \in BOOLEAN : SetSelectionStart(x, y, block)
          \/ \E x \in 0 .. size.columns : SetSelectionEnd(x, y)
    \/ ClearSelection
    \/ \E t \in HistoryTypes : SetScroll(t, TRUE)

(* Writing, scrolling and erasing on screens of one line or one column     *)
NarrowNext ==
    \/ TextNext
    \/ \E n \in {0, 2} : ScrollUp(n) \/ ScrollDown(n) \/ DeleteLines(n) \/ InsertLines(n)

(* Everything that leaves the size and the kind of history alone and       *)
(* scrolls one line at a time, under an unlimited history.                 *)
PaperNext ==
    \/ DisplayCharacter("a", 1)
    \/ Index \/ ReverseIndex \/ Reset
    \/ \E t, b \in {0, 2, 3} : SetMargins(t, b)
    \/ ClearToEndOfScreen \/ ClearEntireLine
    \/ \E n \in {0, 2, 3} : ScrollDown(n) \/ DeleteLines(n) \/ InsertLines(n) \/ CursorDown(n)
    \/ ScrollUp(1)

MCInit ==
    \/ family = "cursor" /\ InitAt(S32, EmptyRows(S32), None, NoChar)
    \/ family = "text" /\ InitAt(S22, EmptyRows(S22), None, NoChar)
    \/ family = "select" /\ InitAt(S22, FullRows, None, Drawn)
    \/ family = "narrow" /\ InitAt(S11, EmptyRows(S11), None, NoChar)
    \/ family = "paper" /\ InitAt(S31, EmptyRows(S31), File, NoChar)

MCNext ==
    /\ ~image.outside
    /\ \/ family = "cursor" /\ CursorNext /\ Bounded("cursor") /\ UNCHANGED family
       \/ family = "text" /\ TextNext /\ Bounded("text") /\ UNCHANGED family
       \/ family = "select" /\ SelectNext /\ Bounded("select") /\ UNCHANGED family
       \/ family = "narrow" /\ NarrowNext /\ Bounded("narrow") /\ UNCHANGED family
       \/ family = "paper" /\ PaperNext /\ Bounded("paper") /\ UNCHANGED family

MCSpec == MCInit /\ [][MCNext]_<<vars, family>>

(* The paper of the family "paper": the history and the screen's rows *)
TheRows == [i \in 1 .. 3 |-> image.rows[i - 1]]
NoPaper == [i \in 1 .. 3 |-> EmptyRow]
P == INSTANCE Paper WITH Height <- 3, Lines <- RowType,
                         paper <- IF family = "paper" THEN image.history \o TheRows ELSE NoPaper

(* With an unlimited history the screen implements a strip of paper: a     *)
(* line leaves the window only by becoming the next line of the history,   *)
(* exactly as it was (addHistLine before scrollUp in Screen.cpp).          *)
ImplementsPaper == P!Spec
=============================================================================
