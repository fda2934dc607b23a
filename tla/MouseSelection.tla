---------------------------- MODULE MouseSelection ----------------------------
(***************************************************************************)
(* Selecting text with the mouse: TerminalDisplay's handlers of presses,   *)
(* moves, releases, double and triple clicks, what they remember from one  *)
(* event to the next, and the selection they leave with the screen, while  *)
(* the view scrolls and output goes on.                                    *)
(*                                                                         *)
(* Rows count from the start of the history; where the code keeps a row of *)
(* the window and adds the scroll bar's value, the sum is kept here.       *)
(* Abstracted: an update follows each line of output at once (ScreenView   *)
(* has the delay); links, the clipboards and reports to the program.       *)
(***************************************************************************)
EXTENDS TextSearch

CONSTANTS MaxHistory,  \* lines the history takes
          MaxShots     \* bound: timers of double clicks that run at once

ASSUME MouseAssumption == MaxHistory \in Nat /\ MaxShots \in Nat

VARIABLES
  text,        \* the rows of the history and of the screen
  top,         \* the first row shown: the window's line and the bar's value
  flags,       \* _lineProperties
  sel,         \* the screen's _selBegin, _selTopLeft, _selBottomRight, block
  iPntSel,     \* _iPntSel, where the selection starts
  pntSel,      \* _pntSel, the end of it that moves
  tripleSelBegin,  \* row of the window and column
  actSel,      \* 0: none, 1: button pressed, 2: within a selection
  mode,        \* those of _wordSelectionMode, _lineSelectionMode and
               \* _columnSelectionMode that are set
  triple,      \* _possibleTripleClick
  shots,       \* single-shot timers that will reset it
  tracking,    \* _usesMouseTracking
  forward,     \* _tripleClickMode selects from the word on
  (* the user *)
  held,        \* the left button is down
  clicked,     \* where the last press was, if the next can be a double click
  (* history variables *)
  pointer,     \* where the pointer was in the last extendSelection
  origin,      \* the first and last cell of what a double or triple click
               \* has selected by the flags of the rows that were shown
  lost         \* a row left a full history since iPntSel was set

mouseVars == <<text, top, flags, sel, iPntSel, pntSel, tripleSelBegin, actSel, mode, triple,
               shots, tracking, forward, held, clicked, pointer, origin, lost>>
unmoved == <<text, flags, tracking, forward>>

Nowhere == <<-1, -1>>
Hist == Len(text) - Lines
Within(low, n, high) == Max({low, Min({n, high})})
FlagsFrom(t, first) == [i \in 1 .. Lines |-> IsWrapped(t, first + i - 1)]
Fresh == flags = FlagsFrom(text, top)
Unit(s) == IF Fresh THEN <<s.tl, s.br>> ELSE Nowhere

(* A pointer's column is a half cell's, so that it can be rounded both     *)
(* ways; its row may lie beyond the window.                                *)
Pointers == [half : 0 .. 2 * Columns - 1, row : 0 .. Lines - 1]
Drags == [half : 0 .. 2 * Columns - 1, row : -1 .. Lines]
Near(p, q) == p.row = q.row /\ p.half - q.half \in -1 .. 1
(* getCharacterPosition *)
Column(p, edge) == IF edge THEN (p.half + 1) \div 2 ELSE p.half \div 2

Pos(x, y) == y * Columns + x
Before(a, b) == a[2] < b[2] \/ (a[2] = b[2] /\ a[1] < b[1])

(* Screen's setSelectionStart, setSelectionEnd and clearSelection *)
NoSelection == [begin |-> -1, tl |-> -1, br |-> -1, block |-> FALSE]
StartAt(x, y, block) ==
  LET p == IF x = Columns THEN Pos(x, y) - 1 ELSE Pos(x, y)
  IN  [begin |-> p, tl |-> p, br |-> p, block |-> block]
EndAt(s, x, y) ==
  LET p == Pos(x, y)
      ends == IF p < s.begin THEN <<p, s.begin>>
              ELSE <<s.begin, IF x = Columns THEN p - 1 ELSE p>>
      cols == {ends[1] % Columns, ends[2] % Columns}
  IN  IF s.begin = -1 THEN s
      ELSE IF ~s.block THEN [s EXCEPT !.tl = ends[1], !.br = ends[2]]
      ELSE [s EXCEPT !.tl = Pos(Min(cols), ends[1] \div Columns),
                     !.br = Pos(Max(cols), ends[2] \div Columns)]

Row == [cells : [1 .. Columns -> {"a", " ", ":", "@"}], wrapped : BOOLEAN]
Texts == {t \in Seq(Row) : Len(t) - Lines \in 0 .. MaxHistory}

MouseInit(texts) ==
  /\ text \in texts /\ top = Hist /\ flags = FlagsFrom(text, top)
  /\ sel = NoSelection
  /\ iPntSel = <<0, 0>> /\ pntSel = <<0, 0>> /\ tripleSelBegin = <<0, 0>>
  /\ actSel = 0 /\ mode = {} /\ triple = FALSE /\ shots = 0
  /\ tracking = FALSE /\ forward \in BOOLEAN
  /\ held = FALSE /\ clicked = <<>>
  /\ pointer = <<0, 0>> /\ origin = Nowhere /\ lost = FALSE

-----------------------------------------------------------------------------
(* extendSelection.  The window scrolls when the pointer is beyond it; the *)
(* searches then use the new picture and the flags there are.              *)
Scrolled(n) == Within(0, top + n, Hist)
Beyond(row) == IF row < 0 THEN row ELSE IF row >= Lines THEN row - Lines + 1 ELSE 0
HasCell(q, first) == q[1] \in 0 .. Columns - 1 /\ q[2] \in first .. first + Lines - 1

(* From where to where: what is extended, what stays, whether the one has  *)
(* passed the other, and what setSelectionStart and setSelectionEnd add to *)
(* the columns.                                                            *)
ByCharacterOnce(here) ==   \* mutant: the start stays when the pointer passes it
  [here |-> here, there |-> iPntSel, swap |-> FALSE,
   offset |-> IF Before(here, iPntSel) THEN 0 ELSE -1]
ByCharacter(here) ==
  [here |-> here, there |-> iPntSel,
   swap |-> Before(here, iPntSel) # Before(pntSel, iPntSel),
   offset |-> IF Before(here, iPntSel) THEN 0 ELSE -1]
ByWordHere(here, pic) ==   \* mutant: extends from the click, not from its word
  LET left == Before(here, iPntSel)
  IN  [here |-> here, there |-> iPntSel, swap |-> left # Before(pntSel, iPntSel), offset |-> 0]
ByWord(here, pic) ==
  LET left == Before(here, iPntSel)
      first(q) == IF HasCell(q, pic.top) THEN findWordStart(text, pic, q[1], q[2]) ELSE pntSel
      final(q) == IF HasCell(q, pic.top) THEN findWordEnd(text, pic, q[1], q[2]) ELSE pntSel
      stays == IF left THEN final(iPntSel) ELSE first(iPntSel)
  IN  [here |-> IF left THEN first(here) ELSE final(here),
       there |-> <<stays[1] + 1, stays[2]>>,
       swap |-> left # Before(pntSel, iPntSel), offset |-> 0]
ByLine(here, pic) ==
  LET above == here[2] < iPntSel[2]
      stays == IF above THEN <<Columns - 1, findLineEnd(text, pic, iPntSel[2])>>
                        ELSE <<0, findLineStart(text, pic, iPntSel[2])>>
  IN  [here |-> IF above THEN <<0, findLineStart(text, pic, here[2])>>
                         ELSE <<Columns - 1, findLineEnd(text, pic, here[2])>>,
       there |-> <<stays[1] + 1, stays[2]>>,
       swap |-> tripleSelBegin # <<stays[1], stays[2] - pic.top>>, offset |-> 0]

Extension(at, pic, modes) ==
  IF "line" \in modes THEN ByLine(IF "word" \in modes THEN ByWord(at, pic).here ELSE at, pic)
  ELSE IF "word" \in modes THEN ByWord(at, pic)
  ELSE ByCharacter(at)

ExtendSelection(p, modes, edge) ==
  \E first \in {Scrolled(Beyond(p.row))} :
  \E at \in {<<Column(p, TRUE), first + Within(0, p.row, Lines - 1)>>} :
  \E to \in {Extension(at, [top |-> first, flags |-> flags, edge |-> edge], modes)} :
    LET block == modes = {"column"}
        start == IF block THEN StartAt(to.there[1], to.there[2], TRUE)
                 ELSE StartAt(to.there[1] - 1 - to.offset, to.there[2], FALSE)
    IN  /\ top' = first
        /\ pointer' = at
        /\ tripleSelBegin' = IF "line" \in modes THEN <<to.there[1] - 1, to.there[2] - first>>
                             ELSE tripleSelBegin
        /\ IF (to.here = pntSel /\ first = top) \/ to.here = to.there
           THEN UNCHANGED <<sel, pntSel, actSel>>
           ELSE /\ actSel' = 2
                /\ pntSel' = to.here
                /\ sel' = EndAt(IF actSel < 2 \/ to.swap THEN start ELSE sel,
                                IF block THEN to.here[1] ELSE to.here[1] + to.offset, to.here[2])

(* selectLine, for a triple click *)
SelectLine(p, edge) ==
  LET pic == [top |-> top, flags |-> flags, edge |-> edge]
      y == top + p.row
      start == IF forward THEN findWordStart(text, pic, Column(p, TRUE), y)
                          ELSE <<0, findLineStart(text, pic, y)>>
      end == <<Columns - 1, findLineEnd(text, pic, y)>>
  IN  /\ iPntSel' = end /\ lost' = FALSE
      /\ tripleSelBegin' = <<start[1], start[2] - top>>
      /\ sel' = EndAt(StartAt(start[1], start[2], FALSE), end[1], end[2])
      /\ origin' = Unit(sel')
      /\ mode' = (mode \ {"word"}) \cup {"line"}
      /\ actSel' = 2
      /\ UNCHANGED <<top, pntSel, pointer>>

(* mousePressEvent, of the left button.  The modifiers are a set of        *)
(* "shift" and "column", which is Control with Alt.                        *)
MousePress(p, modifiers, edge) ==
  /\ ~held /\ held' = TRUE
  /\ clicked' = <<p>>
  /\ IF triple THEN SelectLine(p, edge)
     ELSE /\ mode' = (IF modifiers = {} THEN {} ELSE mode \ {"column"})
                       \cup (modifiers \cap {"column"})
          /\ CASE ~tracking /\ "shift" \in modifiers ->
                    /\ ExtendSelection(p, mode', edge)
                    /\ origin' = Nowhere
                    /\ UNCHANGED <<iPntSel, lost>>
               [] tracking # ("shift" \notin modifiers) ->
                    /\ sel' = [NoSelection EXCEPT !.block = sel.block]
                    /\ iPntSel' = <<Column(p, ~tracking), top + p.row>>
                    /\ pntSel' = iPntSel' /\ pointer' = iPntSel'
                    /\ actSel' = 1 /\ lost' = FALSE /\ origin' = Nowhere
                    /\ UNCHANGED <<top, tripleSelBegin>>
               [] OTHER ->   \* reported to the program
                    UNCHANGED <<top, sel, iPntSel, pntSel, pointer, tripleSelBegin, actSel,
                                lost, origin>>
  /\ UNCHANGED <<unmoved, triple, shots>>

(* mouseMoveEvent, with the left button down *)
MouseMove(p, shift, edge) ==
  /\ held
  /\ ~(tracking /\ ~shift) /\ actSel # 0
  /\ clicked' = IF clicked # <<>> /\ Near(p, clicked[1]) THEN clicked ELSE <<>>
  /\ ExtendSelection(p, mode, edge)
  /\ UNCHANGED <<unmoved, iPntSel, mode, triple, shots, held, origin, lost>>

(* mouseReleaseEvent *)
MouseRelease ==
  /\ held /\ held' = FALSE
  /\ actSel' = 0
  /\ UNCHANGED <<unmoved, top, sel, iPntSel, pntSel, pointer, tripleSelBegin, mode, triple,
                 shots, clicked, origin, lost>>

(* mouseDoubleClickEvent, which takes the place of a second press close to *)
(* the first.                                                              *)
MouseDoubleClick(p, shift, edge) ==
  /\ ~held /\ held' = TRUE
  /\ clicked # <<>> /\ clicked' = <<>>
  /\ Near(p, clicked[1])
  /\ shots < MaxShots
  /\ IF tracking /\ ~shift
     THEN UNCHANGED <<sel, iPntSel, pointer, actSel, mode, triple, shots, origin, lost>>
     ELSE LET pic == [top |-> top, flags |-> flags, edge |-> edge]
              x == Min({Column(p, ~tracking), Columns - 1})
              start == findWordStart(text, pic, x, top + p.row)
              end == findWordEnd(text, pic, x, top + p.row)
          IN  /\ iPntSel' = <<x, top + p.row>> /\ lost' = FALSE
              /\ pointer' = iPntSel'
              /\ mode' = mode \cup {"word"}
              /\ actSel' = 2
              /\ sel' = EndAt(StartAt(start[1], start[2], FALSE), end[1], end[2])
              /\ origin' = Unit(sel')
              /\ triple' = TRUE /\ shots' = shots + 1
  /\ UNCHANGED <<unmoved, top, pntSel, tripleSelBegin>>

(* A timer of a double click, of the last one or of one before *)
TripleTimeout ==
  /\ shots > 0 /\ shots' = shots - 1
  /\ triple' = FALSE
  /\ UNCHANGED <<unmoved, top, sel, iPntSel, pntSel, pointer, tripleSelBegin, actSel, mode,
                 held, clicked, origin, lost>>

-----------------------------------------------------------------------------
(* The wheel moves the scroll bar: scrollBarPositionChanged *)
Wheel(n) ==
  /\ ~tracking /\ Scrolled(n) # top
  /\ top' = Scrolled(n)
  /\ UNCHANGED <<unmoved, sel, iPntSel, pntSel, pointer, tripleSelBegin, actSel, mode, triple,
                 shots, held, clicked, origin, lost>>

(* A key: keyPressEvent, which goes to the end unless Control or Alt is    *)
(* held, and scrollScreenWindow, if the key is one that scrolls.           *)
KeyPress ==
  /\ actSel' = 0
  /\ \E from \in {top, Hist} :
       \/ top' = from /\ UNCHANGED flags
       \/ \E n \in {-1, 1} : top' = Within(0, from + n, Hist) /\ flags' = FlagsFrom(text, top')
  /\ UNCHANGED <<text, tracking, forward, sel, iPntSel, pntSel, pointer, tripleSelBegin, mode,
                 triple, shots, held, clicked, origin, lost>>

(* A line of output scrolls the screen: addHistLine and moveImage, then    *)
(* outputChanged with updateLineProperties and updateImage.                *)
Blank == [cells |-> [i \in 1 .. Columns |-> " "], wrapped |-> FALSE]
OutputLine ==
  LET full == Hist = MaxHistory
      br == sel.br - Columns
  IN  /\ text' = Append(IF full THEN Tail(text) ELSE text, Blank)
      /\ top' = IF top = Hist THEN Hist' ELSE IF full THEN Max({0, top - 1}) ELSE top
      /\ flags' = FlagsFrom(text', top')
      /\ lost' = (lost \/ full)
      /\ sel' = IF ~full \/ sel.begin = -1 THEN sel
                ELSE IF br < 0 THEN [NoSelection EXCEPT !.block = sel.block]
                ELSE LET tl == Max({0, sel.tl - Columns})
                     IN  [sel EXCEPT !.tl = tl, !.br = br,
                                     !.begin = IF sel.begin = sel.tl THEN tl ELSE br]
      /\ UNCHANGED <<iPntSel, pntSel, pointer, tripleSelBegin, actSel, mode, triple, shots,
                     tracking, forward, held, clicked, origin>>

SetUsesMouseTracking ==
  /\ tracking' = ~tracking
  /\ UNCHANGED <<text, top, flags, sel, iPntSel, pntSel, pointer, tripleSelBegin, actSel, mode,
                 triple, shots, forward, held, clicked, origin, lost>>

MouseNext ==
  \/ \E edge \in {" ", "a"} :
       \/ \E p \in Pointers, m \in SUBSET {"shift", "column"} : MousePress(p, m, edge)
       \/ \E p \in Drags, shift \in BOOLEAN : MouseMove(p, shift, edge)
       \/ \E p \in Pointers, shift \in BOOLEAN : MouseDoubleClick(p, shift, edge)
  \/ MouseRelease \/ TripleTimeout
  \/ \E n \in {-1, 1} : Wheel(n)
  \/ KeyPress \/ OutputLine \/ SetUsesMouseTracking

MouseSpec == MouseInit(Texts) /\ [][MouseNext]_mouseVars

-----------------------------------------------------------------------------
MouseTypeOK ==
  /\ text \in Seq(Row)
  /\ top \in 0 .. Hist
  /\ flags \in [1 .. Lines -> BOOLEAN]
  /\ sel \in [begin : Int, tl : Int, br : Int, block : BOOLEAN]
  /\ {iPntSel, pntSel, pointer, tripleSelBegin, origin} \subseteq Int \X Int
  /\ actSel \in {0, 1, 2} /\ mode \subseteq {"word", "line", "column"}
  /\ {triple, tracking, forward, held, lost} \subseteq BOOLEAN
  /\ shots \in 0 .. MaxShots
  /\ clicked \in {<<>>} \cup {<<p>> : p \in Pointers}

Cells(s) == s.tl .. s.br

(* However the pointer went while the button was down, back and forth over *)
(* where it was pressed and beyond the window, the cells between the two   *)
(* are selected; a drag by characters, and a Shift-click that extends it.  *)
(* The cell before the first may be one too many or too few when one of    *)
(* the two is at the right margin.  Output may scroll meanwhile, unless    *)
(* the history is full: _iPntSel does not move with the text               *)
(* (extendSelection, setSelectionStart, setSelectionEnd).                  *)
DragSelects ==
  actSel = 2 /\ mode = {} /\ ~lost /\ pointer # iPntSel =>
    LET from == Pos(iPntSel[1], iPntSel[2])
        to == Pos(pointer[1], pointer[2])
        between == Min({from, to}) .. Max({from, to}) - 1
    IN  \A c \in 0 .. Pos(Columns, LastRow(text)) :
          (c \in Cells(sel)) # (c \in between) =>
             c = from - 1 /\ Columns \in {pointer[1], iPntSel[1]}

MouseInv == MouseTypeOK /\ DragSelects

(* While the flags are those of the rows shown, a search from any cell     *)
(* shown finds the word that cell is in, whole, across wrapped rows and    *)
(* past both ends of the window, and however the memory after the picture  *)
(* reads (findWordStart, findWordEnd).                                     *)
WordsFound ==
  Fresh =>
    \A edge \in {" ", "a"}, k \in Pos(0, top) .. Pos(Columns, top + Lines - 1) - 1 :
      WordFound(text, [top |-> top, flags |-> flags, edge |-> edge], k)

(* So a double click, which may come whenever the button is up, would find *)
(* the word under it.                                                      *)
FindsWord == ~held => WordsFound

(* The end of the selection that moves is the one the display takes it for *)
Leftwards == IF "line" \in mode THEN tripleSelBegin[1] # 0 ELSE Before(pntSel, iPntSel)
Agrees == sel.begin = IF Leftwards THEN sel.br ELSE sel.tl
Kept == origin[1] .. origin[2] \subseteq Cells(sel)

(* Moving the pointer after a double or triple click, to either side of    *)
(* the word or line and while the window scrolls, keeps all of that word   *)
(* or line selected.  It does not where the flags are those of other rows, *)
(* where the pointer is at the right margin or the click out of sight, and *)
(* where the display is wrong about the end that moves, because the double *)
(* click has not set _pntSel (extendSelection).                            *)
KeepsOrigin ==
  [][ /\ held /\ held' /\ pointer' # pointer
      /\ origin # Nowhere /\ ~lost /\ Kept /\ Agrees /\ Fresh'
      /\ pointer'[1] < Columns /\ iPntSel[2] \in top' .. top' + Lines - 1
      => Kept' ]_mouseVars
=============================================================================
