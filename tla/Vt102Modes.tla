------------------------------ MODULE Vt102Modes ------------------------------
(***************************************************************************)
(* The meaning Vt102Emulation gives to the sequences that change its own   *)
(* state: its modes and their saved values, the two screens and which one  *)
(* is in use, the character sets of each screen, the saved cursors, and    *)
(* the flags of the emulation that the displays of the session follow.     *)
(*                                                                         *)
(* A mode that is a bit of the emulation and nothing else behaves like     *)
(* every other such mode; CONSTANT Bits names the ones an instance has.    *)
(***************************************************************************)
EXTENDS Integers, Sequences

CONSTANTS Displays,   \* views of the session
          Bits,       \* modes that are a bit of the emulation and nothing else
          Sizes,      \* the sizes views and programs give the screens
          Wide, Narrow  \* the columns of the two modes of DECCOLM: 132 and 80

ASSUME SizesAssumption ==
  /\ Sizes \subseteq [columns : Nat \ {0}, lines : Nat \ {0}]
  /\ Wide \in Nat \ {0} /\ Narrow \in Nat \ {0}

Screens == {0, 1}
Places == [x : Nat, y : Nat]
Home == [x |-> 0, y |-> 0]

(* The places of a screen.  After the last column is printed in the cursor *)
(* is past it, by a column more if that is the only one and the character  *)
(* has a double width.                                                     *)
On(sz) == [x : 0 .. IF sz.columns = 1 THEN 2 ELSE sz.columns, y : 0 .. sz.lines - 1]
Least(a, b) == IF a < b THEN a ELSE b
(* The place of a screen of that size that is nearest to p.                *)
Nearest(p, sz) == [x |-> Least(p.x, sz.columns - 1), y |-> Least(p.y, sz.lines - 1)]
(* Rows a top margin can be in: it is above the bottom one, if it is set.  *)
Tops(sz) == {0} \cup (0 .. sz.lines - 2)

(* MODE_Mouse1000 .. 1003 ask for the mouse; 1001 can only be reset.       *)
MouseModes == {"Mouse1000", "Mouse1001", "Mouse1002", "Mouse1003"}
(* Modes that setMode and resetMode pass on to both screens ...            *)
SharedModes == {"Cursor", "NewLine"}
(* ... and those that sequences change on the current screen only.         *)
LocalModes == {"Origin", "Wrap", "Insert", "Inverse"}
EmulationModes == MouseModes \cup SharedModes \cup Bits
                  \cup {"AppScreen", "Ansi", "Columns132", "Allow132", "BracketedPaste",
                        "Mouse1007"}

VARIABLES
    current,      \* the screen _currentScreen points to
    modes,        \* the modes set in _currentModes
    savedModes,   \* the modes set in _savedModes
    screen,       \* each screen: its modes, saved modes, cursor, saved cursor
    size,         \* _lines and _columns, which both screens share
    charset,      \* _charset[2]
    tracking, bracketed,  \* Emulation::_usesMouseTracking, _bracketedPasteMode
    reportFocus,  \* _reportFocusEvents
    display,      \* each attached display: its screen and its copies of the flags
    primary       \* Session::_isPrimaryScreen

modeVars == <<current, modes, savedModes, screen, size, charset, tracking, bracketed,
              reportFocus, display, primary>>
outward == <<tracking, bracketed, reportFocus, display, primary>>

-----------------------------------------------------------------------------
(* A value of the emulation's state is a record, so that a sequence that   *)
(* does several things does them one after the other.                      *)
(* "B" is every set that is not translated.                               *)
Sets == {"B", "0", "A"}
Charset == [cu : 0 .. 3, set : [0 .. 3 -> Sets], graphic : BOOLEAN, pound : BOOLEAN,
            savedGraphic : BOOLEAN, savedPound : BOOLEAN]
ScreenState == [modes : SUBSET (LocalModes \cup SharedModes),
                saved : SUBSET (LocalModes \cup SharedModes),
                cursor : Places, savedCursor : Places]
Display == [screen : Screens, tracking : BOOLEAN, bracketed : BOOLEAN]

FreshCharset == [cu |-> 0, set |-> [n \in 0 .. 3 |-> "B"], graphic |-> FALSE, pound |-> FALSE,
                 savedGraphic |-> FALSE, savedPound |-> FALSE]

State == [current |-> current, modes |-> modes, saved |-> savedModes, screen |-> screen,
          size |-> size, charset |-> charset, tracking |-> tracking, bracketed |-> bracketed,
          focus |-> reportFocus, display |-> display, primary |-> primary]
Become(e) == /\ current' = e.current /\ modes' = e.modes /\ savedModes' = e.saved
             /\ screen' = e.screen /\ size' = e.size /\ charset' = e.charset
             /\ tracking' = e.tracking /\ bracketed' = e.bracketed
             /\ reportFocus' = e.focus /\ display' = e.display /\ primary' = e.primary

(* The signals the displays and the session are connected to.              *)
Attached(e) == DOMAIN e.display
RequestTracking(e, on) ==
  [e EXCEPT !.tracking = on, !.display = [d \in Attached(e) |-> [@[d] EXCEPT !.tracking = on]]]
ChangeBracketed(e, on) ==
  [e EXCEPT !.bracketed = on, !.display = [d \in Attached(e) |-> [@[d] EXCEPT !.bracketed = on]]]

(* Emulation::setScreen: the windows change over and the session is told.  *)
SetScreen(e, s) ==
  IF s = e.current THEN e
  ELSE [e EXCEPT !.current = s, !.primary = (s = 0),
                 !.display = [d \in Attached(e) |-> [@[d] EXCEPT !.screen = s]]]

(* Emulation::setImageSize: a new size brings both cursors into the        *)
(* screen, and leaves the saved ones.                                      *)
SetImageSize(e, sz) ==
  IF sz = e.size THEN e
  ELSE [e EXCEPT !.size = sz, !.screen = [s \in Screens |->
          [e.screen[s] EXCEPT !.cursor = Nearest(@, sz)]]]

(* clearScreenAndSetColumns: the current screen is left at its home.       *)
SetColumns(e, columns) ==
  LET sized == SetImageSize(e, [columns |-> columns, lines |-> e.size.lines])
  IN  [sized EXCEPT !.screen[e.current].cursor = Home]

(* A mode is a bit of the emulation's word of modes, or of a screen's.     *)
Bit(ms, m, on) == IF on THEN ms \cup {m} ELSE ms \ {m}

OnScreens(e, m, on) ==
  [e EXCEPT !.screen = [s \in Screens |-> [e.screen[s] EXCEPT !.modes = Bit(@, m, on)]]]

(* What a mode does besides its own bit, for setMode and resetMode.        *)
Apply(e, m, on) ==
  CASE m \in MouseModes     -> RequestTracking(e, on)
    [] m = "BracketedPaste" -> ChangeBracketed(e, on)
    [] m = "AppScreen"      -> SetScreen(e, IF on THEN 1 ELSE 0)
    [] m \in SharedModes    -> OnScreens(e, m, on)
    [] m = "Columns132"     -> IF "Allow132" \in e.modes
                               THEN SetColumns(e, IF on THEN Wide ELSE Narrow) ELSE e
    [] OTHER                -> e

SetMode(e, m) ==
  IF m = "Columns132" /\ "Allow132" \notin e.modes
  THEN [e EXCEPT !.modes = Bit(@, m, FALSE)]
  ELSE Apply([e EXCEPT !.modes = Bit(@, m, TRUE)], m, TRUE)
ResetMode(e, m) == Apply([e EXCEPT !.modes = Bit(@, m, FALSE)], m, FALSE)

Remember(e, m, on) == [e EXCEPT !.saved = Bit(@, m, on)]
SaveMode(e, m) == Remember(e, m, m \in e.modes)
RestoreMode(e, m) == IF m \in e.saved THEN SetMode(e, m) ELSE ResetMode(e, m)

(* useCharset works on the screen in use, whichever screen its argument    *)
(* came from.                                                              *)
UseCharset(e, n) ==
  LET chosen == e.charset[e.current].set[n] IN
  [e EXCEPT !.charset[e.current] =
     [@ EXCEPT !.cu = n, !.graphic = (chosen = "0"), !.pound = (chosen = "A")]]
SetCharset(e, n, cs) ==
  LET first  == UseCharset([e EXCEPT !.charset[0].set[n] = cs], e.charset[0].cu)
      second == [first EXCEPT !.charset[1].set[n] = cs]
  IN  UseCharset(second, second.charset[1].cu)
SetAndUseCharset(e, n, cs) == UseCharset([e EXCEPT !.charset[e.current].set[n] = cs], n)

SaveCursor(e) ==
  LET c == e.charset[e.current] IN
  [e EXCEPT !.charset[e.current] = [c EXCEPT !.savedGraphic = c.graphic, !.savedPound = c.pound],
            !.screen[e.current].savedCursor = e.screen[e.current].cursor]
(* As if only the line drawing characters were restored.                   *)
RestoreGraphic(e) ==
  LET c == e.charset[e.current] IN
  [e EXCEPT !.charset[e.current] = [c EXCEPT !.graphic = c.savedGraphic],
            !.screen[e.current].cursor = Nearest(e.screen[e.current].savedCursor, e.size)]

(* The cursor comes back to its place, or the nearest one there still is.  *)
RestoreCursor(e) ==
  LET c == e.charset[e.current] IN
  [e EXCEPT !.charset[e.current] = [c EXCEPT !.graphic = c.savedGraphic, !.pound = c.savedPound],
            !.screen[e.current].cursor = Nearest(e.screen[e.current].savedCursor, e.size)]

(* resetModes, in its order: neither Allow132 nor Mouse1007 nor Cursor.    *)
Forget(e, m) == SaveMode(ResetMode(e, m), m)
ResetModes(e) ==
  LET a == Forget(e, "Columns132")
      b == Forget(Forget(a, "Mouse1000"), "Mouse1001")
      c == Forget(Forget(b, "Mouse1002"), "Mouse1003")
      d == Forget(Forget(Forget(c, "Mouse1005"), "Mouse1006"), "Mouse1015")
      f == Forget(Forget(d, "BracketedPaste"), "AppScreen")
      g == Forget(Forget(f, "AppCuKeys"), "AppKeyPad")
  IN  SetMode(ResetMode(g, "NewLine"), "Ansi")

(* Screen::reset: the line of the cursor becomes the first one.            *)
ResetScreen(sc) ==
  LET top == [sc.cursor EXCEPT !.y = 0] IN
  [modes |-> {"Wrap", "Cursor"}, saved |-> (sc.saved \ {"Origin", "Insert"}) \cup {"Wrap"},
   cursor |-> top, savedCursor |-> top]

Reset(e) ==
  [ResetModes(e) EXCEPT !.charset = [s \in Screens |-> FreshCharset],
                        !.screen  = [s \in Screens |-> ResetScreen(@[s])]]

-----------------------------------------------------------------------------
Init ==
  /\ current = 0 /\ modes = {"Ansi"} /\ savedModes = {}
  /\ screen = [s \in Screens |-> [modes |-> {"Wrap", "Cursor"}, saved |-> {"Wrap"},
                                  cursor |-> Home, savedCursor |-> Home]]
  /\ size \in Sizes /\ charset = [s \in Screens |-> FreshCharset]
  /\ tracking = FALSE /\ bracketed = FALSE /\ reportFocus = FALSE /\ primary = TRUE
  /\ display = <<>>

Ansi == "Ansi" \in modes

(* ESC [ ? <modes> h, l, s and r.  A list of modes is one mode after the   *)
(* other, and only `l' can go on after the terminal has become a VT52.     *)
Savable == {"Mouse1000", "Mouse1002", "Mouse1003", "Mouse1007", "Cursor", "AppScreen",
            "BracketedPaste"} \cup (Bits \ {"AppKeyPad"})
Settable == Savable \cup {"Columns132", "Allow132"}
Resettable == Settable \cup {"Mouse1001", "Ansi"}

SetPrivate(m)     == Ansi /\ Become(SetMode(State, m))
ResetPrivate(m)   == Ansi /\ Become(ResetMode(State, m))
ResetAnsiAnd(m)   == Ansi /\ Become(ResetMode(ResetMode(State, "Ansi"), m))
SavePrivate(m)    == Ansi /\ Become(SaveMode(State, m))
RestorePrivate(m) == Ansi /\ Become(RestoreMode(State, m))

(* ESC [ ? 1049 h and l: the cursor of the first screen is saved before    *)
(* the change and restored after it.                                       *)
EnterAlternateFirst == Ansi /\ Become(SaveCursor(SetMode(State, "AppScreen")))
EnterAlternate == Ansi /\ Become(SetMode(SaveCursor(State), "AppScreen"))
LeaveAlternate == Ansi /\ Become(RestoreCursor(ResetMode(State, "AppScreen")))

(* ESC <, ESC =, ESC > and, of a VT52, the same letters; ESC [ 20 h and l. *)
EnterAnsi == Become(SetMode(State, "Ansi"))
KeyPad(on) == Become(IF on THEN SetMode(State, "AppKeyPad") ELSE ResetMode(State, "AppKeyPad"))
NewLine(on) == Ansi /\ Become(IF on THEN SetMode(State, "NewLine") ELSE ResetMode(State, "NewLine"))
FocusReports(on) == Ansi /\ Become([State EXCEPT !.focus = on])

(* The modes of the screen in use.  Origin sends the cursor to the top of  *)
(* the margins, or of the screen.                                          *)
SetLocal(m, on, y) ==
  LET sc == screen[current]  IN
  /\ Ansi
  /\ screen' = [screen EXCEPT ![current] =
       [sc EXCEPT !.modes  = Bit(@, m, on),
                  !.cursor = IF m = "Origin" THEN [x |-> 0, y |-> IF on THEN y ELSE 0] ELSE @]]
  /\ UNCHANGED <<current, modes, savedModes, size, charset, outward>>
SaveLocal(m) ==
  /\ Ansi
  /\ screen' = [screen EXCEPT ![current].saved = Bit(@, m, m \in screen[current].modes)]
  /\ UNCHANGED <<current, modes, savedModes, size, charset, outward>>
RestoreLocal(m) ==
  /\ Ansi
  /\ screen' = [screen EXCEPT ![current].modes = Bit(@, m, m \in screen[current].saved)]
  /\ UNCHANGED <<current, modes, savedModes, size, charset, outward>>

(* Printing and the sequences that move the cursor of the screen in use.   *)
MoveCursor(p) ==
  /\ screen' = [screen EXCEPT ![current].cursor = p]
  /\ UNCHANGED <<current, modes, savedModes, size, charset, outward>>
(* setMargins homes the cursors of both screens.                           *)
SetMargins(y) ==
  /\ Ansi
  /\ screen' = [s \in Screens |-> [screen[s] EXCEPT
       !.cursor = [x |-> 0, y |-> IF "Origin" \in screen[s].modes THEN y ELSE 0]]]
  /\ UNCHANGED <<current, modes, savedModes, size, charset, outward>>

Shift(n) == (n < 2 \/ Ansi) /\ Become(UseCharset(State, n))
Designate(n, cs) == Ansi /\ Become(SetCharset(State, n, cs))
VT52Graphics(cs) == ~Ansi /\ Become(SetAndUseCharset(State, 0, cs))
StoreCursor == Ansi /\ Become(SaveCursor(State))
BringBackCursor == Ansi /\ Become(RestoreCursor(State))
FullReset == Ansi /\ Become(Reset(State))

(* A display of another size, or ESC [ 8 ; <lines> ; <columns> t.          *)
Resize(sz) == Become(SetImageSize(State, sz))

(* As if a display heard of the flags when they change, and only then.     *)
AddViewUntold(d) ==
  /\ d \notin DOMAIN display
  /\ display' = [v \in DOMAIN display \cup {d} |->
       IF v = d THEN [screen |-> current, tracking |-> FALSE, bracketed |-> FALSE]
       ELSE display[v]]
  /\ UNCHANGED <<current, modes, savedModes, screen, size, charset, tracking, bracketed,
                 reportFocus, primary>>

(* Session::addView copies the two flags it has a getter for; removeView.  *)
AddView(d) ==
  /\ d \notin DOMAIN display
  /\ display' = [v \in DOMAIN display \cup {d} |->
       IF v = d THEN [screen |-> current, tracking |-> tracking, bracketed |-> bracketed]
       ELSE display[v]]
  /\ UNCHANGED <<current, modes, savedModes, screen, size, charset, tracking, bracketed,
                 reportFocus, primary>>
RemoveView(d) ==
  /\ d \in DOMAIN display
  /\ display' = [v \in DOMAIN display \ {d} |-> display[v]]
  /\ UNCHANGED <<current, modes, savedModes, screen, size, charset, tracking, bracketed,
                 reportFocus, primary>>

Next ==
  \/ \E m \in Settable : SetPrivate(m)
  \/ \E m \in Resettable : ResetPrivate(m) \/ ResetAnsiAnd(m)
  \/ \E m \in Savable : SavePrivate(m) \/ RestorePrivate(m)
  \/ EnterAlternate \/ LeaveAlternate \/ StoreCursor \/ BringBackCursor
  \/ EnterAnsi \/ FullReset
  \/ \E on \in BOOLEAN : KeyPad(on) \/ NewLine(on) \/ FocusReports(on)
  \/ \E m \in LocalModes, on \in BOOLEAN, y \in Tops(size) : SetLocal(m, on, y)
  \/ \E m \in {"Origin", "Wrap"} : SaveLocal(m) \/ RestoreLocal(m)
  \/ \E p \in On(size) : MoveCursor(p)
  \/ \E y \in 0 .. size.lines - 2 : SetMargins(y)
  \/ \E sz \in Sizes : Resize(sz)
  \/ \E n \in 0 .. 3 : Shift(n)
  \/ \E n \in 0 .. 3, cs \in Sets : Designate(n, cs)
  \/ \E cs \in {"0", "B"} : VT52Graphics(cs)
  \/ \E d \in Displays : AddView(d) \/ RemoveView(d)

ModesSpec == Init /\ [][Next]_modeVars

-----------------------------------------------------------------------------
ModesTypeOK ==
  /\ current \in Screens
  /\ modes \subseteq EmulationModes \cup {"AppKeyPad"}
  /\ savedModes \subseteq EmulationModes
  /\ screen \in [Screens -> ScreenState]
  /\ size \in [columns : Nat \ {0}, lines : Nat \ {0}]
  /\ charset \in [Screens -> Charset]
  /\ tracking \in BOOLEAN /\ bracketed \in BOOLEAN
  /\ reportFocus \in BOOLEAN /\ primary \in BOOLEAN
  /\ DOMAIN display \subseteq Displays /\ display \in [DOMAIN display -> Display]

(* The screen in use is the one MODE_AppScreen says, for the session and   *)
(* for every display, whichever of the sequences 47, 1047, 1049, a restore *)
(* or a reset brought it there and whenever the display was added.         *)
OneScreenInUse ==
  /\ current = 1 <=> "AppScreen" \in modes
  /\ primary <=> current = 0
  /\ \A d \in DOMAIN display : display[d].screen = current

(* A display asks for the mouse and brackets what it pastes exactly when   *)
(* the emulation says so, and the emulation wants the mouse only while a   *)
(* mode that asks for it is set.                                           *)
DisplaysFollow ==
  /\ \A d \in DOMAIN display : /\ display[d].tracking = tracking
                               /\ display[d].bracketed = bracketed
  /\ bracketed <=> "BracketedPaste" \in modes
  /\ tracking => modes \cap MouseModes # {}

(* The modes that belong to both screens are the same on both, and new     *)
(* line mode, which decides what the Return key sends, is what the screens *)
(* do.                                                                     *)
ScreensAgree ==
  /\ \A m \in SharedModes : m \in screen[0].modes <=> m \in screen[1].modes
  /\ "NewLine" \in modes <=> "NewLine" \in screen[0].modes

(* At most one translation of characters is on, also after the saved one   *)
(* is brought back.                                                        *)
OneTranslation ==
  \A s \in Screens : /\ ~(charset[s].graphic /\ charset[s].pound)
                     /\ ~(charset[s].savedGraphic /\ charset[s].savedPound)

(* Both, for the sets and everything else.                                 *)
ModesInv == ModesTypeOK /\ OneTranslation

(* The copies of the modes are in step: one screen in use, displays and    *)
(* screens that know of it.                                                *)
InStep == OneScreenInUse /\ DisplaysFollow /\ ScreensAgree
=============================================================================
