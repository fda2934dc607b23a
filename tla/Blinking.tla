------------------------------- MODULE Blinking -------------------------------
(***************************************************************************)
(* The blinking of the cursor and of text in a TerminalDisplay: two timers *)
(* that its profile, escape sequences, the focus, keys and every update of *)
(* the picture start and stop.                                             *)
(***************************************************************************)
VARIABLES
  cursorBlink,  \* _allowBlinkingCursor, _blinkCursorTimer and _cursorBlinking
  textBlink,    \* _allowBlinkingText, _blinkTextTimer and _textBlinking
  blinkers      \* _hasTextBlinker: there is text that blinks

blinkVars == <<cursorBlink, textBlink, blinkers>>
Blink == [allowed : BOOLEAN, running : BOOLEAN, hidden : BOOLEAN]

BlinkInit ==
  /\ cursorBlink = [allowed |-> FALSE, running |-> FALSE, hidden |-> FALSE]
  /\ textBlink = [allowed |-> TRUE, running |-> FALSE, hidden |-> FALSE]
  /\ blinkers = FALSE

StoppedHidden(b) == [b EXCEPT !.running = FALSE]   \* mutant: stays hidden
Stopped(b) == [b EXCEPT !.running = FALSE, !.hidden = FALSE]
Started(b) == [b EXCEPT !.running = TRUE]

(* setBlinkingCursorEnabled and setBlinkingTextEnabled, for a profile or   *)
(* an escape sequence                                                      *)
Enabled(b, blink) ==
  LET set == [b EXCEPT !.allowed = blink]
  IN  IF blink THEN Started(set) ELSE IF b.running THEN Stopped(set) ELSE set
SetBlinkingCursorEnabled(blink) ==
  cursorBlink' = Enabled(cursorBlink, blink) /\ UNCHANGED <<textBlink, blinkers>>
SetBlinkingTextEnabled(blink) ==
  textBlink' = Enabled(textBlink, blink) /\ UNCHANGED <<cursorBlink, blinkers>>

FocusOut ==
  /\ cursorBlink' = Stopped(cursorBlink)
  /\ textBlink' = Stopped(textBlink)
  /\ UNCHANGED blinkers

FocusIn ==
  /\ cursorBlink' = IF cursorBlink.allowed THEN Started(cursorBlink) ELSE cursorBlink
  /\ textBlink' = IF textBlink.allowed /\ blinkers THEN Started(textBlink) ELSE textBlink
  /\ UNCHANGED blinkers

BlinkCursorEvent ==
  /\ cursorBlink.running
  /\ cursorBlink' = [cursorBlink EXCEPT !.hidden = ~@]
  /\ UNCHANGED <<textBlink, blinkers>>
BlinkTextEvent ==
  /\ textBlink.running
  /\ textBlink' = [textBlink EXCEPT !.hidden = ~@]
  /\ UNCHANGED <<cursorBlink, blinkers>>

(* updateImage, with text that blinks or without, focused or not *)
BlinkingImage(some) ==
  /\ blinkers' = some
  /\ textBlink' = IF some THEN IF textBlink.allowed THEN Started(textBlink) ELSE textBlink
                  ELSE IF textBlink.running THEN Stopped(textBlink) ELSE textBlink
  /\ UNCHANGED cursorBlink

(* keyPressEvent shows the cursor, for a whole period *)
KeyShowsCursor ==
  /\ cursorBlink' = IF cursorBlink.allowed
                    THEN [Started(cursorBlink) EXCEPT !.hidden = FALSE] ELSE cursorBlink
  /\ UNCHANGED <<textBlink, blinkers>>

BlinkNext ==
  \/ \E b \in BOOLEAN :
       SetBlinkingCursorEnabled(b) \/ SetBlinkingTextEnabled(b) \/ BlinkingImage(b)
  \/ FocusOut \/ FocusIn \/ BlinkCursorEvent \/ BlinkTextEvent \/ KeyShowsCursor
BlinkSpec == BlinkInit /\ [][BlinkNext]_blinkVars

-----------------------------------------------------------------------------
(* What is hidden has a timer that will show it again, and a timer runs    *)
(* only while blinking is allowed, whichever of profile, focus, keys and   *)
(* output acted last: the assertions of the two timers' handlers, of       *)
(* focusOutEvent and of setBlinkingCursorEnabled hold.                     *)
WillShow(b) == b \in Blink /\ (b.hidden => b.running) /\ (b.running => b.allowed)
BlinkInv == WillShow(cursorBlink) /\ WillShow(textBlink) /\ blinkers \in BOOLEAN
=============================================================================
