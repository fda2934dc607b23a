------------------------------ MODULE ScreenView ------------------------------
(***************************************************************************)
(* The window through which the display looks at the lines of the history  *)
(* and the screen (ScreenWindow), the two timers that gather output into   *)
(* one update of the picture (Emulation), the count of lines the history   *)
(* has dropped since (Screen), and the scroll bar (TerminalDisplay).       *)
(*                                                                         *)
(* Output arrives at any time; the picture changes when a timer fires or   *)
(* the user scrolls.  In between, line numbers held by the window and the  *)
(* scroll bar are those of the last picture, while the history moves on.   *)
(*                                                                         *)
(* Abstracted: the text; the window is as high as the screen, so that line *)
(* HistLines is the last one at which it can start.                        *)
(***************************************************************************)
EXTENDS Integers

CONSTANTS
    FixedSizes,     \* the line counts a history of fixed size may be given
    Amounts,        \* by how many lines a key or the wheel scrolls
    MaxFile,        \* bound: lines an unlimited history reaches
    MaxDropped      \* bound: lines dropped between two updates

(* What setHistoryType may be given *)
None == 0
File == -1
HistoryTypes == FixedSizes \cup {None, File}

ASSUME ViewAssumption ==
    /\ FixedSizes \subseteq Nat \ {0}
    /\ Amounts \subseteq Nat
    /\ MaxFile \in Nat /\ MaxDropped \in Nat

VARIABLES
    histType,   \* the type of the primary screen's history, and the limit in
                \* force: setMaxNbLines changes the limit alone
    hist,       \* lines in that history
    dropped,    \* its _droppedLines
    screen,     \* the screen in use: 0, or 1, which has no history
    line,       \* ScreenWindow::_currentLine
    track,      \* ScreenWindow::_trackOutput
    bulk,       \* _bulkTimer1 and _bulkTimer2
    bar,        \* the scroll bar's maximum and value
    (* history variables *)
    unshown,    \* output has come that no update has shown
    picture     \* the last picture: its screen, the number its top line has
                \* by now (-1 when the history has lost it), and whether
                \* _droppedLines counts what was dropped since

vars == <<histType, hist, dropped, screen, line, track, bulk, bar, unshown, picture>>

Min2(a, b) == IF a <= b THEN a ELSE b
Max2(a, b) == IF a >= b THEN a ELSE b
Clamp(low, n, high) == Max2(low, Min2(n, high))

HistLines == IF screen = 0 THEN hist ELSE 0
DroppedLines == IF screen = 0 THEN dropped ELSE 0
currentLine == Clamp(0, line, HistLines)

TypeOK ==
    /\ histType \in [given : HistoryTypes, limit : HistoryTypes]
    /\ hist \in Nat /\ dropped \in Nat
    /\ screen \in {0, 1}
    /\ line \in Nat
    /\ track \in BOOLEAN
    /\ bulk \in [{1, 2} -> {"off", "running", "due"}]
    /\ bar \in [max : Nat, value : Nat]
    /\ unshown \in BOOLEAN
    /\ picture \in [screen : {0, 1}, top : Nat \cup {-1}, counted : BOOLEAN]

Init ==
    /\ \E t \in HistoryTypes : histType = [given |-> t, limit |-> t]
    /\ hist = 0 /\ dropped = 0 /\ screen = 0
    /\ line = 0 /\ track = TRUE
    /\ bulk = [i \in {1, 2} |-> "off"]
    /\ bar = [max |-> 0, value |-> 0]
    /\ unshown = FALSE
    /\ picture = [screen |-> 0, top |-> 0, counted |-> TRUE]

-----------------------------------------------------------------------------
(* The timers: 10 ms after the last output, 40 ms after the first *)

RestartsBoth == [i \in {1, 2} |-> "running"]   \* mutant: each output delays both
(* Emulation::bufferedUpdate *)
Restarted == [i \in {1, 2} |-> IF i = 1 \/ bulk[i] = "off" THEN "running" ELSE bulk[i]]

TimePasses(i) ==
    /\ bulk[i] = "running"
    /\ bulk' = [bulk EXCEPT ![i] = "due"]
    /\ UNCHANGED <<histType, hist, dropped, screen, line, track, bar, unshown, picture>>

-----------------------------------------------------------------------------
(* Output: Emulation::receiveData starts the timers and then handles what  *)
(* came.                                                                   *)

ReceiveData ==
    /\ bulk' = Restarted
    /\ unshown' = TRUE
    /\ UNCHANGED <<line, track, bar>>

(* Text that does not scroll.  A change of the selection does as much.     *)
Draw ==
    /\ ReceiveData
    /\ UNCHANGED <<histType, hist, dropped, screen, picture>>

(* Full: addCellsVector takes a line away before it appends.               *)
Full == histType.limit # File /\ hist > histType.limit

CountsAll == dropped + 1   \* mutant: every recorded line counts as dropped
CountsDropped == IF Full THEN dropped + 1 ELSE dropped

(* A line leaves the top of the screen: Screen::addHistLine *)
AddHistLine ==
    /\ ReceiveData
    /\ screen = 0 /\ histType.limit # None
    /\ hist < MaxFile \/ histType.limit # File
    /\ dropped < MaxDropped
    /\ dropped' = CountsDropped
    /\ IF Full
       THEN /\ hist' = hist
            /\ picture' = [picture EXCEPT !.top = IF picture.screen = 0 THEN Max2(-1, @ - 1) ELSE @]
       ELSE hist' = hist + 1 /\ UNCHANGED picture
    /\ UNCHANGED <<histType, screen>>

(* The history loses its first n lines and nobody counts them *)
LosesLines(n) ==
    picture' = IF n = 0 \/ picture.screen = 1 THEN picture
               ELSE [picture EXCEPT !.top = Max2(-1, @ - n), !.counted = FALSE]

(* Screen::setScroll with a new, empty history of the same type *)
ClearHistory ==
    /\ ReceiveData
    /\ hist' = 0
    /\ histType' = [histType EXCEPT !.limit = histType.given]
    /\ LosesLines(hist)
    /\ UNCHANGED <<dropped, screen>>

(* Emulation::setScreen *)
SwitchScreen ==
    /\ ReceiveData
    /\ screen' = 1 - screen
    /\ UNCHANGED <<histType, hist, dropped, picture>>

-----------------------------------------------------------------------------
(* Updating the picture *)

(* TerminalDisplay::updateImage draws the lines from `from' on and sets    *)
(* the scroll bar.                                                         *)
UpdateImage(from, lines, uncounted) ==
    /\ line' = from
    /\ bar' = [max |-> lines, value |-> from]
    /\ picture' = [screen |-> screen, top |-> from, counted |-> uncounted = 0]

NotifiedUnbounded(lines) ==   \* mutant: the lower bound is missing
    IF track THEN lines ELSE Min2(line - DroppedLines, lines)
(* ScreenWindow::notifyOutputChanged, with `lines' in the history *)
Notified(lines) == IF track THEN lines ELSE Min2(Max2(0, line - DroppedLines), lines)

(* Emulation::showBulk *)
ShowBulk(lines) ==
    /\ bulk' = [j \in {1, 2} |-> "off"]
    /\ dropped' = IF screen = 0 THEN 0 ELSE dropped
    /\ UpdateImage(Notified(lines), lines, dropped')
    /\ unshown' = FALSE
    /\ UNCHANGED <<screen, track>>

BulkTimeout(i) ==
    /\ bulk[i] = "due"
    /\ ShowBulk(HistLines)
    /\ UNCHANGED <<histType, hist>>

(* The user drags or clicks the scroll bar: scrollBarPositionChanged.  The *)
(* bar's range is that of the last picture.                                *)
BarTracksDown(v) == v > bar.value   \* mutant: scrolling down tracks
BarTracks(v) == v = bar.max
ScrollBar(v) ==
    /\ v \in 0 .. bar.max /\ v # bar.value
    /\ track' = BarTracks(v)
    /\ UpdateImage(Clamp(0, v, HistLines), HistLines, dropped)
    /\ UNCHANGED <<histType, hist, dropped, screen, bulk, unshown>>

(* Keys: scrollScreenWindow *)
ScrollBy(n) ==
    LET l == Clamp(0, currentLine + n, HistLines)
    IN  /\ track' = (l = HistLines)
        /\ UpdateImage(l, HistLines, dropped)
        /\ UNCHANGED <<histType, hist, dropped, screen, bulk, unshown>>

ScrollToEnd ==
    /\ bar.value # bar.max
    /\ track' = TRUE
    /\ UpdateImage(Clamp(0, bar.max, HistLines), HistLines, dropped)
    /\ UNCHANGED <<histType, hist, dropped, screen, bulk, unshown>>

(* The profile changes: Emulation::setHistory, which updates at once.      *)
(* After Screen::setScroll a history of lines becomes one of none; one of  *)
(* fixed size is emptied unless the old one was of fixed size too, which   *)
(* is only cut; a file takes over what there is.                           *)
Fixed(t) == t \in FixedSizes
KeptLines(t) ==
    IF t = File THEN hist
    ELSE IF Fixed(t) /\ Fixed(histType.given) THEN Min2(hist, t)
    ELSE 0
SetHistory(t) ==
    /\ hist' = KeptLines(t)
    /\ histType' = [given |-> IF Fixed(t) /\ Fixed(histType.given) THEN histType.given ELSE t,
                    limit |-> t]
    /\ ShowBulk(IF screen = 0 THEN hist' ELSE 0)

-----------------------------------------------------------------------------
Output == Draw \/ AddHistLine \/ ClearHistory \/ SwitchScreen
User ==
    \/ \E v \in 0 .. bar.max : ScrollBar(v)
    \/ \E n \in Amounts : ScrollBy(n) \/ ScrollBy(-n)
    \/ ScrollToEnd
Timers == \E i \in {1, 2} : TimePasses(i) \/ BulkTimeout(i)

Next == Output \/ User \/ Timers \/ \E t \in HistoryTypes : SetHistory(t)

(* A timer that runs becomes due; the event loop gets to a due timer, for  *)
(* a chunk of output is handled in bounded time.                           *)
Fairness == \A i \in {1, 2} : WF_vars(TimePasses(i)) /\ WF_vars(BulkTimeout(i))

Spec == Init /\ [][Next]_vars
FairSpec == Spec /\ Fairness

-----------------------------------------------------------------------------
(* However fast output comes, and although each piece of it starts the     *)
(* first timer anew, what came is shown in the end (bufferedUpdate).       *)
OutputShown == unshown ~> ~unshown

(* When everything has been shown, a window that tracks output shows its   *)
(* end: the scroll bar's stale range, the clamps and the switches between  *)
(* screens leave no window that is taken to be at the end and is not       *)
(* (scrollBarPositionChanged, scrollTo, notifyOutputChanged).              *)
TrackedViewAtEnd == track /\ ~unshown => line = HistLines

(* While the user reads the history, output does not move what is read: an *)
(* update starts with the line that was on top, or the first one there is. *)
(* Provided _droppedLines counts what was dropped since the last picture   *)
(* (notifyOutputChanged, addHistLine).                                     *)
Stays == picture'.top = Max2(0, picture.top)
CountedViewStays ==
    [][ \A i \in {1, 2} :
          BulkTimeout(i) /\ ~track /\ picture.screen = screen /\ picture.counted => Stays ]_vars

(* ScreenWindow.cpp, notifyOutputChanged: the dropped lines are taken off, *)
(* "otherwise the output will scroll".  They are counted since the last    *)
(* update, not since the user scrolled: lines dropped in between are taken *)
(* off twice.                                                              *)
PinnedViewStays ==
    [][ \A i \in {1, 2} : BulkTimeout(i) /\ ~track /\ picture.screen = screen => Stays ]_vars
=============================================================================
