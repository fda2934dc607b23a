---------------------------- MODULE TerminalPane ----------------------------
(***************************************************************************)
(* The Qt Creator output pane that holds the terminal tabs                 *)
(* (TerminalOutputPane), the windows in it (TerminalWindow) and the list   *)
(* of sessions the session manager keeps (SessionManager::_sessions).      *)
(*                                                                         *)
(* Everything runs on one thread; what interleaves are event-loop turns:   *)
(* the user's clicks, the exits of shells, the 200 ms timer that closes    *)
(* the tab of a session that ended, the 1 ms timer that finishes a session *)
(* whose process was dead already, and - inside the nested event loop that *)
(* QMenu::exec runs - all of the timers and exits while a menu is open.    *)
(*                                                                         *)
(* Tab positions are counted from 0 as in the code.  A terminal is its id. *)
(***************************************************************************)
EXTENDS Integers, Sequences, SequencesExt

CONSTANTS MaxTerminals,   \* how many terminals are ever opened
          MaxMoves        \* how many times the user drags a tab

ASSUME PaneAssumption == MaxTerminals \in Nat \ {0} /\ MaxMoves \in Nat

VARIABLES
    tabs,          \* the QTabWidget: the ids of its windows, left to right
    windows,       \* the keys of _windows
    tabIndex,      \* TerminalWindow::_tabIndex of every terminal
    nextNumber,    \* _nextTerminalNumber
    activeWindow,  \* the id of _activeWindow, NoTab for nullptr
    enabled,       \* which of the three menu actions are enabled
    visible,       \* is the pane shown
    menu,          \* the index ShowContextMenu holds while its menu is open
    closeTimers,   \* the pending 200 ms timers, oldest first
    session,       \* the state of the session of every terminal
    sized,         \* has the view of the first terminal had a size
    moves,         \* tabs dragged so far
    crashed        \* has CloseTab used the null pointer of a missing tab

paneVars == <<tabs, windows, tabIndex, nextNumber, activeWindow, enabled, visible>>
vars == <<paneVars, menu, closeTimers, session, sized, moves, crashed>>

Ids == 1 .. MaxTerminals
NoTab == 0
NoMenu == -2

(* The session of a terminal goes through the states of SessionContract *)
Contract(id) == INSTANCE SessionContract WITH state <- session[id]
SessionState == Contract(1)!States

(* SessionManager::_sessions *)
sessions == {id \in Ids : session[id] \notin {"none", "ended"}}

(* QTabWidget::widget: the null pointer is NoTab *)
Widget(i) == IF i \in 0 .. Len(tabs) - 1 THEN tabs[i + 1] ELSE NoTab

Position(id) == (CHOOSE p \in 1 .. Len(tabs) : tabs[p] = id) - 1

TypeOK ==
    /\ tabs \in Seq(Ids)
    /\ windows \subseteq Ids
    /\ tabIndex \in [Ids -> Nat]
    /\ nextNumber \in 1 .. MaxTerminals + 1
    /\ activeWindow \in Ids \cup {NoTab}
    /\ enabled \in [current : BOOLEAN, all : BOOLEAN, other : BOOLEAN]
    /\ visible \in BOOLEAN
    /\ menu \in {NoMenu} \cup (-1 .. MaxTerminals - 1)
    /\ closeTimers \in Seq([id : Ids, idx : Nat])
    /\ session \in [Ids -> SessionState]
    /\ sized \in BOOLEAN
    /\ moves \in 0 .. MaxMoves
    /\ crashed \in BOOLEAN

Init ==
    /\ tabs = <<>>
    /\ windows = {}
    /\ tabIndex = [id \in Ids |-> 0]
    /\ nextNumber = 1
    /\ activeWindow = NoTab
    /\ enabled = [current |-> TRUE, all |-> TRUE, other |-> TRUE]
    /\ visible = FALSE
    /\ menu = NoMenu
    /\ closeTimers = <<>>
    /\ session = [id \in Ids |-> "none"]
    /\ sized = FALSE
    /\ moves = 0
    /\ crashed = FALSE

-----------------------------------------------------------------------------
(* TerminalOutputPane::UpdateCloseState for n tabs *)
UpdateCloseState(n) == enabled' = [current |-> n > 0, all |-> n > 0, other |-> n > 1]

NewTabIndexZeroBased == Len(tabs) - 1   \* mutant: counted before the tab is added
NewTabIndexFront == 0                   \* mutant: as if tabs were inserted in front
(* The position QTabWidget::addTab returns, kept in _tabIndex *)
NewTabIndex == Len(tabs)

(* AddTab: the session is created and its shell started, or fails to start *)
AddTab ==
    LET id == nextNumber IN
    /\ id \in Ids
    /\ nextNumber' = id + 1
    /\ windows' = windows \cup {id}
    /\ tabs' = Append(tabs, id)
    /\ tabIndex' = [tabIndex EXCEPT ![id] = NewTabIndex]
    /\ activeWindow' = id
    /\ UpdateCloseState(Len(tabs) + 1)
    /\ \E started \in BOOLEAN :
         session' = [session EXCEPT ![id] = IF started THEN "running" ELSE "failed"]

(* mutant: no timer *)
AfterCloseIfRunning(s) == IF s = "running" THEN "closing" ELSE s
(* mutant: the user's request is not noted *)
AfterCloseUnrequested(s) == IF s \in {"failed", "dead"} THEN "finishing" ELSE s
(* The state Session::close leaves when the process did not die in time, or *)
(* was dead already, or was started again after done() had been             *)
(* disconnected: then nobody hears of its end.                              *)
AfterClose(s) ==
    CASE s = "running" -> "closing"
      [] s \in {"failed", "dead"} -> "finishing"
      [] s = "revived" -> "leaked"
      [] OTHER -> s

(* What the destruction of the views of the terminals S does to their      *)
(* sessions: Session::viewDestroyed, removeView and close.  A session that *)
(* runs is killed, and either dies in time (finished is emitted before     *)
(* close returns) or not; one without a process finishes from a timer.     *)
CloseSessions(S) ==
    \E died \in SUBSET {id \in S : session[id] = "running"} :
        session' = [id \in Ids |->
            IF id \notin S THEN session[id]
            ELSE IF id \in died THEN "ended" ELSE AfterClose(session[id])]

ForgetNoWindow(S) == windows   \* mutant
(* The key CloseTab takes out of _windows for each widget it deletes *)
ForgetWindows(S) == windows \ S

(* What QTabWidget makes current when the tabs S go and `rest' stays: the  *)
(* tab that was, or its right-hand neighbour, or else the last tab.        *)
CurrentAfter(S, rest) ==
    IF activeWindow \notin S THEN activeWindow
    ELSE IF rest = <<>> THEN NoTab
    ELSE LET p == Position(activeWindow) + 1
         IN  rest[IF p <= Len(rest) THEN p ELSE Len(rest)]

(* CloseTab once for every widget in S, which leaves `rest'                *)
CloseTabsOf(S, rest) ==
    /\ tabs' = rest
    /\ windows' = ForgetWindows(S)
    /\ activeWindow' = CurrentAfter(S, rest)
    /\ CloseSessions(S)
    /\ IF S = {} THEN UNCHANGED enabled ELSE UpdateCloseState(Len(rest))
    /\ visible' = (visible /\ (S # {} => windows' # {}))
    /\ UNCHANGED <<tabIndex, nextNumber, crashed>>

(* mutant: a session that has finished is run again *)
RestartedEnded(s) ==
    CASE s = "failed" -> "running" [] s \in {"dead", "ended"} -> "revived" [] OTHER -> s
(* Session::run again, from the first size of the screen *)
Restarted(s) == CASE s = "failed" -> "running" [] s = "dead" -> "revived" [] OTHER -> s

(* The first size a view gets calls run().  Only the first terminal can be *)
(* without one for long: it is opened while the pane is hidden, and any    *)
(* other when the pane is shown.                                           *)
GetsSize(id) ==
    \/ session' = [session EXCEPT ![id] = Restarted(@)]
    \/ UNCHANGED session    \* no shell could be started

(* CloseTab(index): the tab goes; or the assertion on -1 fails and the     *)
(* call returns; or the null widget of a missing tab is dereferenced.      *)
CloseTab(index) ==
    IF Widget(index) # NoTab
    THEN CloseTabsOf({Widget(index)}, RemoveAt(tabs, index + 1))
    ELSE /\ crashed' = (index # -1)
         /\ UNCHANGED <<paneVars, session>>

CloseAllTabs(except) ==
    LET kept == Widget(except)
    IN  CloseTabsOf(Range(tabs) \ {kept}, IF kept = NoTab THEN <<>> ELSE <<kept>>)

-----------------------------------------------------------------------------
(* What the user does to the pane; a menu that is open grabs the input     *)
UserCanAct == ~crashed /\ menu = NoMenu /\ nextNumber > 1

OutputWidget ==
    /\ ~crashed /\ nextNumber = 1
    /\ AddTab
    /\ UNCHANGED <<visible, sized, menu, closeTimers, moves, crashed>>

AddButtonClicked ==
    /\ UserCanAct /\ visible
    /\ AddTab
    /\ UNCHANGED <<visible, sized, menu, closeTimers, moves, crashed>>

VisibilityChanged ==
    /\ UserCanAct
    /\ visible' = ~visible
    /\ sized' = TRUE
    /\ IF visible' /\ windows = {}
       THEN AddTab
       ELSE /\ IF sized THEN UNCHANGED session ELSE GetsSize(activeWindow)
            /\ UNCHANGED <<tabs, windows, tabIndex, nextNumber, activeWindow, enabled>>
    /\ UNCHANGED <<menu, closeTimers, moves, crashed>>

TabSelected(id) ==
    /\ UserCanAct /\ visible
    /\ id \in Range(tabs) \ {activeWindow}
    /\ activeWindow' = id
    /\ UNCHANGED <<tabs, windows, tabIndex, nextNumber, enabled, visible,
                   menu, closeTimers, session, sized, moves, crashed>>

(* A drag takes the tab at i to j; QTabWidget keeps the current window *)
TabMoved(i, j) ==
    /\ UserCanAct /\ visible
    /\ moves < MaxMoves
    /\ i # j
    /\ tabs' = InsertAt(RemoveAt(tabs, i + 1), j + 1, tabs[i + 1])
    /\ moves' = moves + 1
    /\ UNCHANGED <<windows, tabIndex, nextNumber, activeWindow, enabled, visible,
                   menu, closeTimers, session, sized, crashed>>

TabCloseRequested(i) ==
    /\ UserCanAct /\ visible
    /\ CloseTab(i)
    /\ UNCHANGED <<menu, closeTimers, sized, moves>>

(* ShowContextMenu up to QMenu::exec; -1 is a click beside the tabs *)
ShowContextMenu(index) ==
    /\ UserCanAct /\ visible
    /\ activeWindow # NoTab
    /\ enabled' = [enabled EXCEPT !.current = index >= 0, !.other = index >= 0]
    /\ menu' = index
    /\ UNCHANGED <<tabs, windows, tabIndex, nextNumber, activeWindow, visible,
                   closeTimers, session, sized, moves, crashed>>

(* ... and after it: the action chosen, if any, with the index of before *)
MenuReturns ==
    /\ ~crashed /\ menu # NoMenu
    /\ menu' = NoMenu
    /\ \/ enabled.current /\ CloseTab(menu)
       \/ enabled.all /\ CloseAllTabs(-1)
       \/ enabled.other /\ CloseAllTabs(menu)
       \/ UNCHANGED <<paneVars, session, crashed>>
    /\ UNCHANGED <<closeTimers, sized, moves>>

-----------------------------------------------------------------------------
TimerIndexById(id) == id   \* mutant: terminal number taken for a tab index
(* What the lambda of the close timer captures *)
TimerIndex(id) == tabIndex[id]

(* finished() reaches the manager, the window and SessionEnded: the timer  *)
(* is started only if the terminal is still in _windows.                   *)
SessionFinished(id) ==
    /\ session' = [session EXCEPT ![id] = "ended"]
    /\ closeTimers' = IF id \in windows
                      THEN Append(closeTimers, [id |-> id, idx |-> TimerIndex(id)])
                      ELSE closeTimers

(* The shell exits: Session::done, if it is still connected *)
ShellExits(id) ==
    /\ ~crashed
    /\ \/ session[id] \in {"running", "closing"} /\ SessionFinished(id)
       \/ /\ session[id] \in {"running", "revived"}
          /\ session' = [session EXCEPT ![id] = "dead"]
          /\ UNCHANGED closeTimers
    /\ UNCHANGED <<paneVars, sized, menu, moves, crashed>>

(* Output of the shell can set the size of the screen as well *)
OutputSetsSize ==
    /\ ~crashed
    /\ ~sized /\ 1 \in windows
    /\ sized' = TRUE
    /\ GetsSize(1)
    /\ UNCHANGED <<paneVars, closeTimers, menu, moves, crashed>>

(* The 1 ms timer of Session::close *)
FinishTimer(id) ==
    /\ ~crashed
    /\ session[id] = "finishing"
    /\ SessionFinished(id)
    /\ UNCHANGED <<paneVars, sized, menu, moves, crashed>>

(* The 200 ms timer of SessionEnded *)
CloseTimer ==
    /\ ~crashed
    /\ closeTimers # <<>>
    /\ CloseTab(Head(closeTimers).idx)
    /\ closeTimers' = Tail(closeTimers)
    /\ UNCHANGED <<menu, sized, moves>>

User ==
    \/ OutputWidget \/ AddButtonClicked \/ VisibilityChanged
    \/ \E id \in Ids : TabSelected(id)
    \/ \E i, j \in 0 .. Len(tabs) - 1 : TabMoved(i, j)
    \/ \E i \in 0 .. Len(tabs) - 1 : TabCloseRequested(i)
    \/ \E i \in -1 .. Len(tabs) - 1 : ShowContextMenu(i)
    \/ MenuReturns

Next ==
    \/ User
    \/ \E id \in Ids : ShellExits(id) \/ FinishTimer(id)
    \/ OutputSetsSize \/ CloseTimer

(* The event loop delivers timers that are due; a process that was sent    *)
(* SIGKILL exits in the end.  The user owes the program nothing.           *)
Fairness ==
    /\ WF_vars(CloseTimer)
    /\ \A id \in Ids :
        /\ WF_vars(FinishTimer(id))
        /\ WF_vars(session[id] = "closing" /\ ShellExits(id))

-----------------------------------------------------------------------------
(* The pane's table of windows, its tab bar and its active window agree    *)
(* after every turn: CloseTab and AddTab keep the three in step, also when *)
(* the tab that closes is not the one that was meant.                      *)
PaneInSync ==
    /\ windows = Range(tabs)
    /\ IsInjective(tabs)
    /\ activeWindow \in windows \cup {NoTab}
    /\ activeWindow = NoTab <=> tabs = <<>>

(* A session without a tab is on its way out: whatever closed the tab, the *)
(* session was killed or its finishing timer runs (Session.h:119, "when    *)
(* the last view is removed, the session will be closed automatically").   *)
(* The one exception is a first terminal that was opened while the pane    *)
(* was hidden, whose shell died there and was started again.               *)
NoLeakedSession ==
    \A id \in sessions \ windows :
        session[id] \in {"closing", "finishing"} \/ (session[id] = "leaked" /\ id = 1 /\ sized)

(* The pane never sees a session do what its contract does not allow *)
SessionsKeepContract ==
    [][\A id \in Ids : Contract(id)!Next \/ session'[id] = session[id]]_vars

(* _tabIndex is never updated.  As long as nobody drags a tab it can only  *)
(* be too high: the close timer of a session that ended never takes a tab  *)
(* to the left of its own.                                                 *)
NoDragIndexNeverLow ==
    moves = 0 => \A id \in windows : tabIndex[id] >= Position(id)

(* The session of a closed tab is forgotten by the session manager in the  *)
(* end, whichever of its ways out it takes, unless it has leaked.          *)
OrphansReaped ==
    \A id \in Ids :
        (id \in sessions \ windows /\ session[id] # "leaked") ~> (id \notin sessions \/ crashed)

(* The tab that was opened first in an empty pane is closed after its      *)
(* session ended, as long as no tab is dragged: its index 0 stays right.   *)
FirstTabCloses ==
    \A id \in Ids :
        (id \in windows /\ session[id] = "ended" /\ tabIndex[id] = 0 /\ moves = 0)
            ~> (id \notin windows \/ crashed \/ moves > 0)

Spec == Init /\ [][Next]_vars
FairSpec == Spec /\ Fairness
=============================================================================
