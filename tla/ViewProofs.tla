------------------------------ MODULE ViewProofs ------------------------------
(***************************************************************************)
(* Proofs about ScreenView, for every set of history sizes and scroll      *)
(* amounts, about what blinks in the display (Blinking), and about         *)
(* selecting with the mouse (MouseSelection), for every size of the window *)
(* and the history and every text in it.                                   *)
(***************************************************************************)
EXTENDS ScreenView, Blinking, MouseSelection, WellFoundedInduction, TLAPS

(* The scroll bar has the range of the lines there are once all has been   *)
(* shown, and a tracking window is at its end.                             *)
AtEnd ==
    ~unshown => /\ bar.max = HistLines
                /\ track => line = HistLines

(* While the counter counts what was dropped since the last picture, it is *)
(* the distance from the window's line to the line now on top.             *)
Counted ==
    /\ picture.screen = 1 => line = 0 /\ picture.top = 0
    /\ picture.screen = 0 /\ picture.counted =>
         /\ picture.top = Max2(-1, line - dropped)
         /\ line <= hist

IInv == TypeOK /\ AtEnd /\ Counted

(* In the initial states nothing has been shown and nothing dropped.       *)
LEMMA InitEstablishes == Init => IInv
<1> SUFFICES ASSUME Init PROVE IInv
  OBVIOUS
<1>1. TypeOK
  <2>1. picture \in [screen : {0, 1}, top : Nat \cup {-1}, counted : BOOLEAN]
    BY DEF Init
  <2>2. histType \in [given : HistoryTypes, limit : HistoryTypes]
    BY DEF Init
  <2> QED
    BY <2>1, <2>2 DEF Init, TypeOK
<1>2. AtEnd /\ Counted
  BY DEF Init, AtEnd, Counted, HistLines, Max2
<1> QED
  BY <1>1, <1>2 DEF IInv

(* Each chunk of output starts the timers and leaves the window alone.     *)
LEMMA OutputPreserves == IInv /\ Output => IInv'
<1> SUFFICES ASSUME IInv, Output PROVE IInv'
  OBVIOUS
<1> USE ViewAssumption DEF IInv
<1>r. ReceiveData /\ bulk' \in [{1, 2} -> {"off", "running", "due"}]
  BY DEF Output, Draw, AddHistLine, ClearHistory, SwitchScreen, ReceiveData, Restarted, TypeOK
<1>e. AtEnd'
  BY <1>r DEF AtEnd, ReceiveData
<1>1. CASE Draw
  BY <1>1, <1>r, <1>e DEF Draw, ReceiveData, TypeOK, Counted
<1>2. CASE AddHistLine
  <2>1. TypeOK'
    BY <1>2, <1>r DEF AddHistLine, ReceiveData, CountsDropped, TypeOK, Max2
  <2>2. Counted'
    BY <1>2 DEF AddHistLine, ReceiveData, CountsDropped, TypeOK, Counted, Max2
  <2> QED
    BY <2>1, <2>2, <1>e
<1>3. CASE ClearHistory
  <2>1. TypeOK'
    <3>1. picture' \in [screen : {0, 1}, top : Nat \cup {-1}, counted : BOOLEAN]
      <4>1. CASE picture' = picture
        BY <4>1 DEF TypeOK
      <4>2. CASE picture' = [picture EXCEPT !.top = Max2(-1, @ - hist), !.counted = FALSE]
        <5>1. Max2(-1, picture.top - hist) \in Nat \cup {-1}
          BY DEF TypeOK, Max2
        <5> QED
          BY <4>2, <5>1 DEF TypeOK
      <4> QED
        BY <1>3, <4>1, <4>2 DEF ClearHistory, LosesLines
    <3>2. histType' \in [given : HistoryTypes, limit : HistoryTypes]
      BY <1>3 DEF ClearHistory, TypeOK
    <3> QED
      BY <1>3, <1>r, <3>1, <3>2 DEF ClearHistory, ReceiveData, TypeOK
  <2>2. Counted'
    BY <1>3 DEF ClearHistory, ReceiveData, LosesLines, TypeOK, Counted, Max2
  <2> QED
    BY <2>1, <2>2, <1>e
<1>4. CASE SwitchScreen
  BY <1>4, <1>r, <1>e DEF SwitchScreen, ReceiveData, TypeOK, Counted
<1> QED
  BY <1>1, <1>2, <1>3, <1>4 DEF Output

(* An update that starts at a line within the history leaves the picture   *)
(* as Counted says.                                                        *)
LEMMA PicturePlaced ==
  ASSUME NEW from \in Nat, TypeOK,
         hist' \in Nat, dropped' \in Nat, screen' = screen,
         from <= IF screen = 0 THEN hist' ELSE 0,
         UpdateImage(from, HistLines', dropped')
  PROVE  /\ line' \in Nat
         /\ bar' \in [max : Nat, value : Nat]
         /\ picture' \in [screen : {0, 1}, top : Nat \cup {-1}, counted : BOOLEAN]
         /\ bar'.max = HistLines'
         /\ Counted'
<1>1. HistLines' \in Nat
  BY DEF HistLines
<1>2. line' = from /\ bar' = [max |-> HistLines', value |-> from]
  BY DEF UpdateImage
<1>3. picture' = [screen |-> screen, top |-> from, counted |-> dropped' = 0]
  BY DEF UpdateImage
<1>4. picture'.screen = screen /\ picture'.top = from
  BY <1>3
<1>5. ASSUME picture'.counted PROVE dropped' = 0
  BY <1>3, <1>5
<1>6. Counted'
  <2>1. CASE screen = 0
    <3>1. line' <= hist'
      BY <1>2, <2>1
    <3>2. picture'.counted => picture'.top = Max2(-1, line' - dropped')
      BY <1>2, <1>4, <1>5 DEF Max2
    <3> QED
      BY <1>4, <2>1, <3>1, <3>2 DEF Counted
  <2>2. CASE screen = 1
    BY <1>2, <1>4, <2>2 DEF Counted
  <2> QED
    BY <2>1, <2>2 DEF TypeOK
<1>7. (dropped' = 0) \in BOOLEAN
  OBVIOUS
<1>8. picture' \in [screen : {0, 1}, top : Nat \cup {-1}, counted : BOOLEAN]
  BY <1>3, <1>7 DEF TypeOK
<1> QED
  BY <1>1, <1>2, <1>6, <1>8

(* The update made by a timer or a change of the history's type            *)
LEMMA ShowPreserves ==
  ASSUME IInv, hist' \in Nat, histType' \in [given : HistoryTypes, limit : HistoryTypes],
         ShowBulk(IF screen = 0 THEN hist' ELSE 0)
  PROVE  IInv'
<1> DEFINE lines == IF screen = 0 THEN hist' ELSE 0
<1>1. Notified(lines) \in Nat /\ Notified(lines) <= lines
  BY DEF Notified, IInv, TypeOK, DroppedLines, Min2, Max2
<1>2. screen' = screen /\ track' = track /\ unshown' = FALSE /\ dropped' \in Nat
  BY DEF ShowBulk, IInv, TypeOK
<1>3. HistLines' = lines
  BY <1>2 DEF HistLines
<1>4. UpdateImage(Notified(lines), HistLines', dropped')
  BY <1>3 DEF ShowBulk
<1>5. /\ line' \in Nat
      /\ bar' \in [max : Nat, value : Nat]
      /\ picture' \in [screen : {0, 1}, top : Nat \cup {-1}, counted : BOOLEAN]
      /\ bar'.max = HistLines'
      /\ Counted'
  BY <1>1, <1>2, <1>4, PicturePlaced DEF IInv
<1>6. bulk' \in [{1, 2} -> {"off", "running", "due"}]
  BY DEF ShowBulk
<1>7. TypeOK'
  BY <1>2, <1>5, <1>6 DEF TypeOK, IInv
<1>8. AtEnd'
  BY <1>2, <1>3, <1>4, <1>5 DEF AtEnd, UpdateImage, Notified
<1> QED
  BY <1>5, <1>7, <1>8 DEF IInv

(* What the user does moves the window and says whether it tracks output.  *)
LEMMA UserPreserves == IInv /\ User => IInv'
<1> SUFFICES ASSUME IInv, User PROVE IInv'
  OBVIOUS
<1> USE ViewAssumption DEF IInv
<1>1. /\ UNCHANGED <<histType, hist, dropped, screen, bulk, unshown>>
      /\ track' \in BOOLEAN
  BY DEF User, ScrollBar, ScrollBy, ScrollToEnd, BarTracks
<1>2. HistLines' = HistLines /\ HistLines \in Nat
  BY <1>1 DEF HistLines, TypeOK
<1>3. PICK from \in Nat : /\ from <= HistLines
                          /\ UpdateImage(from, HistLines, dropped)
                          /\ ~unshown /\ track' => from = HistLines
  <2>1. ASSUME NEW v \in 0 .. bar.max, ScrollBar(v)
        PROVE  LET from == Clamp(0, v, HistLines)
               IN  /\ from \in Nat /\ from <= HistLines
                   /\ UpdateImage(from, HistLines, dropped)
                   /\ ~unshown /\ track' => from = HistLines
    BY <2>1, <1>2 DEF ScrollBar, BarTracks, AtEnd, TypeOK, Clamp, Min2, Max2
  <2>2. ASSUME NEW n \in Int, ScrollBy(n)
        PROVE  LET from == Clamp(0, currentLine + n, HistLines)
               IN  /\ from \in Nat /\ from <= HistLines
                   /\ UpdateImage(from, HistLines, dropped)
                   /\ ~unshown /\ track' => from = HistLines
    BY <2>2, <1>2 DEF ScrollBy, currentLine, TypeOK, Clamp, Min2, Max2
  <2>3. ASSUME ScrollToEnd
        PROVE  LET from == Clamp(0, bar.max, HistLines)
               IN  /\ from \in Nat /\ from <= HistLines
                   /\ UpdateImage(from, HistLines, dropped)
                   /\ ~unshown /\ track' => from = HistLines
    BY <2>3, <1>2 DEF ScrollToEnd, AtEnd, TypeOK, Clamp, Min2, Max2
  <2>4. CASE \E v \in 0 .. bar.max : ScrollBar(v)
    BY <2>1, <2>4
  <2>5. CASE \E n \in Amounts : ScrollBy(n) \/ ScrollBy(-n)
    <3>1. PICK n \in Int : ScrollBy(n)
      BY <2>5
    <3> QED
      BY <2>2, <3>1
  <2>6. CASE ScrollToEnd
    BY <2>3, <2>6
  <2> QED
    BY <2>4, <2>5, <2>6 DEF User
<1>4. /\ line' \in Nat
      /\ bar' \in [max : Nat, value : Nat]
      /\ picture' \in [screen : {0, 1}, top : Nat \cup {-1}, counted : BOOLEAN]
      /\ bar'.max = HistLines'
      /\ Counted'
  <2>1. from <= IF screen = 0 THEN hist' ELSE 0
    BY <1>1, <1>3 DEF HistLines
  <2>2. UpdateImage(from, HistLines', dropped')
    BY <1>1, <1>2, <1>3
  <2>3. hist' \in Nat /\ dropped' \in Nat /\ screen' = screen
    BY <1>1 DEF TypeOK
  <2> QED
    BY <2>1, <2>2, <2>3, PicturePlaced
<1>5. TypeOK'
  BY <1>1, <1>4 DEF TypeOK
<1>6. AtEnd'
  BY <1>1, <1>2, <1>3, <1>4 DEF AtEnd, UpdateImage
<1> QED
  BY <1>4, <1>5, <1>6

(* Every step of the specification preserves the invariant.                *)
LEMMA NextPreserves == IInv /\ [Next]_vars => IInv'
<1> SUFFICES ASSUME IInv, [Next]_vars PROVE IInv'
  OBVIOUS
<1>1. CASE Output
  BY <1>1, OutputPreserves
<1>2. CASE User
  BY <1>2, UserPreserves
<1>3. ASSUME NEW i \in {1, 2}, TimePasses(i)
      PROVE  IInv'
  BY <1>3 DEF TimePasses, IInv, TypeOK, AtEnd, Counted, HistLines
<1>4. ASSUME NEW i \in {1, 2}, BulkTimeout(i)
      PROVE  IInv'
  <2>1. UNCHANGED <<histType, hist>> /\ ShowBulk(HistLines)
    BY <1>4 DEF BulkTimeout
  <2>2. ShowBulk(IF screen = 0 THEN hist' ELSE 0)
    BY <2>1 DEF HistLines
  <2>3. hist' \in Nat /\ histType' \in [given : HistoryTypes, limit : HistoryTypes]
    BY <2>1 DEF IInv, TypeOK
  <2> QED
    BY <2>2, <2>3, ShowPreserves
<1>5. ASSUME NEW t \in HistoryTypes, SetHistory(t)
      PROVE  IInv'
  <2>1. KeptLines(t) \in Nat
    BY ViewAssumption DEF KeptLines, Fixed, Min2, IInv, TypeOK
  <2>2. hist' \in Nat /\ histType' \in [given : HistoryTypes, limit : HistoryTypes]
    BY <1>5, <2>1 DEF SetHistory, IInv, TypeOK
  <2>3. ShowBulk(IF screen = 0 THEN hist' ELSE 0)
    BY <1>5 DEF SetHistory
  <2> QED
    BY <2>2, <2>3, ShowPreserves
<1>6. CASE UNCHANGED vars
  BY <1>6 DEF vars, IInv, TypeOK, AtEnd, Counted, HistLines
<1> QED
  BY <1>1, <1>2, <1>3, <1>4, <1>5, <1>6 DEF Next, Timers

(* The invariant holds always.                                             *)
LEMMA Invariant == Spec => []IInv
<1> QED
  BY InitEstablishes, NextPreserves, PTL DEF Spec

(* The variables of the view keep their types.                             *)
THEOREM ViewTypes == Spec => []TypeOK
<1>1. IInv => TypeOK
  BY DEF IInv
<1> QED
  BY <1>1, Invariant, PTL

(* A window that tracks output shows its end once all has been shown, for  *)
(* histories of every size (ScreenWindow::notifyOutputChanged, the scroll  *)
(* bar's handlers).                                                        *)
THEOREM TracksTheEnd == Spec => []TrackedViewAtEnd
<1>1. IInv => TrackedViewAtEnd
  BY DEF IInv, AtEnd, TrackedViewAtEnd
<1> QED
  BY <1>1, Invariant, PTL

(* Output does not move what the user reads, as long as the counter of     *)
(* dropped lines counts from the last picture (ScreenWindow::              *)
(* notifyOutputChanged).                                                   *)
THEOREM ReadersKeepTheirPlace == Spec => CountedViewStays
<1>1. ASSUME IInv, NEW i \in {1, 2}, BulkTimeout(i), ~track,
             picture.screen = screen, picture.counted
      PROVE  Stays
  <2>1. picture'.top = Min2(Max2(0, line - DroppedLines), HistLines)
    BY <1>1 DEF BulkTimeout, ShowBulk, UpdateImage, Notified
  <2>2. CASE screen = 0
    BY <1>1, <2>1, <2>2 DEF Stays, IInv, TypeOK, Counted, DroppedLines, HistLines, Min2, Max2
  <2>3. CASE screen = 1
    BY <1>1, <2>1, <2>3 DEF Stays, IInv, TypeOK, Counted, DroppedLines, HistLines, Min2, Max2
  <2> QED
    BY <1>1, <2>2, <2>3 DEF IInv, TypeOK
<1>2. IInv => [\A i \in {1, 2} :
                 BulkTimeout(i) /\ ~track /\ picture.screen = screen /\ picture.counted
                 => Stays]_vars
  BY <1>1
<1> QED
  BY <1>2, Invariant, PTL DEF CountedViewStays

-----------------------------------------------------------------------------
(* Blinking *)

(* Stopping a timer shows what was hidden.                                 *)
LEMMA StoppedShows ==
  ASSUME NEW b, WillShow(b)
  PROVE  WillShow(Stopped(b)) /\ Stopped(b).allowed = b.allowed
BY DEF WillShow, Stopped, Blink

(* A timer may start only where blinking is allowed.                       *)
LEMMA StartedShows ==
  ASSUME NEW b, WillShow(b), b.allowed
  PROVE  WillShow(Started(b)) /\ WillShow([Started(b) EXCEPT !.hidden = FALSE])
BY DEF WillShow, Started, Blink

(* The switches start the timer with the permission, and take both away.   *)
LEMMA EnabledShows ==
  ASSUME NEW b, WillShow(b), NEW blink \in BOOLEAN
  PROVE  WillShow(Enabled(b, blink))
<1> DEFINE set == [b EXCEPT !.allowed = blink]
<1>1. CASE blink
  <2>1. set \in Blink /\ set.allowed /\ (set.hidden => set.running)
    BY <1>1 DEF WillShow, Blink
  <2>2. WillShow(set)
    BY <2>1 DEF WillShow
  <2> QED
    BY <2>1, <2>2, <1>1, StartedShows DEF Enabled
<1>2. CASE ~blink /\ b.running
  BY <1>2 DEF WillShow, Enabled, Stopped, Blink
<1>3. CASE ~blink /\ ~b.running
  BY <1>3 DEF WillShow, Enabled, Blink
<1> QED
  BY <1>1, <1>2, <1>3

(* A timer's tick hides or shows.                                          *)
LEMMA TickShows ==
  ASSUME NEW b, WillShow(b), b.running
  PROVE  WillShow([b EXCEPT !.hidden = ~@])
BY DEF WillShow, Blink

LEMMA BlinkStep == BlinkInv /\ [BlinkNext]_blinkVars => BlinkInv'
<1> SUFFICES ASSUME BlinkInv, [BlinkNext]_blinkVars PROVE BlinkInv'
  OBVIOUS
<1> USE DEF BlinkInv
<1>1. ASSUME NEW b \in BOOLEAN, SetBlinkingCursorEnabled(b) PROVE BlinkInv'
  BY <1>1, EnabledShows DEF SetBlinkingCursorEnabled
<1>2. ASSUME NEW b \in BOOLEAN, SetBlinkingTextEnabled(b) PROVE BlinkInv'
  BY <1>2, EnabledShows DEF SetBlinkingTextEnabled
<1>3. ASSUME NEW b \in BOOLEAN, BlinkingImage(b) PROVE BlinkInv'
  BY <1>3, StartedShows, StoppedShows DEF BlinkingImage
<1>4. CASE FocusOut
  BY <1>4, StoppedShows DEF FocusOut
<1>5. CASE FocusIn
  BY <1>5, StartedShows DEF FocusIn
<1>6. CASE BlinkCursorEvent
  BY <1>6, TickShows DEF BlinkCursorEvent
<1>7. CASE BlinkTextEvent
  BY <1>7, TickShows DEF BlinkTextEvent
<1>8. CASE KeyShowsCursor
  BY <1>8, StartedShows DEF KeyShowsCursor
<1>9. CASE UNCHANGED blinkVars
  BY <1>9 DEF blinkVars
<1> QED
  BY <1>1, <1>2, <1>3, <1>4, <1>5, <1>6, <1>7, <1>8, <1>9 DEF BlinkNext

(* Nothing stays hidden without a timer that will show it, whatever order  *)
(* profile, escape sequences, focus, keys and output come in               *)
(* (setBlinkingCursorEnabled, focusOutEvent and the timers' handlers).     *)
THEOREM HiddenWillShow == BlinkSpec => []BlinkInv
<1>1. ASSUME BlinkInit PROVE BlinkInv
  <2>1. cursorBlink \in Blink /\ textBlink \in Blink /\ blinkers \in BOOLEAN
    BY <1>1 DEF BlinkInit, Blink
  <2>2. ~cursorBlink.hidden /\ ~cursorBlink.running /\ ~textBlink.hidden /\ ~textBlink.running
    BY <1>1 DEF BlinkInit
  <2> QED
    BY <2>1, <2>2 DEF BlinkInv, WillShow
<1> QED
  BY <1>1, BlinkStep, PTL DEF BlinkSpec

-----------------------------------------------------------------------------
(* A set of naturals has a least element: the induction of the proofs      *)
(* about the searches.                                                     *)
LEMMA LeastExists ==
  ASSUME NEW T, T \subseteq Nat, T # {}
  PROVE  \E k \in T : \A y \in T : k <= y
<1> DEFINE R == OpToRel(<, Nat)
<1>1. IsWellFoundedOn(R, Nat)
  BY NatLessThanWellFounded
<1>2. \A k, y \in Nat : <<y, k>> \in R <=> y < k
  BY DEF OpToRel
<1> HIDE DEF R
<1>3. \E k \in T : \A y \in T : ~(<<y, k>> \in R)
  BY <1>1, WFMin
<1>4. PICK k \in T : \A y \in T : ~(y < k)
  BY <1>2, <1>3
<1>5. \A y \in T : k <= y
  BY <1>4
<1> QED
  BY <1>5

(* A loop: a function that is e where c does not hold and else its own     *)
(* value one step further.  There is one, whether or not the loop ends.    *)
Loops(f, D, c, s, e) == f = [p \in D |-> IF c[p] THEN f[s[p]] ELSE e[p]]

LEMMA LoopExists ==
  ASSUME NEW D, NEW c, NEW s, NEW e, \A p \in D : c[p] => s[p] \in D
  PROVE  \E f : Loops(f, D, c, s, e)
<1> DEFINE Closed(W) == \A u \in W : c[u] => s[u] \in W
           Orbit(p) == {q \in D : \A W \in SUBSET D : p \in W /\ Closed(W) => q \in W}
           Final(p) == {q \in Orbit(p) : ~c[q]}
           f == [p \in D |-> e[CHOOSE q : q \in Final(p)]]
<1>1. ASSUME NEW p \in D, ~c[p] PROVE f[p] = e[p]
  <2>1. {p} \in SUBSET D /\ p \in {p} /\ Closed({p})
    BY <1>1
  <2>2. Final(p) = {p}
    BY <1>1, <2>1
  <2> HIDE DEF Final
  <2>3. (CHOOSE q : q \in Final(p)) = p
    BY <2>2
  <2> QED
    BY <2>3
<1>2. ASSUME NEW p \in D, c[p] PROVE f[p] = f[s[p]]
  <2>1. s[p] \in D
    BY <1>2
  <2>2. ASSUME NEW q \in Final(s[p]) PROVE q \in Final(p)
    <3>1. ASSUME NEW W \in SUBSET D, p \in W, Closed(W) PROVE q \in W
      <4>1. s[p] \in W
        BY <1>2, <3>1
      <4> QED
        BY <2>2, <3>1, <4>1
    <3> QED
      BY <3>1
  <2>3. ASSUME NEW q \in Final(p) PROVE q \in Final(s[p])
    <3>1. ASSUME NEW W \in SUBSET D, s[p] \in W, Closed(W) PROVE q \in W
      <4>1. W \cup {p} \in SUBSET D /\ p \in W \cup {p} /\ Closed(W \cup {p})
        BY <2>1, <3>1
      <4>2. q \in W \cup {p}
        BY <4>1
      <4>3. q # p
        BY <1>2
      <4> QED
        BY <4>2, <4>3
    <3> QED
      BY <3>1
  <2>4. Final(p) = Final(s[p])
    BY <2>2, <2>3
  <2> HIDE DEF Final
  <2> QED
    BY <2>1, <2>4
<1>3. f = [p \in D |-> f[p]]
  OBVIOUS
<1> HIDE DEF f
<1>4. f = [p \in D |-> IF c[p] THEN f[s[p]] ELSE e[p]]
  BY <1>1, <1>2, <1>3
<1> QED
  BY <1>4 DEF Loops

(* The first row of a line                                                 *)
UpFrom(t, pic, f, v) == IF v > 0 /\ SeenWrapped(t, pic, v - 1) THEN f[v - 1] ELSE v

LEMMA LineStartLoops ==
  ASSUME NEW t, NEW pic, NEW y \in Nat
  PROVE  \E f : findLineStart(t, pic, y) = f[y] /\ \A v \in Nat : f[v] = UpFrom(t, pic, f, v)
<1> DEFINE up[v \in Nat] == IF v > 0 /\ SeenWrapped(t, pic, v - 1) THEN up[v - 1] ELSE v
           c == [v \in Nat |-> v > 0 /\ SeenWrapped(t, pic, v - 1)]
           s == [v \in Nat |-> v - 1]
           e == [v \in Nat |-> v]
<1>1. \A v \in Nat : c[v] => s[v] \in Nat
  <2> SUFFICES ASSUME NEW v \in Nat, c[v] PROVE s[v] \in Nat
    OBVIOUS
  <2>1. v > 0
    BY Zenon
  <2> QED
    BY <2>1
<1> HIDE DEF c, s, e
<1>2. PICK f : Loops(f, Nat, c, s, e)
  BY <1>1, LoopExists
<1>3. f = [v \in Nat |-> IF c[v] THEN f[s[v]] ELSE e[v]]
  BY <1>2 DEF Loops
<1>4. f = [v \in Nat |-> IF v > 0 /\ SeenWrapped(t, pic, v - 1) THEN f[v - 1] ELSE v]
  BY <1>3 DEF c, s, e
<1>5. up = [v \in Nat |-> UpFrom(t, pic, up, v)]
  BY <1>4 DEF UpFrom
<1> HIDE DEF up
<1>6. \A v \in Nat : up[v] = UpFrom(t, pic, up, v)
  BY <1>5
<1>7. findLineStart(t, pic, y) = up[y]
  BY DEF findLineStart, up
<1> QED
  BY <1>6, <1>7

LEMMA LineStartIsRow ==
  ASSUME NEW t, NEW pic, NEW y \in Nat
  PROVE  findLineStart(t, pic, y) \in Nat
<1>1. PICK f : findLineStart(t, pic, y) = f[y] /\ \A v \in Nat : f[v] = UpFrom(t, pic, f, v)
  BY LineStartLoops
<1> DEFINE Bad == {v \in Nat : f[v] \notin Nat}
<1>2. SUFFICES ASSUME Bad # {} PROVE FALSE
  BY <1>1
<1>3. PICK v \in Bad : \A u \in Bad : v <= u
  BY <1>2, LeastExists
<1>4. v > 0 /\ f[v] = f[v - 1]
  BY <1>1, <1>3 DEF UpFrom
<1>5. v - 1 \in Bad /\ ~(v <= v - 1)
  BY <1>3, <1>4
<1> QED
  BY <1>3, <1>5

(* The last row of a line                                                  *)
DownFrom(t, pic, f, v) == IF v < LastRow(t) /\ SeenWrapped(t, pic, v) THEN f[v + 1] ELSE v

LEMMA LineEndLoops ==
  ASSUME NEW t, NEW pic, NEW y \in Nat
  PROVE  \E f : findLineEnd(t, pic, y) = f[y] /\ \A v \in Nat : f[v] = DownFrom(t, pic, f, v)
<1> DEFINE down[v \in Nat] == IF v < LastRow(t) /\ SeenWrapped(t, pic, v) THEN down[v + 1] ELSE v
           c == [v \in Nat |-> v < LastRow(t) /\ SeenWrapped(t, pic, v)]
           s == [v \in Nat |-> v + 1]
           e == [v \in Nat |-> v]
<1>1. \A v \in Nat : c[v] => s[v] \in Nat
  OBVIOUS
<1> HIDE DEF c, s, e
<1>2. PICK f : Loops(f, Nat, c, s, e)
  BY <1>1, LoopExists
<1>3. f = [v \in Nat |-> IF c[v] THEN f[s[v]] ELSE e[v]]
  BY <1>2 DEF Loops
<1>4. f = [v \in Nat |-> IF v < LastRow(t) /\ SeenWrapped(t, pic, v) THEN f[v + 1] ELSE v]
  BY <1>3 DEF c, s, e
<1>5. down = [v \in Nat |-> DownFrom(t, pic, down, v)]
  BY <1>4 DEF DownFrom
<1> HIDE DEF down
<1>6. \A v \in Nat : down[v] = DownFrom(t, pic, down, v)
  BY <1>5
<1>7. findLineEnd(t, pic, y) = down[y]
  BY DEF findLineEnd, down
<1> QED
  BY <1>6, <1>7

LEMMA LineEndIsRow ==
  ASSUME NEW t, NEW pic, NEW y \in Nat, LastRow(t) \in Nat
  PROVE  findLineEnd(t, pic, y) \in Nat
<1>1. PICK f : findLineEnd(t, pic, y) = f[y] /\ \A v \in Nat : f[v] = DownFrom(t, pic, f, v)
  BY LineEndLoops
<1> DEFINE Bad == {v \in Nat : f[v] \notin Nat}
           T == {LastRow(t) - v : v \in Bad}
<1>2. SUFFICES ASSUME Bad # {} PROVE FALSE
  BY <1>1
<1>3. \A v \in Bad : v < LastRow(t) /\ f[v] = f[v + 1]
  BY <1>1 DEF DownFrom
<1>4. T \subseteq Nat /\ T # {}
  BY <1>2, <1>3
<1>5. PICK v \in Bad : \A u \in Bad : LastRow(t) - v <= LastRow(t) - u
  <2> HIDE DEF T
  <2>1. PICK k \in T : \A y2 \in T : k <= y2
    BY <1>4, LeastExists
  <2> USE DEF T
  <2>2. PICK v \in Bad : k = LastRow(t) - v
    BY <2>1
  <2> QED
    BY <2>1, <2>2
<1>6. v + 1 \in Bad /\ ~(LastRow(t) - v <= LastRow(t) - (v + 1))
  BY <1>3, <1>5
<1> QED
  BY <1>5, <1>6

(* The first cell of a word, one cell after the other backwards            *)
Backs(t, class, p) == p[1] > 0 /\ charClass(Cell(t, p[1] - 1, p[2])) = class
Wraps(t, pic, class, p) ==
    /\ p[1] = 0 /\ p[2] > 0 /\ SeenWrapped(t, pic, p[2] - 1)
    /\ charClass(Cell(t, Columns - 1, p[2] - 1)) = class
BackFrom(t, pic, class, f, p) ==
    IF Backs(t, class, p) THEN f[<<p[1] - 1, p[2]>>]
    ELSE IF Wraps(t, pic, class, p) THEN f[<<Columns - 1, p[2] - 1>>] ELSE p
StartClass(t, pic, x, y) ==
    charClass(IF x < Columns THEN Cell(t, x, y) ELSE After(t, pic, Columns - 1, y, Bottom(pic)))

LEMMA WordStartLoops ==
  ASSUME NEW t, NEW pic, NEW x \in Nat, NEW y \in Nat
  PROVE  \E f : /\ findWordStart(t, pic, x, y) = f[<<x, y>>]
                /\ \A p \in Nat \X Nat : f[p] = BackFrom(t, pic, StartClass(t, pic, x, y), f, p)
<1> DEFINE class == charClass(IF x < Columns THEN Cell(t, x, y)
                              ELSE After(t, pic, Columns - 1, y, Bottom(pic)))
           back[p \in Nat \X Nat] ==
             CASE p[1] > 0 /\ charClass(Cell(t, p[1] - 1, p[2])) = class -> back[<<p[1] - 1, p[2]>>]
               [] p[1] = 0 /\ p[2] > 0 /\ SeenWrapped(t, pic, p[2] - 1)
                  /\ charClass(Cell(t, Columns - 1, p[2] - 1)) = class -> back[<<Columns - 1, p[2] - 1>>]
               [] OTHER -> p
           D == Nat \X Nat
           c == [p \in D |-> Backs(t, class, p) \/ Wraps(t, pic, class, p)]
           s == [p \in D |-> IF Backs(t, class, p) THEN <<p[1] - 1, p[2]>> ELSE <<Columns - 1, p[2] - 1>>]
           e == [p \in D |-> p]
<1>1. findWordStart(t, pic, x, y) = back[<<x, y>>]
  BY DEF findWordStart, back
<1>2. class = StartClass(t, pic, x, y)
  BY DEF StartClass
<1> HIDE DEF class
<1>3. \A p \in D : c[p] => s[p] \in D
  <2> SUFFICES ASSUME NEW p \in D, c[p] PROVE s[p] \in D
    OBVIOUS
  <2>1. p[1] \in Nat /\ p[2] \in Nat
    OBVIOUS
  <2>2. CASE Backs(t, class, p)
    <3>1. p[1] > 0
      BY <2>2 DEF Backs
    <3>2. s[p] = <<p[1] - 1, p[2]>>
      BY <2>2
    <3> QED
      BY <2>1, <3>1, <3>2
  <2>3. CASE ~Backs(t, class, p)
    <3>1. Wraps(t, pic, class, p)
      BY <2>3, Zenon
    <3>2. p[2] > 0
      BY <3>1 DEF Wraps
    <3>3. s[p] = <<Columns - 1, p[2] - 1>>
      BY <2>3
    <3> QED
      BY <2>1, <3>2, <3>3, SearchAssumption
  <2> QED
    BY <2>2, <2>3
<1> HIDE DEF c, s, e, D
<1>4. PICK f : Loops(f, D, c, s, e)
  BY <1>3, LoopExists
<1>5. f = [p \in D |-> IF c[p] THEN f[s[p]] ELSE e[p]]
  BY <1>4 DEF Loops
<1>6. \A p \in D : (IF c[p] THEN f[s[p]] ELSE e[p]) = BackFrom(t, pic, class, f, p)
  BY DEF c, s, e, BackFrom
<1>7. ASSUME NEW g, NEW p
      PROVE  BackFrom(t, pic, class, g, p) =
               CASE p[1] > 0 /\ charClass(Cell(t, p[1] - 1, p[2])) = class -> g[<<p[1] - 1, p[2]>>]
                 [] p[1] = 0 /\ p[2] > 0 /\ SeenWrapped(t, pic, p[2] - 1)
                    /\ charClass(Cell(t, Columns - 1, p[2] - 1)) = class -> g[<<Columns - 1, p[2] - 1>>]
                 [] OTHER -> p
  <2>1. ~(Backs(t, class, p) /\ Wraps(t, pic, class, p))
    BY DEF Backs, Wraps
  <2>2. BackFrom(t, pic, class, g, p) =
          CASE Backs(t, class, p) -> g[<<p[1] - 1, p[2]>>]
            [] Wraps(t, pic, class, p) -> g[<<Columns - 1, p[2] - 1>>]
            [] OTHER -> p
    BY <2>1 DEF BackFrom
  <2> QED
    BY <2>2 DEF Backs, Wraps
<1>8. f = [p \in D |-> BackFrom(t, pic, class, f, p)]
  BY <1>5, <1>6
<1> DEFINE Body(g, p) ==
             CASE p[1] > 0 /\ charClass(Cell(t, p[1] - 1, p[2])) = class -> g[<<p[1] - 1, p[2]>>]
               [] p[1] = 0 /\ p[2] > 0 /\ SeenWrapped(t, pic, p[2] - 1)
                  /\ charClass(Cell(t, Columns - 1, p[2] - 1)) = class -> g[<<Columns - 1, p[2] - 1>>]
               [] OTHER -> p
<1>9. back = [p \in D |-> BackFrom(t, pic, class, back, p)]
  <2>1. \A g, p : BackFrom(t, pic, class, g, p) = Body(g, p)
    BY <1>7
  <2>2. f = [p \in D |-> Body(f, p)]
    <3> HIDE DEF Body
    <3>1. \A p \in D : BackFrom(t, pic, class, f, p) = Body(f, p)
      BY <2>1
    <3> QED
      BY <1>8, <3>1
  <2>3. back = [p \in Nat \X Nat |-> Body(back, p)]
    BY <2>2, Zenon DEF D
  <2> HIDE DEF back, Body
  <2>4. \A p \in D : BackFrom(t, pic, class, back, p) = Body(back, p)
    BY <2>1
  <2> QED
    BY <2>3, <2>4 DEF D
<1> HIDE DEF back
<1>10. \A p \in Nat \X Nat : back[p] = BackFrom(t, pic, class, back, p)
  BY <1>9 DEF D
<1> QED
  BY <1>1, <1>2, <1>10

(* A place on a row: the column after the last one is one.                 *)
LEMMA WordStartIsPlace ==
  ASSUME NEW t, NEW pic, NEW x \in 0 .. Columns, NEW y \in Nat
  PROVE  /\ findWordStart(t, pic, x, y) \in Int \X Int
         /\ findWordStart(t, pic, x, y)[1] \in 0 .. Columns
         /\ findWordStart(t, pic, x, y)[2] \in Nat
<1>s. Columns \in Nat /\ Columns >= 2 /\ x \in Nat
  BY SearchAssumption
<1>1. PICK f : /\ findWordStart(t, pic, x, y) = f[<<x, y>>]
               /\ \A p \in Nat \X Nat : f[p] = BackFrom(t, pic, StartClass(t, pic, x, y), f, p)
  BY <1>s, WordStartLoops
<1> DEFINE P == (0 .. Columns) \X Nat
           BadIn(r) == {k \in 0 .. Columns : f[<<k, r>>] \notin P}
           BadRows == {r \in Nat : BadIn(r) # {}}
<1>2. SUFFICES f[<<x, y>>] \in P
  BY <1>1, <1>s
<1>3. SUFFICES ASSUME f[<<x, y>>] \notin P PROVE FALSE
  OBVIOUS
<1>4. PICK r \in BadRows : \A r2 \in BadRows : r <= r2
  <2>1. y \in BadRows /\ BadRows \subseteq Nat
    BY <1>3
  <2> HIDE DEF BadRows
  <2> QED
    BY <2>1, LeastExists
<1>5. r \in Nat /\ BadIn(r) # {} /\ BadIn(r) \subseteq Nat
  <2>1. r \in Nat /\ BadIn(r) # {}
    BY <1>4
  <2>2. BadIn(r) \subseteq 0 .. Columns
    OBVIOUS
  <2> HIDE DEF BadIn
  <2> QED
    BY <2>1, <2>2, <1>s
<1>6. PICK k \in BadIn(r) : \A k2 \in BadIn(r) : k <= k2
  <2> HIDE DEF BadIn
  <2> QED
    BY <1>5, LeastExists
<1>7. k \in 0 .. Columns /\ k \in Nat /\ f[<<k, r>>] \notin P /\ <<k, r>> \in Nat \X Nat /\ <<k, r>> \in P
  BY <1>5, <1>6, <1>s
<1> DEFINE class == StartClass(t, pic, x, y)
<1> HIDE DEF class
<1>8. f[<<k, r>>] = IF Backs(t, class, <<k, r>>) THEN f[<<k - 1, r>>]
                    ELSE IF Wraps(t, pic, class, <<k, r>>) THEN f[<<Columns - 1, r - 1>>] ELSE <<k, r>>
  BY <1>1, <1>7 DEF BackFrom, class
<1>9. CASE Backs(t, class, <<k, r>>)
  <2>1. k > 0
    BY <1>9 DEF Backs
  <2>2. k - 1 \in 0 .. Columns /\ ~(k <= k - 1)
    BY <1>7, <1>s, <2>1
  <2>3. f[<<k - 1, r>>] \notin P
    BY <1>7, <1>8, <1>9
  <2> QED
    BY <1>6, <2>2, <2>3
<1>10. CASE ~Backs(t, class, <<k, r>>) /\ Wraps(t, pic, class, <<k, r>>)
  <2>1. r > 0
    BY <1>10 DEF Wraps
  <2>2. r - 1 \in Nat /\ ~(r <= r - 1) /\ Columns - 1 \in 0 .. Columns
    BY <1>5, <1>s, <2>1
  <2>3. f[<<Columns - 1, r - 1>>] \notin P
    BY <1>7, <1>8, <1>10
  <2>4. r - 1 \in BadRows
    BY <2>2, <2>3
  <2> QED
    BY <1>4, <2>2, <2>4
<1> QED
  BY <1>7, <1>8, <1>9, <1>10

(* The last cell of a word, one cell after the other forwards: on the row, *)
(* over its end, or with more rows fetched.                                *)
OnRow(t, pic, class, p) == p[1] < Columns - 1 /\ GoesOn(t, pic, p[1], p[2], p[3], class)
SeesWrap(t, pic, p) == IF p[3] = Bottom(pic) THEN SeenWrapped(t, pic, p[2]) ELSE IsWrapped(t, p[2])
OverEnd(t, pic, class, p) ==
    /\ p[1] = Columns - 1 /\ p[2] < p[3]
    /\ SeesWrap(t, pic, p) /\ GoesOn(t, pic, p[1], p[2], p[3], class)
Fetches(t, pic, p) ==
    p[1] = Columns - 1 /\ p[2] = p[3] /\ p[2] < LastRow(t) /\ SeesWrap(t, pic, p)
Fetched(t, p) == <<p[1] - 1, p[2], Min({p[2] + RegionSize - 1, LastRow(t)})>>
AheadFrom(t, pic, class, f, p) ==
    IF OnRow(t, pic, class, p) THEN f[<<p[1] + 1, p[2], p[3]>>]
    ELSE IF OverEnd(t, pic, class, p) THEN f[<<0, p[2] + 1, p[3]>>]
    ELSE IF Fetches(t, pic, p) THEN f[Fetched(t, p)] ELSE <<p[1], p[2]>>

LEMMA MinOf ==
  ASSUME NEW a \in Int, NEW b \in Int
  PROVE  Min({a, b}) = IF a <= b THEN a ELSE b
<1> DEFINE m == IF a <= b THEN a ELSE b
<1>1. m \in {a, b} /\ \A y \in {a, b} : m <= y
  OBVIOUS
<1>2. \A x \in {a, b} : (\A y \in {a, b} : x <= y) => x = m
  OBVIOUS
<1> HIDE DEF m
<1>3. (CHOOSE x \in {a, b} : \A y \in {a, b} : x <= y) = m
  BY <1>1, <1>2
<1> QED
  BY <1>3 DEF Min, m

LEMMA MaxOf ==
  ASSUME NEW a \in Int, NEW b \in Int
  PROVE  Max({a, b}) = IF a >= b THEN a ELSE b
<1> DEFINE m == IF a >= b THEN a ELSE b
<1>1. m \in {a, b} /\ \A y \in {a, b} : m >= y
  OBVIOUS
<1>2. \A x \in {a, b} : (\A y \in {a, b} : x >= y) => x = m
  OBVIOUS
<1> HIDE DEF m
<1>3. (CHOOSE x \in {a, b} : \A y \in {a, b} : x >= y) = m
  BY <1>1, <1>2
<1> QED
  BY <1>3 DEF Max, m

(* A fetch reaches further down, never past the last row.                  *)
LEMMA FetchedIs ==
  ASSUME NEW t, NEW pic, NEW p \in Nat \X Nat \X Nat, Fetches(t, pic, p), LastRow(t) \in Nat
  PROVE  /\ Fetched(t, p) = <<Columns - 2, p[2], Fetched(t, p)[3]>>
         /\ Fetched(t, p) \in Nat \X Nat \X Nat
         /\ p[3] < Fetched(t, p)[3] /\ Fetched(t, p)[3] <= LastRow(t)
<1>1. /\ p[1] \in Nat /\ p[2] \in Nat /\ p[3] \in Nat /\ p[1] = Columns - 1 /\ p[2] = p[3]
      /\ p[2] < LastRow(t)
  BY DEF Fetches
<1>2. RegionSize \in Nat /\ RegionSize >= 2 /\ Columns \in Nat /\ Columns >= 2
  BY SearchAssumption DEF RegionSize
<1> DEFINE m == Min({p[2] + RegionSize - 1, LastRow(t)})
<1>3. m = IF p[2] + RegionSize - 1 <= LastRow(t) THEN p[2] + RegionSize - 1 ELSE LastRow(t)
  <2>1. p[2] + RegionSize - 1 \in Int
    BY <1>1, <1>2
  <2> QED
    BY <2>1, MinOf
<1> HIDE DEF m
<1>4. m \in Nat /\ m > p[3] /\ m <= LastRow(t)
  BY <1>1, <1>2, <1>3
<1>5. Fetched(t, p) = <<p[1] - 1, p[2], m>>
  BY DEF Fetched, m
<1> QED
  BY <1>1, <1>2, <1>4, <1>5

LEMMA WordEndLoops ==
  ASSUME NEW t, NEW pic, NEW x \in Nat, NEW y \in Nat, Bottom(pic) \in Nat, LastRow(t) \in Nat
  PROVE  \E f : /\ WordEnd(t, pic, x, y) = f[<<x, y, Bottom(pic)>>]
                /\ \A p \in Nat \X Nat \X Nat :
                     f[p] = AheadFrom(t, pic, charClass(Cell(t, x, y)), f, p)
<1> DEFINE class == charClass(Cell(t, x, y))
           Body(g, p) ==
             LET px == p[1]  py == p[2]  last == p[3]
                 wraps == IF last = Bottom(pic) THEN SeenWrapped(t, pic, py) ELSE IsWrapped(t, py) IN
             CASE px < Columns - 1 ->
                    IF GoesOn(t, pic, px, py, last, class) THEN g[<<px + 1, py, last>>] ELSE <<px, py>>
               [] px = Columns - 1 /\ py < last ->
                    IF wraps /\ GoesOn(t, pic, px, py, last, class)
                    THEN g[<<0, py + 1, last>>] ELSE <<px, py>>
               [] px = Columns - 1 /\ py = last /\ py < LastRow(t) /\ wraps ->
                    g[<<px - 1, py, Min({py + RegionSize - 1, LastRow(t)})>>]
               [] OTHER -> <<px, py>>
           ahead[p \in Nat \X Nat \X Nat] == Body(ahead, p)
           D == Nat \X Nat \X Nat
           c == [p \in D |-> OnRow(t, pic, class, p) \/ OverEnd(t, pic, class, p) \/ Fetches(t, pic, p)]
           s == [p \in D |-> IF OnRow(t, pic, class, p) THEN <<p[1] + 1, p[2], p[3]>>
                             ELSE IF OverEnd(t, pic, class, p) THEN <<0, p[2] + 1, p[3]>>
                             ELSE Fetched(t, p)]
           e == [p \in D |-> <<p[1], p[2]>>]
<1>1. WordEnd(t, pic, x, y) = ahead[<<x, y, Bottom(pic)>>]
  BY DEF WordEnd, ahead
<1> HIDE DEF class
<1>2. \A p \in D : c[p] => s[p] \in D
  <2> SUFFICES ASSUME NEW p \in D, c[p] PROVE s[p] \in D
    OBVIOUS
  <2>1. p[1] \in Nat /\ p[2] \in Nat /\ p[3] \in Nat
    OBVIOUS
  <2>2. CASE OnRow(t, pic, class, p)
    <3>1. s[p] = <<p[1] + 1, p[2], p[3]>>
      BY <2>2
    <3> QED
      BY <2>1, <3>1
  <2>3. CASE ~OnRow(t, pic, class, p) /\ OverEnd(t, pic, class, p)
    <3>1. s[p] = <<0, p[2] + 1, p[3]>>
      BY <2>3
    <3> QED
      BY <2>1, <3>1
  <2>4. CASE ~OnRow(t, pic, class, p) /\ ~OverEnd(t, pic, class, p)
    <3>1. Fetches(t, pic, p)
      BY <2>4, Zenon
    <3>2. s[p] = Fetched(t, p)
      BY <2>4
    <3> QED
      BY <3>1, <3>2, FetchedIs
  <2> QED
    BY <2>2, <2>3, <2>4
<1> HIDE DEF c, s, e
<1>3. PICK f : Loops(f, D, c, s, e)
  <2> HIDE DEF D
  <2> QED
    BY <1>2, LoopExists
<1>4. \A g : \A p \in D : (IF c[p] THEN g[s[p]] ELSE e[p]) = AheadFrom(t, pic, class, g, p)
  BY DEF c, s, e, AheadFrom
<1>5. \A g : \A p \in D : Body(g, p) = AheadFrom(t, pic, class, g, p)
  <2> SUFFICES ASSUME NEW g, NEW p \in D PROVE Body(g, p) = AheadFrom(t, pic, class, g, p)
    OBVIOUS
  <2>1. p[1] \in Nat /\ p[2] \in Nat /\ p[3] \in Nat /\ Columns - 1 \in Nat
    BY SearchAssumption
  <2>2. CASE p[1] < Columns - 1
    <3>1. ~OverEnd(t, pic, class, p) /\ ~Fetches(t, pic, p) /\ p[1] # Columns - 1
      BY <2>1, <2>2 DEF OverEnd, Fetches
    <3>2. OnRow(t, pic, class, p) <=> GoesOn(t, pic, p[1], p[2], p[3], class)
      BY <2>2 DEF OnRow
    <3>3. Body(g, p) = IF GoesOn(t, pic, p[1], p[2], p[3], class) THEN g[<<p[1] + 1, p[2], p[3]>>]
                       ELSE <<p[1], p[2]>>
      BY <2>2, <3>1
    <3> HIDE DEF Body
    <3> QED
      BY <3>1, <3>2, <3>3 DEF AheadFrom
  <2>3. CASE p[1] = Columns - 1 /\ p[2] < p[3]
    <3>1. ~OnRow(t, pic, class, p) /\ ~Fetches(t, pic, p) /\ ~(p[1] < Columns - 1) /\ p[2] # p[3]
      BY <2>1, <2>3 DEF OnRow, Fetches
    <3>2. OverEnd(t, pic, class, p)
            <=> SeesWrap(t, pic, p) /\ GoesOn(t, pic, p[1], p[2], p[3], class)
      BY <2>3 DEF OverEnd
    <3>3. Body(g, p) = IF SeesWrap(t, pic, p) /\ GoesOn(t, pic, p[1], p[2], p[3], class)
                       THEN g[<<0, p[2] + 1, p[3]>>] ELSE <<p[1], p[2]>>
      BY <2>3, <3>1 DEF SeesWrap
    <3> HIDE DEF Body
    <3> QED
      BY <3>1, <3>2, <3>3 DEF AheadFrom
  <2>4. CASE ~(p[1] < Columns - 1) /\ ~(p[1] = Columns - 1 /\ p[2] < p[3])
    <3>1. ~OnRow(t, pic, class, p) /\ ~OverEnd(t, pic, class, p)
      BY <2>4 DEF OnRow, OverEnd
    <3>2. Body(g, p) = IF Fetches(t, pic, p) THEN g[Fetched(t, p)] ELSE <<p[1], p[2]>>
      BY <2>1, <2>4 DEF Fetches, Fetched, SeesWrap
    <3> HIDE DEF Body
    <3> QED
      BY <3>1, <3>2 DEF AheadFrom
  <2> QED
    BY <2>2, <2>3, <2>4
<1>6. f = [p \in D |-> Body(f, p)]
  <2> HIDE DEF Body
  <2>1. \A p \in D : (IF c[p] THEN f[s[p]] ELSE e[p]) = Body(f, p)
    BY <1>4, <1>5
  <2> QED
    BY <1>3, <2>1 DEF Loops
<1>7. ahead = [p \in Nat \X Nat \X Nat |-> Body(ahead, p)]
  <2> HIDE DEF Body
  <2>1. \E g : g = [p \in Nat \X Nat \X Nat |-> Body(g, p)]
    BY <1>6, Zenon DEF D
  <2> QED
    BY <2>1, Zenon
<1> HIDE DEF ahead, Body
<1>8. \A p \in Nat \X Nat \X Nat : ahead[p] = AheadFrom(t, pic, class, ahead, p)
  BY <1>5, <1>7 DEF D
<1> QED
  BY <1>1, <1>8 DEF class

LEMMA WordEndIsCell ==
  ASSUME NEW t, NEW pic, NEW x \in 0 .. Columns - 1, NEW y \in Nat, y <= Bottom(pic),
         Bottom(pic) \in Nat, LastRow(t) \in Nat, Bottom(pic) <= LastRow(t)
  PROVE  /\ WordEnd(t, pic, x, y) \in Int \X Int
         /\ WordEnd(t, pic, x, y)[1] \in 0 .. Columns - 1
         /\ WordEnd(t, pic, x, y)[2] \in Nat
<1>s. Columns \in Nat /\ Columns >= 2 /\ x \in Nat
  BY SearchAssumption
<1>1. PICK f : /\ WordEnd(t, pic, x, y) = f[<<x, y, Bottom(pic)>>]
               /\ \A p \in Nat \X Nat \X Nat :
                    f[p] = AheadFrom(t, pic, charClass(Cell(t, x, y)), f, p)
  BY <1>s, WordEndLoops
<1> DEFINE P == (0 .. Columns - 1) \X Nat
           L == LastRow(t)
           Bad(k, r, l) == f[<<k, r, l>>] \notin P
           Rests == {d \in 0 .. L : \E r \in 0 .. L - d, k \in 0 .. Columns - 1 : Bad(k, r, L - d)}
<1>2. SUFFICES f[<<x, y, Bottom(pic)>>] \in P
  BY <1>1, <1>s
<1>3. SUFFICES ASSUME f[<<x, y, Bottom(pic)>>] \notin P PROVE FALSE
  OBVIOUS
<1>4. PICK d \in Rests : \A d2 \in Rests : d <= d2
  <2>1. L - Bottom(pic) \in 0 .. L /\ L - (L - Bottom(pic)) = Bottom(pic)
    OBVIOUS
  <2>2. L - Bottom(pic) \in Rests
    <3>1. Bad(x, y, L - (L - Bottom(pic)))
      BY <1>3, <2>1
    <3>2. y \in 0 .. L - (L - Bottom(pic))
      BY <2>1
    <3> HIDE DEF Bad
    <3> QED
      BY <2>1, <3>1, <3>2
  <2>3. Rests \subseteq Nat
    OBVIOUS
  <2> HIDE DEF Rests
  <2> QED
    BY <2>2, <2>3, LeastExists
<1> DEFINE l == L - d
           Aboves == {j \in 0 .. l : \E k \in 0 .. Columns - 1 : Bad(k, l - j, l)}
<1>5. l \in 0 .. L /\ l \in Nat /\ \E r \in 0 .. l, k \in 0 .. Columns - 1 : Bad(k, r, l)
  BY <1>4
<1>6. \A l2 \in 0 .. L : l2 > l => \A r \in 0 .. l2, k \in 0 .. Columns - 1 : ~Bad(k, r, l2)
  <2> SUFFICES ASSUME NEW l2 \in 0 .. L, l2 > l, NEW r \in 0 .. l2, NEW k \in 0 .. Columns - 1,
                      Bad(k, r, l2)
               PROVE  FALSE
    OBVIOUS
  <2>1. L - l2 \in 0 .. L /\ L - (L - l2) = l2 /\ ~(d <= L - l2)
    BY <1>4
  <2>2. L - l2 \in Rests
    BY <2>1
  <2> HIDE DEF Rests
  <2> QED
    BY <1>4, <2>1, <2>2
<1> HIDE DEF l, Bad
<1>7. PICK j \in Aboves : \A j2 \in Aboves : j <= j2
  <2>1. PICK r \in 0 .. l, k \in 0 .. Columns - 1 : Bad(k, r, l)
    BY <1>5
  <2>2. l - r \in 0 .. l /\ l - (l - r) = r
    BY <1>5
  <2>3. l - r \in Aboves /\ Aboves \subseteq Nat
    BY <1>5, <2>1, <2>2
  <2> HIDE DEF Aboves
  <2> QED
    BY <2>3, LeastExists
<1> DEFINE r == l - j
           Lefts == {i \in 0 .. Columns - 1 : Bad(Columns - 1 - i, r, l)}
<1>8. r \in 0 .. l /\ r \in Nat /\ \E k \in 0 .. Columns - 1 : Bad(k, r, l)
  BY <1>5, <1>7
<1>9. \A r2 \in 0 .. l : r2 > r => \A k \in 0 .. Columns - 1 : ~Bad(k, r2, l)
  <2> SUFFICES ASSUME NEW r2 \in 0 .. l, r2 > r, NEW k \in 0 .. Columns - 1, Bad(k, r2, l)
               PROVE  FALSE
    OBVIOUS
  <2>1. l - r2 \in 0 .. l /\ l - (l - r2) = r2 /\ ~(j <= l - r2)
    BY <1>5, <1>7
  <2>2. l - r2 \in Aboves
    BY <2>1
  <2> HIDE DEF Aboves
  <2> QED
    BY <1>7, <2>1, <2>2
<1> HIDE DEF r
<1>10. PICK i \in Lefts : \A i2 \in Lefts : i <= i2
  <2>1. PICK k \in 0 .. Columns - 1 : Bad(k, r, l)
    BY <1>8
  <2>2. Columns - 1 - k \in 0 .. Columns - 1 /\ Columns - 1 - (Columns - 1 - k) = k
    BY <1>s
  <2>3. Columns - 1 - k \in Lefts /\ Lefts \subseteq Nat
    BY <1>s, <2>1, <2>2
  <2> HIDE DEF Lefts
  <2> QED
    BY <2>3, LeastExists
<1> DEFINE k == Columns - 1 - i
<1>11. k \in 0 .. Columns - 1 /\ k \in Nat /\ Bad(k, r, l)
  BY <1>s, <1>10
<1>12. \A k2 \in 0 .. Columns - 1 : k2 > k => ~Bad(k2, r, l)
  <2> SUFFICES ASSUME NEW k2 \in 0 .. Columns - 1, k2 > k, Bad(k2, r, l) PROVE FALSE
    OBVIOUS
  <2>1. Columns - 1 - k2 \in 0 .. Columns - 1 /\ Columns - 1 - (Columns - 1 - k2) = k2
        /\ ~(i <= Columns - 1 - k2)
    BY <1>s, <1>10
  <2>2. Columns - 1 - k2 \in Lefts
    BY <2>1
  <2> HIDE DEF Lefts
  <2> QED
    BY <1>10, <2>1, <2>2
<1> HIDE DEF k
<1> DEFINE p == <<k, r, l>>
           class == charClass(Cell(t, x, y))
<1> HIDE DEF class
<1>13. p \in Nat \X Nat \X Nat /\ p[1] = k /\ p[2] = r /\ p[3] = l
  BY <1>5, <1>8, <1>11
<1>14. f[p] = AheadFrom(t, pic, class, f, p) /\ f[p] \notin P
  BY <1>1, <1>11, <1>13 DEF class, Bad
<1>15. CASE OnRow(t, pic, class, p)
  <2>1. f[p] = f[<<k + 1, r, l>>]
    BY <1>13, <1>14, <1>15 DEF AheadFrom
  <2>2. k + 1 \in 0 .. Columns - 1 /\ k + 1 > k
    BY <1>11, <1>13, <1>15, <1>s DEF OnRow
  <2> QED
    BY <1>12, <1>14, <2>1, <2>2 DEF Bad
<1>16. CASE ~OnRow(t, pic, class, p) /\ OverEnd(t, pic, class, p)
  <2>1. f[p] = f[<<0, r + 1, l>>]
    BY <1>13, <1>14, <1>16 DEF AheadFrom
  <2>2. r + 1 \in 0 .. l /\ r + 1 > r /\ 0 \in 0 .. Columns - 1
    BY <1>5, <1>8, <1>13, <1>16, <1>s DEF OverEnd
  <2> QED
    BY <1>9, <1>14, <2>1, <2>2 DEF Bad
<1>17. CASE ~OnRow(t, pic, class, p) /\ ~OverEnd(t, pic, class, p) /\ Fetches(t, pic, p)
  <2> DEFINE m == Fetched(t, p)[3]
  <2>1. /\ Fetched(t, p) = <<Columns - 2, r, m>> /\ Fetched(t, p) \in Nat \X Nat \X Nat
        /\ l < m /\ m <= L
    BY <1>13, <1>17, FetchedIs
  <2> HIDE DEF m
  <2>2. f[p] = f[<<Columns - 2, r, m>>]
    BY <1>14, <1>17, <2>1 DEF AheadFrom
  <2>3. m \in 0 .. L /\ m > l /\ r \in 0 .. m /\ Columns - 2 \in 0 .. Columns - 1
    BY <1>5, <1>8, <1>s, <2>1
  <2> QED
    BY <1>6, <1>14, <2>2, <2>3 DEF Bad
<1>18. CASE ~OnRow(t, pic, class, p) /\ ~OverEnd(t, pic, class, p) /\ ~Fetches(t, pic, p)
  <2>1. f[p] = <<k, r>>
    BY <1>13, <1>14, <1>18 DEF AheadFrom
  <2>2. <<k, r>> \in P
    BY <1>8, <1>11
  <2> HIDE DEF P
  <2> QED
    BY <1>14, <2>1, <2>2
<1> QED
  BY <1>15, <1>16, <1>17, <1>18

LEMMA FindWordEndIsPlace ==
  ASSUME NEW t, NEW pic, NEW x \in 0 .. Columns - 1, NEW y \in Nat, y <= Bottom(pic),
         Bottom(pic) \in Nat, LastRow(t) \in Nat, Bottom(pic) <= LastRow(t)
  PROVE  /\ findWordEnd(t, pic, x, y) \in Int \X Int
         /\ findWordEnd(t, pic, x, y)[1] \in 0 .. Columns
         /\ findWordEnd(t, pic, x, y)[2] \in Nat
<1>s. Columns \in Nat /\ Columns >= 2 /\ x \in Nat
  BY SearchAssumption
<1> DEFINE end == WordEnd(t, pic, x, y)
<1>1. end \in Int \X Int /\ end[1] \in 0 .. Columns - 1 /\ end[2] \in Nat
  BY WordEndIsCell
<1>2. findWordEnd(t, pic, x, y) =
        IF Cell(t, end[1], end[2]) = "@" /\ (end[2] > y \/ end[1] > x)
        THEN BeforeAt(end[1], end[2]) ELSE end
  BY DEF findWordEnd
<1> HIDE DEF end
<1>3. CASE Cell(t, end[1], end[2]) = "@" /\ (end[2] > y \/ end[1] > x)
  <2>1. CASE end[1] > 0
    <3>1. findWordEnd(t, pic, x, y) = <<end[1] - 1, end[2]>>
      BY <1>2, <1>3, <2>1 DEF BeforeAt
    <3> QED
      BY <1>1, <1>s, <2>1, <3>1
  <2>2. CASE ~(end[1] > 0)
    <3>1. findWordEnd(t, pic, x, y) = <<0, end[2] - 1>> /\ end[2] > y
      BY <1>1, <1>2, <1>3, <1>s, <2>2 DEF BeforeAt
    <3> QED
      BY <1>1, <1>s, <3>1
  <2> QED
    BY <2>1, <2>2
<1>4. CASE ~(Cell(t, end[1], end[2]) = "@" /\ (end[2] > y \/ end[1] > x))
  BY <1>1, <1>2, <1>4, <1>s
<1> QED
  BY <1>3, <1>4

-----------------------------------------------------------------------------
(* What a drag by characters leaves selected.                              *)
Spot(q) == q \in Int \X Int /\ q[1] \in 0 .. Columns /\ q[2] \in Nat
PosOf(q) == Pos(q[1], q[2])
Selections == [begin : Int, tl : Int, br : Int, block : BOOLEAN]

(* The cell a selection begins with, from where it was started, when its   *)
(* other end is on this or on that side.                                   *)
BeginFor(i, h) == IF Before(h, i) \/ i[1] = Columns THEN PosOf(i) - 1 ELSE PosOf(i)
Between(i, h) ==
    IF PosOf(i) <= PosOf(h) THEN PosOf(i) .. PosOf(h) - 1 ELSE PosOf(h) .. PosOf(i) - 1
Covers(s, i, h) ==
    \A c \in Int : (c \in s.tl .. s.br) # (c \in Between(i, h))
                     => c = PosOf(i) - 1 /\ Columns \in {h[1], i[1]}
Draws(s, i, h) == s.block = FALSE /\ s.begin = BeginFor(i, h) /\ Covers(s, i, h)

LEMMA RowsApart ==
  ASSUME NEW a \in Nat, NEW b \in Nat, a < b
  PROVE  a * Columns + Columns <= b * Columns /\ a * Columns \in Nat /\ b * Columns \in Nat
<1>1. Columns \in Nat
  BY SearchAssumption
<1>2. b - a - 1 \in Nat /\ b = a + 1 + (b - a - 1)
  OBVIOUS
<1> DEFINE d == b - a - 1
<1>3. b * Columns = a * Columns + Columns + d * Columns /\ d * Columns \in Nat
  BY <1>1, <1>2
<1>4. a * Columns \in Nat /\ b * Columns \in Nat
  BY <1>1
<1> HIDE DEF d
<1> QED
  BY <1>1, <1>3, <1>4

(* Reading order is that of the cells' numbers, but that the end of a row  *)
(* is the beginning of the next.                                           *)
LEMMA OrderIs ==
  ASSUME NEW i, NEW h, Spot(i), Spot(h), h # i
  PROVE  /\ PosOf(i) \in Nat /\ PosOf(h) \in Nat
         /\ Before(h, i) => \/ PosOf(h) < PosOf(i)
                            \/ PosOf(h) = PosOf(i) /\ h[1] = Columns
         /\ Before(h, i) => PosOf(i) >= 1
         /\ ~Before(h, i) => \/ PosOf(i) < PosOf(h)
                             \/ PosOf(i) = PosOf(h) /\ i[1] = Columns
<1>1. /\ Columns \in Nat /\ Columns >= 2
      /\ i[1] \in 0 .. Columns /\ h[1] \in 0 .. Columns /\ i[2] \in Nat /\ h[2] \in Nat
      /\ i = <<i[1], i[2]>> /\ h = <<h[1], h[2]>>
  BY SearchAssumption DEF Spot
<1>2. PosOf(i) = i[2] * Columns + i[1] /\ PosOf(h) = h[2] * Columns + h[1]
  BY DEF PosOf, Pos
<1>3. i[2] * Columns \in Nat /\ h[2] * Columns \in Nat
  BY <1>1
<1>4. CASE h[2] = i[2]
  <2>1. h[1] # i[1]
    BY <1>1, <1>4
  <2> QED
    BY <1>1, <1>2, <1>3, <1>4, <2>1 DEF Before
<1>5. CASE h[2] < i[2]
  <2>1. h[2] * Columns + Columns <= i[2] * Columns
    BY <1>1, <1>5, RowsApart
  <2>2. Before(h, i)
    BY <1>5 DEF Before
  <2> QED
    BY <1>1, <1>2, <1>3, <2>1, <2>2
<1>6. CASE h[2] > i[2]
  <2>1. i[2] * Columns + Columns <= h[2] * Columns
    BY <1>1, <1>6, RowsApart
  <2>2. ~Before(h, i)
    BY <1>1, <1>6 DEF Before
  <2> QED
    BY <1>1, <1>2, <1>3, <2>1, <2>2
<1> QED
  BY <1>1, <1>4, <1>5, <1>6

(* From the right beginning, the other end is set right.                   *)
LEMMA EndDraws ==
  ASSUME NEW i, NEW h, Spot(i), Spot(h), h # i,
         NEW s \in Selections, s.block = FALSE, s.begin = BeginFor(i, h),
         NEW off, off = IF Before(h, i) THEN 0 ELSE -1
  PROVE  Draws(EndAt(s, h[1] + off, h[2]), i, h)
<1> DEFINE from == PosOf(i)
           to == PosOf(h)
           r == EndAt(s, h[1] + off, h[2])
<1>1. /\ Columns \in Nat /\ Columns >= 2
      /\ i[1] \in 0 .. Columns /\ h[1] \in 0 .. Columns /\ h[2] \in Nat /\ i[2] \in Nat
  BY SearchAssumption DEF Spot
<1>2. /\ from \in Nat /\ to \in Nat
      /\ Before(h, i) => from >= 1 /\ (to < from \/ (to = from /\ h[1] = Columns))
      /\ ~Before(h, i) => from < to \/ (from = to /\ i[1] = Columns)
  BY OrderIs
<1>3. Pos(h[1] + off, h[2]) = to + off
  <2>1. h[2] * Columns \in Nat
    BY <1>1
  <2> QED
    BY <1>1, <2>1 DEF PosOf, Pos
<1>4. s.begin = IF Before(h, i) \/ i[1] = Columns THEN from - 1 ELSE from
  BY DEF BeginFor
<1>5. Between(i, h) = IF from <= to THEN from .. to - 1 ELSE to .. from - 1
  BY DEF Between
<1>f. i[1] = Columns => from >= 1
  <2>1. i[2] * Columns \in Nat
    BY <1>1
  <2> QED
    BY <1>1, <2>1 DEF PosOf, Pos
<1> HIDE DEF from, to
<1>6. s.begin \in Int /\ s.begin # -1 /\ off \in {0, -1}
  BY <1>1, <1>2, <1>4, <1>f
<1> DEFINE p == to + off
           e1 == IF p < s.begin THEN p ELSE s.begin
           e2 == IF p < s.begin THEN s.begin ELSE IF h[1] + off = Columns THEN p - 1 ELSE p
<1>7. r = [s EXCEPT !.tl = e1, !.br = e2]
  BY <1>3, <1>6 DEF EndAt
<1>8. r.tl = e1 /\ r.br = e2 /\ r.begin = s.begin /\ r.block = FALSE
  BY <1>7 DEF Selections
<1>9. ASSUME NEW c \in Int, (c \in e1 .. e2) # (c \in Between(i, h))
      PROVE  c = from - 1 /\ Columns \in {h[1], i[1]}
  <2>1. CASE Before(h, i)
    <3>1. s.begin = from - 1 /\ off = 0 /\ p = to
      BY <1>2, <1>4, <2>1
    <3> QED
      BY <1>1, <1>2, <1>5, <1>9, <2>1, <3>1
  <2>2. CASE ~Before(h, i)
    <3>1. off = -1 /\ p = to - 1 /\ h[1] + off # Columns
      BY <1>1, <1>2, <2>2
    <3>2. s.begin = (IF i[1] = Columns THEN from - 1 ELSE from) /\ p >= s.begin
      BY <1>1, <1>2, <1>4, <2>2, <3>1
    <3> QED
      BY <1>1, <1>2, <1>5, <1>9, <2>2, <3>1, <3>2
  <2> QED
    BY <2>1, <2>2
<1> HIDE DEF r, e1, e2
<1> QED
  BY <1>8, <1>9 DEF Draws, Covers, from, r

(* Where setSelectionStart begins for a drag                               *)
LEMMA StartBegins ==
  ASSUME NEW i, NEW h, Spot(i), NEW off, off = IF Before(h, i) THEN 0 ELSE -1
  PROVE  /\ StartAt(i[1] - 1 - off, i[2], FALSE) \in Selections
         /\ StartAt(i[1] - 1 - off, i[2], FALSE).block = FALSE
         /\ StartAt(i[1] - 1 - off, i[2], FALSE).begin = BeginFor(i, h)
<1>1. Columns \in Nat /\ Columns >= 2 /\ i[1] \in 0 .. Columns /\ i[2] \in Nat /\ i[2] * Columns \in Nat
  BY SearchAssumption DEF Spot
<1>2. PosOf(i) = i[2] * Columns + i[1]
  BY DEF PosOf, Pos
<1>3. Pos(i[1] - 1 - off, i[2]) = i[2] * Columns + (i[1] - 1 - off)
  BY DEF Pos
<1> DEFINE x == i[1] - 1 - off
           p == IF x = Columns THEN Pos(x, i[2]) - 1 ELSE Pos(x, i[2])
<1>4. StartAt(x, i[2], FALSE) = [begin |-> p, tl |-> p, br |-> p, block |-> FALSE]
  BY DEF StartAt
<1>5. p = BeginFor(i, h) /\ p \in Int
  BY <1>1, <1>2, <1>3 DEF BeginFor
<1> HIDE DEF x, p
<1>6. StartAt(x, i[2], FALSE) \in Selections /\ StartAt(x, i[2], FALSE).block = FALSE
      /\ StartAt(x, i[2], FALSE).begin = BeginFor(i, h)
  <2> DEFINE s == StartAt(x, i[2], FALSE)
  <2>1. s = [begin |-> p, tl |-> p, br |-> p, block |-> FALSE]
    BY <1>4
  <2> HIDE DEF s
  <2>2. s \in Selections
    BY <1>5, <2>1 DEF Selections
  <2>3. s.block = FALSE /\ s.begin = p
    BY <2>1
  <2> QED
    BY <1>5, <2>2, <2>3 DEF s
<1> QED
  BY <1>6 DEF x

-----------------------------------------------------------------------------
(* Selections of any kind are of their type.                               *)
LEMMA StartTyped ==
  ASSUME NEW x \in Int, NEW y \in Int, NEW block \in BOOLEAN
  PROVE  StartAt(x, y, block) \in Selections
<1>1. Columns \in Nat
  BY SearchAssumption
<1>2. Pos(x, y) \in Int
  BY <1>1 DEF Pos
<1>3. PICK q \in Int : q = IF x = Columns THEN Pos(x, y) - 1 ELSE Pos(x, y)
  BY <1>2
<1>4. StartAt(x, y, block) = [begin |-> q, tl |-> q, br |-> q, block |-> block]
  BY <1>3 DEF StartAt
<1> QED
  BY <1>3, <1>4 DEF Selections

LEMMA EndTyped ==
  ASSUME NEW s \in Selections, NEW x \in Int, NEW y \in Int
  PROVE  EndAt(s, x, y) \in Selections
<1>1. Columns \in Nat /\ Columns >= 2
  BY SearchAssumption
<1> DEFINE p == Pos(x, y)
           ends == IF p < s.begin THEN <<p, s.begin>>
                   ELSE <<s.begin, IF x = Columns THEN p - 1 ELSE p>>
           cols == {ends[1] % Columns, ends[2] % Columns}
           t1 == Pos(Min(cols), ends[1] \div Columns)
           b1 == Pos(Max(cols), ends[2] \div Columns)
<1>2. p \in Int /\ s.begin \in Int
  BY <1>1 DEF Pos, Selections
<1> HIDE DEF p
<1>3. ends[1] \in Int /\ ends[2] \in Int
  BY <1>2
<1>4. EndAt(s, x, y) = IF s.begin = -1 THEN s
                       ELSE IF ~s.block THEN [s EXCEPT !.tl = ends[1], !.br = ends[2]]
                       ELSE [s EXCEPT !.tl = t1, !.br = b1]
  BY DEF EndAt, p
<1> HIDE DEF ends
<1>5. ends[1] % Columns \in Int /\ ends[2] % Columns \in Int
      /\ ends[1] \div Columns \in Int /\ ends[2] \div Columns \in Int
  BY <1>1, <1>3
<1>6. Min(cols) \in Int /\ Max(cols) \in Int
  BY <1>5, MinOf, MaxOf
<1> HIDE DEF cols
<1>7. t1 \in Int /\ b1 \in Int
  BY <1>1, <1>5, <1>6 DEF Pos
<1> HIDE DEF t1, b1
<1>8. [s EXCEPT !.tl = ends[1], !.br = ends[2]] \in Selections
      /\ [s EXCEPT !.tl = t1, !.br = b1] \in Selections
  BY <1>3, <1>7 DEF Selections
<1> QED
  BY <1>4, <1>8

(* The column of a pointer                                                 *)
LEMMA ColumnIs ==
  ASSUME NEW p, p.half \in 0 .. 2 * Columns - 1, NEW edge \in BOOLEAN
  PROVE  Column(p, edge) \in 0 .. Columns
<1>1. Columns \in Nat /\ Columns >= 2 /\ p.half \in Int
  BY SearchAssumption
<1>2. (p.half + 1) \div 2 \in 0 .. Columns /\ p.half \div 2 \in 0 .. Columns
  BY <1>1
<1> QED
  BY <1>2 DEF Column

LEMMA WithinIs ==
  ASSUME NEW low \in Int, NEW n \in Int, NEW high \in Int, low <= high
  PROVE  Within(low, n, high) \in low .. high /\ (n \in low .. high => Within(low, n, high) = n)
<1>1. Min({n, high}) = IF n <= high THEN n ELSE high
  BY MinOf
<1> DEFINE m == Min({n, high})
<1>2. m \in Int
  BY <1>1
<1>3. Within(low, n, high) = Max({low, m})
  BY DEF Within
<1> HIDE DEF m
<1>4. Max({low, m}) = IF low >= m THEN low ELSE m
  BY <1>2, MaxOf
<1> QED
  BY <1>1, <1>3, <1>4 DEF m

-----------------------------------------------------------------------------
(* What holds of the selection while the mouse is used: all ends are       *)
(* places in the text's rows, nothing is being selected while the button   *)
(* is up, and a drag by characters has drawn its selection.                *)
Placed == Len(text) >= Lines /\ Spot(iPntSel) /\ Spot(pntSel) /\ Spot(pointer)
IdleWhenUp == ~held => actSel = 0
Dragged ==
    actSel = 2 /\ mode = {} /\ ~lost =>
      pntSel # iPntSel /\ pointer \in {pntSel, iPntSel} /\ Draws(sel, iPntSel, pntSel)
MouseSound == MouseTypeOK /\ Placed /\ IdleWhenUp /\ Dragged

LEMMA RowsOf ==
  ASSUME MouseTypeOK, Placed
  PROVE  /\ Lines \in Nat /\ Lines >= 1 /\ Len(text) \in Nat /\ Hist \in Nat /\ top \in 0 .. Hist
         /\ LastRow(text) \in Nat /\ Hist + Lines - 1 = LastRow(text)
<1>0. text \in Seq(Row) /\ Len(text) >= Lines
  BY DEF MouseTypeOK, Placed
<1>1. Lines \in Nat /\ Lines >= 1 /\ Len(text) \in Nat /\ Len(text) >= Lines
  BY <1>0, SearchAssumption
<1>2. Hist = Len(text) - Lines /\ LastRow(text) = Len(text) - 1
  BY DEF Hist, LastRow
<1>3. top \in 0 .. Hist
  BY DEF MouseTypeOK
<1> QED
  BY <1>1, <1>2, <1>3

LEMMA ByWordIs ==
  ASSUME MouseTypeOK, Placed, NEW pic, pic.top \in 0 .. Hist, NEW at, Spot(at)
  PROVE  /\ Spot(ByWord(at, pic).here) /\ ByWord(at, pic).there \in Int \X Int
         /\ ByWord(at, pic).offset = 0
<1>1. /\ Lines \in Nat /\ Lines >= 1 /\ Hist \in Nat /\ LastRow(text) \in Nat
      /\ Hist + Lines - 1 = LastRow(text) /\ pic.top \in Nat
  BY RowsOf
<1>2. Bottom(pic) = pic.top + Lines - 1 /\ Bottom(pic) \in Nat /\ Bottom(pic) <= LastRow(text)
  BY <1>1 DEF Bottom
<1>3. ASSUME NEW q, HasCell(q, pic.top)
      PROVE  /\ Spot(findWordStart(text, pic, q[1], q[2]))
             /\ Spot(findWordEnd(text, pic, q[1], q[2]))
  <2>1. q[1] \in 0 .. Columns - 1 /\ q[1] \in 0 .. Columns /\ q[2] \in Nat /\ q[2] <= Bottom(pic)
    BY <1>1, <1>2, <1>3, SearchAssumption DEF HasCell
  <2>2. Spot(findWordStart(text, pic, q[1], q[2]))
    BY <2>1, WordStartIsPlace DEF Spot
  <2>3. Spot(findWordEnd(text, pic, q[1], q[2]))
    BY <1>1, <1>2, <2>1, FindWordEndIsPlace DEF Spot
  <2> QED
    BY <2>2, <2>3
<1> DEFINE first(q) == IF HasCell(q, pic.top) THEN findWordStart(text, pic, q[1], q[2]) ELSE pntSel
           final(q) == IF HasCell(q, pic.top) THEN findWordEnd(text, pic, q[1], q[2]) ELSE pntSel
           left == Before(at, iPntSel)
           stays == IF left THEN final(iPntSel) ELSE first(iPntSel)
<1>4. \A q : Spot(first(q)) /\ Spot(final(q))
  BY <1>3 DEF Placed
<1>5. /\ ByWord(at, pic).here = IF left THEN first(at) ELSE final(at)
      /\ ByWord(at, pic).there = <<stays[1] + 1, stays[2]>> /\ ByWord(at, pic).offset = 0
  BY DEF ByWord
<1> HIDE DEF first, final, left
<1>6. Spot(stays)
  BY <1>4
<1> HIDE DEF stays
<1>7. stays[1] + 1 \in Int /\ stays[2] \in Int
  BY <1>6 DEF Spot
<1> QED
  BY <1>4, <1>5, <1>7

LEMMA ByLineIs ==
  ASSUME MouseTypeOK, Placed, NEW pic, NEW at, Spot(at)
  PROVE  /\ Spot(ByLine(at, pic).here) /\ ByLine(at, pic).there \in Int \X Int
         /\ ByLine(at, pic).offset = 0
<1>1. LastRow(text) \in Nat /\ Columns \in Nat /\ Columns >= 2
  BY RowsOf, SearchAssumption
<1>2. at[2] \in Nat /\ iPntSel[2] \in Nat
  BY DEF Placed, Spot
<1>3. ASSUME NEW y \in Nat
      PROVE  /\ Spot(<<0, findLineStart(text, pic, y)>>)
             /\ Spot(<<Columns - 1, findLineEnd(text, pic, y)>>)
  <2>1. findLineStart(text, pic, y) \in Nat /\ findLineEnd(text, pic, y) \in Nat
    BY <1>1, LineStartIsRow, LineEndIsRow
  <2> QED
    BY <1>1, <2>1 DEF Spot
<1> DEFINE above == at[2] < iPntSel[2]
           stays == IF above THEN <<Columns - 1, findLineEnd(text, pic, iPntSel[2])>>
                             ELSE <<0, findLineStart(text, pic, iPntSel[2])>>
<1>4. /\ ByLine(at, pic).here = IF above THEN <<0, findLineStart(text, pic, at[2])>>
                                         ELSE <<Columns - 1, findLineEnd(text, pic, at[2])>>
      /\ ByLine(at, pic).there = <<stays[1] + 1, stays[2]>> /\ ByLine(at, pic).offset = 0
  BY DEF ByLine
<1> HIDE DEF above
<1>5. Spot(stays)
  BY <1>2, <1>3
<1> HIDE DEF stays
<1>6. stays[1] + 1 \in Int /\ stays[2] \in Int
  BY <1>5 DEF Spot
<1>7. Spot(ByLine(at, pic).here)
  BY <1>2, <1>3, <1>4
<1> QED
  BY <1>4, <1>6, <1>7

LEMMA ExtensionIs ==
  ASSUME MouseTypeOK, Placed, NEW pic, pic.top \in 0 .. Hist, NEW at, Spot(at), NEW modes
  PROVE  /\ Spot(Extension(at, pic, modes).here) /\ Extension(at, pic, modes).there \in Int \X Int
         /\ Extension(at, pic, modes).offset \in {0, -1}
<1>1. CASE "line" \in modes
  <2>1. PICK here : here = IF "word" \in modes THEN ByWord(at, pic).here ELSE at
    OBVIOUS
  <2>2. Spot(here)
    BY <2>1, ByWordIs
  <2>3. Extension(at, pic, modes) = ByLine(here, pic)
    BY <1>1, <2>1 DEF Extension
  <2> QED
    BY <2>2, <2>3, ByLineIs
<1>2. CASE "line" \notin modes /\ "word" \in modes
  <2>1. Extension(at, pic, modes) = ByWord(at, pic)
    BY <1>2 DEF Extension
  <2> QED
    BY <2>1, ByWordIs
<1>3. CASE "line" \notin modes /\ "word" \notin modes
  <2>1. Extension(at, pic, modes) = ByCharacter(at)
    BY <1>3 DEF Extension
  <2>2. /\ ByCharacter(at).here = at /\ ByCharacter(at).there = iPntSel
        /\ ByCharacter(at).offset \in {0, -1}
    BY DEF ByCharacter
  <2> QED
    BY <2>1, <2>2 DEF Placed, Spot
<1> QED
  BY <1>1, <1>2, <1>3

LEMMA ScrolledIs ==
  ASSUME MouseTypeOK, Placed, NEW n \in Int
  PROVE  Scrolled(n) \in 0 .. Hist
<1>1. Hist \in Nat /\ top \in Int
  BY RowsOf
<1>2. top + n \in Int /\ 0 \in Int /\ Hist \in Int /\ 0 <= Hist
  BY <1>1
<1> QED
  BY <1>2, WithinIs DEF Scrolled

(* Extending a selection: all stays typed, and a drag by characters draws  *)
(* the selection again, from its start or from the end that stays.         *)
Pointed(p) == p.half \in 0 .. 2 * Columns - 1 /\ p.row \in Int

LEMMA Extends ==
  ASSUME MouseSound, NEW p, Pointed(p), NEW modes, NEW edge, ExtendSelection(p, modes, edge),
         actSel = 2 => modes = mode
  PROVE  /\ top' \in 0 .. Hist /\ Spot(pointer') /\ Spot(pntSel') /\ tripleSelBegin' \in Int \X Int
         /\ sel' \in Selections /\ actSel' \in {0, 1, 2}
         /\ modes = {} /\ actSel' = 2 /\ ~lost =>
              /\ pntSel' # iPntSel /\ pointer' \in {pntSel', iPntSel}
              /\ Draws(sel', iPntSel, pntSel')
<1>1. MouseTypeOK /\ Placed /\ Spot(iPntSel) /\ Spot(pntSel) /\ Spot(pointer)
      /\ tripleSelBegin \in Int \X Int /\ sel \in Selections /\ actSel \in {0, 1, 2}
  BY DEF MouseSound, Placed, MouseTypeOK, Selections
<1>2. /\ Lines \in Nat /\ Lines >= 1 /\ Hist \in Nat /\ Columns \in Nat /\ Columns >= 2
  BY <1>1, RowsOf, SearchAssumption
<1> DEFINE Moves(first, at, to) ==
      LET block == modes = {"column"}
          start == IF block THEN StartAt(to.there[1], to.there[2], TRUE)
                   ELSE StartAt(to.there[1] - 1 - to.offset, to.there[2], FALSE)
      IN  /\ top' = first
          /\ pointer' = at
          /\ tripleSelBegin' = IF "line" \in modes THEN <<to.there[1] - 1, to.there[2] - first>>
                               ELSE tripleSelBegin
          /\ IF (to.here = pntSel /\ first = top) \/ to.here = to.there
             THEN UNCHANGED <<sel, pntSel, actSel>>
             ELSE /\ actSel' = 2
                  /\ pntSel' = to.here
                  /\ sel' = EndAt(IF actSel < 2 \/ to.swap THEN start ELSE sel,
                                  IF block THEN to.here[1] ELSE to.here[1] + to.offset, to.here[2])
<1>a. PICK first, at, to :
        /\ first = Scrolled(Beyond(p.row))
        /\ at = <<Column(p, TRUE), first + Within(0, p.row, Lines - 1)>>
        /\ to = Extension(at, [top |-> first, flags |-> flags, edge |-> edge], modes)
        /\ Moves(first, at, to)
  <2>1. \E first \in {Scrolled(Beyond(p.row))} :
        \E at \in {<<Column(p, TRUE), first + Within(0, p.row, Lines - 1)>>} :
        \E to \in {Extension(at, [top |-> first, flags |-> flags, edge |-> edge], modes)} :
          Moves(first, at, to)
    BY Zenon DEF ExtendSelection
  <2> HIDE DEF Moves
  <2> QED
    BY <2>1
<1>b. PICK block \in BOOLEAN : block = (modes = {"column"})
  OBVIOUS
<1>c. PICK start : start = IF block THEN StartAt(to.there[1], to.there[2], TRUE)
                           ELSE StartAt(to.there[1] - 1 - to.offset, to.there[2], FALSE)
  OBVIOUS
<1>3. /\ top' = first
      /\ pointer' = at
      /\ tripleSelBegin' = IF "line" \in modes THEN <<to.there[1] - 1, to.there[2] - first>>
                           ELSE tripleSelBegin
      /\ IF (to.here = pntSel /\ first = top) \/ to.here = to.there
         THEN UNCHANGED <<sel, pntSel, actSel>>
         ELSE /\ actSel' = 2
              /\ pntSel' = to.here
              /\ sel' = EndAt(IF actSel < 2 \/ to.swap THEN start ELSE sel,
                              IF block THEN to.here[1] ELSE to.here[1] + to.offset, to.here[2])
  BY <1>a, <1>b, <1>c, Zenon
<1> HIDE DEF Moves
<1>4. first \in 0 .. Hist /\ first \in Nat
  <2>1. Beyond(p.row) \in Int
    BY <1>2 DEF Pointed, Beyond
  <2>2. Scrolled(Beyond(p.row)) \in 0 .. Hist
    BY <1>1, <2>1, ScrolledIs
  <2> QED
    BY <1>2, <1>a, <2>2
<1>5. Spot(at)
  <2>1. Column(p, TRUE) \in 0 .. Columns
    BY ColumnIs DEF Pointed
  <2>2. Within(0, p.row, Lines - 1) \in 0 .. Lines - 1
    <3>1. 0 \in Int /\ p.row \in Int /\ Lines - 1 \in Int /\ 0 <= Lines - 1
      BY <1>2 DEF Pointed
    <3> QED
      BY <3>1, WithinIs
  <2>3. at = <<Column(p, TRUE), first + Within(0, p.row, Lines - 1)>>
    BY <1>a
  <2>4. first + Within(0, p.row, Lines - 1) \in Nat
    BY <1>2, <1>4, <2>2
  <2>5. PICK column \in 0 .. Columns, row \in Nat : at = <<column, row>>
    <3> QED
      BY <2>1, <2>3, <2>4
  <2>6. at \in Int \X Int /\ at[1] = column /\ at[2] = row
    BY <1>2, <2>5
  <2> QED
    BY <2>5, <2>6 DEF Spot
<1>6. Spot(to.here) /\ to.there \in Int \X Int /\ to.offset \in {0, -1}
  <2> DEFINE pic == [top |-> first, flags |-> flags, edge |-> edge]
  <2>1. pic.top \in 0 .. Hist /\ to = Extension(at, pic, modes)
    BY <1>4, <1>a
  <2> HIDE DEF pic
  <2> QED
    BY <1>1, <1>5, <2>1, ExtensionIs
<1>7. to.here[1] \in Int /\ to.here[2] \in Int /\ to.there[1] \in Int /\ to.there[2] \in Int
  BY <1>6 DEF Spot
<1>8. start \in Selections
  <2>1. StartAt(to.there[1], to.there[2], TRUE) \in Selections
    BY <1>7, StartTyped
  <2>2. StartAt(to.there[1] - 1 - to.offset, to.there[2], FALSE) \in Selections
    <3>1. to.there[1] - 1 - to.offset \in Int
      BY <1>6, <1>7
    <3> QED
      BY <1>7, <3>1, StartTyped
  <2> QED
    BY <1>c, <2>1, <2>2
<1> DEFINE base == IF actSel < 2 \/ to.swap THEN start ELSE sel
           column == IF block THEN to.here[1] ELSE to.here[1] + to.offset
           stays == (to.here = pntSel /\ first = top) \/ to.here = to.there
<1>9. base \in Selections /\ column \in Int
  BY <1>1, <1>6, <1>7, <1>8
<1>10. IF stays THEN UNCHANGED <<sel, pntSel, actSel>>
       ELSE actSel' = 2 /\ pntSel' = to.here /\ sel' = EndAt(base, column, to.here[2])
  BY <1>3
<1>11. top' = first /\ pointer' = at /\ tripleSelBegin' \in Int \X Int
  <2>1. to.there[1] - 1 \in Int /\ to.there[2] - first \in Int
    BY <1>4, <1>7
  <2> QED
    BY <1>1, <1>3, <2>1
<1> HIDE DEF base, column, stays
<1>12. Spot(pntSel') /\ sel' \in Selections /\ actSel' \in {0, 1, 2}
  <2>1. EndAt(base, column, to.here[2]) \in Selections
    BY <1>7, <1>9, EndTyped
  <2> QED
    BY <1>1, <1>6, <1>10, <2>1
<1>13. ASSUME modes = {}, actSel' = 2, ~lost
       PROVE  pntSel' # iPntSel /\ pointer' \in {pntSel', iPntSel} /\ Draws(sel', iPntSel, pntSel')
  <2>1. /\ to.here = at /\ to.there = iPntSel /\ block = FALSE
        /\ to.swap = (Before(at, iPntSel) # Before(pntSel, iPntSel))
        /\ to.offset = IF Before(at, iPntSel) THEN 0 ELSE -1
    <3>1. to = ByCharacter(at)
      BY <1>13, <1>a DEF Extension
    <3>2. modes # {"column"}
      BY <1>13
    <3> QED
      BY <1>b, <3>1, <3>2 DEF ByCharacter
  <2>2. actSel = 2 => /\ pntSel # iPntSel /\ pointer \in {pntSel, iPntSel}
                      /\ Draws(sel, iPntSel, pntSel)
    BY <1>13 DEF MouseSound, Dragged
  <2>3. CASE stays
    <3>1. sel' = sel /\ pntSel' = pntSel /\ actSel' = actSel
      BY <1>10, <2>3
    <3>2. at = pntSel \/ at = iPntSel
      BY <2>1, <2>3 DEF stays
    <3> QED
      BY <1>11, <1>13, <2>2, <3>1, <3>2
  <2>4. CASE ~stays
    <3>1. pntSel' = at /\ sel' = EndAt(base, at[1] + to.offset, at[2]) /\ at # iPntSel
      BY <1>10, <2>1, <2>4 DEF column, stays
    <3>2. base.block = FALSE /\ base.begin = BeginFor(iPntSel, at)
      <4>1. CASE base = start
        <5>1. start = StartAt(iPntSel[1] - 1 - to.offset, iPntSel[2], FALSE)
          BY <1>c, <2>1
        <5>2. PICK off : off = to.offset
          OBVIOUS
        <5>3. off = IF Before(at, iPntSel) THEN 0 ELSE -1
          BY <2>1, <5>2
        <5>4. /\ StartAt(iPntSel[1] - 1 - off, iPntSel[2], FALSE).block = FALSE
              /\ StartAt(iPntSel[1] - 1 - off, iPntSel[2], FALSE).begin = BeginFor(iPntSel, at)
          BY <1>1, <5>3, StartBegins
        <5> QED
          BY <4>1, <5>1, <5>2, <5>4
      <4>2. CASE base # start
        <5>1. base = sel /\ ~(actSel < 2) /\ ~to.swap
          BY <4>2 DEF base
        <5>2. actSel = 2
          BY <1>1, <5>1
        <5>3. Before(at, iPntSel) <=> Before(pntSel, iPntSel)
          BY <2>1, <5>1 DEF Before
        <5>4. BeginFor(iPntSel, at) = BeginFor(iPntSel, pntSel)
          BY <5>3 DEF BeginFor
        <5> QED
          BY <2>2, <5>1, <5>2, <5>4 DEF Draws
      <4> QED
        BY <4>1, <4>2
    <3>3. Draws(EndAt(base, at[1] + to.offset, at[2]), iPntSel, at)
      BY <1>1, <1>5, <1>9, <2>1, <3>1, <3>2, EndDraws
    <3> QED
      BY <1>11, <3>1, <3>3
  <2> QED
    BY <2>3, <2>4
<1> QED
  BY <1>4, <1>5, <1>11, <1>12, <1>13

-----------------------------------------------------------------------------
LEMMA FlagsTyped ==
  ASSUME NEW t \in Seq(Row), NEW first \in Nat, first + Lines <= Len(t)
  PROVE  FlagsFrom(t, first) \in [1 .. Lines -> BOOLEAN]
<1>1. Lines \in Nat
  BY SearchAssumption
<1>2. ASSUME NEW i \in 1 .. Lines PROVE IsWrapped(t, first + i - 1) \in BOOLEAN
  <2>1. (first + i - 1) + 1 \in 1 .. Len(t)
    BY <1>1
  <2>2. t[(first + i - 1) + 1] \in Row
    BY <2>1
  <2> QED
    BY <2>2 DEF IsWrapped, Row
<1> QED
  BY <1>2 DEF FlagsFrom

LEMMA UnitTyped ==
  ASSUME NEW s \in Selections
  PROVE  Unit(s) \in Int \X Int
<1>1. s.tl \in Int /\ s.br \in Int
  BY DEF Selections
<1> QED
  BY <1>1 DEF Unit, Nowhere

(* A step that leaves the text alone keeps the types when it keeps those   *)
(* of what it changes.                                                     *)
LEMMA TypesKept ==
  ASSUME MouseTypeOK, Placed, text' = text, flags' \in [1 .. Lines -> BOOLEAN],
         tracking' \in BOOLEAN, forward' = forward, top' \in 0 .. Hist, sel' \in Selections,
         Spot(iPntSel'), Spot(pntSel'), Spot(pointer'),
         tripleSelBegin' \in Int \X Int, origin' \in Int \X Int, actSel' \in {0, 1, 2},
         mode' \subseteq {"word", "line", "column"}, triple' \in BOOLEAN, held' \in BOOLEAN,
         lost' \in BOOLEAN, shots' \in 0 .. MaxShots,
         clicked' \in {<<>>} \cup {<<p>> : p \in Pointers}
  PROVE  MouseTypeOK' /\ Placed'
<1>1. Hist' = Hist /\ Len(text') >= Lines /\ text' \in Seq(Row)
  BY DEF MouseTypeOK, Placed, Hist
<1>2. {iPntSel', pntSel', pointer', tripleSelBegin', origin'} \subseteq Int \X Int
  BY DEF Spot
<1>3. {triple', tracking', forward', held', lost'} \subseteq BOOLEAN
  BY DEF MouseTypeOK
<1> QED
  BY <1>1, <1>2, <1>3 DEF MouseTypeOK, Placed, Selections

LEMMA TypesAre ==
  ASSUME MouseTypeOK, Placed
  PROVE  /\ flags \in [1 .. Lines -> BOOLEAN] /\ tracking \in BOOLEAN
         /\ top \in 0 .. Hist /\ sel \in Selections
         /\ Spot(iPntSel) /\ Spot(pntSel) /\ Spot(pointer)
         /\ tripleSelBegin \in Int \X Int /\ origin \in Int \X Int /\ actSel \in {0, 1, 2}
         /\ mode \subseteq {"word", "line", "column"} /\ triple \in BOOLEAN /\ held \in BOOLEAN
         /\ lost \in BOOLEAN /\ shots \in 0 .. MaxShots
         /\ clicked \in {<<>>} \cup {<<p>> : p \in Pointers}
BY DEF MouseTypeOK, Placed, Selections

LEMMA PointersPoint ==
  ASSUME NEW p, p \in Pointers \/ p \in Drags
  PROVE  Pointed(p) /\ (p \in Pointers => p.row \in 0 .. Lines - 1)
<1>1. Lines \in Nat /\ Columns \in Nat
  BY SearchAssumption
<1> QED
  BY <1>1 DEF Pointers, Drags, Pointed

(* The row under the pointer                                               *)
LEMMA RowUnder ==
  ASSUME MouseTypeOK, Placed, NEW p \in Pointers, NEW edge \in BOOLEAN
  PROVE  top + p.row \in Nat /\ Spot(<<Column(p, edge), top + p.row>>)
         /\ top + p.row <= top + Lines - 1
<1>1. Lines \in Nat /\ Lines >= 1 /\ Hist \in Nat /\ top \in 0 .. Hist /\ Columns \in Nat
  BY RowsOf, SearchAssumption
<1>2. p.row \in 0 .. Lines - 1 /\ Column(p, edge) \in 0 .. Columns
  BY PointersPoint, ColumnIs DEF Pointed
<1> DEFINE row == top + p.row
<1>3. row \in Nat /\ row <= top + Lines - 1
  BY <1>1, <1>2
<1> HIDE DEF row
<1>4. Spot(<<Column(p, edge), row>>)
  BY <1>1, <1>2, <1>3 DEF Spot
<1> QED
  BY <1>3, <1>4 DEF row

LEMMA SelectLineKeeps ==
  ASSUME MouseTypeOK, Placed, NEW p \in Pointers, NEW edge, SelectLine(p, edge)
  PROVE  /\ Spot(iPntSel') /\ tripleSelBegin' \in Int \X Int /\ sel' \in Selections
         /\ origin' \in Int \X Int /\ mode' \subseteq {"word", "line", "column"}
         /\ "line" \in mode' /\ actSel' = 2 /\ lost' = FALSE
         /\ top' = top /\ pntSel' = pntSel /\ pointer' = pointer
<1> DEFINE pic == [top |-> top, flags |-> flags, edge |-> edge]
           y == top + p.row
           start == IF forward THEN findWordStart(text, pic, Column(p, TRUE), y)
                               ELSE <<0, findLineStart(text, pic, y)>>
           end == <<Columns - 1, findLineEnd(text, pic, y)>>
<1>1. /\ iPntSel' = end /\ lost' = FALSE
      /\ tripleSelBegin' = <<start[1], start[2] - top>>
      /\ sel' = EndAt(StartAt(start[1], start[2], FALSE), end[1], end[2])
      /\ origin' = Unit(sel')
      /\ mode' = (mode \ {"word"}) \cup {"line"}
      /\ actSel' = 2
      /\ UNCHANGED <<top, pntSel, pointer>>
  BY DEF SelectLine
<1>2. Columns \in Nat /\ Columns >= 2 /\ LastRow(text) \in Nat /\ top \in Nat
  BY RowsOf, SearchAssumption
<1>3. y \in Nat /\ Column(p, TRUE) \in 0 .. Columns
  BY RowUnder, PointersPoint, ColumnIs DEF Pointed
<1> HIDE DEF pic, y
<1>4. Spot(start)
  <2>1. findLineStart(text, pic, y) \in Nat
    BY <1>3, LineStartIsRow
  <2>2. Spot(<<0, findLineStart(text, pic, y)>>)
    BY <1>2, <2>1 DEF Spot
  <2>3. Spot(findWordStart(text, pic, Column(p, TRUE), y))
    BY <1>3, WordStartIsPlace DEF Spot
  <2> QED
    BY <2>2, <2>3
<1>5. Spot(end)
  <2>1. findLineEnd(text, pic, y) \in Nat
    BY <1>2, <1>3, LineEndIsRow
  <2> QED
    BY <1>2, <2>1 DEF Spot
<1> HIDE DEF start, end
<1>6. start[1] \in Int /\ start[2] \in Int /\ end[1] \in Int /\ end[2] \in Int /\ start[2] - top \in Int
  BY <1>2, <1>4, <1>5 DEF Spot
<1>7. EndAt(StartAt(start[1], start[2], FALSE), end[1], end[2]) \in Selections
  BY <1>6, StartTyped, EndTyped
<1>8. sel' \in Selections
  BY <1>1, <1>7
<1>9. Unit(sel') \in Int \X Int
  BY <1>8, UnitTyped
<1> QED
  BY <1>1, <1>5, <1>6, <1>8, <1>9, TypesAre

LEMMA PressKeeps ==
  ASSUME MouseSound, NEW p \in Pointers, NEW m \in SUBSET {"shift", "column"}, NEW edge,
         MousePress(p, m, edge)
  PROVE  MouseSound'
<1>1. MouseTypeOK /\ Placed /\ IdleWhenUp /\ Dragged
  BY DEF MouseSound
<1>2. /\ ~held /\ held' = TRUE /\ clicked' = <<p>> /\ triple' = triple /\ shots' = shots
      /\ text' = text /\ flags' = flags /\ tracking' = tracking /\ forward' = forward
  BY DEF MousePress, unmoved
<1>3. actSel = 0
  BY <1>1, <1>2 DEF IdleWhenUp
<1>4. clicked' \in {<<>>} \cup {<<q>> : q \in Pointers}
  BY <1>2
<1>5. CASE triple
  <2>1. SelectLine(p, edge)
    BY <1>5 DEF MousePress
  <2>2. MouseTypeOK' /\ Placed'
    BY <1>1, <1>2, <1>4, <2>1, SelectLineKeeps, TypesAre, TypesKept
  <2>3. Dragged' /\ IdleWhenUp'
    BY <1>1, <1>2, <2>1, SelectLineKeeps DEF Dragged, IdleWhenUp
  <2> QED
    BY <2>2, <2>3 DEF MouseSound
<1>6. CASE ~triple
  <2>m. mode' = (IF m = {} THEN {} ELSE mode \ {"column"}) \cup (m \cap {"column"})
    BY <1>6 DEF MousePress
  <2>n. mode' \subseteq {"word", "line", "column"}
    BY <1>1, <2>m, TypesAre
  <2> DEFINE Shifted == ~tracking /\ "shift" \in m
             Begins == tracking # ("shift" \notin m)
  <2>1. CASE Shifted
    <3>0. ~Begins
      <4>1. tracking \in BOOLEAN
        BY <1>1, TypesAre
      <4>2. tracking = FALSE /\ ("shift" \notin m) = FALSE
        BY <2>1, <4>1
      <4> QED
        BY <4>2
    <3>1. ExtendSelection(p, mode', edge) /\ origin' = Nowhere /\ UNCHANGED <<iPntSel, lost>>
      BY <1>6, <2>1, <3>0 DEF MousePress
    <3>2. /\ top' \in 0 .. Hist /\ Spot(pointer') /\ Spot(pntSel') /\ tripleSelBegin' \in Int \X Int
          /\ sel' \in Selections /\ actSel' \in {0, 1, 2}
          /\ mode' = {} /\ actSel' = 2 /\ ~lost =>
               /\ pntSel' # iPntSel /\ pointer' \in {pntSel', iPntSel}
               /\ Draws(sel', iPntSel, pntSel')
      BY <1>3, <3>1, PointersPoint, Extends
    <3>3. Nowhere \in Int \X Int
      BY DEF Nowhere
    <3>4. MouseTypeOK' /\ Placed'
      BY <1>1, <1>2, <1>4, <2>n, <3>1, <3>2, <3>3, TypesAre, TypesKept
    <3>5. Dragged' /\ IdleWhenUp'
      BY <1>2, <3>1, <3>2 DEF Dragged, IdleWhenUp
    <3> QED
      BY <3>4, <3>5 DEF MouseSound
  <2>2. CASE ~Shifted /\ Begins
    <3>1. /\ sel' = [NoSelection EXCEPT !.block = sel.block]
          /\ iPntSel' = <<Column(p, ~tracking), top + p.row>>
          /\ pntSel' = iPntSel' /\ pointer' = iPntSel'
          /\ actSel' = 1 /\ lost' = FALSE /\ origin' = Nowhere
          /\ UNCHANGED <<top, tripleSelBegin>>
      BY <1>6, <2>2 DEF MousePress
    <3>2. sel' \in Selections
      <4>1. sel.block \in BOOLEAN
        BY <1>1, TypesAre DEF Selections
      <4> QED
        BY <3>1, <4>1 DEF NoSelection, Selections
    <3>3. Spot(iPntSel')
      <4>1. (~tracking) \in BOOLEAN
        BY Zenon
      <4> QED
        BY <1>1, <3>1, <4>1, RowUnder
    <3>4. Nowhere \in Int \X Int
      BY DEF Nowhere
    <3>5. MouseTypeOK' /\ Placed'
      BY <1>1, <1>2, <1>4, <2>n, <3>1, <3>2, <3>3, <3>4, TypesAre, TypesKept
    <3>6. Dragged' /\ IdleWhenUp'
      BY <1>2, <3>1 DEF Dragged, IdleWhenUp
    <3> QED
      BY <3>5, <3>6 DEF MouseSound
  <2>3. CASE ~Shifted /\ ~Begins
    <3>1. UNCHANGED <<top, sel, iPntSel, pntSel, pointer, tripleSelBegin, actSel, lost, origin>>
      BY <1>6, <2>3 DEF MousePress
    <3>2. MouseTypeOK' /\ Placed'
      BY <1>1, <1>2, <1>4, <2>n, <3>1, TypesAre, TypesKept
    <3>3. Dragged' /\ IdleWhenUp'
      BY <1>2, <1>3, <3>1 DEF Dragged, IdleWhenUp
    <3> QED
      BY <3>2, <3>3 DEF MouseSound
  <2> QED
    BY <2>1, <2>2, <2>3
<1> QED
  BY <1>5, <1>6

LEMMA MoveKeeps ==
  ASSUME MouseSound, NEW p \in Drags, NEW shift \in BOOLEAN, NEW edge, MouseMove(p, shift, edge)
  PROVE  MouseSound'
<1>1. MouseTypeOK /\ Placed /\ IdleWhenUp /\ Dragged
  BY DEF MouseSound
<1>2. /\ held /\ ExtendSelection(p, mode, edge)
      /\ clicked' = IF clicked # <<>> /\ Near(p, clicked[1]) THEN clicked ELSE <<>>
      /\ text' = text /\ flags' = flags /\ tracking' = tracking /\ forward' = forward
      /\ iPntSel' = iPntSel /\ mode' = mode /\ triple' = triple /\ shots' = shots /\ held' = held
      /\ origin' = origin /\ lost' = lost
  BY DEF MouseMove, unmoved
<1>3. /\ top' \in 0 .. Hist /\ Spot(pointer') /\ Spot(pntSel') /\ tripleSelBegin' \in Int \X Int
      /\ sel' \in Selections /\ actSel' \in {0, 1, 2}
      /\ mode = {} /\ actSel' = 2 /\ ~lost =>
           /\ pntSel' # iPntSel /\ pointer' \in {pntSel', iPntSel}
           /\ Draws(sel', iPntSel, pntSel')
  BY <1>2, PointersPoint, Extends
<1>4. clicked' \in {<<>>} \cup {<<q>> : q \in Pointers}
  BY <1>1, <1>2, TypesAre
<1>5. MouseTypeOK' /\ Placed'
  BY <1>1, <1>2, <1>3, <1>4, TypesAre, TypesKept
<1>6. Dragged' /\ IdleWhenUp'
  BY <1>2, <1>3 DEF Dragged, IdleWhenUp
<1> QED
  BY <1>5, <1>6 DEF MouseSound

LEMMA DoubleClickKeeps ==
  ASSUME MouseSound, NEW p \in Pointers, NEW shift \in BOOLEAN, NEW edge,
         MouseDoubleClick(p, shift, edge)
  PROVE  MouseSound'
<1>1. MouseTypeOK /\ Placed /\ IdleWhenUp /\ Dragged
  BY DEF MouseSound
<1>2. /\ ~held /\ held' = TRUE /\ clicked' = <<>> /\ shots < MaxShots
      /\ text' = text /\ flags' = flags /\ tracking' = tracking /\ forward' = forward
      /\ top' = top /\ pntSel' = pntSel /\ tripleSelBegin' = tripleSelBegin
  BY DEF MouseDoubleClick, unmoved
<1>3. actSel = 0
  BY <1>1, <1>2 DEF IdleWhenUp
<1>4. CASE tracking /\ ~shift
  <2>1. UNCHANGED <<sel, iPntSel, pointer, actSel, mode, triple, shots, origin, lost>>
    BY <1>4 DEF MouseDoubleClick
  <2>2. MouseTypeOK' /\ Placed'
    BY <1>1, <1>2, <2>1, TypesAre, TypesKept
  <2>3. Dragged' /\ IdleWhenUp'
    BY <1>2, <1>3, <2>1 DEF Dragged, IdleWhenUp
  <2> QED
    BY <2>2, <2>3 DEF MouseSound
<1>5. CASE ~(tracking /\ ~shift)
  <2> DEFINE pic == [top |-> top, flags |-> flags, edge |-> edge]
             x == Min({Column(p, ~tracking), Columns - 1})
             start == findWordStart(text, pic, x, top + p.row)
             end == findWordEnd(text, pic, x, top + p.row)
  <2>1. /\ iPntSel' = <<x, top + p.row>> /\ lost' = FALSE
        /\ pointer' = iPntSel'
        /\ mode' = mode \cup {"word"}
        /\ actSel' = 2
        /\ sel' = EndAt(StartAt(start[1], start[2], FALSE), end[1], end[2])
        /\ origin' = Unit(sel')
        /\ triple' = TRUE /\ shots' = shots + 1
    BY <1>5 DEF MouseDoubleClick
  <2>2. /\ Columns \in Nat /\ Columns >= 2 /\ Lines \in Nat /\ Lines >= 1 /\ LastRow(text) \in Nat
        /\ top \in Nat /\ top <= Hist /\ Hist \in Nat /\ Hist + Lines - 1 = LastRow(text)
    BY <1>1, RowsOf, SearchAssumption
  <2>3. x \in 0 .. Columns - 1
    <3>1. (~tracking) \in BOOLEAN
      BY Zenon
    <3>2. Column(p, ~tracking) \in 0 .. Columns
      BY <3>1, PointersPoint, ColumnIs DEF Pointed
    <3>3. Column(p, ~tracking) \in Int /\ Columns - 1 \in Int
      BY <2>2, <3>2
    <3>4. x = IF Column(p, ~tracking) <= Columns - 1 THEN Column(p, ~tracking) ELSE Columns - 1
      BY <3>3, MinOf
    <3> HIDE DEF x
    <3> QED
      BY <2>2, <3>2, <3>3, <3>4
  <2> DEFINE y == top + p.row
  <2>4. y \in Nat /\ y <= Bottom(pic) /\ Bottom(pic) \in Nat /\ Bottom(pic) <= LastRow(text)
    <3>1. p.row \in 0 .. Lines - 1
      BY PointersPoint
    <3> QED
      BY <2>2, <3>1 DEF Bottom
  <2> HIDE DEF pic, x, y
  <2>5. Spot(start)
    <3>1. x \in 0 .. Columns
      BY <2>2, <2>3
    <3>2. Spot(findWordStart(text, pic, x, y))
      BY <2>4, <3>1, WordStartIsPlace DEF Spot
    <3> QED
      BY <3>2 DEF y
  <2>6. Spot(end)
    <3>1. Spot(findWordEnd(text, pic, x, y))
      BY <2>2, <2>3, <2>4, FindWordEndIsPlace DEF Spot
    <3> QED
      BY <3>1 DEF y
  <2> HIDE DEF start, end
  <2>7. start[1] \in Int /\ start[2] \in Int /\ end[1] \in Int /\ end[2] \in Int
    BY <2>5, <2>6 DEF Spot
  <2>8. EndAt(StartAt(start[1], start[2], FALSE), end[1], end[2]) \in Selections
    BY <2>7, StartTyped, EndTyped
  <2>9. sel' \in Selections
    BY <2>1, <2>8
  <2>10. Unit(sel') \in Int \X Int
    BY <2>9, UnitTyped
  <2>11. Spot(iPntSel')
    <3>1. iPntSel' = <<x, y>>
      BY <2>1 DEF y
    <3> QED
      BY <2>2, <2>3, <2>4, <3>1 DEF Spot
  <2>12. shots' \in 0 .. MaxShots /\ mode' \subseteq {"word", "line", "column"}
    <3>1. shots \in 0 .. MaxShots /\ mode \subseteq {"word", "line", "column"}
      BY <1>1, TypesAre
    <3> QED
      BY <1>2, <2>1, <3>1, MouseAssumption
  <2>13. MouseTypeOK' /\ Placed'
    BY <1>1, <1>2, <2>1, <2>9, <2>10, <2>11, <2>12, TypesAre, TypesKept
  <2>14. Dragged' /\ IdleWhenUp'
    BY <1>2, <2>1 DEF Dragged, IdleWhenUp
  <2> QED
    BY <2>13, <2>14 DEF MouseSound
<1> QED
  BY <1>4, <1>5

LEMMA ReleaseKeeps ==
  ASSUME MouseSound, MouseRelease
  PROVE  MouseSound'
<1>1. MouseTypeOK /\ Placed /\ IdleWhenUp /\ Dragged
  BY DEF MouseSound
<1>2. /\ held' = FALSE /\ actSel' = 0
      /\ text' = text /\ flags' = flags /\ tracking' = tracking /\ forward' = forward
      /\ UNCHANGED <<top, sel, iPntSel, pntSel, pointer, tripleSelBegin, mode, triple,
                     shots, clicked, origin, lost>>
  BY DEF MouseRelease, unmoved
<1>3. MouseTypeOK' /\ Placed'
  BY <1>1, <1>2, TypesAre, TypesKept
<1>4. Dragged' /\ IdleWhenUp'
  BY <1>2 DEF Dragged, IdleWhenUp
<1> QED
  BY <1>3, <1>4 DEF MouseSound

LEMMA TimeoutKeeps ==
  ASSUME MouseSound, TripleTimeout
  PROVE  MouseSound'
<1>1. MouseTypeOK /\ Placed /\ IdleWhenUp /\ Dragged
  BY DEF MouseSound
<1>2. /\ shots > 0 /\ shots' = shots - 1 /\ triple' = FALSE
      /\ text' = text /\ flags' = flags /\ tracking' = tracking /\ forward' = forward
      /\ UNCHANGED <<top, sel, iPntSel, pntSel, pointer, tripleSelBegin, actSel, mode,
                     held, clicked, origin, lost>>
  BY DEF TripleTimeout, unmoved
<1>3. shots' \in 0 .. MaxShots
  BY <1>1, <1>2, TypesAre, MouseAssumption
<1>4. MouseTypeOK' /\ Placed'
  BY <1>1, <1>2, <1>3, TypesAre, TypesKept
<1>5. Dragged' /\ IdleWhenUp'
  BY <1>1, <1>2 DEF Dragged, IdleWhenUp
<1> QED
  BY <1>4, <1>5 DEF MouseSound

LEMMA WheelKeeps ==
  ASSUME MouseSound, NEW n \in Int, Wheel(n)
  PROVE  MouseSound'
<1>1. MouseTypeOK /\ Placed /\ IdleWhenUp /\ Dragged
  BY DEF MouseSound
<1>2. /\ top' = Scrolled(n)
      /\ text' = text /\ flags' = flags /\ tracking' = tracking /\ forward' = forward
      /\ UNCHANGED <<sel, iPntSel, pntSel, pointer, tripleSelBegin, actSel, mode, triple,
                     shots, held, clicked, origin, lost>>
  BY DEF Wheel, unmoved
<1>3. top' \in 0 .. Hist
  BY <1>1, <1>2, ScrolledIs
<1>4. MouseTypeOK' /\ Placed'
  BY <1>1, <1>2, <1>3, TypesAre, TypesKept
<1>5. Dragged' /\ IdleWhenUp'
  BY <1>1, <1>2 DEF Dragged, IdleWhenUp
<1> QED
  BY <1>4, <1>5 DEF MouseSound

LEMMA KeyKeeps ==
  ASSUME MouseSound, KeyPress
  PROVE  MouseSound'
<1>1. MouseTypeOK /\ Placed /\ IdleWhenUp /\ Dragged
  BY DEF MouseSound
<1>2. /\ actSel' = 0
      /\ UNCHANGED <<text, tracking, forward, sel, iPntSel, pntSel, pointer, tripleSelBegin, mode,
                     triple, shots, held, clicked, origin, lost>>
  BY DEF KeyPress
<1>3. PICK from \in {top, Hist} :
        \/ top' = from /\ UNCHANGED flags
        \/ \E n \in {-1, 1} : top' = Within(0, from + n, Hist) /\ flags' = FlagsFrom(text, top')
  BY DEF KeyPress
<1>4. Hist \in Nat /\ from \in 0 .. Hist /\ Hist = Len(text) - Lines /\ Lines \in Nat
      /\ Len(text) \in Nat /\ text \in Seq(Row)
  <2>1. Hist \in Nat /\ top \in 0 .. Hist /\ Lines \in Nat /\ Len(text) \in Nat
    BY <1>1, RowsOf
  <2>2. text \in Seq(Row)
    BY <1>1 DEF MouseTypeOK
  <2> QED
    BY <1>3, <2>1, <2>2 DEF Hist
<1>5. top' \in 0 .. Hist /\ flags' \in [1 .. Lines -> BOOLEAN]
  <2>1. CASE top' = from /\ flags' = flags
    BY <1>1, <1>4, <2>1, TypesAre
  <2>2. CASE \E n \in {-1, 1} : top' = Within(0, from + n, Hist) /\ flags' = FlagsFrom(text, top')
    <3>1. PICK n \in {-1, 1} : top' = Within(0, from + n, Hist) /\ flags' = FlagsFrom(text, top')
      BY <2>2
    <3>2. 0 \in Int /\ from + n \in Int /\ Hist \in Int /\ 0 <= Hist
      BY <1>4
    <3>3. top' \in 0 .. Hist
      BY <3>1, <3>2, WithinIs
    <3>4. top' \in Nat /\ top' + Lines <= Len(text)
      BY <1>4, <3>3
    <3>5. FlagsFrom(text, top') \in [1 .. Lines -> BOOLEAN]
      BY <1>4, <3>4, FlagsTyped
    <3> QED
      BY <3>1, <3>3, <3>5
  <2> QED
    BY <1>3, <2>1, <2>2
<1>6. MouseTypeOK' /\ Placed'
  BY <1>1, <1>2, <1>5, TypesAre, TypesKept
<1>7. Dragged' /\ IdleWhenUp'
  BY <1>2 DEF Dragged, IdleWhenUp
<1> QED
  BY <1>6, <1>7 DEF MouseSound

LEMMA TrackingKeeps ==
  ASSUME MouseSound, SetUsesMouseTracking
  PROVE  MouseSound'
<1>1. MouseTypeOK /\ Placed /\ IdleWhenUp /\ Dragged
  BY DEF MouseSound
<1>2. /\ tracking' = ~tracking
      /\ UNCHANGED <<text, top, flags, sel, iPntSel, pntSel, pointer, tripleSelBegin, actSel, mode,
                     triple, shots, forward, held, clicked, origin, lost>>
  BY DEF SetUsesMouseTracking
<1>3. tracking' \in BOOLEAN
  BY <1>2, Zenon
<1>4. MouseTypeOK' /\ Placed'
  BY <1>1, <1>2, <1>3, TypesAre, TypesKept
<1>5. Dragged' /\ IdleWhenUp'
  BY <1>1, <1>2 DEF Dragged, IdleWhenUp
<1> QED
  BY <1>4, <1>5 DEF MouseSound

(* Output moves the text under the places that are kept; only the          *)
(* selection follows a full history.                                       *)
LEMMA OutputKeeps ==
  ASSUME MouseSound, OutputLine
  PROVE  MouseSound'
<1>1. MouseTypeOK /\ Placed /\ IdleWhenUp /\ Dragged
  BY DEF MouseSound
<1> DEFINE full == Hist = MaxHistory
           br == sel.br - Columns
           tl == Max({0, sel.tl - Columns})
<1>2. /\ text' = Append(IF full THEN Tail(text) ELSE text, Blank)
      /\ top' = IF top = Hist THEN Hist' ELSE IF full THEN Max({0, top - 1}) ELSE top
      /\ flags' = FlagsFrom(text', top')
      /\ lost' = (lost \/ full)
      /\ sel' = IF ~full \/ sel.begin = -1 THEN sel
                ELSE IF br < 0 THEN [NoSelection EXCEPT !.block = sel.block]
                ELSE [sel EXCEPT !.tl = tl, !.br = br,
                                 !.begin = IF sel.begin = sel.tl THEN tl ELSE br]
      /\ UNCHANGED <<iPntSel, pntSel, pointer, tripleSelBegin, actSel, mode, triple, shots,
                     tracking, forward, held, clicked, origin>>
  BY DEF OutputLine
<1>3. /\ Lines \in Nat /\ Lines >= 1 /\ Hist \in Nat /\ top \in 0 .. Hist /\ Columns \in Nat
      /\ Hist = Len(text) - Lines /\ text \in Seq(Row) /\ Len(text) \in Nat
      /\ Hist' = Len(text') - Lines
  BY <1>1, RowsOf, SearchAssumption DEF MouseTypeOK, Hist
<1>4. text' \in Seq(Row) /\ Len(text') = IF full THEN Len(text) ELSE Len(text) + 1
  <2>1. Blank \in Row
    BY DEF Blank, Row
  <2> DEFINE kept == IF full THEN Tail(text) ELSE text
  <2>2. text # <<>>
    BY <1>3
  <2>3. kept \in Seq(Row) /\ Len(kept) = IF full THEN Len(text) - 1 ELSE Len(text)
    BY <1>3, <2>2
  <2>4. text' = Append(kept, Blank)
    BY <1>2
  <2> HIDE DEF kept, full
  <2>5. text' \in Seq(Row) /\ Len(text') = Len(kept) + 1
    BY <2>1, <2>3, <2>4
  <2>6. (IF full THEN Len(text) - 1 ELSE Len(text)) + 1 = IF full THEN Len(text) ELSE Len(text) + 1
    BY <1>3
  <2> QED
    BY <2>3, <2>5, <2>6
<1> HIDE DEF full
<1>5. top' \in 0 .. Hist' /\ Hist' \in Nat
  <2>1. Max({0, top - 1}) = IF 0 >= top - 1 THEN 0 ELSE top - 1
    <3>1. 0 \in Int /\ top - 1 \in Int
      BY <1>3
    <3> QED
      BY <3>1, MaxOf
  <2>2. Hist' = (IF full THEN Hist ELSE Hist + 1)
    BY <1>3, <1>4
  <2> QED
    BY <1>2, <1>3, <2>1, <2>2
<1>6. flags' \in [1 .. Lines -> BOOLEAN]
  <2>1. top' \in Nat /\ top' + Lines <= Len(text')
    BY <1>3, <1>4, <1>5
  <2>2. FlagsFrom(text', top') \in [1 .. Lines -> BOOLEAN]
    BY <1>4, <2>1, FlagsTyped
  <2> QED
    BY <1>2, <2>2
<1>7. sel' \in Selections
  <2>1. sel \in Selections /\ sel.tl \in Int /\ sel.br \in Int /\ sel.block \in BOOLEAN
    BY <1>1, TypesAre DEF Selections
  <2>2. tl \in Int /\ br \in Int
    <3>1. 0 \in Int /\ sel.tl - Columns \in Int
      BY <1>3, <2>1
    <3> QED
      BY <1>3, <2>1, <3>1, MaxOf
  <2> HIDE DEF tl, br
  <2>3. [NoSelection EXCEPT !.block = sel.block] \in Selections
    BY <2>1 DEF NoSelection, Selections
  <2>4. [sel EXCEPT !.tl = tl, !.br = br, !.begin = IF sel.begin = sel.tl THEN tl ELSE br]
          \in Selections
    BY <2>1, <2>2 DEF Selections
  <2> QED
    BY <1>2, <2>1, <2>3, <2>4
<1>8. lost' \in BOOLEAN /\ (~lost' => ~lost /\ sel' = sel)
  BY <1>1, <1>2, TypesAre
<1>9. MouseTypeOK'
  <2>1. sel' \in [begin : Int, tl : Int, br : Int, block : BOOLEAN]
    BY <1>7 DEF Selections
  <2>2. {triple', tracking', forward', held', lost'} \subseteq BOOLEAN
    BY <1>1, <1>2, <1>8 DEF MouseTypeOK
  <2> QED
    BY <1>1, <1>2, <1>4, <1>5, <1>6, <2>1, <2>2 DEF MouseTypeOK
<1>10. Placed' /\ IdleWhenUp'
  <2>1. Len(text') >= Lines
    BY <1>3, <1>4
  <2> QED
    BY <1>1, <1>2, <2>1 DEF Placed, IdleWhenUp
<1>11. Dragged'
  BY <1>1, <1>2, <1>8 DEF Dragged
<1> QED
  BY <1>9, <1>10, <1>11 DEF MouseSound

-----------------------------------------------------------------------------
LEMMA MouseStarts ==
  ASSUME MouseInit(Texts)
  PROVE  MouseSound
<1>1. /\ text \in Seq(Row) /\ Len(text) - Lines \in 0 .. MaxHistory /\ top = Hist
      /\ flags = FlagsFrom(text, top) /\ sel = NoSelection
      /\ iPntSel = <<0, 0>> /\ pntSel = <<0, 0>> /\ tripleSelBegin = <<0, 0>>
      /\ actSel = 0 /\ mode = {} /\ triple = FALSE /\ shots = 0
      /\ tracking = FALSE /\ forward \in BOOLEAN
      /\ held = FALSE /\ clicked = <<>>
      /\ pointer = <<0, 0>> /\ origin = Nowhere /\ lost = FALSE
  BY DEF MouseInit, Texts
<1>2. Lines \in Nat /\ Columns \in Nat /\ MaxHistory \in Nat /\ MaxShots \in Nat /\ Len(text) \in Nat
      /\ Hist = Len(text) - Lines
  BY <1>1, SearchAssumption, MouseAssumption DEF Hist
<1>3. top \in Nat /\ top \in 0 .. Hist /\ top + Lines <= Len(text) /\ Len(text) >= Lines
  BY <1>1, <1>2
<1>4. flags \in [1 .. Lines -> BOOLEAN]
  BY <1>1, <1>3, FlagsTyped
<1>5. sel \in [begin : Int, tl : Int, br : Int, block : BOOLEAN]
  BY <1>1 DEF NoSelection
<1>6. Spot(<<0, 0>>) /\ Nowhere \in Int \X Int
  BY <1>2 DEF Spot, Nowhere
<1>7. MouseTypeOK /\ Placed
  <2>1. {iPntSel, pntSel, pointer, tripleSelBegin, origin} \subseteq Int \X Int
    BY <1>1, <1>6
  <2>2. {triple, tracking, forward, held, lost} \subseteq BOOLEAN
    BY <1>1
  <2>3. shots \in 0 .. MaxShots /\ actSel \in {0, 1, 2} /\ mode \subseteq {"word", "line", "column"}
    BY <1>1, <1>2
  <2>4. Placed
    BY <1>1, <1>3, <1>6 DEF Placed
  <2> QED
    BY <1>1, <1>3, <1>4, <1>5, <2>1, <2>2, <2>3, <2>4 DEF MouseTypeOK
<1>8. IdleWhenUp /\ Dragged
  BY <1>1 DEF IdleWhenUp, Dragged
<1> QED
  BY <1>7, <1>8 DEF MouseSound

LEMMA MouseStep ==
  ASSUME MouseSound, [MouseNext]_mouseVars
  PROVE  MouseSound'
<1>1. CASE UNCHANGED mouseVars
  <2>1. MouseTypeOK' /\ Placed' /\ IdleWhenUp' /\ Dragged'
    BY <1>1 DEF mouseVars, MouseSound, MouseTypeOK, Hist, Placed, IdleWhenUp, Dragged
  <2> QED
    BY <2>1 DEF MouseSound
<1>2. CASE \E edge \in {" ", "a"} :
             \/ \E p \in Pointers, m \in SUBSET {"shift", "column"} : MousePress(p, m, edge)
             \/ \E p \in Drags, shift \in BOOLEAN : MouseMove(p, shift, edge)
             \/ \E p \in Pointers, shift \in BOOLEAN : MouseDoubleClick(p, shift, edge)
  BY <1>2, PressKeeps, MoveKeeps, DoubleClickKeeps
<1>3. CASE \E n \in {-1, 1} : Wheel(n)
  BY <1>3, WheelKeeps
<1>4. CASE MouseRelease \/ TripleTimeout \/ KeyPress \/ OutputLine \/ SetUsesMouseTracking
  BY <1>4, ReleaseKeeps, TimeoutKeeps, KeyKeeps, OutputKeeps, TrackingKeeps
<1> QED
  BY <1>1, <1>2, <1>3, <1>4 DEF MouseNext

(* The selection is what DragSelects says it is, when the pointer is where *)
(* the end that moves is, or back at the start.                            *)
LEMMA DragIs ==
  ASSUME MouseSound
  PROVE  MouseInv
<1>1. MouseTypeOK /\ Placed /\ Dragged
  BY DEF MouseSound
<1>2. ASSUME actSel = 2, mode = {}, ~lost, pointer # iPntSel PROVE DragSelects
  <2> DEFINE from == Pos(iPntSel[1], iPntSel[2])
             to == Pos(pointer[1], pointer[2])
             between == Min({from, to}) .. Max({from, to}) - 1
  <2>1. pointer = pntSel /\ Covers(sel, iPntSel, pointer)
    BY <1>1, <1>2 DEF Dragged, Draws
  <2>2. from = PosOf(iPntSel) /\ to = PosOf(pointer)
    BY DEF PosOf
  <2>3. from \in Int /\ to \in Int
    <3>1. /\ Columns \in Nat /\ iPntSel[1] \in Int /\ iPntSel[2] \in Int
          /\ pointer[1] \in Int /\ pointer[2] \in Int
      BY <1>1, SearchAssumption DEF Placed, Spot
    <3> QED
      BY <3>1 DEF Pos
  <2> HIDE DEF from, to
  <2>4. between = Between(iPntSel, pointer)
    BY <2>2, <2>3, MinOf, MaxOf DEF Between
  <2>5. ASSUME NEW c \in 0 .. Pos(Columns, LastRow(text)), (c \in Cells(sel)) # (c \in between)
        PROVE  c = from - 1 /\ Columns \in {pointer[1], iPntSel[1]}
    <3>1. c \in Int /\ Cells(sel) = sel.tl .. sel.br
      BY DEF Cells
    <3> QED
      BY <2>1, <2>2, <2>4, <2>5, <3>1 DEF Covers
  <2> QED
    BY <2>5 DEF DragSelects, from, to
<1>3. DragSelects
  BY <1>2 DEF DragSelects
<1> QED
  BY <1>1, <1>3 DEF MouseInv

(* However the mouse, the keys and the output go on, a drag by characters  *)
(* has the cells from the press to the pointer selected, the types of the  *)
(* display's selection state along with it (mousePressEvent,               *)
(* extendSelection).                                                       *)
THEOREM DragsSelect == MouseSpec => []MouseInv
<1>1. MouseInit(Texts) => MouseSound
  BY MouseStarts
<1>2. MouseSound /\ [MouseNext]_mouseVars => MouseSound'
  BY MouseStep
<1>3. MouseSound => MouseInv
  BY DragIs
<1> QED
  BY <1>1, <1>2, <1>3, PTL DEF MouseSpec

-----------------------------------------------------------------------------
(* Cells by number: the column and the row of a cell, and of its neighbour.*)
LEMMA Divides ==
  ASSUME NEW n \in Nat, n >= 1, NEW k \in Nat
  PROVE  k % n \in 0 .. n - 1 /\ k \div n \in Nat /\ k = (k \div n) * n + (k % n)
<1>1. k % n \in 0 .. n - 1
  OBVIOUS
<1>2. k \div n \in Int /\ k \div n >= 0
  OBVIOUS
<1>3. k = n * (k \div n) + (k % n)
  OBVIOUS
<1>4. n * (k \div n) = (k \div n) * n
  BY <1>2
<1> QED
  BY <1>1, <1>2, <1>3, <1>4

LEMMA Multiples ==
  ASSUME NEW n \in Nat, n >= 1, NEW a \in Nat, NEW b \in Nat, a < b
  PROVE  a * n + n <= b * n /\ a * n \in Nat /\ b * n \in Nat
<1>1. b - a - 1 \in Nat /\ b = a + 1 + (b - a - 1)
  OBVIOUS
<1> DEFINE d == b - a - 1
<1>2. b * n = a * n + n + d * n /\ d * n \in Nat
  BY <1>1
<1>3. a * n \in Nat /\ b * n \in Nat
  OBVIOUS
<1> HIDE DEF d
<1> QED
  BY <1>2, <1>3

LEMMA DividesOnce ==
  ASSUME NEW n \in Nat, n >= 1, NEW a \in Nat, NEW b \in 0 .. n - 1
  PROVE  (a * n + b) % n = b /\ (a * n + b) \div n = a
<1>1. a * n \in Nat
  OBVIOUS
<1> DEFINE k == a * n + b
           q == k \div n
           r == k % n
<1>2. k \in Nat
  BY <1>1
<1> HIDE DEF k
<1>3. r \in 0 .. n - 1 /\ q \in Nat /\ k = q * n + r
  BY <1>2, Divides
<1> HIDE DEF q, r
<1>4. ~(q < a)
  <2> SUFFICES ASSUME q < a PROVE FALSE
    OBVIOUS
  <2>1. q * n + n <= a * n
    BY <1>3, Multiples
  <2> QED
    BY <1>1, <1>3, <2>1 DEF k
<1>5. ~(a < q)
  <2> SUFFICES ASSUME a < q PROVE FALSE
    OBVIOUS
  <2>1. a * n + n <= q * n
    BY <1>3, Multiples
  <2> QED
    BY <1>1, <1>3, <2>1 DEF k
<1>6. q = a
  BY <1>3, <1>4, <1>5
<1>7. r = b
  BY <1>1, <1>3, <1>6 DEF k
<1> QED
  BY <1>6, <1>7 DEF q, r, k

ColOf(k) == k % Columns
RowOf(k) == k \div Columns

LEMMA CellNumbers ==
  ASSUME NEW k \in Nat
  PROVE  /\ ColOf(k) \in 0 .. Columns - 1 /\ RowOf(k) \in Nat /\ Pos(ColOf(k), RowOf(k)) = k
         /\ ColOf(k) < Columns - 1 => ColOf(k + 1) = ColOf(k) + 1 /\ RowOf(k + 1) = RowOf(k)
         /\ ColOf(k) = Columns - 1 => ColOf(k + 1) = 0 /\ RowOf(k + 1) = RowOf(k) + 1
<1>1. Columns \in Nat /\ Columns >= 1
  BY SearchAssumption
<1> DEFINE x == ColOf(k)
           y == RowOf(k)
<1>d. k % Columns \in 0 .. Columns - 1 /\ k \div Columns \in Nat
      /\ k = (k \div Columns) * Columns + (k % Columns)
  BY <1>1, Divides
<1>e. x = k % Columns /\ y = k \div Columns
  BY DEF ColOf, RowOf
<1> HIDE DEF x, y
<1>f. x \in 0 .. Columns - 1 /\ y \in Nat /\ k = y * Columns + x
  BY <1>d, <1>e
<1>2. x \in 0 .. Columns - 1 /\ y \in Nat /\ k = y * Columns + x /\ y * Columns \in Nat
  BY <1>1, <1>f
<1>3. ASSUME x < Columns - 1 PROVE ColOf(k + 1) = x + 1 /\ RowOf(k + 1) = y
  <2>1. k + 1 = y * Columns + (x + 1) /\ x + 1 \in 0 .. Columns - 1
    BY <1>1, <1>2, <1>3
  <2> QED
    BY <1>1, <1>2, <2>1, DividesOnce DEF ColOf, RowOf
<1>4. ASSUME x = Columns - 1 PROVE ColOf(k + 1) = 0 /\ RowOf(k + 1) = y + 1
  <2>1. k + 1 = (y + 1) * Columns + 0 /\ y + 1 \in Nat /\ 0 \in 0 .. Columns - 1
    BY <1>1, <1>2, <1>4
  <2>2. ((y + 1) * Columns + 0) % Columns = 0 /\ ((y + 1) * Columns + 0) \div Columns = y + 1
    BY <1>1, <2>1, DividesOnce
  <2> QED
    BY <2>1, <2>2 DEF ColOf, RowOf
<1>5. Pos(x, y) = k
  BY <1>2 DEF Pos
<1> QED
  BY <1>2, <1>3, <1>4, <1>5 DEF x, y

LEMMA NumbersOf ==
  ASSUME NEW x \in 0 .. Columns - 1, NEW y \in Nat
  PROVE  Pos(x, y) \in Nat /\ ColOf(Pos(x, y)) = x /\ RowOf(Pos(x, y)) = y
<1>1. Columns \in Nat /\ Columns >= 1
  BY SearchAssumption
<1>2. y * Columns \in Nat /\ Pos(x, y) = y * Columns + x
  BY <1>1 DEF Pos
<1>3. (y * Columns + x) % Columns = x /\ (y * Columns + x) \div Columns = y
  BY <1>1, DividesOnce
<1>4. Pos(x, y) \in Nat
  BY <1>1, <1>2
<1> QED
  BY <1>2, <1>3, <1>4 DEF ColOf, RowOf

LEMMA RowsInOrder ==
  ASSUME NEW j \in Nat, NEW k \in Nat
  PROVE  /\ j <= k => RowOf(j) <= RowOf(k)
         /\ RowOf(j) < RowOf(k) => j < k
         /\ RowOf(j) = RowOf(k) => (j < k <=> ColOf(j) < ColOf(k))
<1>1. /\ ColOf(k) \in 0 .. Columns - 1 /\ RowOf(k) \in Nat /\ k = RowOf(k) * Columns + ColOf(k)
      /\ ColOf(j) \in 0 .. Columns - 1 /\ RowOf(j) \in Nat /\ j = RowOf(j) * Columns + ColOf(j)
      /\ Columns \in Nat
  BY CellNumbers, SearchAssumption DEF Pos
<1> DEFINE m == RowOf(j) * Columns
           n == RowOf(k) * Columns
<1>2. m \in Nat /\ n \in Nat
  BY <1>1
<1>3. RowOf(j) < RowOf(k) => m + Columns <= n
  BY <1>1, RowsApart
<1>4. RowOf(k) < RowOf(j) => n + Columns <= m
  BY <1>1, RowsApart
<1>5. RowOf(j) = RowOf(k) => m = n
  OBVIOUS
<1>6. k = n + ColOf(k) /\ j = m + ColOf(j)
  BY <1>1
<1> HIDE DEF m, n
<1> QED
  BY <1>1, <1>2, <1>3, <1>4, <1>5, <1>6


-----------------------------------------------------------------------------
LEMMA MinIs ==
  ASSUME NEW S \in SUBSET Int, NEW m \in S, \A y \in S : m <= y
  PROVE  Min(S) = m
<1>1. \A x \in S : (\A y \in S : x <= y) => x = m
  OBVIOUS
<1>2. (CHOOSE x \in S : \A y \in S : x <= y) = m
  BY <1>1
<1> QED
  BY <1>2 DEF Min

LEMMA MaxIs ==
  ASSUME NEW S \in SUBSET Int, NEW m \in S, \A y \in S : m >= y
  PROVE  Max(S) = m
<1>1. \A x \in S : (\A y \in S : x >= y) => x = m
  OBVIOUS
<1>2. (CHOOSE x \in S : \A y \in S : x >= y) = m
  BY <1>1
<1> QED
  BY <1>2 DEF Max

(* A picture with the flags of its rows sees which rows are wrapped.       *)
Current(t, pic) ==
    /\ Len(t) \in Nat /\ pic.top \in Nat /\ pic.top + Lines <= Len(t)
    /\ \A y \in Nat : SeenWrapped(t, pic, y) = IsWrapped(t, y)
ClassAt(t, k) == charClass(CellAt(t, k))
Place(k) == <<ColOf(k), RowOf(k)>>

LEMMA JoinedIs ==
  ASSUME NEW t, NEW k \in Nat
  PROVE  /\ CellAt(t, k) = Cell(t, ColOf(k), RowOf(k))
         /\ Joined(t, k) <=> /\ ClassAt(t, k) = ClassAt(t, k + 1)
                             /\ ColOf(k + 1) = 0 => IsWrapped(t, RowOf(k))
BY DEF CellAt, Joined, ClassAt, ColOf, RowOf

LEMMA StartStep ==
  ASSUME NEW t, NEW pic, Current(t, pic), NEW j \in Nat, NEW class, ClassAt(t, j) = class, NEW f
  PROVE  /\ FirstOfWord(t, j) => BackFrom(t, pic, class, f, Place(j)) = Place(j)
         /\ ~FirstOfWord(t, j) => /\ j >= 1 /\ ClassAt(t, j - 1) = class
                                  /\ BackFrom(t, pic, class, f, Place(j)) = f[Place(j - 1)]
<1> DEFINE p == Place(j)
<1>1. p[1] = ColOf(j) /\ p[2] = RowOf(j) /\ Columns \in Nat /\ Columns >= 2
  BY SearchAssumption DEF Place
<1>2. CASE j = 0
  <2>1. ColOf(j) = 0 /\ RowOf(j) = 0
    <3>1. 0 \in 0 .. Columns - 1 /\ Pos(0, 0) = 0
      BY <1>1 DEF Pos
    <3> QED
      BY <1>2, <3>1, NumbersOf
  <2>2. ~Backs(t, class, p) /\ ~Wraps(t, pic, class, p)
    BY <1>1, <2>1 DEF Backs, Wraps
  <2> QED
    BY <1>2, <2>2 DEF BackFrom, FirstOfWord
<1>3. CASE j # 0
  <2> DEFINE i == j - 1
  <2>1. i \in Nat /\ i + 1 = j
    BY <1>3
  <2> HIDE DEF i
  <2>2. /\ ColOf(i) \in 0 .. Columns - 1 /\ RowOf(i) \in Nat
        /\ ColOf(i) < Columns - 1 => ColOf(j) = ColOf(i) + 1 /\ RowOf(j) = RowOf(i)
        /\ ColOf(i) = Columns - 1 => ColOf(j) = 0 /\ RowOf(j) = RowOf(i) + 1
    BY <2>1, CellNumbers
  <2>3. /\ CellAt(t, i) = Cell(t, ColOf(i), RowOf(i))
        /\ Joined(t, i) <=> /\ ClassAt(t, i) = class
                            /\ ColOf(j) = 0 => IsWrapped(t, RowOf(i))
    BY <2>1, JoinedIs
  <2>4. FirstOfWord(t, j) <=> ~Joined(t, i)
    BY <1>3 DEF FirstOfWord, i
  <2>5. ClassAt(t, i) = charClass(Cell(t, ColOf(i), RowOf(i)))
    BY <2>3 DEF ClassAt
  <2>6. SeenWrapped(t, pic, RowOf(i)) = IsWrapped(t, RowOf(i))
    BY <2>2 DEF Current
  <2>7. CASE ColOf(i) < Columns - 1
    <3>1. ColOf(j) > 0 /\ ColOf(j) # 0 /\ ColOf(j) - 1 = ColOf(i) /\ RowOf(j) = RowOf(i)
      BY <1>1, <2>2, <2>7
    <3>2. ~Wraps(t, pic, class, p)
      BY <1>1, <3>1 DEF Wraps
    <3>3. Backs(t, class, p) <=> ClassAt(t, i) = class
      BY <1>1, <2>5, <3>1 DEF Backs
    <3>4. <<p[1] - 1, p[2]>> = Place(i)
      BY <1>1, <3>1 DEF Place
    <3>5. BackFrom(t, pic, class, f, p) = IF ClassAt(t, i) = class THEN f[Place(i)] ELSE p
      BY <3>2, <3>3, <3>4 DEF BackFrom
    <3> QED
      BY <2>1, <2>3, <2>4, <3>1, <3>5 DEF i
  <2>8. CASE ColOf(i) = Columns - 1
    <3>1. ColOf(j) = 0 /\ ~(ColOf(j) > 0) /\ RowOf(j) = RowOf(i) + 1 /\ RowOf(j) > 0
          /\ RowOf(j) - 1 = RowOf(i)
      BY <2>2, <2>8
    <3>2. ~Backs(t, class, p)
      BY <1>1, <3>1 DEF Backs
    <3>3. Wraps(t, pic, class, p) <=> IsWrapped(t, RowOf(i)) /\ ClassAt(t, i) = class
      BY <1>1, <2>5, <2>6, <2>8, <3>1 DEF Wraps
    <3>4. <<Columns - 1, p[2] - 1>> = Place(i)
      BY <1>1, <2>8, <3>1 DEF Place
    <3>5. BackFrom(t, pic, class, f, p) =
            IF IsWrapped(t, RowOf(i)) /\ ClassAt(t, i) = class THEN f[Place(i)] ELSE p
      BY <3>2, <3>3, <3>4 DEF BackFrom
    <3> QED
      BY <2>1, <2>3, <2>4, <3>1, <3>5 DEF i
  <2> QED
    BY <1>1, <2>2, <2>7, <2>8
<1> QED
  BY <1>2, <1>3

LEMMA StartFound ==
  ASSUME NEW t, NEW pic, Current(t, pic), NEW k \in Nat
  PROVE  PosOf(findWordStart(t, pic, ColOf(k), RowOf(k))) = Max({q \in 0 .. k : FirstOfWord(t, q)})
<1> DEFINE class == ClassAt(t, k)
           M(j) == Max({q \in 0 .. j : FirstOfWord(t, q)})
<1>1. ColOf(k) \in 0 .. Columns - 1 /\ ColOf(k) \in Nat /\ RowOf(k) \in Nat /\ Columns \in Nat
  BY CellNumbers, SearchAssumption
<1>2. PICK f : /\ findWordStart(t, pic, ColOf(k), RowOf(k)) = f[<<ColOf(k), RowOf(k)>>]
               /\ \A p \in Nat \X Nat :
                    f[p] = BackFrom(t, pic, StartClass(t, pic, ColOf(k), RowOf(k)), f, p)
  BY <1>1, WordStartLoops
<1>3. StartClass(t, pic, ColOf(k), RowOf(k)) = class
  <2>1. ColOf(k) < Columns
    BY <1>1
  <2> QED
    BY <2>1, JoinedIs DEF StartClass, ClassAt
<1>4. \A j \in Nat : f[Place(j)] = BackFrom(t, pic, class, f, Place(j))
  <2> SUFFICES ASSUME NEW j \in Nat PROVE f[Place(j)] = BackFrom(t, pic, class, f, Place(j))
    OBVIOUS
  <2>1. ColOf(j) \in Nat /\ RowOf(j) \in Nat
    BY <1>1, CellNumbers
  <2>2. Place(j) \in Nat \X Nat
    BY <2>1 DEF Place
  <2> QED
    BY <1>2, <1>3, <2>2
<1> HIDE DEF class, M
<1> DEFINE Bad == {j \in Nat : ClassAt(t, j) = class /\ PosOf(f[Place(j)]) # M(j)}
<1>5. SUFFICES k \notin Bad
  <2>1. class = ClassAt(t, k)
    BY DEF class
  <2>2. PosOf(f[Place(k)]) = M(k)
    BY <1>5, <2>1
  <2> QED
    BY <1>2, <2>2 DEF Place, M
<1>6. SUFFICES ASSUME Bad # {} PROVE FALSE
  OBVIOUS
<1>7. PICK j \in Bad : \A i \in Bad : j <= i
  <2>1. Bad \subseteq Nat
    OBVIOUS
  <2> HIDE DEF Bad
  <2> QED
    BY <1>6, <2>1, LeastExists
<1>8. j \in Nat /\ ClassAt(t, j) = class /\ PosOf(f[Place(j)]) # M(j)
  BY <1>7
<1>9. CASE FirstOfWord(t, j)
  <2>1. f[Place(j)] = Place(j)
    BY <1>4, <1>8, <1>9, StartStep
  <2>2. PosOf(Place(j)) = j
    BY <1>8, CellNumbers DEF PosOf, Place
  <2>3. M(j) = j
    <3> DEFINE S == {q \in 0 .. j : FirstOfWord(t, q)}
    <3>1. S \in SUBSET Int /\ j \in S /\ \A y \in S : j >= y
      BY <1>8, <1>9
    <3> HIDE DEF S
    <3>2. Max(S) = j
      BY <3>1, MaxIs
    <3> QED
      BY <3>2 DEF M, S
  <2> QED
    BY <1>8, <2>1, <2>2, <2>3
<1>10. CASE ~FirstOfWord(t, j)
  <2>1. j >= 1 /\ ClassAt(t, j - 1) = class /\ f[Place(j)] = f[Place(j - 1)]
    BY <1>4, <1>8, <1>10, StartStep
  <2>2. {q \in 0 .. j : FirstOfWord(t, q)} = {q \in 0 .. j - 1 : FirstOfWord(t, q)}
    BY <1>8, <1>10
  <2>3. M(j) = M(j - 1)
    BY <2>2 DEF M
  <2>4. j - 1 \in Bad /\ ~(j <= j - 1)
    BY <1>8, <2>1, <2>3
  <2> QED
    BY <1>7, <2>4
<1> QED
  BY <1>9, <1>10


(* What the search for the end of a word looks at, by cell numbers         *)
LEMMA BlankIs ==
  ASSUME NEW c
  PROVE  charClass(c) = " " <=> c = " "
BY DEF charClass

LEMMA FinalIs ==
  ASSUME NEW t, Len(t) \in Nat, Len(t) >= 1, NEW c \in Nat
  PROVE  /\ LastRow(t) \in Nat /\ FinalCell(t) \in Nat
         /\ RowOf(c) <= LastRow(t) <=> c <= FinalCell(t)
         /\ c = FinalCell(t) <=> RowOf(c) = LastRow(t) /\ ColOf(c) = Columns - 1
<1> DEFINE n == LastRow(t)
<1>1. n \in Nat /\ Len(t) = n + 1 /\ Columns \in Nat /\ Columns >= 2 /\ Columns - 1 \in 0 .. Columns - 1
  BY SearchAssumption DEF LastRow
<1>2. FinalCell(t) = Pos(Columns - 1, n)
  <2>1. (n + 1) * Columns = n * Columns + Columns /\ n * Columns \in Nat
    BY <1>1
  <2>2. FinalCell(t) = (n + 1) * Columns - 1
    BY <1>1 DEF FinalCell
  <2> QED
    BY <1>1, <2>1, <2>2 DEF Pos
<1> HIDE DEF n
<1>3. FinalCell(t) \in Nat /\ ColOf(FinalCell(t)) = Columns - 1 /\ RowOf(FinalCell(t)) = n
  BY <1>1, <1>2, NumbersOf
<1> DEFINE z == FinalCell(t)
<1>4. z \in Nat /\ ColOf(z) = Columns - 1 /\ RowOf(z) = n
  BY <1>3
<1> HIDE DEF z
<1>5. /\ c <= z => RowOf(c) <= RowOf(z)
      /\ RowOf(c) < RowOf(z) => c < z
      /\ RowOf(c) = RowOf(z) => (c < z <=> ColOf(c) < ColOf(z))
      /\ z <= c => RowOf(z) <= RowOf(c)
      /\ RowOf(c) = RowOf(z) => (z < c <=> ColOf(z) < ColOf(c))
  BY <1>4, RowsInOrder
<1>6. ColOf(c) \in 0 .. Columns - 1 /\ RowOf(c) \in Nat
  BY CellNumbers
<1> QED
  BY <1>1, <1>4, <1>5, <1>6 DEF z, n

LEMMA CutsIs ==
  ASSUME NEW t, NEW pic, NEW d \in Nat
  PROVE  Cuts(t, pic, d) <=>
           /\ CellAt(t, d) = ":"
           /\ \/ ColOf(d) = Columns - 1 /\ RowOf(d) \in RegionEnds(t, pic) /\ pic.edge = " "
              \/ /\ \/ ColOf(d) # Columns - 1
                    \/ /\ RowOf(d) < LastRow(t)
                       /\ RowOf(d) \notin RegionEnds(t, pic) \/ IsWrapped(t, RowOf(d))
                 /\ CellAt(t, d + 1) = " "
<1>1. (d + 1) % Columns = 0 <=> ColOf(d) = Columns - 1
  <2>1. /\ ColOf(d) \in 0 .. Columns - 1 /\ Columns \in Nat /\ Columns >= 2
        /\ ColOf(d) < Columns - 1 => ColOf(d + 1) = ColOf(d) + 1
        /\ ColOf(d) = Columns - 1 => ColOf(d + 1) = 0
    BY CellNumbers, SearchAssumption
  <2>2. ColOf(d + 1) = (d + 1) % Columns
    BY DEF ColOf
  <2> QED
    BY <2>1, <2>2
<1>2. d \div Columns = RowOf(d)
  BY DEF RowOf
<1> QED
  BY <1>1, <1>2 DEF Cuts

LEMMA GoesOnIs ==
  ASSUME NEW t, NEW pic, NEW c \in Nat, NEW l \in Nat, NEW class
  PROVE  /\ ColOf(c) < Columns - 2 \/ RowOf(c) < l =>
              (GoesOn(t, pic, ColOf(c), RowOf(c), l, class) <=>
                 ClassAt(t, c + 1) = class /\ ~(CellAt(t, c + 1) = ":" /\ CellAt(t, c + 2) = " "))
         /\ ColOf(c) = Columns - 2 /\ ~(RowOf(c) < l) =>
              (GoesOn(t, pic, ColOf(c), RowOf(c), l, class) <=>
                 ClassAt(t, c + 1) = class /\ ~(CellAt(t, c + 1) = ":" /\ pic.edge = " "))
<1> DEFINE x == ColOf(c)
           y == RowOf(c)
           next == After(t, pic, x, y, l)
           beyond == IF x < Columns - 1 THEN After(t, pic, x + 1, y, l)
                                        ELSE After(t, pic, 0, y + 1, l)
<1>1. /\ x \in 0 .. Columns - 1 /\ y \in Nat /\ Columns \in Nat /\ Columns >= 2
      /\ c + 1 \in Nat /\ (c + 1) + 1 = c + 2
      /\ x < Columns - 1 => ColOf(c + 1) = x + 1 /\ RowOf(c + 1) = y
      /\ x = Columns - 1 => ColOf(c + 1) = 0 /\ RowOf(c + 1) = y + 1
  BY CellNumbers, SearchAssumption
<1>2. /\ ColOf(c + 1) < Columns - 1 =>
            ColOf(c + 2) = ColOf(c + 1) + 1 /\ RowOf(c + 2) = RowOf(c + 1)
      /\ ColOf(c + 1) = Columns - 1 => ColOf(c + 2) = 0 /\ RowOf(c + 2) = RowOf(c + 1) + 1
  BY <1>1, CellNumbers
<1>3. /\ CellAt(t, c + 1) = Cell(t, ColOf(c + 1), RowOf(c + 1))
      /\ CellAt(t, c + 2) = Cell(t, ColOf(c + 2), RowOf(c + 2))
  BY <1>1, JoinedIs
<1>4. GoesOn(t, pic, x, y, l, class) <=>
        charClass(next) = class /\ ~(next = ":" /\ beyond = " ")
  BY BlankIs DEF GoesOn
<1>5. ClassAt(t, c + 1) = charClass(CellAt(t, c + 1))
  BY DEF ClassAt
<1> HIDE DEF x, y
<1>6. x < Columns - 1 => next = CellAt(t, c + 1)
  BY <1>1, <1>3 DEF After
<1>7. x = Columns - 1 /\ y < l => next = CellAt(t, c + 1)
  BY <1>1, <1>3 DEF After
<1>8. x < Columns - 2 => beyond = CellAt(t, c + 2)
  <2> SUFFICES ASSUME x < Columns - 2 PROVE beyond = CellAt(t, c + 2)
    OBVIOUS
  <2>1. x + 1 < Columns - 1 /\ x < Columns - 1 /\ ColOf(c + 2) = (x + 1) + 1 /\ RowOf(c + 2) = y
    BY <1>1, <1>2
  <2> QED
    BY <1>3, <2>1 DEF After
<1>9. x = Columns - 2 => beyond = IF y < l THEN CellAt(t, c + 2) ELSE pic.edge
  <2> SUFFICES ASSUME x = Columns - 2 PROVE beyond = IF y < l THEN CellAt(t, c + 2) ELSE pic.edge
    OBVIOUS
  <2>1. ~(x + 1 < Columns - 1) /\ x < Columns - 1 /\ ColOf(c + 2) = 0 /\ RowOf(c + 2) = y + 1
    BY <1>1, <1>2
  <2> QED
    BY <1>3, <2>1 DEF After
<1>10. x = Columns - 1 => beyond = CellAt(t, c + 2)
  <2> SUFFICES ASSUME x = Columns - 1 PROVE beyond = CellAt(t, c + 2)
    OBVIOUS
  <2>1. 0 < Columns - 1 /\ ~(x < Columns - 1) /\ ColOf(c + 2) = 0 + 1 /\ RowOf(c + 2) = y + 1
    BY <1>1, <1>2
  <2> QED
    BY <1>3, <2>1 DEF After
<1> HIDE DEF next, beyond
<1>11. x < Columns - 2 \/ x = Columns - 2 \/ x = Columns - 1
  BY <1>1
<1>12. x < Columns - 2 => x < Columns - 1
  BY <1>1
<1>13. x = Columns - 2 => x < Columns - 1
  BY <1>1
<1>14. x < Columns - 2 \/ y < l =>
         (GoesOn(t, pic, x, y, l, class) <=>
            ClassAt(t, c + 1) = class /\ ~(CellAt(t, c + 1) = ":" /\ CellAt(t, c + 2) = " "))
  <2> SUFFICES ASSUME x < Columns - 2 \/ y < l
               PROVE  next = CellAt(t, c + 1) /\ beyond = CellAt(t, c + 2)
    BY <1>4, <1>5
  <2> QED
    BY <1>6, <1>7, <1>8, <1>9, <1>10, <1>11, <1>12, <1>13
<1>15. x = Columns - 2 /\ ~(y < l) =>
         (GoesOn(t, pic, x, y, l, class) <=>
            ClassAt(t, c + 1) = class /\ ~(CellAt(t, c + 1) = ":" /\ pic.edge = " "))
  <2> SUFFICES ASSUME x = Columns - 2, ~(y < l)
               PROVE  next = CellAt(t, c + 1) /\ beyond = pic.edge
    BY <1>4, <1>5
  <2> QED
    BY <1>6, <1>9, <1>13
<1> QED
  BY <1>14, <1>15 DEF x, y

(* The end of the region that is fetched next                              *)
LEMMA NextEnd ==
  ASSUME NEW t, NEW pic, Bottom(pic) \in Nat, LastRow(t) \in Nat,
         NEW l \in RegionEnds(t, pic), l < LastRow(t),
         NEW m, m = Min({l + RegionSize - 1, LastRow(t)})
  PROVE  m \in RegionEnds(t, pic) /\ m > l /\ \A y \in RegionEnds(t, pic) : y < m => y <= l
<1> DEFINE s == RegionSize - 1
           b == Bottom(pic)
           L == LastRow(t)
<1>1. s \in Nat /\ s >= 1 /\ b \in Nat /\ L \in Nat
  BY SearchAssumption DEF RegionSize
<1>2. \A y : y \in RegionEnds(t, pic) <=> y \in b .. L /\ (y = L \/ (y - b) % s = 0)
  BY DEF RegionEnds
<1>3. l \in b .. L /\ l < L /\ (l - b) % s = 0
  BY <1>1, <1>2
<1>4. m = IF l + s <= L THEN l + s ELSE L
  <2>1. l + RegionSize - 1 = l + s /\ l + s \in Int
    BY <1>1, <1>3
  <2>2. m = Min({l + s, L})
    BY <2>1
  <2> HIDE DEF s, L
  <2> QED
    BY <1>1, <2>1, <2>2, MinOf
<1> HIDE DEF s, b, L
<1>5. PICK q \in Nat : l - b = q * s
  <2>1. l - b \in Nat
    BY <1>1, <1>3
  <2>2. (l - b) \div s \in Nat /\ l - b = ((l - b) \div s) * s + ((l - b) % s)
    BY <1>1, <2>1, Divides
  <2> DEFINE q == (l - b) \div s
  <2>3. q \in Nat /\ l - b = q * s + 0 /\ q * s \in Nat
    BY <1>1, <1>3, <2>2
  <2> HIDE DEF q
  <2> QED
    BY <2>3
<1>6. m \in RegionEnds(t, pic)
  <2>1. m \in b .. L
    BY <1>1, <1>3, <1>4
  <2>2. CASE l + s <= L
    <3>1. m - b = (q + 1) * s + 0
      <4>1. (q + 1) * s = q * s + s /\ q * s \in Nat
        BY <1>1
      <4> QED
        BY <1>1, <1>3, <1>4, <1>5, <2>2, <4>1
    <3>2. q + 1 \in Nat /\ 0 \in 0 .. s - 1
      BY <1>1
    <3>3. ((q + 1) * s + 0) % s = 0
      BY <1>1, <3>2, DividesOnce
    <3>4. (m - b) % s = 0
      BY <3>1, <3>3
    <3> QED
      BY <1>2, <2>1, <3>4
  <2>3. CASE ~(l + s <= L)
    BY <1>2, <1>4, <2>1, <2>3
  <2> QED
    BY <2>2, <2>3
<1>7. m > l /\ m <= L /\ m <= l + s /\ m \in Int
  BY <1>1, <1>3, <1>4
<1>8. ASSUME NEW y \in RegionEnds(t, pic), y < m, ~(y <= l) PROVE FALSE
  <2>1. y \in b .. L /\ (y = L \/ (y - b) % s = 0)
    BY <1>2, <1>8
  <2>2. y \in Int /\ y # L /\ y > l
    BY <1>1, <1>3, <1>7, <1>8, <2>1
  <2>3. (y - b) % s = 0 /\ y - b \in Nat
    BY <1>1, <2>1, <2>2
  <2>4. (y - b) \div s \in Nat /\ y - b = ((y - b) \div s) * s + ((y - b) % s)
    BY <1>1, <2>3, Divides
  <2> DEFINE r == (y - b) \div s
  <2>5. r \in Nat /\ y - b = r * s /\ r * s \in Nat
    BY <1>1, <2>3, <2>4
  <2> HIDE DEF r
  <2>6. q * s \in Nat
    BY <1>1
  <2>7. q < r
    <3> SUFFICES ASSUME r <= q PROVE FALSE
      BY <1>5, <2>5
    <3>1. r = q \/ r < q
      BY <1>5, <2>5
    <3>2. CASE r = q
      BY <1>1, <1>3, <1>5, <2>2, <2>5, <3>2
    <3>3. CASE r < q
      <4>1. r * s + s <= q * s
        BY <1>1, <1>5, <2>5, <3>3, Multiples
      <4> QED
        BY <1>1, <1>3, <1>5, <2>2, <2>5, <2>6, <4>1
    <3> QED
      BY <3>1, <3>2, <3>3
  <2>8. q * s + s <= r * s
    BY <1>1, <1>5, <2>5, <2>7, Multiples
  <2> QED
    BY <1>1, <1>3, <1>5, <1>7, <1>8, <2>2, <2>5, <2>6, <2>8
<1> QED
  BY <1>6, <1>7, <1>8


-----------------------------------------------------------------------------
(* The search for the end of the word of cell k is at cell c, with rows up *)
(* to row l in memory, and has passed no last cell of a word; of the cell  *)
(* before the last one in memory it cannot tell.                           *)
Clear(t, pic, k, c) == \A j \in k .. c : ~LastOfWord(t, pic, j)
Unsure(t, pic, c, l) ==
    /\ RowOf(c) = l /\ ColOf(c) = Columns - 1 /\ Joined(t, c - 1)
    /\ ~(CellAt(t, c) = ":" /\ pic.edge = " ")
Going(t, pic, k, c, l) ==
    /\ c >= k /\ RowOf(c) <= l /\ l \in RegionEnds(t, pic) /\ ClassAt(t, c) = ClassAt(t, k)
    /\ \A y \in RegionEnds(t, pic) : y < l => RowOf(c + 1) > y
    /\ Clear(t, pic, k, c - 2)
    /\ c > k => ~LastOfWord(t, pic, c - 1) \/ Unsure(t, pic, c, l)
Found(t, pic, k, e) == e >= k /\ LastOfWord(t, pic, e) /\ Clear(t, pic, k, e - 1)
Exempt(t, pic, k) ==
    ColOf(k) = Columns - 1 /\ RowOf(k) = Bottom(pic) /\ Cuts(t, pic, k)

LEMMA PictureIs ==
  ASSUME NEW t, NEW pic, Current(t, pic)
  PROVE  /\ Len(t) \in Nat /\ Len(t) >= 1 /\ LastRow(t) \in Nat /\ Bottom(pic) \in Nat
         /\ Bottom(pic) <= LastRow(t) /\ Columns \in Nat /\ Columns >= 2
         /\ \A l \in RegionEnds(t, pic) : l \in Nat /\ Bottom(pic) <= l /\ l <= LastRow(t)
<1>1. /\ Len(t) \in Nat /\ pic.top \in Nat /\ pic.top + Lines <= Len(t) /\ Lines \in Nat /\ Lines >= 1
      /\ Columns \in Nat /\ Columns >= 2
  BY SearchAssumption DEF Current
<1>2. /\ LastRow(t) = Len(t) - 1 /\ Bottom(pic) = pic.top + Lines - 1
      /\ RegionEnds(t, pic) \subseteq Bottom(pic) .. LastRow(t)
  BY DEF LastRow, Bottom, RegionEnds
<1>3. LastRow(t) \in Nat /\ Bottom(pic) \in Nat /\ Bottom(pic) <= LastRow(t) /\ Len(t) >= 1
  BY <1>1, <1>2
<1> QED
  BY <1>1, <1>2, <1>3

LEMMA ClearOn ==
  ASSUME NEW t, NEW pic, NEW k \in Nat, NEW c \in Nat, Clear(t, pic, k, c - 2),
         c > k => ~LastOfWord(t, pic, c - 1)
  PROVE  Clear(t, pic, k, c - 1)
<1> SUFFICES ASSUME NEW j \in k .. c - 1 PROVE ~LastOfWord(t, pic, j)
  BY DEF Clear
<1>1. CASE j = c - 1
  <2>1. c > k
    BY <1>1
  <2> QED
    BY <1>1, <2>1
<1>2. CASE j # c - 1
  <2>1. j \in k .. c - 2
    BY <1>2
  <2> QED
    BY <2>1 DEF Clear
<1> QED
  BY <1>1, <1>2

LEMMA GoingOn ==
  ASSUME NEW t, NEW pic, Current(t, pic), NEW k \in Nat, NEW c \in Nat, NEW l \in Nat,
         Going(t, pic, k, c, l), Clear(t, pic, k, c - 1),
         RowOf(c + 1) <= l, ClassAt(t, c + 1) = ClassAt(t, k),
         ~LastOfWord(t, pic, c) \/ Unsure(t, pic, c + 1, l)
  PROVE  Going(t, pic, k, c + 1, l)
<1>1. \A y \in RegionEnds(t, pic) : y < l => RowOf((c + 1) + 1) > y
  <2> SUFFICES ASSUME NEW y \in RegionEnds(t, pic), y < l PROVE RowOf((c + 1) + 1) > y
    OBVIOUS
  <2>1. RowOf(c + 1) > y /\ y \in Nat
    BY PictureIs DEF Going
  <2>2. RowOf(c + 1) \in Nat /\ RowOf((c + 1) + 1) \in Nat
    BY CellNumbers
  <2>3. RowOf(c + 1) <= RowOf((c + 1) + 1)
    BY RowsInOrder
  <2> QED
    BY <2>1, <2>2, <2>3
<1>2. c + 1 - 2 = c - 1 /\ c + 1 - 1 = c /\ c + 1 >= k
  BY DEF Going
<1>3. l \in RegionEnds(t, pic)
  BY DEF Going
<1> QED
  BY <1>1, <1>2, <1>3 DEF Going

(* On a row                                                                *)
LEMMA RowStep ==
  ASSUME NEW t, NEW pic, Current(t, pic), NEW k \in Nat, NEW c \in Nat, NEW l \in Nat,
         Going(t, pic, k, c, l), ColOf(c) < Columns - 1
  PROVE  IF GoesOn(t, pic, ColOf(c), RowOf(c), l, ClassAt(t, k))
         THEN Going(t, pic, k, c + 1, l) ELSE Found(t, pic, k, c)
<1>1. /\ Len(t) \in Nat /\ Len(t) >= 1 /\ LastRow(t) \in Nat /\ Columns \in Nat /\ Columns >= 2
      /\ l \in RegionEnds(t, pic) /\ l <= LastRow(t) /\ RowOf(c) <= l /\ c >= k
      /\ ClassAt(t, c) = ClassAt(t, k) /\ Clear(t, pic, k, c - 2)
  BY PictureIs DEF Going
<1>2. /\ ColOf(c) \in 0 .. Columns - 1 /\ RowOf(c) \in Nat /\ ColOf(c + 1) = ColOf(c) + 1
      /\ RowOf(c + 1) = RowOf(c) /\ c + 1 \in Nat /\ (c + 1) + 1 = c + 2
  BY CellNumbers
<1>3. ColOf(c + 1) # 0 /\ ColOf(c) # Columns - 1
  BY <1>1, <1>2
<1>4. Joined(t, c) <=> ClassAt(t, c + 1) = ClassAt(t, k)
  BY <1>1, <1>3, JoinedIs
<1>5. LastOfWord(t, pic, c) <=> ClassAt(t, c + 1) # ClassAt(t, k) \/ Cuts(t, pic, c + 1)
  <2>1. c # FinalCell(t)
    BY <1>1, <1>3, FinalIs
  <2> QED
    BY <1>4, <2>1 DEF LastOfWord
<1>6. Clear(t, pic, k, c - 1)
  <2>1. ~Unsure(t, pic, c, l)
    BY <1>3 DEF Unsure
  <2>2. c > k => ~LastOfWord(t, pic, c - 1)
    BY <2>1 DEF Going
  <2> QED
    BY <1>1, <2>2, ClearOn
<1>7. CASE ColOf(c) < Columns - 2 \/ RowOf(c) < l
  <2>1. GoesOn(t, pic, ColOf(c), RowOf(c), l, ClassAt(t, k)) <=>
          ClassAt(t, c + 1) = ClassAt(t, k) /\ ~(CellAt(t, c + 1) = ":" /\ CellAt(t, c + 2) = " ")
    BY <1>7, GoesOnIs
  <2>2. Cuts(t, pic, c + 1) <=> CellAt(t, c + 1) = ":" /\ CellAt(t, c + 2) = " "
    <3>1. CASE ColOf(c) < Columns - 2
      <4>1. ColOf(c + 1) # Columns - 1
        BY <1>1, <1>2, <3>1
      <4> QED
        BY <1>2, <4>1, CutsIs
    <3>2. CASE RowOf(c) < l
      <4>1. RowOf(c + 1) \notin RegionEnds(t, pic)
        BY <1>2, <3>2 DEF Going
      <4>2. RowOf(c + 1) < LastRow(t)
        BY <1>1, <1>2, <3>2
      <4> QED
        BY <1>2, <4>1, <4>2, CutsIs
    <3> QED
      BY <1>7, <3>1, <3>2
  <2>3. GoesOn(t, pic, ColOf(c), RowOf(c), l, ClassAt(t, k)) <=> ~LastOfWord(t, pic, c)
    BY <1>5, <2>1, <2>2
  <2>4. CASE LastOfWord(t, pic, c)
    BY <1>1, <1>6, <2>3, <2>4 DEF Found
  <2>5. CASE ~LastOfWord(t, pic, c)
    <3>1. ClassAt(t, c + 1) = ClassAt(t, k) /\ RowOf(c + 1) <= l
      BY <1>1, <1>2, <1>5, <2>5
    <3>2. Going(t, pic, k, c + 1, l)
      BY <1>6, <2>5, <3>1, GoingOn
    <3> QED
      BY <2>3, <2>5, <3>2
  <2> QED
    BY <2>4, <2>5
<1>8. CASE ~(ColOf(c) < Columns - 2 \/ RowOf(c) < l)
  <2>1. ColOf(c) = Columns - 2 /\ RowOf(c) = l /\ ~(RowOf(c) < l) /\ ColOf(c + 1) = Columns - 1
    BY <1>1, <1>2, <1>8
  <2>2. GoesOn(t, pic, ColOf(c), RowOf(c), l, ClassAt(t, k)) <=>
          ClassAt(t, c + 1) = ClassAt(t, k) /\ ~(CellAt(t, c + 1) = ":" /\ pic.edge = " ")
    BY <2>1, GoesOnIs
  <2>3. CASE GoesOn(t, pic, ColOf(c), RowOf(c), l, ClassAt(t, k))
    <3>1. ClassAt(t, c + 1) = ClassAt(t, k) /\ RowOf(c + 1) <= l
      BY <1>1, <1>2, <2>2, <2>3
    <3>2. (c + 1) - 1 = c
      OBVIOUS
    <3>3. Unsure(t, pic, c + 1, l)
      BY <1>2, <1>4, <2>1, <2>2, <2>3, <3>1, <3>2 DEF Unsure
    <3>4. Going(t, pic, k, c + 1, l)
      BY <1>6, <3>1, <3>3, GoingOn
    <3> QED
      BY <2>3, <3>4
  <2>4. CASE ~GoesOn(t, pic, ColOf(c), RowOf(c), l, ClassAt(t, k))
    <3>1. CellAt(t, c + 1) = ":" /\ pic.edge = " " => Cuts(t, pic, c + 1)
      BY <1>1, <1>2, <2>1, CutsIs
    <3>2. LastOfWord(t, pic, c)
      BY <1>5, <2>2, <2>4, <3>1
    <3> QED
      BY <1>1, <1>6, <2>4, <3>2 DEF Found
  <2> QED
    BY <2>3, <2>4
<1> QED
  BY <1>7, <1>8

(* From the end of a row to the next row in memory                         *)
LEMMA OverStep ==
  ASSUME NEW t, NEW pic, Current(t, pic), NEW k \in Nat, NEW c \in Nat, NEW l \in Nat,
         Going(t, pic, k, c, l), ColOf(c) = Columns - 1, RowOf(c) < l
  PROVE  IF IsWrapped(t, RowOf(c)) /\ GoesOn(t, pic, ColOf(c), RowOf(c), l, ClassAt(t, k))
         THEN Going(t, pic, k, c + 1, l) ELSE Found(t, pic, k, c)
<1>1. /\ Len(t) \in Nat /\ Len(t) >= 1 /\ LastRow(t) \in Nat /\ Columns \in Nat /\ Columns >= 2
      /\ l <= LastRow(t) /\ c >= k
      /\ ClassAt(t, c) = ClassAt(t, k) /\ Clear(t, pic, k, c - 2)
  BY PictureIs DEF Going
<1>2. /\ RowOf(c) \in Nat /\ ColOf(c + 1) = 0 /\ RowOf(c + 1) = RowOf(c) + 1
      /\ c + 1 \in Nat /\ (c + 1) + 1 = c + 2
  BY CellNumbers
<1>3. Joined(t, c) <=> ClassAt(t, c + 1) = ClassAt(t, k) /\ IsWrapped(t, RowOf(c))
  BY <1>1, <1>2, JoinedIs
<1>4. Cuts(t, pic, c + 1) <=> CellAt(t, c + 1) = ":" /\ CellAt(t, c + 2) = " "
  <2>1. ColOf(c + 1) # Columns - 1
    BY <1>1, <1>2
  <2> QED
    BY <1>2, <2>1, CutsIs
<1>5. LastOfWord(t, pic, c) <=> ~Joined(t, c) \/ Cuts(t, pic, c + 1)
  <2>1. RowOf(c) # LastRow(t)
    BY <1>1, <1>2
  <2>2. c # FinalCell(t)
    BY <1>1, <2>1, FinalIs
  <2> QED
    BY <2>2 DEF LastOfWord
<1>6. GoesOn(t, pic, ColOf(c), RowOf(c), l, ClassAt(t, k)) <=>
        ClassAt(t, c + 1) = ClassAt(t, k) /\ ~(CellAt(t, c + 1) = ":" /\ CellAt(t, c + 2) = " ")
  BY GoesOnIs
<1>7. IsWrapped(t, RowOf(c)) /\ GoesOn(t, pic, ColOf(c), RowOf(c), l, ClassAt(t, k))
        <=> ~LastOfWord(t, pic, c)
  BY <1>3, <1>4, <1>5, <1>6
<1>8. Clear(t, pic, k, c - 1)
  <2>0. RowOf(c) # l
    BY <1>2
  <2>1. ~Unsure(t, pic, c, l)
    BY <2>0 DEF Unsure
  <2>2. c > k => ~LastOfWord(t, pic, c - 1)
    BY <2>1 DEF Going
  <2> QED
    BY <1>1, <2>2, ClearOn
<1>9. CASE LastOfWord(t, pic, c)
  BY <1>1, <1>7, <1>8, <1>9 DEF Found
<1>10. CASE ~LastOfWord(t, pic, c)
  <2>1. ClassAt(t, c + 1) = ClassAt(t, k) /\ RowOf(c + 1) <= l
    BY <1>2, <1>3, <1>5, <1>10
  <2>2. Going(t, pic, k, c + 1, l)
    BY <1>8, <1>10, <2>1, GoingOn
  <2> QED
    BY <1>7, <1>10, <2>2
<1> QED
  BY <1>9, <1>10

(* At the last cell in memory: more rows are fetched, or there are none.   *)
Below(t, l) == Min({l + RegionSize - 1, LastRow(t)})
LEMMA FetchStep ==
  ASSUME NEW t, NEW pic, Current(t, pic), NEW k \in Nat, RowOf(k) <= Bottom(pic),
         NEW c \in Nat, NEW l \in Nat,
         Going(t, pic, k, c, l), ColOf(c) = Columns - 1, RowOf(c) = l
  PROVE  IF l < LastRow(t) /\ IsWrapped(t, l)
         THEN IF CellAt(t, c) = ":" /\ CellAt(t, c + 1) = " "
              THEN IF c > k THEN Found(t, pic, k, c - 1) ELSE Exempt(t, pic, k)
              ELSE Below(t, l) \in Nat /\ Going(t, pic, k, c, Below(t, l))
         ELSE Found(t, pic, k, c)
<1>1. /\ Len(t) \in Nat /\ Len(t) >= 1 /\ LastRow(t) \in Nat /\ Columns \in Nat /\ Columns >= 2
      /\ l \in RegionEnds(t, pic) /\ l <= LastRow(t) /\ c >= k /\ Bottom(pic) \in Nat /\ Bottom(pic) <= l
      /\ ClassAt(t, c) = ClassAt(t, k) /\ Clear(t, pic, k, c - 2)
      /\ c > k => ~LastOfWord(t, pic, c - 1) \/ Unsure(t, pic, c, l)
  BY PictureIs DEF Going
<1>2. ColOf(c + 1) = 0 /\ RowOf(c + 1) = l + 1
  BY CellNumbers
<1>3. Cuts(t, pic, c) <=> /\ CellAt(t, c) = ":"
                          /\ \/ pic.edge = " "
                             \/ l < LastRow(t) /\ IsWrapped(t, l) /\ CellAt(t, c + 1) = " "
  BY <1>1, CutsIs
<1>4. ASSUME c > k, Unsure(t, pic, c, l), ~Cuts(t, pic, c) PROVE ~LastOfWord(t, pic, c - 1)
  <2>1. c - 1 \in Nat /\ (c - 1) + 1 = c
    BY <1>4
  <2>2. ColOf(c - 1) # Columns - 1
    <3>1. ColOf(c - 1) = Columns - 1 => ColOf(c) = 0
      BY <2>1, CellNumbers
    <3> QED
      BY <1>1, <3>1
  <2>3. c - 1 # FinalCell(t)
    BY <1>1, <2>1, <2>2, FinalIs
  <2>4. Joined(t, c - 1)
    BY <1>4 DEF Unsure
  <2> QED
    BY <1>4, <2>1, <2>3, <2>4 DEF LastOfWord
<1>5. CASE ~(l < LastRow(t) /\ IsWrapped(t, l))
  <2>1. LastOfWord(t, pic, c)
    <3>1. CASE l = LastRow(t)
      BY <1>1, <3>1, FinalIs DEF LastOfWord
    <3>2. CASE l < LastRow(t)
      <4>1. ~Joined(t, c)
        BY <1>2, <1>5, <3>2, JoinedIs
      <4> QED
        BY <4>1 DEF LastOfWord
    <3> QED
      BY <1>1, <3>1, <3>2
  <2>2. Unsure(t, pic, c, l) => ~Cuts(t, pic, c)
    BY <1>3, <1>5 DEF Unsure
  <2>3. c > k => ~LastOfWord(t, pic, c - 1)
    BY <1>1, <1>4, <2>2
  <2>4. Clear(t, pic, k, c - 1)
    BY <1>1, <2>3, ClearOn
  <2> QED
    BY <1>1, <1>5, <2>1, <2>4 DEF Found
<1>6. CASE l < LastRow(t) /\ IsWrapped(t, l) /\ CellAt(t, c) = ":" /\ CellAt(t, c + 1) = " "
  <2>1. Cuts(t, pic, c)
    BY <1>3, <1>6
  <2>2. CASE c > k
    <3>1. (c - 1) + 1 = c /\ (c - 1) - 1 = c - 2 /\ c - 1 >= k
      BY <2>2
    <3>2. LastOfWord(t, pic, c - 1)
      BY <2>1, <3>1 DEF LastOfWord
    <3>3. Found(t, pic, k, c - 1)
      BY <1>1, <3>1, <3>2 DEF Found
    <3> QED
      BY <1>6, <2>2, <3>3
  <2>3. CASE ~(c > k)
    <3>1. c = k /\ RowOf(k) = Bottom(pic)
      <4>1. c = k
        BY <1>1, <2>3
      <4>2. RowOf(k) = l /\ RowOf(k) <= Bottom(pic)
        BY <4>1
      <4> QED
        BY <1>1, <4>1, <4>2
    <3>2. Exempt(t, pic, k)
      BY <2>1, <3>1 DEF Exempt
    <3> QED
      BY <1>6, <2>3, <3>2
  <2> QED
    BY <2>2, <2>3
<1> DEFINE m == Below(t, l)
<1> HIDE DEF m
<1>7. CASE l < LastRow(t) /\ IsWrapped(t, l) /\ ~(CellAt(t, c) = ":" /\ CellAt(t, c + 1) = " ")
  <2>1. m \in RegionEnds(t, pic) /\ m > l /\ \A y \in RegionEnds(t, pic) : y < m => y <= l
    BY <1>1, <1>7, NextEnd DEF Below, m
  <2>2. m \in Nat
    BY <2>1, PictureIs
  <2>3. \A y \in RegionEnds(t, pic) : y < m => RowOf(c + 1) > y
    <3> SUFFICES ASSUME NEW y \in RegionEnds(t, pic), y < m PROVE RowOf(c + 1) > y
      OBVIOUS
    <3>1. y <= l /\ y \in Nat
      BY <2>1, PictureIs
    <3> QED
      BY <1>2, <3>1
  <2>4. Unsure(t, pic, c, l) => ~Cuts(t, pic, c)
    BY <1>3, <1>7 DEF Unsure
  <2>5. c > k => ~LastOfWord(t, pic, c - 1)
    BY <1>1, <1>4, <2>4
  <2>6. RowOf(c) <= m
    BY <2>1, <2>2
  <2>7. Going(t, pic, k, c, m)
    BY <1>1, <2>1, <2>3, <2>5, <2>6 DEF Going
  <2> QED
    BY <1>7, <2>2, <2>7 DEF m
<1> QED
  BY <1>5, <1>6, <1>7


AtCell(c, l) == <<ColOf(c), RowOf(c), l>>

(* One round of the loop: it stops where the word ends, or goes on, one    *)
(* cell further or with more rows.                                         *)
LEMMA EndStep ==
  ASSUME NEW t, NEW pic, Current(t, pic), NEW k \in Nat, RowOf(k) <= Bottom(pic), ~Exempt(t, pic, k),
         NEW f, \A p \in Nat \X Nat \X Nat : f[p] = AheadFrom(t, pic, ClassAt(t, k), f, p),
         NEW c \in Nat, NEW l \in Nat, Going(t, pic, k, c, l)
  PROVE  \/ \E e \in Nat : f[AtCell(c, l)] = Place(e) /\ Found(t, pic, k, e)
         \/ f[AtCell(c, l)] = f[AtCell(c + 1, l)] /\ Going(t, pic, k, c + 1, l)
         \/ \E m \in Nat : m > l /\ f[AtCell(c, l)] = f[AtCell(c, m)] /\ Going(t, pic, k, c, m)
<1> DEFINE class == ClassAt(t, k)
           p == AtCell(c, l)
           goes == GoesOn(t, pic, ColOf(c), RowOf(c), l, class)
<1>1. /\ Columns \in Nat /\ Columns >= 2 /\ LastRow(t) \in Nat /\ RowOf(c) <= l /\ l <= LastRow(t)
      /\ l \in RegionEnds(t, pic) /\ c >= k
  BY PictureIs DEF Going
<1>2. /\ ColOf(c) \in 0 .. Columns - 1 /\ ColOf(c) \in Nat /\ RowOf(c) \in Nat
      /\ ColOf(c) < Columns - 1 => ColOf(c + 1) = ColOf(c) + 1 /\ RowOf(c + 1) = RowOf(c)
      /\ ColOf(c) = Columns - 1 => ColOf(c + 1) = 0 /\ RowOf(c + 1) = RowOf(c) + 1
  BY <1>1, CellNumbers
<1>3. p \in Nat \X Nat \X Nat /\ p[1] = ColOf(c) /\ p[2] = RowOf(c) /\ p[3] = l
  BY <1>2 DEF AtCell
<1>4. f[p] = AheadFrom(t, pic, class, f, p)
  BY <1>3
<1>5. SeesWrap(t, pic, p) <=> IsWrapped(t, RowOf(c))
  <2>1. SeenWrapped(t, pic, RowOf(c)) = IsWrapped(t, RowOf(c))
    BY <1>2 DEF Current
  <2> QED
    BY <1>3, <2>1 DEF SeesWrap
<1> HIDE DEF p
<1>6. <<p[1], p[2]>> = Place(c)
  BY <1>3 DEF Place
<1>7. CASE ColOf(c) < Columns - 1
  <2>1. IF goes THEN Going(t, pic, k, c + 1, l) ELSE Found(t, pic, k, c)
    BY <1>7, RowStep
  <2>2. ColOf(c) # Columns - 1
    BY <1>1, <1>2, <1>7
  <2>3. OnRow(t, pic, class, p) <=> goes
    BY <1>3, <1>7 DEF OnRow
  <2>4. ~OverEnd(t, pic, class, p) /\ ~Fetches(t, pic, p)
    BY <1>3, <2>2 DEF OverEnd, Fetches
  <2>5. f[p] = IF goes THEN f[<<p[1] + 1, p[2], p[3]>>] ELSE Place(c)
    BY <1>4, <1>6, <2>3, <2>4 DEF AheadFrom
  <2>6. <<p[1] + 1, p[2], p[3]>> = AtCell(c + 1, l)
    BY <1>2, <1>3, <1>7 DEF AtCell
  <2> HIDE DEF goes
  <2> QED
    BY <2>1, <2>5, <2>6 DEF p
<1>8. CASE ColOf(c) = Columns - 1 /\ RowOf(c) < l
  <2> DEFINE over == IsWrapped(t, RowOf(c)) /\ goes
  <2>1. IF over THEN Going(t, pic, k, c + 1, l) ELSE Found(t, pic, k, c)
    BY <1>8, OverStep
  <2>2. ~OnRow(t, pic, class, p)
    BY <1>1, <1>3, <1>8 DEF OnRow
  <2>3. OverEnd(t, pic, class, p) <=> over
    BY <1>3, <1>5, <1>8 DEF OverEnd
  <2>4. ~Fetches(t, pic, p)
    BY <1>2, <1>3, <1>8 DEF Fetches
  <2>5. f[p] = IF over THEN f[<<0, p[2] + 1, p[3]>>] ELSE Place(c)
    BY <1>4, <1>6, <2>2, <2>3, <2>4 DEF AheadFrom
  <2>6. <<0, p[2] + 1, p[3]>> = AtCell(c + 1, l)
    BY <1>2, <1>3, <1>8 DEF AtCell
  <2> HIDE DEF over
  <2> QED
    BY <2>1, <2>5, <2>6 DEF p
<1>9. CASE ColOf(c) = Columns - 1 /\ RowOf(c) = l
  <2> DEFINE more == l < LastRow(t) /\ IsWrapped(t, l)
             cut == CellAt(t, c) = ":" /\ CellAt(t, c + 1) = " "
  <2>1. PICK m : m = Below(t, l)
    OBVIOUS
  <2>2. /\ ~more => Found(t, pic, k, c)
        /\ more /\ cut => Found(t, pic, k, c - 1)
        /\ more /\ ~cut => m \in Nat /\ Going(t, pic, k, c, m)
    <3>1. IF l < LastRow(t) /\ IsWrapped(t, l)
          THEN IF CellAt(t, c) = ":" /\ CellAt(t, c + 1) = " "
               THEN IF c > k THEN Found(t, pic, k, c - 1) ELSE Exempt(t, pic, k)
               ELSE m \in Nat /\ Going(t, pic, k, c, m)
          ELSE Found(t, pic, k, c)
      BY <1>9, <2>1, FetchStep
    <3> QED
      BY <3>1
  <2>3. ~OnRow(t, pic, class, p) /\ ~OverEnd(t, pic, class, p)
    BY <1>1, <1>2, <1>3, <1>9 DEF OnRow, OverEnd
  <2>4. Fetches(t, pic, p) <=> more
    BY <1>3, <1>5, <1>9 DEF Fetches
  <2>5. f[p] = IF more THEN f[Fetched(t, p)] ELSE Place(c)
    BY <1>4, <1>6, <2>3, <2>4 DEF AheadFrom
  <2>6. CASE ~more
    BY <2>2, <2>5, <2>6 DEF p
  <2>7. CASE more
    <3> DEFINE b == c - 1
    <3>1. b \in Nat /\ b + 1 = c /\ b + 2 = c + 1
      <4>1. c # 0
        <5>1. 0 \in 0 .. Columns - 1 /\ Pos(0, 0) = 0
          BY <1>1 DEF Pos
        <5>2. ColOf(0) = 0
          BY <5>1, NumbersOf
        <5> QED
          BY <1>1, <1>9, <5>2
      <4> QED
        BY <4>1
    <3> HIDE DEF b
    <3>2. ColOf(b) = Columns - 2 /\ RowOf(b) = l
      <4>1. /\ ColOf(b) \in 0 .. Columns - 1
            /\ ColOf(b) < Columns - 1 => ColOf(c) = ColOf(b) + 1 /\ RowOf(c) = RowOf(b)
            /\ ColOf(b) = Columns - 1 => ColOf(c) = 0
        BY <3>1, CellNumbers
      <4> QED
        BY <1>1, <1>9, <4>1
    <3>3. /\ m > l /\ m \in Nat
      <4>1. m \in RegionEnds(t, pic) /\ m > l
        BY <1>1, <2>1, <2>7, NextEnd, PictureIs DEF Below
      <4> QED
        BY <4>1, PictureIs
    <3>4. Fetched(t, p) = AtCell(b, m)
      <4>1. Fetched(t, p) = <<ColOf(c) - 1, l, m>>
        BY <1>3, <1>9, <2>1 DEF Fetched, Below
      <4>2. ColOf(c) - 1 = Columns - 2
        BY <1>1, <1>9
      <4> QED
        BY <3>2, <4>1, <4>2 DEF AtCell
    <3> DEFINE q == AtCell(b, m)
    <3>5. /\ q \in Nat \X Nat \X Nat /\ q[1] = Columns - 2 /\ q[2] = l /\ q[3] = m
      BY <1>1, <3>2, <3>3 DEF AtCell
    <3> HIDE DEF q
    <3>6. f[q] = AheadFrom(t, pic, class, f, q)
      BY <3>5
    <3>7. GoesOn(t, pic, ColOf(b), RowOf(b), m, class) <=> ~cut
      <4>1. RowOf(b) < m
        BY <3>2, <3>3
      <4>2. ClassAt(t, b + 1) = class
        BY <3>1 DEF Going
      <4>3. CellAt(t, b + 1) = CellAt(t, c) /\ CellAt(t, b + 2) = CellAt(t, c + 1)
        BY <3>1
      <4>4. GoesOn(t, pic, ColOf(b), RowOf(b), m, ClassAt(t, k)) <=>
              ClassAt(t, b + 1) = ClassAt(t, k)
              /\ ~(CellAt(t, b + 1) = ":" /\ CellAt(t, b + 2) = " ")
        BY <3>1, <3>3, <4>1, GoesOnIs
      <4> QED
        BY <4>2, <4>3, <4>4
    <3>8. OnRow(t, pic, class, q) <=> ~cut
      <4>1. q[1] = ColOf(b) /\ q[2] = RowOf(b) /\ q[3] = m /\ q[1] < Columns - 1
        BY <1>1, <3>2, <3>5
      <4>2. OnRow(t, pic, class, q) <=> GoesOn(t, pic, ColOf(b), RowOf(b), m, class)
        BY <4>1 DEF OnRow
      <4> QED
        BY <3>7, <4>2
    <3>9. ~OverEnd(t, pic, class, q) /\ ~Fetches(t, pic, q)
      BY <1>1, <3>5 DEF OverEnd, Fetches
    <3>10. f[q] = IF cut THEN <<q[1], q[2]>> ELSE f[<<q[1] + 1, q[2], q[3]>>]
      BY <3>6, <3>8, <3>9 DEF AheadFrom
    <3>11. <<q[1], q[2]>> = Place(b) /\ <<q[1] + 1, q[2], q[3]>> = AtCell(c, m)
      BY <1>1, <1>9, <3>2, <3>5 DEF Place, AtCell
    <3> HIDE DEF cut
    <3>12. f[p] = IF cut THEN Place(b) ELSE f[AtCell(c, m)]
      BY <2>5, <2>7, <3>4, <3>10, <3>11 DEF q
    <3>13. CASE cut
      <4>1. Found(t, pic, k, b)
        BY <2>2, <2>7, <3>13 DEF b
      <4> QED
        BY <3>1, <3>12, <3>13, <4>1 DEF p
    <3>14. CASE ~cut
      <4>1. Going(t, pic, k, c, m)
        BY <2>2, <2>7, <3>14
      <4> QED
        BY <3>3, <3>12, <3>14, <4>1 DEF p
    <3> QED
      BY <3>13, <3>14
  <2> QED
    BY <2>6, <2>7
<1> QED
  BY <1>1, <1>2, <1>7, <1>8, <1>9

LEMMA GoingStarts ==
  ASSUME NEW t, NEW pic, Current(t, pic), NEW k \in Nat, RowOf(k) <= Bottom(pic)
  PROVE  Bottom(pic) \in Nat /\ Going(t, pic, k, k, Bottom(pic))
<1>1. Bottom(pic) \in Nat /\ LastRow(t) \in Nat /\ Bottom(pic) <= LastRow(t)
  BY PictureIs
<1>2. Bottom(pic) \in RegionEnds(t, pic)
  <2>1. RegionSize - 1 \in Nat /\ RegionSize - 1 >= 1
    BY SearchAssumption DEF RegionSize
  <2> DEFINE s == RegionSize - 1
  <2>2. s \in Nat /\ s >= 1 /\ 0 \in 0 .. s - 1
    BY <2>1
  <2> HIDE DEF s
  <2>3. (0 * s + 0) % s = 0 /\ 0 * s + 0 = 0
    BY <2>2, DividesOnce
  <2>4. Bottom(pic) - Bottom(pic) = 0
    BY <1>1
  <2>5. (Bottom(pic) - Bottom(pic)) % s = 0
    BY <2>3, <2>4
  <2> QED
    BY <1>1, <2>5 DEF RegionEnds, s
<1>3. \A y \in RegionEnds(t, pic) : ~(y < Bottom(pic))
  BY <1>1, PictureIs
<1>4. Clear(t, pic, k, k - 2)
  BY DEF Clear
<1> QED
  BY <1>1, <1>2, <1>3, <1>4 DEF Going

LEMMA EndFound ==
  ASSUME NEW t, NEW pic, Current(t, pic), NEW k \in Nat, RowOf(k) <= Bottom(pic), ~Exempt(t, pic, k)
  PROVE  \E e \in Nat : WordEnd(t, pic, ColOf(k), RowOf(k)) = Place(e) /\ Found(t, pic, k, e)
<1>1. ColOf(k) \in Nat /\ RowOf(k) \in Nat /\ Bottom(pic) \in Nat /\ LastRow(t) \in Nat
      /\ FinalCell(t) \in Nat
  BY PictureIs, CellNumbers, FinalIs
<1>2. PICK f : /\ WordEnd(t, pic, ColOf(k), RowOf(k)) = f[<<ColOf(k), RowOf(k), Bottom(pic)>>]
               /\ \A p \in Nat \X Nat \X Nat :
                    f[p] = AheadFrom(t, pic, charClass(Cell(t, ColOf(k), RowOf(k))), f, p)
  BY <1>1, WordEndLoops
<1>3. \A p \in Nat \X Nat \X Nat : f[p] = AheadFrom(t, pic, ClassAt(t, k), f, p)
  <2>1. charClass(Cell(t, ColOf(k), RowOf(k))) = ClassAt(t, k)
    BY JoinedIs DEF ClassAt
  <2> QED
    BY <1>2, <2>1
<1> DEFINE Ends(c, l) == \E e \in Nat : f[AtCell(c, l)] = Place(e) /\ Found(t, pic, k, e)
           Rest(c, l) == (LastRow(t) - l) + (FinalCell(t) - c)
           Bad == {d \in Nat : \E c \in Nat, l \in Nat :
                     Going(t, pic, k, c, l) /\ ~Ends(c, l) /\ d = Rest(c, l)}
<1>4. ASSUME NEW c \in Nat, NEW l \in Nat, Going(t, pic, k, c, l), ~Ends(c, l)
      PROVE  Rest(c, l) \in Bad
  <2>1. l <= LastRow(t) /\ RowOf(c) <= l /\ RowOf(c) \in Nat
    BY <1>4, PictureIs, CellNumbers DEF Going
  <2>2. RowOf(c) <= LastRow(t)
    BY <1>1, <2>1
  <2>3. c <= FinalCell(t)
    BY <2>2, PictureIs, FinalIs
  <2>4. Rest(c, l) \in Nat
    BY <1>1, <2>1, <2>3
  <2> HIDE DEF Rest, Ends
  <2> QED
    BY <1>4, <2>4
<1>5. SUFFICES Ends(k, Bottom(pic))
  BY <1>2, <1>5 DEF AtCell
<1>6. SUFFICES ASSUME ~Ends(k, Bottom(pic)) PROVE FALSE
  OBVIOUS
<1>7. PICK d \in Bad : \A d2 \in Bad : d <= d2
  <2>1. Rest(k, Bottom(pic)) \in Bad
    BY <1>4, <1>6, GoingStarts
  <2>2. Bad \subseteq Nat
    OBVIOUS
  <2> HIDE DEF Bad
  <2> QED
    BY <2>1, <2>2, LeastExists
<1> HIDE DEF Ends
<1>8. PICK c \in Nat, l \in Nat : Going(t, pic, k, c, l) /\ ~Ends(c, l) /\ d = Rest(c, l)
  BY <1>7
<1> HIDE DEF Bad
<1>9. \/ Ends(c, l)
      \/ f[AtCell(c, l)] = f[AtCell(c + 1, l)] /\ Going(t, pic, k, c + 1, l)
      \/ \E m \in Nat : m > l /\ f[AtCell(c, l)] = f[AtCell(c, m)] /\ Going(t, pic, k, c, m)
  BY <1>3, <1>8, EndStep DEF Ends
<1>10. CASE f[AtCell(c, l)] = f[AtCell(c + 1, l)] /\ Going(t, pic, k, c + 1, l)
  <2>1. ~Ends(c + 1, l)
    BY <1>8, <1>10 DEF Ends
  <2>2. Rest(c + 1, l) \in Bad
    BY <1>4, <1>10, <2>1
  <2>3. ~(Rest(c, l) <= Rest(c + 1, l))
    BY <1>1
  <2> HIDE DEF Rest
  <2> QED
    BY <1>7, <1>8, <2>2, <2>3
<1>11. CASE \E m \in Nat : m > l /\ f[AtCell(c, l)] = f[AtCell(c, m)] /\ Going(t, pic, k, c, m)
  <2>1. PICK m \in Nat : m > l /\ f[AtCell(c, l)] = f[AtCell(c, m)] /\ Going(t, pic, k, c, m)
    BY <1>11
  <2>2. ~Ends(c, m)
    BY <1>8, <2>1 DEF Ends
  <2>3. Rest(c, m) \in Bad
    BY <1>4, <2>1, <2>2
  <2>4. ~(Rest(c, l) <= Rest(c, m))
    BY <1>1, <2>1
  <2> HIDE DEF Rest
  <2> QED
    BY <1>7, <1>8, <2>3, <2>4
<1> QED
  BY <1>8, <1>9, <1>10, <1>11


LEMMA LastIs ==
  ASSUME NEW t, NEW pic, Current(t, pic), NEW k \in Nat, RowOf(k) <= Bottom(pic),
         NEW e \in Nat, Found(t, pic, k, e)
  PROVE  Min({q \in k .. FinalCell(t) : LastOfWord(t, pic, q)}) = e
<1> DEFINE S == {q \in k .. FinalCell(t) : LastOfWord(t, pic, q)}
<1>1. /\ LastRow(t) \in Nat /\ Bottom(pic) \in Nat /\ Bottom(pic) <= LastRow(t) /\ RowOf(k) \in Nat
      /\ FinalCell(t) \in Nat
  BY PictureIs, CellNumbers, FinalIs
<1>2. k <= FinalCell(t)
  <2>1. RowOf(k) <= LastRow(t)
    BY <1>1
  <2> QED
    BY <2>1, PictureIs, FinalIs
<1>3. LastOfWord(t, pic, FinalCell(t))
  BY DEF LastOfWord
<1>4. e >= k /\ LastOfWord(t, pic, e) /\ \A j \in k .. e - 1 : ~LastOfWord(t, pic, j)
  BY DEF Found, Clear
<1>5. e <= FinalCell(t)
  <2> SUFFICES ASSUME e > FinalCell(t) PROVE FALSE
    BY <1>1
  <2>1. FinalCell(t) \in k .. e - 1
    BY <1>1, <1>2
  <2> QED
    BY <1>3, <1>4, <2>1
<1>6. e \in S
  BY <1>1, <1>4, <1>5
<1>7. \A y \in S : e <= y
  BY <1>1, <1>4
<1>8. S \in SUBSET Int
  BY <1>1
<1> HIDE DEF S
<1>9. Min(S) = e
  BY <1>6, <1>7, <1>8, MinIs
<1> QED
  BY <1>9 DEF S

(* What findWordEnd makes of the last cell of the word                     *)
LEMMA EndIs ==
  ASSUME NEW t, NEW pic, Current(t, pic), NEW k \in Nat, RowOf(k) <= Bottom(pic), ~Exempt(t, pic, k)
  PROVE  \E e \in Nat :
           /\ Found(t, pic, k, e)
           /\ \/ ~(CellAt(t, e) = "@" /\ e > k)
                 /\ PosOf(findWordEnd(t, pic, ColOf(k), RowOf(k))) = e
              \/ CellAt(t, e) = "@" /\ e > k /\ ColOf(e) # 0
                 /\ PosOf(findWordEnd(t, pic, ColOf(k), RowOf(k))) = e - 1
              \/ CellAt(t, e) = "@" /\ e > k /\ ColOf(e) = 0
<1>1. PICK e \in Nat : WordEnd(t, pic, ColOf(k), RowOf(k)) = Place(e) /\ Found(t, pic, k, e)
  BY EndFound
<1>2. /\ ColOf(e) \in 0 .. Columns - 1 /\ RowOf(e) \in Nat /\ Pos(ColOf(e), RowOf(e)) = e
      /\ ColOf(k) \in 0 .. Columns - 1 /\ RowOf(k) \in Nat /\ Columns \in Nat /\ Columns >= 2
  BY CellNumbers, SearchAssumption
<1>3. e >= k
  BY <1>1 DEF Found
<1>4. RowOf(e) > RowOf(k) \/ ColOf(e) > ColOf(k) <=> e > k
  <2>1. /\ k <= e => RowOf(k) <= RowOf(e)
        /\ RowOf(k) < RowOf(e) => k < e
        /\ RowOf(k) = RowOf(e) => (k < e <=> ColOf(k) < ColOf(e))
    BY RowsInOrder
  <2> QED
    BY <1>2, <1>3, <2>1
<1> DEFINE at == CellAt(t, e) = "@" /\ e > k
<1>5. findWordEnd(t, pic, ColOf(k), RowOf(k)) = IF at THEN BeforeAt(ColOf(e), RowOf(e)) ELSE Place(e)
  <2>1. Place(e)[1] = ColOf(e) /\ Place(e)[2] = RowOf(e)
    BY DEF Place
  <2>2. CellAt(t, e) = Cell(t, ColOf(e), RowOf(e))
    BY JoinedIs
  <2> QED
    BY <1>1, <1>4, <2>1, <2>2 DEF findWordEnd
<1> HIDE DEF at
<1>6. PosOf(Place(e)) = e
  BY <1>2 DEF PosOf, Place
<1>7. CASE ~at
  BY <1>1, <1>5, <1>6, <1>7 DEF at
<1>8. CASE at /\ ColOf(e) # 0
  <2>1. BeforeAt(ColOf(e), RowOf(e)) = <<ColOf(e) - 1, RowOf(e)>>
    BY <1>2, <1>8 DEF BeforeAt
  <2>2. Pos(ColOf(e) - 1, RowOf(e)) = e - 1
    <3>1. RowOf(e) * Columns \in Nat
      BY <1>2
    <3>2. RowOf(e) * Columns + ColOf(e) = e
      BY <1>2 DEF Pos
    <3> QED
      BY <1>2, <3>1, <3>2 DEF Pos
  <2>3. PosOf(findWordEnd(t, pic, ColOf(k), RowOf(k))) = e - 1
    BY <1>5, <1>8, <2>1, <2>2 DEF PosOf
  <2> QED
    BY <1>1, <1>8, <2>3 DEF at
<1>9. CASE at /\ ColOf(e) = 0
  BY <1>1, <1>9 DEF at
<1> QED
  BY <1>7, <1>8, <1>9

LEMMA WordIsFound ==
  ASSUME NEW t, NEW pic, Current(t, pic), NEW k \in Nat, RowOf(k) <= Bottom(pic)
  PROVE  WordFound(t, pic, k)
<1> DEFINE start == findWordStart(t, pic, k % Columns, k \div Columns)
           end == findWordEnd(t, pic, k % Columns, k \div Columns)
           last == Min({q \in k .. FinalCell(t) : LastOfWord(t, pic, q)})
           taken == IF CellAt(t, last) = "@" /\ last > k THEN 1 ELSE 0
<1>1. start[2] * Columns + start[1] = Max({q \in 0 .. k : FirstOfWord(t, q)})
  BY StartFound DEF PosOf, Pos, ColOf, RowOf
<1>2. \/ end[2] * Columns + end[1] = last - taken
      \/ taken = 1 /\ last % Columns = 0
      \/ k + 1 = (Bottom(pic) + 1) * Columns /\ Cuts(t, pic, k)
  <2>1. CASE Exempt(t, pic, k)
    <3>1. /\ ColOf(k) = Columns - 1 /\ RowOf(k) = Bottom(pic) /\ Cuts(t, pic, k)
          /\ k = RowOf(k) * Columns + ColOf(k) /\ RowOf(k) \in Nat /\ Columns \in Nat
      BY <2>1, CellNumbers, SearchAssumption DEF Exempt, Pos
    <3>2. (Bottom(pic) + 1) * Columns = Bottom(pic) * Columns + Columns /\ Bottom(pic) * Columns \in Nat
      BY <3>1
    <3>3. k + 1 = (Bottom(pic) + 1) * Columns
      BY <3>1, <3>2
    <3> QED
      BY <3>1, <3>3
  <2>2. CASE ~Exempt(t, pic, k)
    <3> DEFINE found == PosOf(findWordEnd(t, pic, ColOf(k), RowOf(k)))
    <3>1. PICK e \in Nat :
            /\ Found(t, pic, k, e)
            /\ \/ ~(CellAt(t, e) = "@" /\ e > k) /\ found = e
               \/ CellAt(t, e) = "@" /\ e > k /\ ColOf(e) # 0 /\ found = e - 1
               \/ CellAt(t, e) = "@" /\ e > k /\ ColOf(e) = 0
      BY <2>2, EndIs
    <3>2. last = e
      BY <3>1, LastIs
    <3>3. found = end[2] * Columns + end[1]
      BY DEF PosOf, Pos, ColOf, RowOf
    <3>4. last % Columns = ColOf(e)
      BY <3>2 DEF ColOf
    <3> HIDE DEF found, end, last
    <3> QED
      BY <3>1, <3>2, <3>3, <3>4
  <2> QED
    BY <2>1, <2>2
<1> QED
  BY <1>1, <1>2 DEF WordFound

-----------------------------------------------------------------------------
(* The flags are those of the text whenever no output is pending.          *)
LEMMA FreshIsCurrent ==
  ASSUME MouseTypeOK, Placed, Fresh, NEW edge
  PROVE  Current(text, [top |-> top, flags |-> flags, edge |-> edge])
<1> DEFINE pic == [top |-> top, flags |-> flags, edge |-> edge]
<1>1. /\ Len(text) \in Nat /\ top \in Nat /\ top + Lines <= Len(text) /\ Lines \in Nat
  BY SearchAssumption DEF MouseTypeOK, Placed, Hist
<1>2. pic.top = top /\ pic.flags = flags /\ Bottom(pic) = top + Lines - 1
  BY DEF Bottom
<1> HIDE DEF pic
<1>3. ASSUME NEW y \in Nat PROVE SeenWrapped(text, pic, y) = IsWrapped(text, y)
  <2>1. CASE Shown(pic, y)
    <3>1. y \in top .. top + Lines - 1
      BY <1>2, <2>1 DEF Shown
    <3>2. y - top + 1 \in 1 .. Lines /\ top + (y - top + 1) - 1 = y
      BY <1>1, <3>1
    <3>3. flags[y - top + 1] = IsWrapped(text, top + (y - top + 1) - 1)
      BY <3>2 DEF Fresh, FlagsFrom
    <3> QED
      BY <1>2, <2>1, <3>2, <3>3 DEF SeenWrapped
  <2>2. CASE ~Shown(pic, y)
    BY <2>2 DEF SeenWrapped
  <2> QED
    BY <2>1, <2>2
<1>4. Current(text, pic)
  BY <1>1, <1>2, <1>3 DEF Current
<1> QED
  BY <1>4 DEF pic

LEMMA ShownWords ==
  ASSUME MouseTypeOK, Placed
  PROVE  WordsFound
<1> DEFINE W == Pos(0, top) .. Pos(Columns, top + Lines - 1) - 1
<1> HIDE DEF W
<1> SUFFICES ASSUME Fresh, NEW edge, NEW k \in W
             PROVE  WordFound(text, [top |-> top, flags |-> flags, edge |-> edge], k)
  BY DEF WordsFound, W
<1> DEFINE pic == [top |-> top, flags |-> flags, edge |-> edge]
<1>0. Len(text) \in Nat /\ top \in 0 .. Len(text) - Lines
  BY DEF MouseTypeOK, Hist
<1>1. Columns \in Nat /\ Columns >= 2 /\ Lines \in Nat /\ Lines >= 1 /\ top \in Nat
  BY <1>0, SearchAssumption
<1> DEFINE b == top + Lines - 1
<1>2. b \in Nat /\ Bottom(pic) = b
  BY <1>1 DEF Bottom
<1> HIDE DEF b
<1>3. Pos(0, top) \in Nat /\ Pos(Columns, b) - 1 = Pos(Columns - 1, b) /\ Pos(Columns - 1, b) \in Nat
  BY <1>1, <1>2 DEF Pos
<1>4. k \in Nat /\ k <= Pos(Columns - 1, b)
  <2>1. W = Pos(0, top) .. Pos(Columns - 1, b)
    BY <1>3 DEF W, b
  <2> QED
    BY <1>3, <2>1
<1>5. RowOf(k) <= b
  <2>1. Columns - 1 \in 0 .. Columns - 1
    BY <1>1
  <2>2. RowOf(Pos(Columns - 1, b)) = b
    BY <1>2, <2>1, NumbersOf
  <2> QED
    BY <1>3, <1>4, <2>2, RowsInOrder
<1>6. Current(text, pic)
  BY FreshIsCurrent
<1> QED
  BY <1>2, <1>4, <1>5, <1>6, WordIsFound

(* However the mouse, the keys and the output go on, the searches from a   *)
(* cell of the picture find the ends of its word, on whatever rows they    *)
(* are, while the flags are those of the rows shown (findWordStart,        *)
(* findWordEnd).                                                           *)
THEOREM WordsAreFound == MouseSpec => [](WordsFound /\ FindsWord)
<1>1. MouseInit(Texts) => MouseSound
  BY MouseStarts
<1>2. MouseSound /\ [MouseNext]_mouseVars => MouseSound'
  BY MouseStep
<1>3. MouseSound => WordsFound /\ FindsWord
  BY ShownWords DEF MouseSound, FindsWord
<1> QED
  BY <1>1, <1>2, <1>3, PTL DEF MouseSpec
=============================================================================
