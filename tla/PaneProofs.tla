------------------------------ MODULE PaneProofs ------------------------------
(***************************************************************************)
(* Proofs about TerminalPane for any number of terminals and of drags.     *)
(***************************************************************************)
EXTENDS TerminalPane, SequenceTheorems, TLAPS

(* What the tabs say of the sessions behind them: a terminal of the pane   *)
(* has a session that somebody will hear of or that has ended, one that is *)
(* gone has none that runs, and only the first terminal is run twice.      *)
Lives == {"running", "failed", "dead", "revived", "ended"}
Orphans == {"none", "closing", "finishing", "ended", "leaked"}
SessionsFit ==
    /\ \A id \in windows : session[id] \in Lives
    /\ \A id \in Ids \ windows : session[id] \in Orphans
    /\ \A id \in Ids : session[id] \in {"revived", "leaked"} => id = 1 /\ sized
    /\ \A id \in Ids : id >= nextNumber => session[id] = "none"

(* Numbers are given once, and only the first terminal has no size yet.    *)
NumbersFit ==
    /\ Len(tabs) < nextNumber
    /\ \A id \in windows : id < nextNumber
    /\ visible => sized
    /\ ~sized => nextNumber <= 2

(* Without a drag a tab's stored index is its place or one to the right.   *)
NeverLow == moves = 0 => \A p \in 1 .. Len(tabs) : tabIndex[tabs[p]] >= p - 1

IInv == TypeOK /\ PaneInSync /\ SessionsFit /\ NumbersFit /\ NeverLow

-----------------------------------------------------------------------------
(* The tab bar as a sequence *)

LEMMA Removed ==
    ASSUME NEW s \in Seq(Ids), IsInjective(s), NEW i \in 1 .. Len(s)
    PROVE  LET r == RemoveAt(s, i)
           IN  /\ r \in Seq(Ids) /\ Len(r) = Len(s) - 1
               /\ \A p \in 1 .. Len(r) : r[p] = IF p < i THEN s[p] ELSE s[p + 1]
               /\ IsInjective(r)
               /\ Range(r) = Range(s) \ {s[i]}
<1> DEFINE r == RemoveAt(s, i)
<1> DEFINE a == SubSeq(s, 1, i - 1)
           b == SubSeq(s, i + 1, Len(s))
<1>0. Len(s) \in Nat /\ \A p \in 1 .. Len(s) : s[p] \in Ids
  OBVIOUS
<1>a. /\ a \in Seq(Ids) /\ Len(a) = i - 1
      /\ \A p \in 1 .. i - 1 : a[p] = s[p]
  BY <1>0, SubSeqProperties
<1>b. /\ b \in Seq(Ids) /\ Len(b) = Len(s) - i
      /\ \A p \in 1 .. Len(s) - i : b[p] = s[p + i]
  BY <1>0, SubSeqProperties
<1>c. r = a \o b
  BY DEF RemoveAt
<1> HIDE DEF r, a, b
<1>d. /\ r \in Seq(Ids) /\ Len(r) = Len(a) + Len(b)
      /\ \A p \in 1 .. Len(a) + Len(b) : r[p] = IF p <= Len(a) THEN a[p] ELSE b[p - Len(a)]
  BY <1>a, <1>b, <1>c, ConcatProperties
<1>1. r \in Seq(Ids) /\ Len(r) = Len(s) - 1
  BY <1>0, <1>a, <1>b, <1>d
<1>2. \A p \in 1 .. Len(r) : r[p] = IF p < i THEN s[p] ELSE s[p + 1]
  <2> TAKE p \in 1 .. Len(r)
  <2>0. p \in 1 .. Len(a) + Len(b) /\ Len(a) = i - 1 /\ i \in Int /\ p \in Int
    BY <1>0, <1>a, <1>d
  <2>1. CASE p < i
    <3>1. p \in 1 .. i - 1 /\ p <= Len(a)
      BY <2>0, <2>1
    <3>2. r[p] = a[p] /\ a[p] = s[p]
      BY <1>a, <1>d, <2>0, <3>1
    <3> QED
      BY <2>1, <3>2
  <2>2. CASE p >= i
    <3>0. ~(p <= Len(a)) /\ p - Len(a) = p - i + 1
      BY <2>0, <2>2
    <3>1. p - i + 1 \in 1 .. Len(s) - i /\ p - Len(a) = p - i + 1 /\ r[p] = b[p - Len(a)]
      BY <1>0, <1>1, <1>d, <2>0, <2>2, <3>0
    <3>2. b[p - i + 1] = s[(p - i + 1) + i] /\ (p - i + 1) + i = p + 1
      BY <1>0, <1>b, <3>1
    <3> QED
      BY <2>2, <3>1, <3>2
  <2> QED
    BY <1>0, <1>1, <2>1, <2>2
<1>3. DOMAIN r = 1 .. Len(r) /\ DOMAIN s = 1 .. Len(s) /\ Len(s) \in Nat
  BY <1>1
<1>4. IsInjective(r)
  <2> SUFFICES ASSUME NEW p \in 1 .. Len(r), NEW q \in 1 .. Len(r), r[p] = r[q]
               PROVE  p = q
    BY <1>3 DEF IsInjective
  <2> DEFINE at(k) == IF k < i THEN k ELSE k + 1
  <2>1. at(p) \in 1 .. Len(s) /\ at(q) \in 1 .. Len(s) /\ s[at(p)] = s[at(q)]
    BY <1>1, <1>2, <1>3
  <2>2. at(p) = at(q)
    BY <1>3, <2>1 DEF IsInjective
  <2> QED
    BY <1>1, <1>3, <2>2
<1>5. ASSUME NEW x \in Range(r) PROVE x \in Range(s) \ {s[i]}
  <2>1. PICK p \in 1 .. Len(r) : x = r[p]
    BY <1>3, <1>5 DEF Range
  <2> QED
    BY <1>1, <1>2, <1>3, <2>1 DEF Range, IsInjective
<1>6. ASSUME NEW x \in Range(s) \ {s[i]} PROVE x \in Range(r)
  <2>1. PICK q \in 1 .. Len(s) : x = s[q]
    BY <1>3, <1>6 DEF Range
  <2>2. CASE q < i
    <3>1. q \in 1 .. Len(r) /\ r[q] = x
      BY <1>1, <1>2, <1>3, <2>1, <2>2
    <3> QED
      BY <1>3, <3>1 DEF Range
  <2>3. CASE q > i
    <3>1. q - 1 \in 1 .. Len(r) /\ r[q - 1] = x
      BY <1>1, <1>2, <1>3, <2>1, <2>3
    <3> QED
      BY <1>3, <3>1 DEF Range
  <2> QED
    BY <1>6, <2>1, <2>2, <2>3
<1> QED
  BY <1>1, <1>2, <1>4, <1>5, <1>6 DEF r

LEMMA Inserted ==
    ASSUME NEW s \in Seq(Ids), IsInjective(s), NEW x \in Ids \ Range(s), NEW i \in 1 .. Len(s) + 1
    PROVE  LET r == InsertAt(s, i, x)
           IN  /\ r \in Seq(Ids) /\ Len(r) = Len(s) + 1
               /\ IsInjective(r)
               /\ Range(r) = Range(s) \cup {x}
<1> DEFINE r == InsertAt(s, i, x)
<1> DEFINE a == SubSeq(s, 1, i - 1)
           b == SubSeq(s, i, Len(s))
           c == a \o <<x>>
<1>0. Len(s) \in Nat /\ \A p \in 1 .. Len(s) : s[p] \in Ids
  OBVIOUS
<1>a. /\ a \in Seq(Ids) /\ Len(a) = i - 1
      /\ \A p \in 1 .. i - 1 : a[p] = s[p]
  BY <1>0, SubSeqProperties
<1>b. /\ b \in Seq(Ids) /\ Len(b) = Len(s) - i + 1
      /\ \A p \in 1 .. Len(s) - i + 1 : b[p] = s[p + i - 1]
  BY <1>0, SubSeqProperties
<1>c. r = c \o b
  BY DEF InsertAt
<1>d. <<x>> \in Seq(Ids) /\ Len(<<x>>) = 1 /\ <<x>>[1] = x
  OBVIOUS
<1> HIDE DEF r, a, b
<1>e. /\ c \in Seq(Ids) /\ Len(c) = Len(a) + 1
      /\ \A p \in 1 .. Len(a) + 1 : c[p] = IF p <= Len(a) THEN a[p] ELSE <<x>>[p - Len(a)]
  BY <1>a, <1>d, ConcatProperties
<1> HIDE DEF c
<1>f. /\ r \in Seq(Ids) /\ Len(r) = Len(c) + Len(b)
      /\ \A p \in 1 .. Len(c) + Len(b) : r[p] = IF p <= Len(c) THEN c[p] ELSE b[p - Len(c)]
  BY <1>b, <1>c, <1>e, ConcatProperties
<1>1. r \in Seq(Ids) /\ Len(r) = Len(s) + 1
  BY <1>0, <1>a, <1>b, <1>e, <1>f
<1>2. \A p \in 1 .. Len(r) : r[p] = IF p < i THEN s[p] ELSE IF p = i THEN x ELSE s[p - 1]
  <2> TAKE p \in 1 .. Len(r)
  <2>1. CASE p < i
    <3>1. r[p] = c[p] /\ c[p] = a[p] /\ a[p] = s[p]
      BY <1>0, <1>1, <1>a, <1>b, <1>e, <1>f, <2>1
    <3> QED
      BY <2>1, <3>1
  <2>2. CASE p = i
    <3>1. r[p] = c[p] /\ c[p] = <<x>>[p - Len(a)] /\ p - Len(a) = 1
      BY <1>0, <1>1, <1>a, <1>b, <1>e, <1>f, <2>2
    <3> QED
      BY <1>d, <2>2, <3>1
  <2>3. CASE p > i
    <3>1. p - i \in 1 .. Len(s) - i + 1 /\ p - Len(c) = p - i /\ r[p] = b[p - Len(c)]
      BY <1>0, <1>1, <1>a, <1>b, <1>e, <1>f, <2>3
    <3>2. b[p - i] = s[(p - i) + i - 1] /\ (p - i) + i - 1 = p - 1
      BY <1>0, <1>b, <3>1
    <3> QED
      BY <2>3, <3>1, <3>2
  <2> QED
    BY <1>1, <2>1, <2>2, <2>3
<1>3. DOMAIN r = 1 .. Len(r) /\ DOMAIN s = 1 .. Len(s) /\ Len(s) \in Nat
  BY <1>1
<1>4. \A p \in 1 .. Len(s) : s[p] # x
  BY <1>3 DEF Range
<1>5. IsInjective(r)
  <2> SUFFICES ASSUME NEW p \in 1 .. Len(r), NEW q \in 1 .. Len(r), r[p] = r[q]
               PROVE  p = q
    BY <1>3 DEF IsInjective
  <2>1. \A k \in 1 .. Len(r) : k # i => /\ (IF k < i THEN k ELSE k - 1) \in 1 .. Len(s)
                                        /\ r[k] = s[IF k < i THEN k ELSE k - 1]
    BY <1>1, <1>2, <1>3
  <2>2. \A k \in 1 .. Len(r) : r[k] = x <=> k = i
    BY <1>1, <1>2, <1>3, <1>4, <2>1
  <2>3. CASE p = i \/ q = i
    BY <2>2, <2>3
  <2>4. CASE p # i /\ q # i
    <3> DEFINE at(k) == IF k < i THEN k ELSE k - 1
    <3>1. at(p) \in 1 .. Len(s) /\ at(q) \in 1 .. Len(s) /\ s[at(p)] = s[at(q)]
      BY <2>1, <2>4
    <3>2. at(p) = at(q)
      BY <1>3, <3>1 DEF IsInjective
    <3> QED
      BY <1>1, <1>3, <2>4, <3>2
  <2> QED
    BY <2>3, <2>4
<1>6. ASSUME NEW y \in Range(r) PROVE y \in Range(s) \cup {x}
  <2>1. PICK p \in 1 .. Len(r) : y = r[p]
    BY <1>3, <1>6 DEF Range
  <2>2. CASE p = i
    BY <1>1, <1>2, <2>1, <2>2
  <2>3. CASE p # i
    <3>1. \E k \in 1 .. Len(s) : y = s[k]
      BY <1>1, <1>2, <1>3, <2>1, <2>3
    <3> QED
      BY <1>3, <3>1 DEF Range
  <2> QED
    BY <2>2, <2>3
<1>7. ASSUME NEW y \in Range(s) \cup {x} PROVE y \in Range(r)
  <2>1. CASE y = x
    BY <1>1, <1>2, <1>3, <2>1 DEF Range
  <2>2. CASE y \in Range(s)
    <3>1. PICK q \in 1 .. Len(s) : y = s[q]
      BY <1>3, <2>2 DEF Range
    <3>2. CASE q < i
      BY <1>1, <1>2, <1>3, <3>1, <3>2 DEF Range
    <3>3. CASE q >= i
      <4>1. q + 1 \in 1 .. Len(r) /\ r[q + 1] = y
        BY <1>1, <1>2, <1>3, <3>1, <3>3
      <4> QED
        BY <1>3, <4>1 DEF Range
    <3> QED
      BY <3>1, <3>2, <3>3, <1>3
  <2> QED
    BY <1>7, <2>1, <2>2
<1> QED
  BY <1>1, <1>5, <1>6, <1>7 DEF r

(* The place of a tab is a place in the bar, and the only one.             *)
LEMMA Placed ==
    ASSUME NEW id \in Range(tabs), tabs \in Seq(Ids)
    PROVE  Position(id) + 1 \in 1 .. Len(tabs) /\ tabs[Position(id) + 1] = id
<1>1. \E p \in 1 .. Len(tabs) : tabs[p] = id
  BY DEF Range
<1> DEFINE c == CHOOSE p \in 1 .. Len(tabs) : tabs[p] = id
<1>2. c \in 1 .. Len(tabs) /\ tabs[c] = id
  BY <1>1
<1>3. Position(id) = c - 1
  BY DEF Position
<1> HIDE DEF c
<1> QED
  BY <1>2, <1>3

-----------------------------------------------------------------------------
(* The steps *)

Keeps == \A id \in Ids : Contract(id)!Next \/ session'[id] = session[id]
MenuAndTimers == /\ menu' \in {NoMenu} \cup (-1 .. MaxTerminals - 1)
                 /\ closeTimers' \in Seq([id : Ids, idx : Nat])

LEMMA Enabling ==
    ASSUME NEW n \in Nat, UpdateCloseState(n)
    PROVE  enabled' \in [current : BOOLEAN, all : BOOLEAN, other : BOOLEAN]
<1> DEFINE some == n > 0
           several == n > 1
<1>1. enabled' = [current |-> some, all |-> some, other |-> several]
  BY DEF UpdateCloseState
<1>2. some \in BOOLEAN /\ several \in BOOLEAN
  OBVIOUS
<1> HIDE DEF some, several
<1> QED
  BY <1>1, <1>2

(* Any tabs close, and the others stay in their order.                     *)
LEMMA Closing ==
    ASSUME IInv, MenuAndTimers, UNCHANGED <<sized, moves>>,
           NEW S \in SUBSET Range(tabs), NEW rest \in Seq(Ids),
           IsInjective(rest), Range(rest) = Range(tabs) \ S, Len(rest) <= Len(tabs),
           \A p \in 1 .. Len(rest) : \E q \in 1 .. Len(tabs) : q >= p /\ rest[p] = tabs[q],
           CloseTabsOf(S, rest)
    PROVE  IInv' /\ Keeps
<1>1. PICK died \in SUBSET {id \in S : session[id] = "running"} :
        session' = [id \in Ids |->
            IF id \notin S THEN session[id]
            ELSE IF id \in died THEN "ended" ELSE AfterClose(session[id])]
  BY DEF CloseTabsOf, CloseSessions
<1>2. tabs \in Seq(Ids) /\ windows = Range(tabs) /\ Len(tabs) \in Nat
      /\ Len(rest) \in Nat /\ Range(rest) \subseteq Ids /\ windows \subseteq Ids
      /\ session \in [Ids -> SessionState]
  BY DEF IInv, TypeOK, PaneInSync, Range
<1>3. windows' = windows \ S /\ tabs' = rest /\ windows' = Range(tabs')
  BY <1>2 DEF CloseTabsOf, ForgetWindows
<1>4. ASSUME NEW id \in Ids
      PROVE  /\ session'[id] \in SessionState
             /\ id \notin S => session'[id] = session[id]
             /\ id \in S => session'[id] \in {"closing", "ended", "finishing", "leaked"}
             /\ session'[id] \in {"revived", "leaked"} => session[id] \in {"revived", "leaked"}
             /\ session[id] = "none" => session'[id] = "none"
             /\ Contract(id)!Next \/ session'[id] = session[id]
  <2>1. CASE id \notin S
    BY <1>1, <1>2, <2>1
  <2>2. CASE id \in S
    <3>1. session[id] \in Lives
      BY <1>2, <2>2 DEF IInv, SessionsFit, Lives
    <3>2. session'[id] = IF id \in died THEN "ended" ELSE AfterClose(session[id])
      BY <1>1, <2>2
    <3>3. id \in died => session[id] = "running"
      BY <1>1
    <3> QED
      BY <2>2, <3>1, <3>2, <3>3 DEF Lives, AfterClose, SessionState, Contract!States,
         Contract!Next, Contract!Close
  <2> QED
    BY <2>1, <2>2
<1>5. SessionsFit'
  BY <1>2, <1>3, <1>4 DEF IInv, SessionsFit, Orphans, Lives, CloseTabsOf
<1>6. NumbersFit'
  BY <1>2, <1>3 DEF IInv, NumbersFit, TypeOK, CloseTabsOf
<1>7. NeverLow'
  <2> SUFFICES ASSUME moves = 0, NEW p \in 1 .. Len(rest) PROVE tabIndex[rest[p]] >= p - 1
    BY <1>3 DEF NeverLow, CloseTabsOf
  <2>1. PICK q \in 1 .. Len(tabs) : q >= p /\ rest[p] = tabs[q]
    OBVIOUS
  <2>2. tabIndex[tabs[q]] >= q - 1
    BY DEF IInv, NeverLow
  <2>3. tabs[q] \in Ids /\ tabIndex \in [Ids -> Nat]
    BY DEF IInv, TypeOK
  <2>4. tabIndex[tabs[q]] \in Nat
    BY <2>3
  <2> QED
    BY <2>1, <2>2, <2>4
<1>8. /\ activeWindow' \in windows' \cup {NoTab}
      /\ activeWindow' = NoTab <=> tabs' = <<>>
  <2>1. activeWindow' = CurrentAfter(S, rest) /\ NoTab \notin Ids
    BY DEF CloseTabsOf, NoTab, Ids
  <2>2. activeWindow \in windows \cup {NoTab} /\ (activeWindow = NoTab <=> tabs = <<>>)
    BY DEF IInv, PaneInSync
  <2>e. rest = <<>> <=> Range(rest) = {}
    BY <1>2 DEF Range
  <2>3. CASE activeWindow \notin S
    BY <1>2, <1>3, <2>1, <2>2, <2>3, <2>e DEF CurrentAfter, Range
  <2>4. CASE activeWindow \in S /\ rest = <<>>
    BY <1>3, <2>1, <2>4 DEF CurrentAfter
  <2>5. CASE activeWindow \in S /\ rest # <<>>
    <3> DEFINE p == Position(activeWindow) + 1
               k == IF p <= Len(rest) THEN p ELSE Len(rest)
    <3>1. p \in 1 .. Len(tabs)
      BY <1>2, <2>5, Placed
    <3>2. activeWindow' = rest[k]
      BY <2>1, <2>5 DEF CurrentAfter
    <3> HIDE DEF p
    <3>3. k \in 1 .. Len(rest)
      BY <1>2, <2>5, <3>1
    <3> HIDE DEF k
    <3>4. rest[k] \in Range(rest)
      BY <3>3 DEF Range
    <3> QED
      BY <1>2, <1>3, <2>1, <2>5, <3>2, <3>4
  <2> QED
    BY <2>3, <2>4, <2>5
<1>9. TypeOK'
  <2>1. session' \in [Ids -> SessionState]
    BY <1>1, <1>4
  <2>2. enabled' \in [current : BOOLEAN, all : BOOLEAN, other : BOOLEAN]
    BY <1>2, Enabling DEF CloseTabsOf, IInv, TypeOK
  <2>3. activeWindow' \in Ids \cup {NoTab} /\ windows' \subseteq Ids
    BY <1>2, <1>3, <1>8
  <2>4. visible' \in BOOLEAN /\ tabs' \in Seq(Ids)
    BY <1>3 DEF CloseTabsOf, IInv, TypeOK
  <2> QED
    BY <2>1, <2>2, <2>3, <2>4 DEF TypeOK, CloseTabsOf, IInv, MenuAndTimers
<1> QED
  BY <1>3, <1>4, <1>5, <1>6, <1>7, <1>8, <1>9 DEF IInv, PaneInSync, Keeps

LEMMA ClosingOne ==
    ASSUME IInv, MenuAndTimers, UNCHANGED <<sized, moves>>, NEW index \in Int, CloseTab(index)
    PROVE  IInv' /\ Keeps
<1>t. tabs \in Seq(Ids) /\ Len(tabs) \in Nat /\ IsInjective(tabs)
  BY DEF IInv, TypeOK, PaneInSync
<1>1. CASE Widget(index) # NoTab
  <2>1. index + 1 \in 1 .. Len(tabs) /\ Widget(index) = tabs[index + 1]
    BY <1>1, <1>t DEF Widget
  <2> DEFINE rest == RemoveAt(tabs, index + 1)
             S == {Widget(index)}
  <2>2. /\ rest \in Seq(Ids) /\ Len(rest) = Len(tabs) - 1 /\ IsInjective(rest)
        /\ \A p \in 1 .. Len(rest) : rest[p] = IF p < index + 1 THEN tabs[p] ELSE tabs[p + 1]
        /\ Range(rest) = Range(tabs) \ S
    BY <1>t, <2>1, Removed
  <2>3. CloseTabsOf(S, rest)
    BY <1>1 DEF CloseTab
  <2>4. S \in SUBSET Range(tabs)
    BY <1>t, <2>1 DEF Range
  <2> HIDE DEF rest, S
  <2>5. \A p \in 1 .. Len(rest) : \E q \in 1 .. Len(tabs) : q >= p /\ rest[p] = tabs[q]
    BY <1>t, <2>2
  <2>6. Len(rest) <= Len(tabs)
    BY <1>t, <2>2
  <2> QED
    BY <2>2, <2>3, <2>4, <2>5, <2>6, Closing
<1>2. CASE Widget(index) = NoTab
  BY <1>2 DEF CloseTab, IInv, TypeOK, PaneInSync, SessionsFit, NumbersFit, NeverLow, Keeps, MenuAndTimers,
              paneVars, SessionState
<1> QED
  BY <1>1, <1>2

LEMMA ClosingAll ==
    ASSUME IInv, MenuAndTimers, UNCHANGED <<sized, moves>>, NEW except \in Int, CloseAllTabs(except)
    PROVE  IInv' /\ Keeps
<1>t. tabs \in Seq(Ids) /\ Len(tabs) \in Nat /\ IsInjective(tabs)
  BY DEF IInv, TypeOK, PaneInSync
<1>1. CASE Widget(except) # NoTab
  <2>1. except + 1 \in 1 .. Len(tabs) /\ Widget(except) = tabs[except + 1]
    BY <1>1, <1>t DEF Widget
  <2> DEFINE rest == <<Widget(except)>>
             S == Range(tabs) \ {Widget(except)}
  <2>2. Widget(except) \in Ids /\ Widget(except) \in Range(tabs) /\ 1 <= Len(tabs)
    BY <1>t, <2>1 DEF Range
  <2>3. /\ rest \in Seq(Ids) /\ Len(rest) = 1 /\ IsInjective(rest)
        /\ Range(rest) = {Widget(except)} /\ rest[1] = Widget(except)
    BY <2>2 DEF IsInjective, Range
  <2>4. CloseTabsOf(S, rest)
    BY <1>1 DEF CloseAllTabs
  <2>5. \A p \in 1 .. Len(rest) : \E q \in 1 .. Len(tabs) : q >= p /\ rest[p] = tabs[q]
    BY <2>1, <2>3
  <2>6. Range(rest) = Range(tabs) \ S /\ Len(rest) <= Len(tabs) /\ S \in SUBSET Range(tabs)
    BY <2>2, <2>3
  <2> HIDE DEF rest, S
  <2> QED
    BY <2>3, <2>4, <2>5, <2>6, Closing
<1>2. CASE Widget(except) = NoTab
  <2> DEFINE rest == IF Widget(except) = NoTab THEN <<>> ELSE <<Widget(except)>>
             S == Range(tabs)
  <2>1. CloseTabsOf(S \ {Widget(except)}, rest)
    BY DEF CloseAllTabs
  <2>2. S \ {Widget(except)} = S
    <3>1. Range(tabs) \subseteq Ids
      BY <1>t, RangeOfSeq
    <3>2. Widget(except) \notin Ids
      BY <1>2 DEF NoTab, Ids
    <3> QED
      BY <3>1, <3>2
  <2>3. /\ rest \in Seq(Ids) /\ Len(rest) = 0 /\ IsInjective(rest) /\ Range(rest) = {}
    <3>1. rest = <<>>
      BY <1>2
    <3> HIDE DEF rest
    <3> QED
      BY <3>1 DEF IsInjective, Range
  <2>4. \A p \in 1 .. Len(rest) : \E q \in 1 .. Len(tabs) : q >= p /\ rest[p] = tabs[q]
    BY <2>3
  <2>5. Range(rest) = Range(tabs) \ S /\ Len(rest) <= Len(tabs) /\ S \in SUBSET Range(tabs)
    BY <1>t, <2>3
  <2> HIDE DEF rest, S
  <2> QED
    BY <2>1, <2>2, <2>3, <2>4, <2>5, Closing
<1> QED
  BY <1>1, <1>2

(* A terminal is added, and the pane may be shown.                         *)
LEMMA Adding ==
    ASSUME IInv, AddTab, visible' \in BOOLEAN, sized' \in BOOLEAN, sized => sized',
           visible' => sized', sized' \/ nextNumber = 1,
           UNCHANGED <<menu, closeTimers, moves, crashed>>
    PROVE  IInv' /\ Keeps
<1> DEFINE id == nextNumber
<1>1. /\ id \in Ids /\ nextNumber \in Nat /\ id \notin windows /\ session[id] = "none"
      /\ tabs \in Seq(Ids) /\ Len(tabs) \in Nat /\ windows = Range(tabs) /\ IsInjective(tabs)
      /\ windows \subseteq Ids /\ tabIndex \in [Ids -> Nat] /\ session \in [Ids -> SessionState]
  BY DEF AddTab, IInv, TypeOK, PaneInSync, SessionsFit, NumbersFit, Ids
<1>2. /\ nextNumber' = id + 1 /\ windows' = windows \cup {id} /\ tabs' = Append(tabs, id)
      /\ activeWindow' = id /\ tabIndex' = [tabIndex EXCEPT ![id] = Len(tabs)]
  BY DEF AddTab, NewTabIndex
<1>3. PICK state \in {"running", "failed"} : session' = [session EXCEPT ![id] = state]
  BY DEF AddTab
<1>4. enabled' \in [current : BOOLEAN, all : BOOLEAN, other : BOOLEAN]
  <2>1. UpdateCloseState(Len(tabs) + 1) /\ Len(tabs) + 1 \in Nat
    BY <1>1 DEF AddTab
  <2> QED
    BY <2>1, Enabling
<1>5. /\ tabs' \in Seq(Ids) /\ tabs' # <<>> /\ Len(tabs') = Len(tabs) + 1
      /\ \A p \in 1 .. Len(tabs) : tabs'[p] = tabs[p]
      /\ tabs'[Len(tabs) + 1] = id
  BY <1>1, <1>2, AppendProperties
<1>6. DOMAIN tabs' = 1 .. Len(tabs) + 1 /\ DOMAIN tabs = 1 .. Len(tabs)
  BY <1>1, <1>5
<1> HIDE DEF id
<1>7. \A p \in 1 .. Len(tabs) : tabs[p] \in windows
  BY <1>1, <1>6 DEF Range
<1>8. IsInjective(tabs')
  <2> SUFFICES ASSUME NEW p \in 1 .. Len(tabs) + 1, NEW q \in 1 .. Len(tabs) + 1, tabs'[p] = tabs'[q]
               PROVE  p = q
    BY <1>6 DEF IsInjective
  <2>1. \A k \in 1 .. Len(tabs) : tabs'[k] # id
    BY <1>1, <1>5, <1>7
  <2>2. CASE p \in 1 .. Len(tabs) /\ q \in 1 .. Len(tabs)
    BY <1>1, <1>5, <1>6, <2>2 DEF IsInjective
  <2>3. CASE p = Len(tabs) + 1 \/ q = Len(tabs) + 1
    BY <1>1, <1>5, <2>1, <2>3
  <2> QED
    BY <1>1, <2>2, <2>3
<1>9. Range(tabs') = windows'
  <2>1. ASSUME NEW x \in Range(tabs') PROVE x \in windows'
    BY <1>2, <1>5, <1>6, <1>7, <2>1 DEF Range
  <2>2. ASSUME NEW x \in windows' PROVE x \in Range(tabs')
    <3>1. CASE x = id
      BY <1>1, <1>5, <1>6, <3>1 DEF Range
    <3>2. CASE x \in windows
      <4>1. PICK p \in 1 .. Len(tabs) : x = tabs[p]
        BY <1>1, <1>6, <3>2 DEF Range
      <4>2. p \in DOMAIN tabs' /\ tabs'[p] = x
        BY <1>1, <1>5, <1>6, <4>1
      <4> QED
        BY <4>2 DEF Range
    <3> QED
      BY <1>2, <2>2, <3>1, <3>2
  <2> QED
    BY <2>1, <2>2
<1>10. PaneInSync'
  BY <1>1, <1>2, <1>5, <1>8, <1>9 DEF PaneInSync, NoTab, Ids
<1>11. TypeOK'
  <2>1. session' \in [Ids -> SessionState]
    BY <1>1, <1>3 DEF SessionState, Contract!States
  <2>2. nextNumber' \in 1 .. MaxTerminals + 1 /\ tabIndex' \in [Ids -> Nat]
    BY <1>1, <1>2, PaneAssumption DEF Ids, id
  <2> QED
    BY <1>1, <1>2, <1>4, <1>5, <2>1, <2>2 DEF TypeOK, IInv
<1>12. SessionsFit'
  BY <1>1, <1>2, <1>3 DEF IInv, SessionsFit, Lives, Orphans, id, Ids
<1>13. NumbersFit'
  BY <1>1, <1>2, <1>5 DEF IInv, NumbersFit, id
<1>14. NeverLow'
  <2> SUFFICES ASSUME moves = 0, NEW p \in 1 .. Len(tabs) + 1 PROVE tabIndex'[tabs'[p]] >= p - 1
    BY <1>5 DEF NeverLow
  <2>1. CASE p = Len(tabs) + 1
    BY <1>1, <1>2, <1>5, <2>1
  <2>2. CASE p \in 1 .. Len(tabs)
    <3>1. tabs'[p] = tabs[p] /\ tabs[p] # id /\ tabs[p] \in Ids
      BY <1>1, <1>5, <1>7, <2>2
    <3>2. tabIndex'[tabs[p]] = tabIndex[tabs[p]]
      BY <1>1, <1>2, <3>1
    <3> QED
      BY <2>2, <3>1, <3>2 DEF IInv, NeverLow
  <2> QED
    BY <1>1, <2>1, <2>2
<1>15. Keeps
  BY <1>1, <1>3 DEF Keeps, Contract!Next, Contract!Open
<1> QED
  BY <1>10, <1>11, <1>12, <1>13, <1>14, <1>15 DEF IInv

(* A session moves on as its contract allows, and its terminal's place in  *)
(* the pane still fits it.                                                 *)
LEMMA SessionMoves ==
    ASSUME IInv, NEW id \in Ids, NEW state \in SessionState,
           session' = [session EXCEPT ![id] = state],
           state # "none", session[id] # "none",
           id \in windows => state \in Lives,
           id \notin windows => state \in Orphans,
           state \in {"revived", "leaked"} => id = 1 /\ sized',
           sized' \in BOOLEAN, sized => sized', visible' \in BOOLEAN, visible' => sized',
           MenuAndTimers,
           UNCHANGED <<tabs, windows, tabIndex, nextNumber, activeWindow, enabled, moves, crashed>>
    PROVE  IInv'
<1>1. TypeOK' /\ PaneInSync' /\ NeverLow'
  BY DEF IInv, TypeOK, PaneInSync, NeverLow, MenuAndTimers
<1>2. SessionsFit'
  BY DEF IInv, TypeOK, SessionsFit
<1>3. NumbersFit'
  BY DEF IInv, NumbersFit
<1> QED
  BY <1>1, <1>2, <1>3 DEF IInv

LEMMA NothingMoves ==
    ASSUME IInv, UNCHANGED session,
           sized' \in BOOLEAN, sized => sized', visible' \in BOOLEAN, visible' => sized',
           MenuAndTimers,
           enabled' \in [current : BOOLEAN, all : BOOLEAN, other : BOOLEAN],
           UNCHANGED <<tabs, windows, tabIndex, nextNumber, activeWindow, moves, crashed>>
    PROVE  IInv' /\ Keeps
<1>1. TypeOK' /\ PaneInSync' /\ NeverLow'
  BY DEF IInv, TypeOK, PaneInSync, NeverLow, MenuAndTimers
<1>2. SessionsFit' /\ NumbersFit'
  BY DEF IInv, SessionsFit, NumbersFit
<1> QED
  BY <1>1, <1>2 DEF IInv, Keeps

LEMMA Sizing ==
    ASSUME IInv, 1 \in windows, GetsSize(1), sized', visible' \in BOOLEAN, sized' \in BOOLEAN,
           MenuAndTimers,
           UNCHANGED <<tabs, windows, tabIndex, nextNumber, activeWindow, enabled, moves, crashed>>
    PROVE  IInv' /\ Keeps
<1>1. session[1] \in Lives /\ 1 \in Ids /\ session \in [Ids -> SessionState]
      /\ enabled \in [current : BOOLEAN, all : BOOLEAN, other : BOOLEAN]
  BY DEF IInv, TypeOK, SessionsFit
<1>2. CASE UNCHANGED session
  BY <1>1, <1>2, NothingMoves
<1>3. CASE session' = [session EXCEPT ![1] = Restarted(@)]
  <2> DEFINE state == Restarted(session[1])
  <2>1. session' = [session EXCEPT ![1] = state]
    BY <1>3
  <2> DEFINE good ==
        /\ state \in Lives \cap SessionState /\ state # "none" /\ session[1] # "none"
        /\ \/ state = session[1]
           \/ (session[1] = "failed" /\ state = "running")
           \/ (session[1] = "dead" /\ state = "revived")
  <2>2. good
    <3>a. CASE session[1] = "failed"
      <4>1. state = "running"
        BY <3>a DEF Restarted
      <4> QED
        BY <3>a, <4>1 DEF Lives, SessionState, Contract!States
    <3>b. CASE session[1] = "dead"
      <4>1. state = "revived"
        BY <3>b DEF Restarted
      <4> QED
        BY <3>b, <4>1 DEF Lives, SessionState, Contract!States
    <3>c. CASE session[1] \notin {"failed", "dead"}
      <4>1. state = session[1]
        BY <3>c DEF Restarted
      <4> QED
        BY <1>1, <4>1 DEF Lives
    <3> QED
      BY <3>a, <3>b, <3>c
  <2> HIDE DEF state
  <2>3. IInv'
    BY <1>1, <2>1, <2>2, SessionMoves
  <2>4. Keeps
    BY <1>1, <2>1, <2>2 DEF Keeps, Contract!Next, Contract!Restart
  <2> QED
    BY <2>3, <2>4
<1> QED
  BY <1>2, <1>3 DEF GetsSize

LEMMA Finishing ==
    ASSUME IInv, NEW id \in Ids, SessionFinished(id),
           session[id] \in {"running", "closing", "finishing"},
           UNCHANGED <<paneVars, sized, menu, moves, crashed>>
    PROVE  IInv' /\ Keeps
<1>1. /\ "ended" \in SessionState \cap Lives \cap Orphans /\ session[id] # "none"
      /\ session' = [session EXCEPT ![id] = "ended"]
      /\ visible \in BOOLEAN /\ sized \in BOOLEAN /\ (visible => sized)
      /\ session \in [Ids -> SessionState]
  BY DEF SessionFinished, SessionState, Contract!States, Lives, Orphans, IInv, TypeOK, NumbersFit
<1>2. MenuAndTimers
  <2>1. TimerIndex(id) \in Nat
    BY DEF TimerIndex, IInv, TypeOK
  <2>2. [id |-> id, idx |-> TimerIndex(id)] \in [id : Ids, idx : Nat]
    BY <2>1
  <2>3. closeTimers \in Seq([id : Ids, idx : Nat])
        /\ menu' \in {NoMenu} \cup (-1 .. MaxTerminals - 1)
    BY DEF IInv, TypeOK
  <2> QED
    BY <2>2, <2>3, AppendProperties DEF SessionFinished, MenuAndTimers
<1>3. IInv'
  BY <1>1, <1>2, SessionMoves DEF paneVars
<1>4. Keeps
  BY <1>1 DEF Keeps, Contract!Next, Contract!Exit, Contract!Finish
<1> QED
  BY <1>3, <1>4

LEMMA Starts == Init => IInv
<1> SUFFICES ASSUME Init PROVE IInv
  OBVIOUS
<1>1. TypeOK
  <2>1. tabs \in Seq(Ids) /\ closeTimers \in Seq([id : Ids, idx : Nat])
    BY DEF Init
  <2>2. nextNumber \in 1 .. MaxTerminals + 1 /\ moves \in 0 .. MaxMoves
    BY PaneAssumption DEF Init
  <2>3. session \in [Ids -> SessionState] /\ tabIndex \in [Ids -> Nat]
    BY DEF Init, SessionState, Contract!States
  <2>4. enabled \in [current : BOOLEAN, all : BOOLEAN, other : BOOLEAN]
    BY DEF Init
  <2>5. windows \subseteq Ids /\ activeWindow \in Ids \cup {NoTab} /\ visible \in BOOLEAN
        /\ sized \in BOOLEAN /\ crashed \in BOOLEAN /\ menu \in {NoMenu} \cup (-1 .. MaxTerminals - 1)
    BY DEF Init
  <2> QED
    BY <2>1, <2>2, <2>3, <2>4, <2>5 DEF TypeOK
<1>2. PaneInSync
  <2>1. tabs = <<>> /\ windows = {} /\ activeWindow = NoTab
    BY DEF Init
  <2>2. DOMAIN tabs = {}
    BY <2>1
  <2> QED
    BY <2>1, <2>2 DEF PaneInSync, Range, IsInjective
<1>3. SessionsFit /\ NumbersFit /\ NeverLow
  BY DEF Init, SessionsFit, NumbersFit, NeverLow, Ids, Orphans
<1> QED
  BY <1>1, <1>2, <1>3 DEF IInv

LEMMA Steps == IInv /\ [Next]_vars => IInv' /\ Keeps
<1> SUFFICES ASSUME IInv, [Next]_vars PROVE IInv' /\ Keeps
  OBVIOUS
<1>t. /\ tabs \in Seq(Ids) /\ Len(tabs) \in Nat /\ visible \in BOOLEAN /\ sized \in BOOLEAN
      /\ (visible => sized) /\ nextNumber \in Nat /\ windows = Range(tabs) /\ IsInjective(tabs)
      /\ session \in [Ids -> SessionState] /\ Len(tabs) <= MaxTerminals
      /\ menu \in {NoMenu} \cup (-1 .. MaxTerminals - 1)
      /\ closeTimers \in Seq([id : Ids, idx : Nat])
      /\ enabled \in [current : BOOLEAN, all : BOOLEAN, other : BOOLEAN]
  BY PaneAssumption DEF IInv, TypeOK, PaneInSync, NumbersFit
<1>m. UNCHANGED <<menu, closeTimers>> => MenuAndTimers
  BY <1>t DEF MenuAndTimers
<1>1. CASE OutputWidget
  BY <1>1, <1>t, Adding DEF OutputWidget
<1>2. CASE AddButtonClicked
  BY <1>2, <1>t, Adding DEF AddButtonClicked
<1>3. CASE VisibilityChanged
  <2>1. sized' /\ sized' \in BOOLEAN /\ visible' \in BOOLEAN /\ visible' = ~visible /\ MenuAndTimers
    BY <1>3, <1>t, <1>m DEF VisibilityChanged
  <2>2. CASE visible' /\ windows = {}
    BY <1>3, <2>1, <2>2, Adding DEF VisibilityChanged
  <2>3. CASE ~(visible' /\ windows = {}) /\ sized
    BY <1>3, <1>t, <2>1, <2>3, NothingMoves DEF VisibilityChanged
  <2>4. CASE ~(visible' /\ windows = {}) /\ ~sized
    <3>1. ~visible /\ windows # {} /\ nextNumber <= 2
      BY <1>t, <2>1, <2>4 DEF IInv, NumbersFit
    <3>2. windows \subseteq Ids /\ \A id \in windows : id < nextNumber
      BY DEF IInv, TypeOK, NumbersFit
    <3>3. windows = {1}
      BY <1>t, <3>1, <3>2 DEF Ids
    <3>4. tabs # <<>>
      <4>1. tabs = <<>> => DOMAIN tabs = {}
        OBVIOUS
      <4> QED
        BY <1>t, <3>3, <4>1 DEF Range
    <3>5. activeWindow = 1 /\ 1 \in windows
      BY <3>3, <3>4 DEF IInv, PaneInSync
    <3> QED
      BY <1>3, <2>1, <2>4, <3>5, Sizing DEF VisibilityChanged
  <2> QED
    BY <2>2, <2>3, <2>4
<1>4. ASSUME NEW id \in Ids, TabSelected(id) PROVE IInv' /\ Keeps
  <2>1. id \in windows /\ id # NoTab /\ tabs # <<>>
    BY <1>4, <1>t DEF TabSelected, Range, NoTab, Ids
  <2>2. TypeOK' /\ PaneInSync'
    BY <1>4, <2>1 DEF TabSelected, IInv, TypeOK, PaneInSync
  <2> QED
    BY <1>4, <2>2 DEF TabSelected, IInv, SessionsFit, NumbersFit, NeverLow, Keeps
<1>5. ASSUME NEW i \in 0 .. Len(tabs) - 1, NEW j \in 0 .. Len(tabs) - 1, TabMoved(i, j)
      PROVE  IInv' /\ Keeps
  <2> DEFINE without == RemoveAt(tabs, i + 1)
             x == tabs[i + 1]
             with == InsertAt(without, j + 1, x)
  <2>1. /\ without \in Seq(Ids) /\ Len(without) = Len(tabs) - 1 /\ IsInjective(without)
        /\ Range(without) = Range(tabs) \ {x}
    BY <1>t, Removed
  <2>2. x \in Ids /\ x \in Range(tabs)
    BY <1>t DEF Range
  <2>3. tabs' = with /\ moves' = moves + 1
    BY <1>5 DEF TabMoved
  <2> HIDE DEF without, x
  <2>4. /\ with \in Seq(Ids) /\ Len(with) = Len(without) + 1 /\ IsInjective(with)
        /\ Range(with) = Range(without) \cup {x}
    BY <1>t, <2>1, <2>2, Inserted
  <2> HIDE DEF with
  <2>5. Range(tabs') = Range(tabs) /\ IsInjective(tabs') /\ Len(tabs') = Len(tabs) /\ tabs' \in Seq(Ids)
    BY <1>t, <2>1, <2>2, <2>3, <2>4
  <2>6. tabs' # <<>> /\ tabs # <<>>
    BY <1>t, <2>5
  <2>7. TypeOK' /\ PaneInSync'
    <3>1. moves' \in 0 .. MaxMoves
      BY <1>5, PaneAssumption DEF TabMoved, IInv, TypeOK
    <3>2. UNCHANGED <<windows, tabIndex, nextNumber, activeWindow, enabled, visible, menu,
                      closeTimers, session, sized, crashed>>
      BY <1>5 DEF TabMoved
    <3>3. TypeOK'
      BY <2>5, <3>1, <3>2 DEF IInv, TypeOK
    <3>4. PaneInSync'
      BY <2>5, <2>6, <3>2 DEF IInv, PaneInSync
    <3> QED
      BY <3>3, <3>4
  <2>8. SessionsFit' /\ NumbersFit' /\ Keeps
    BY <1>5, <2>5 DEF TabMoved, IInv, SessionsFit, NumbersFit, Keeps
  <2>9. NeverLow'
    BY <2>3 DEF NeverLow, IInv, TypeOK
  <2> QED
    BY <2>7, <2>8, <2>9 DEF IInv
<1>6. ASSUME NEW i \in 0 .. Len(tabs) - 1, TabCloseRequested(i) PROVE IInv' /\ Keeps
  BY <1>6, <1>m, ClosingOne DEF TabCloseRequested
<1>7. ASSUME NEW i \in -1 .. Len(tabs) - 1, ShowContextMenu(i) PROVE IInv' /\ Keeps
  <2> DEFINE on == i >= 0
  <2>1. on \in BOOLEAN /\ enabled' = [enabled EXCEPT !.current = on, !.other = on]
    BY <1>7 DEF ShowContextMenu
  <2> HIDE DEF on
  <2>2. enabled' \in [current : BOOLEAN, all : BOOLEAN, other : BOOLEAN]
    BY <1>t, <2>1
  <2>3. MenuAndTimers
    BY <1>7, <1>t, PaneAssumption DEF ShowContextMenu, MenuAndTimers
  <2> QED
    BY <1>7, <1>t, <2>2, <2>3, NothingMoves DEF ShowContextMenu
<1>8. CASE MenuReturns
  <2>1. menu \in Int /\ MenuAndTimers
    BY <1>8, <1>t, PaneAssumption DEF MenuReturns, MenuAndTimers
  <2>2. CASE CloseTab(menu)
    BY <1>8, <2>1, <2>2, ClosingOne DEF MenuReturns
  <2>3. CASE CloseAllTabs(-1)
    BY <1>8, <2>1, <2>3, ClosingAll DEF MenuReturns
  <2>4. CASE CloseAllTabs(menu)
    BY <1>8, <2>1, <2>4, ClosingAll DEF MenuReturns
  <2>5. CASE UNCHANGED <<paneVars, session, crashed>>
    BY <1>8, <1>t, <2>1, <2>5, NothingMoves DEF MenuReturns, paneVars
  <2> QED
    BY <1>8, <2>2, <2>3, <2>4, <2>5 DEF MenuReturns
<1>9. ASSUME NEW id \in Ids, ShellExits(id) PROVE IInv' /\ Keeps
  <2>1. CASE session[id] \in {"running", "closing"} /\ SessionFinished(id)
    BY <1>9, <2>1, Finishing DEF ShellExits
  <2>2. CASE /\ session[id] \in {"running", "revived"}
             /\ session' = [session EXCEPT ![id] = "dead"] /\ UNCHANGED closeTimers
    <3>1. id \in windows
      BY <2>2 DEF IInv, SessionsFit, Orphans
    <3>2. "dead" \in SessionState \cap Lives /\ session[id] # "none" /\ MenuAndTimers
          /\ UNCHANGED <<paneVars, sized, moves, crashed>>
      BY <1>9, <1>m, <2>2 DEF ShellExits, SessionState, Contract!States, Lives
    <3>3. IInv'
      BY <1>t, <2>2, <3>1, <3>2, SessionMoves DEF paneVars
    <3>4. Keeps
      BY <1>t, <2>2 DEF Keeps, Contract!Next, Contract!Exit
    <3> QED
      BY <3>3, <3>4
  <2> QED
    BY <1>9, <2>1, <2>2 DEF ShellExits
<1>10. ASSUME NEW id \in Ids, FinishTimer(id) PROVE IInv' /\ Keeps
  BY <1>10, Finishing DEF FinishTimer
<1>11. CASE OutputSetsSize
  BY <1>11, <1>t, <1>m, Sizing DEF OutputSetsSize, paneVars
<1>12. CASE CloseTimer
  <2>1. Head(closeTimers).idx \in Int /\ MenuAndTimers
    <3>1. Head(closeTimers) \in [id : Ids, idx : Nat] /\ Tail(closeTimers) \in Seq([id : Ids, idx : Nat])
      BY <1>12, <1>t, HeadTailProperties DEF CloseTimer
    <3> QED
      BY <1>12, <1>t, <3>1 DEF CloseTimer, MenuAndTimers
  <2> QED
    BY <1>12, <2>1, ClosingOne DEF CloseTimer
<1>13. CASE UNCHANGED vars
  BY <1>13, <1>t, <1>m, NothingMoves DEF vars, paneVars
<1> QED
  BY <1>1, <1>2, <1>3, <1>4, <1>5, <1>6, <1>7, <1>8, <1>9, <1>10, <1>11, <1>12, <1>13
     DEF Next, User

-----------------------------------------------------------------------------
LEMMA AlwaysFits == Spec => []IInv
BY Starts, Steps, PTL DEF Spec

(* The variables of the pane keep their types, for any number of terminals *)
(* and drags.                                                              *)
THEOREM PaneTypes == Spec => []TypeOK
<1>1. IInv => TypeOK
  BY DEF IInv
<1> QED
  BY <1>1, AlwaysFits, PTL

(* The table of windows, the tab bar and the active window agree after     *)
(* every turn of the event loop, whichever tab CloseTab takes.             *)
THEOREM PaneAgrees == Spec => []PaneInSync
<1>1. IInv => PaneInSync
  BY DEF IInv
<1> QED
  BY <1>1, AlwaysFits, PTL

(* A session whose tab is gone is on its way out, except one that was the  *)
(* first and was run twice (Session::close, Session::run).                 *)
THEOREM OrphansLeave == Spec => []NoLeakedSession
<1>1. IInv => NoLeakedSession
  <2> SUFFICES ASSUME IInv, NEW id \in sessions \ windows
               PROVE  session[id] \in {"closing", "finishing"}
                      \/ (session[id] = "leaked" /\ id = 1 /\ sized)
    BY DEF NoLeakedSession
  <2>1. id \in Ids \ windows /\ session[id] \notin {"none", "ended"}
    BY DEF sessions
  <2> QED
    BY <2>1 DEF IInv, SessionsFit, Orphans
<1> QED
  BY <1>1, AlwaysFits, PTL

(* As long as no tab is dragged the index the close timer uses is never    *)
(* left of the tab of its own terminal (TerminalOutputPane::SessionEnded). *)
THEOREM TimerNeverLow == Spec => []NoDragIndexNeverLow
<1>1. IInv => NoDragIndexNeverLow
  <2> SUFFICES ASSUME IInv, moves = 0, NEW id \in windows PROVE tabIndex[id] >= Position(id)
    BY DEF NoDragIndexNeverLow
  <2>1. Position(id) + 1 \in 1 .. Len(tabs) /\ tabs[Position(id) + 1] = id
    BY Placed DEF IInv, TypeOK, PaneInSync
  <2> DEFINE p == Position(id) + 1
  <2>2. tabIndex[tabs[p]] >= p - 1
    BY <2>1 DEF IInv, NeverLow
  <2>3. p - 1 = Position(id) /\ p \in Int
    BY <2>1 DEF Position
  <2> QED
    BY <2>1, <2>2, <2>3
<1> QED
  BY <1>1, AlwaysFits, PTL

(* No step of the pane does to a session what the session's contract does  *)
(* not allow.                                                              *)
THEOREM ContractsKept == Spec => SessionsKeepContract
<1>1. IInv /\ [Next]_vars => [Keeps]_vars
  BY Steps
<1> QED
  BY <1>1, AlwaysFits, PTL DEF Spec, SessionsKeepContract, Keeps
=============================================================================
