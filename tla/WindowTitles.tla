----------------------------- MODULE WindowTitles -----------------------------
(***************************************************************************)
(* The titles a program gives its session with ESC ] <attribute>;<value>.  *)
(* Vt102Emulation keeps the values in a hash for 20 ms, a time that every  *)
(* new value starts again, and then sends all of them to                   *)
(* Session::setSessionAttribute, in whatever order the hash has.           *)
(***************************************************************************)
EXTENDS Integers

CONSTANTS Values,     \* what a program may call its session
          NoValue,    \* the title of a session nobody has named
          Delay       \* ticks of the clock in the 20 ms

ASSUME TitlesAssumption == NoValue \notin Values /\ Delay \in Nat

(* Session::SessionAttributes, the ones that meet in a title.              *)
SetsWindow == {"IconNameAndWindowTitle", "WindowTitle"}
SetsIcon   == {"IconNameAndWindowTitle", "IconName"}
Attributes == SetsWindow \cup SetsIcon

VARIABLES pending,     \* _pendingSessionAttributesUpdates
          timer,       \* ticks left of _sessionAttributesUpdateTimer, or Off
          userTitle, iconText,  \* of the Session
          asked,       \* the value the program gave each attribute last
          delivered    \* the value of each attribute the session was told last

titleVars == <<pending, timer, userTitle, iconText, asked, delivered>>

Off == -1

TitlesInit ==
  /\ pending = <<>> /\ timer = Off
  /\ userTitle = NoValue /\ iconText = NoValue
  /\ asked = [a \in Attributes |-> NoValue] /\ delivered = asked

(* As if a value were kept and the timer not started.                      *)
RequestUntimed(a, v) ==
  /\ pending' = [b \in DOMAIN pending \cup {a} |-> IF b = a THEN v ELSE pending[b]]
  /\ timer' = timer
  /\ asked' = [asked EXCEPT ![a] = v]
  /\ UNCHANGED <<userTitle, iconText, delivered>>

(* processSessionAttributeRequest for a well-formed sequence: the value    *)
(* replaces one that still waits, and the time starts again.               *)
RequestAttribute(a, v) ==
  /\ pending' = [b \in DOMAIN pending \cup {a} |-> IF b = a THEN v ELSE pending[b]]
  /\ timer' = Delay
  /\ asked' = [asked EXCEPT ![a] = v]
  /\ UNCHANGED <<userTitle, iconText, delivered>>

Tick == /\ timer > 0
        /\ timer' = timer - 1
        /\ UNCHANGED <<pending, userTitle, iconText, asked, delivered>>

(* What setSessionAttribute leaves in a title when the pairs of the hash   *)
(* that set it come in any order: the value of the one that comes last.    *)
AfterAny(attributes, old) ==
  LET given == DOMAIN pending \cap attributes
  IN  IF given = {} THEN {old} ELSE {pending[a] : a \in given}

(* As if the icon's attribute named the window.                            *)
UpdateSwapped ==
  /\ timer = 0
  /\ timer' = Off
  /\ userTitle' \in AfterAny(SetsIcon, userTitle)
  /\ iconText' \in AfterAny(SetsWindow, iconText)
  /\ delivered' = [a \in Attributes |-> IF a \in DOMAIN pending THEN pending[a] ELSE delivered[a]]
  /\ pending' = <<>>
  /\ UNCHANGED <<asked>>

UpdateSessionAttributes ==
  /\ timer = 0
  /\ timer' = Off
  /\ userTitle' \in AfterAny(SetsWindow, userTitle)
  /\ iconText' \in AfterAny(SetsIcon, iconText)
  /\ delivered' = [a \in Attributes |-> IF a \in DOMAIN pending THEN pending[a] ELSE delivered[a]]
  /\ pending' = <<>>
  /\ UNCHANGED <<asked>>

Naming == \E a \in Attributes, v \in Values : RequestAttribute(a, v)
TitlesNext == \/ Naming
              \/ Tick \/ UpdateSessionAttributes

(* The clock runs, and the event loop delivers a timeout.                  *)
TitlesSpec == TitlesInit /\ [][TitlesNext]_titleVars
              /\ WF_titleVars(Tick) /\ WF_titleVars(UpdateSessionAttributes)

-----------------------------------------------------------------------------
TitlesTypeOK ==
  /\ DOMAIN pending \subseteq Attributes /\ pending \in [DOMAIN pending -> Values]
  /\ timer \in {Off} \cup 0 .. Delay
  /\ {userTitle, iconText} \subseteq Values \cup {NoValue}
  /\ asked \in [Attributes -> Values \cup {NoValue}]
  /\ delivered \in [Attributes -> Values \cup {NoValue}]

(* What the program asked for last is either on its way, with the timer    *)
(* running, or was the last thing the session was told.                    *)
NothingForgotten ==
  /\ DOMAIN pending # {} <=> timer # Off
  /\ \A a \in Attributes :
       IF a \in DOMAIN pending THEN pending[a] = asked[a] ELSE delivered[a] = asked[a]

(* A program that names its window in one way only has that name shown: no *)
(* earlier name and none meant for the icon gets there; and so for the     *)
(* icon.                                                                   *)
OnlyWay(a, attributes) == \A b \in attributes \ {a} : asked[b] = NoValue
OwnTitle ==
  /\ \A a \in SetsWindow : OnlyWay(a, SetsWindow) => userTitle = delivered[a]
  /\ \A a \in SetsIcon : OnlyWay(a, SetsIcon) => iconText = delivered[a]

TitlesInv == TitlesTypeOK /\ NothingForgotten /\ OwnTitle

(* Once a program stops naming things the session learns all of it.  While *)
(* it goes on, 20 ms may never pass.                                       *)
TitlesSettle == <>[][~Naming]_titleVars => <>[](delivered = asked)

=============================================================================
