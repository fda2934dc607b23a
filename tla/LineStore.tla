----------------------------- MODULE LineStore ------------------------------
(***************************************************************************)
(* What a scrollback promises: a line leaves the page only by being stored *)
(* last, as it was; the store holds the last lines that fit, in order, and *)
(* is shortened only from its front.  A store that outgrew its disk is     *)
(* broken and promises nothing until it is replaced, but for the page.     *)
(***************************************************************************)
EXTENDS Integers, Sequences

VARIABLES page,     \* the lines of the page, the first of which leaves it next
          stored,   \* the lines in the store
          room,     \* how many lines it takes, -1 for any number
          broken

vars == <<page, stored, room, broken>>

Unlimited == -1
LastOf(s, n) == IF n = Unlimited \/ n >= Len(s) THEN s ELSE SubSeq(s, Len(s) - n + 1, Len(s))
IsTail(s, t) == \E n \in 0 .. Len(t) : s = LastOf(t, n)

Init == stored = <<>> /\ room = 0 /\ broken = FALSE

SamePlaces == DOMAIN page' = DOMAIN page

(* One line of the page is written on; so nothing can leave unnoticed *)
Edited ==
    /\ SamePlaces
    /\ \E y \in DOMAIN page : \A z \in DOMAIN page \ {y} : page'[z] = page[z]

(* The page moves up by a line.  The one that was last may be marked as    *)
(* one that goes on below it.                                              *)
MovedUp ==
    /\ SamePlaces
    /\ \A y \in DOMAIN page : y + 1 \in DOMAIN page =>
          /\ page'[y].cells = page[y + 1].cells
          /\ \/ page'[y].wrapped = page[y + 1].wrapped
             \/ y + 2 \notin DOMAIN page /\ page'[y].wrapped

(* Something is written on the page, or the store is read *)
Write == Edited /\ UNCHANGED <<stored, room, broken>>

Stores(line) == stored' = LastOf(Append(stored, line), room) /\ UNCHANGED <<room, broken>>
Record == MovedUp /\ Stores(page[1])

(* Another size or kind of store; an unlimited one takes all there is *)
Resize ==
    /\ IsTail(stored', stored)
    /\ room' = Unlimited => stored' = stored
    /\ ~broken' /\ page' = page

Clear == stored' = <<>> /\ ~broken' /\ page' = page

(* The disk is full, and the page goes on *)
Break == room = Unlimited /\ broken' /\ MovedUp /\ room' = room
Broken == broken /\ broken' /\ (Edited \/ MovedUp)

Next == Write \/ Record \/ Resize \/ Clear \/ Break \/ Broken

Spec == Init /\ [][Next]_vars
=============================================================================
