---------------------------- MODULE MCScrollback ----------------------------
(* A bounded instance of Scrollback for TLC: two rows of two columns.  The *)
(* letters and marks are code points whose hashes collide: "a" with 800    *)
(* and "b" with 769 both hash to 3807.                                     *)
EXTENDS Scrollback

CONSTANTS MaxLines    \* lines in the history

Threshold == -1
Least == -2
Trash == [code |-> 97, ext |-> FALSE, real |-> FALSE, format |-> Default]

CellsIn(lines) == FoldLeft(LAMBDA n, l : n + Len(l.cells), 0, lines)
Used(lines) == UNION {{l[i].code : i \in DOMAIN l} : l \in {lines[y].cells : y \in DOMAIN lines}}

(* Only as much of everything at once as a question needs: collisions are  *)
(* between two cells of one format, on the screen and in a compact         *)
(* history; formats are told apart on lines of one letter; and neither in *)
(* a history that has another size than it was created with; a file, whose *)
(* three parts may be mapped or have lost a write, has lines of one letter *)
(* that is never overwritten.                                              *)
MarkedSequences == {<<97, 800>>, <<98, 769>>, <<97, 800, 769>>, <<97, 800, 769, 800>>}
Red(lines) == \E y \in DOMAIN lines : \E i \in DOMAIN lines[y].cells : lines[y].cells[i].format # Default
Bounded ==
    LET all == rows' \o Lines'
        red == Red(all)
        marked == DOMAIN table' # {} IN
    /\ Len(Lines') <= MaxLines
    /\ CellsIn(all) <= 2
    /\ ~marked => 98 \notin Used(all)
    /\ red => ~marked
    /\ kind' = Compact /\ type' # history'.max => ~marked /\ ~red
    /\ marked => Space \notin Used(all)
    /\ \A h \in DOMAIN table' : table'[h] \in MarkedSequences
    /\ kind' = File => \A f \in Files : Len(history'[f].data) <= MaxLines
    /\ kind' = File => ~marked /\ ~red /\ Used(all) \subseteq {97} /\ x' = Len(rows'[Height].cells)

MCSpec == Init /\ [][Next /\ Bounded]_vars
=============================================================================
