------------------------------- MODULE Paper --------------------------------
(***************************************************************************)
(* What a terminal with an unlimited history promises of its output: a     *)
(* strip of paper that only its last Height lines, the ones in the window, *)
(* can still be written on.  A step edits the window, or feeds one line:   *)
(* the top line of the window is then out of reach, exactly as it was.     *)
(***************************************************************************)
EXTENDS Integers, Sequences

CONSTANTS Height,   \* the lines of the window
          Lines     \* what a line may hold

VARIABLE paper

Init == paper \in Seq(Lines) /\ Len(paper) = Height

(* The lines above the window *)
Settled(p) == SubSeq(p, 1, Len(p) - Height)

Edit ==
    /\ Len(paper') = Len(paper)
    /\ Settled(paper') = Settled(paper)

Feed ==
    /\ Len(paper') = Len(paper) + 1
    /\ Settled(paper') = Append(Settled(paper), paper[Len(paper) - Height + 1])

Spec == Init /\ [][Edit \/ Feed]_paper
=============================================================================
