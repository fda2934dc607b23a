------------------------------ MODULE MCDisplay ------------------------------
EXTENDS MouseSelection, Blinking
VARIABLES family, presses, others

MCvars == <<mouseVars, blinkVars, family, presses, others>>

(* The texts for the searches: rows of letters and blanks with at most one *)
(* cell, below the first row, that has a rule.                             *)
Plain == [1 .. Columns -> {"a", " "}]
Wraps == {w \in [1 .. 3 -> BOOLEAN] : ~w[3]}
Rows(cells, wrapped) == [i \in 1 .. 3 |-> [cells |-> cells[i], wrapped |-> wrapped[i]]]
WordTexts ==
  {Rows(c, w) : c \in [1 .. 3 -> Plain], w \in Wraps}
  \cup {Rows([c EXCEPT ![i][x] = r], w) :
          c \in [1 .. 3 -> Plain], w \in Wraps, i \in 2 .. 3, x \in 1 .. Columns, r \in {":", "@"}}

(* The text for gestures: its second and third row are on the screen, and  *)
(* its first two are one line.                                             *)
GestureText ==
  Rows(<< <<"a", " ", "a">>, <<"a", " ", "a">>, <<"a", "a", " ">> >>, <<TRUE, FALSE, FALSE>>)

(* Drags with any modifiers, and clicks, are explored apart; the bounds    *)
(* are on presses and on what happens apart from the mouse.                *)
Families == {"drag", "click"}
MaxPresses == [drag |-> 2, click |-> 3]
MaxOthers == [drag |-> 2, click |-> 1]
Halves == [drag |-> {0, 1, 3, 5}, click |-> {0, 1, 5}]
Modifiers == [drag |-> SUBSET {"shift", "column"}, click |-> {{}}]

MCInit == /\ presses = 0 /\ others = 0 /\ BlinkInit
          /\ \/ family \in {"texts", "blink"} /\ MouseInit({GestureText}) /\ forward
             \/ family \in Families /\ MouseInit({GestureText}) /\ (family = "drag" => forward)
Press == /\ presses < MaxPresses[family] /\ presses' = presses + 1
         /\ \E edge \in {" ", "a"}, p \in Pointers :
              /\ p.half \in Halves[family]
              /\ \/ \E m \in Modifiers[family] : MousePress(p, m, edge)
                 \/ (family = "click" /\ \E shift \in {FALSE, tracking} : MouseDoubleClick(p, shift, edge))
         /\ UNCHANGED <<others, family>>
Move == /\ \/ \E p \in Drags : p.half \in Halves[family] /\ MouseMove(p, tracking, " ")
           \/ MouseRelease \/ TripleTimeout
        /\ UNCHANGED <<presses, others, family>>
Other == /\ others < MaxOthers[family] /\ others' = others + 1
         /\ \/ \E n \in {-1, 1} : Wheel(n)
            \/ KeyPress \/ OutputLine \/ SetUsesMouseTracking
         /\ UNCHANGED <<presses, family>>
Text == /\ family = "texts" /\ family' = "words"
        /\ text' \in WordTexts /\ top' \in 0 .. Hist' /\ flags' = FlagsFrom(text', top')
        /\ UNCHANGED <<sel, iPntSel, pntSel, tripleSelBegin, actSel, mode, triple,
                       shots, tracking, forward, held, clicked, pointer, origin, lost,
                       presses, others, blinkVars>>
MCNext == Text \/ (family \in Families /\ (Press \/ Move \/ Other) /\ UNCHANGED blinkVars)
          \/ (family = "blink" /\ BlinkNext /\ UNCHANGED <<mouseVars, family, presses, others>>)
MCSpec == MCInit /\ [][MCNext]_MCvars
=============================================================================
