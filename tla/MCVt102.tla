------------------------------- MODULE MCVt102 -------------------------------
EXTENDS AlternateScreen, WindowTitles, FiniteSets
VARIABLE family

MCvars == <<alternateVars, titleVars, family>>

(* The parts of the state that do not meet are explored apart: a family    *)
(* says which modes, screens, cursors, sets and displays may change.       *)
MCSizes == {[columns |-> 2, lines |-> 3], [columns |-> 1, lines |-> 2]}
Families == {"screens", "mouse", "cursor", "charset", "locals"}
Used(f) == CASE f = "screens" -> {"Ansi", "AppScreen", "NewLine", "Cursor", "Allow132", "Columns132"}
             [] f = "mouse"   -> {"Ansi", "Mouse1000", "Mouse1002", "BracketedPaste", "AppKeyPad"}
             [] f = "locals"  -> {"Ansi"}
             [] OTHER         -> {"Ansi", "AppScreen"}
UsedLocals(f) == IF f = "locals" THEN LocalModes ELSE {"Wrap"}
Bounded(f) ==
  /\ modes \subseteq Used(f)
  /\ savedModes \subseteq IF f \in {"screens", "mouse"} THEN Used(f) ELSE {}
  /\ Cardinality(DOMAIN display) <= (CASE f = "mouse" -> 2 [] f = "screens" -> 1 [] OTHER -> 0)
  /\ f \notin {"cursor", "screens"} => size.columns = 2
  /\ reportFocus => f = "locals"
  /\ \A s \in Screens :
       /\ screen[s].modes \cap LocalModes \subseteq UsedLocals(f)
       /\ f # "locals" => "Wrap" \in screen[s].modes
       /\ f # "cursor" => screen[s].cursor = Home
       /\ IF f = "charset" THEN /\ charset[s].cu \in {0, 1}
                               /\ charset[s].set[0] # "A" /\ charset[s].set[1] # "0"
                               /\ charset[s].set[2] = "B" /\ charset[s].set[3] = "B"
                          ELSE charset[s] = FreshCharset

MCInit == AlternateInit /\ TitlesInit /\ family \in Families \cup {"titles"}
ModesStep == /\ family # "titles"
             /\ UNCHANGED <<family, titleVars>>
             /\ AlternateNext
             /\ Bounded(family)'
TitlesStep == family = "titles" /\ TitlesNext /\ UNCHANGED <<alternateVars, family>>
MCNext == ModesStep \/ TitlesStep
MCSpec == /\ MCInit /\ [][MCNext]_MCvars
          /\ WF_titleVars(Tick) /\ WF_titleVars(UpdateSessionAttributes)
=============================================================================
