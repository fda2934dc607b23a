--------------------------- MODULE AlternateScreen ---------------------------
(***************************************************************************)
(* The modes, with where the cursor of the first screen was when the       *)
(* sequence ESC [ ? 1049 h left that screen for the other one.             *)
(***************************************************************************)
EXTENDS Vt102Modes

VARIABLE left     \* for the property: that place, while it must come back

alternateVars == <<modeVars, left>>
NoPlace == [x |-> -1, y |-> -1]

(* Only 1049 promises to come back; any other way in promises nothing.     *)
NotesPlace ==
  left' = IF current = 0 /\ current' = 1
            THEN IF EnterAlternate THEN screen[0].cursor ELSE NoPlace
          ELSE IF current' = 0 THEN NoPlace ELSE left

AlternateInit == Init /\ left = NoPlace
AlternateNext == Next /\ NotesPlace
AlternateSpec == AlternateInit /\ [][AlternateNext]_alternateVars

(* ESC [ ? 1049 l brings the cursor of the first screen back to where it   *)
(* was when ESC [ ? 1049 h left that screen, whatever was saved, restored, *)
(* moved, homed by margins or given another size in between: to that very  *)
(* place if the screen still has it and it is not past the last column,    *)
(* and otherwise to the nearest one there is now.                          *)
ReturnsToCursor ==
  [][left # NoPlace /\ LeaveAlternate => screen'[0].cursor = Nearest(left, size)]_alternateVars
=============================================================================
