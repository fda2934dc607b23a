---------------------------- MODULE ControlChars ----------------------------
(***************************************************************************)
(* The characters Vt102Emulation's scanner tells apart and their classes   *)
(* (initTokenizer).  A character is named by itself, or by its role:       *)
(* "ESC", "CAN" (which stands for SUB too), "BEL" and "LF" (any other      *)
(* control), "DEL", "SP", "CSI8" for 128 + ESC.  A character past 255 has  *)
(* no class; it is named by its low eight bits, if they are those of "<"   *)
(* or "l", and "WIDE" otherwise.                                           *)
(***************************************************************************)
EXTENDS Integers, Sequences

CTL == {"ESC", "CAN", "BEL", "LF"}
CPN == {"@", "A", "B", "C", "D", "G", "H", "I", "L", "M", "P", "S", "T", "X",
        "Z", "b", "c", "d", "f", "r", "y"}
CPS == {"t"}
DigitValue == [d \in {"0", "1", "2", "3", "4", "5", "6", "7", "8", "9"} |->
                 CASE d = "0" -> 0 [] d = "1" -> 1 [] d = "2" -> 2 [] d = "3" -> 3
                   [] d = "4" -> 4 [] d = "5" -> 5 [] d = "6" -> 6 [] d = "7" -> 7
                   [] d = "8" -> 8 [] d = "9" -> 9]
DIG == DOMAIN DigitValue
(* The number that digits are read as.                                     *)
Number(digits) ==
  LET upTo[i \in 0 .. Len(digits)] ==
        IF i = 0 THEN 0 ELSE 10 * upTo[i - 1] + DigitValue[digits[i]]
  IN  upTo[Len(digits)]
SCS == {"(", ")", "+", "*", "%"}
GRP == SCS \cup {"#", "[", "]"}

(* The controls that abandon the sequence being scanned.                   *)
Cancels == {"CAN", "ESC"}

Wide == {"WIDE<", "WIDEl", "WIDE"}
LowByte(c) == CASE c = "WIDE<" -> "<" [] c = "WIDEl" -> "l" [] OTHER -> c

(* A call of processToken: what the sequence is, its last character and    *)
(* its arguments.  Text is handed over as it is, and so is the name of a   *)
(* character set; a command is known by its low eight bits alone           *)
(* (token_construct).                                                      *)
Texts == {"chr", "cs", "attribute", "request"}
Token(kind, code, arguments) ==
  <<kind, IF kind \in Texts THEN code ELSE LowByte(code), arguments>>

(* What a token does to MODE_Ansi, the one mode that the scanner reads.    *)
SwitchesTo(token, ansi) ==
  CASE token[1] = "pr" /\ token[2] = "l" /\ token[3] = <<2>> -> FALSE
    [] token[1] = "esc" /\ token[2] \in {"<", "c"} -> TRUE
    [] token[1] = "vt52" /\ token[2] = "<" -> TRUE
    [] OTHER -> ansi
AnsiAfter(tokens, ansi) ==
  LET after[i \in 0 .. Len(tokens)] ==
        IF i = 0 THEN ansi ELSE SwitchesTo(tokens[i], after[i - 1])
  IN  after[Len(tokens)]
=============================================================================
