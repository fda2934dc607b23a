---------------------------- MODULE ControlParser ----------------------------
(***************************************************************************)
(* The parser that Vt102Emulation's scanner stands for, with its state     *)
(* spelled out.  The comment above the scanner says "Instead of keeping an *)
(* explicit state, we deduce it from the token scanned so far"; this is    *)
(* that state.  It keeps the parameters read so far, the text of a session *)
(* attribute, and the one or two characters a short sequence began with,   *)
(* and nothing of earlier sequences.                                       *)
(***************************************************************************)
EXTENDS ControlChars, SequencesExt

CONSTANTS Char,             \* the characters received
          TextLength,       \* how much text of a session attribute is kept
          MaxParams,        \* how many parameters are kept
          MaxArgument,      \* a parameter that reached this takes no digit
          ExtendedColours,  \* the parameters of `m' that take a colour
          Leftover,         \* what a parameter may be when it was not given
          Stale             \* what a command may be when it was not given

VARIABLES state, fourth, params, text, marks, ansi, out

parserVars == <<state, fourth, params, text, marks, ansi, out>>
unread == <<state, fourth, params, text, marks>>

PInit == /\ state = "ground" /\ fourth = "fresh" /\ params = <<0>> /\ text = <<>>
         /\ marks = <<>> /\ ansi = TRUE /\ out = <<>>

Parameter(i) == IF i <= Len(params) THEN params[i] ELSE 0

Enter(s) == /\ state' = s /\ fourth' = "fresh" /\ params' = <<0>>
            /\ text' = <<>> /\ marks' = <<>>
Say(tokens) == out' = tokens /\ ansi' = AnsiAfter(tokens, ansi)
Finish(tokens) == Say(tokens) /\ Enter("ground")
Go(s) == Say(<<>>) /\ Enter(s)
Mark(s, c) == /\ state' = s /\ marks' = Append(marks, c) /\ Say(<<>>)
              /\ UNCHANGED <<fourth, params, text>>

(* 38;2;r;g;b and 38;5;n are one parameter of `m', and so for 48.          *)
Rendition(c) ==
  LET colour(i, n, space) == /\ c = "m" /\ i + n <= Len(params)
                             /\ params[i] \in ExtendedColours /\ params[i + 1] = space
      from[i \in 1 .. Len(params) + 1] ==
        IF i > Len(params) THEN <<>>
        ELSE IF colour(i, 4, 2)
          THEN <<Token("rgb", c, <<params[i]>> \o SubSeq(params, i + 2, i + 4))>> \o from[i + 5]
        ELSE IF colour(i, 2, 5)
          THEN <<Token("indexed", c, <<params[i], params[i + 2]>>)>> \o from[i + 3]
        ELSE <<Token("ps", c, <<params[i]>>)>> \o from[i + 1]
  IN  from[1]

(* The number before the first `;' of the text, and what follows it.       *)
Attribute ==
  LET end       == SelectInSeq(text, LAMBDA c : c \notin DIG)
      number    == Number(SubSeq(text, 1, end - 1))
      kept      == IF Len(text) < TextLength THEN Len(text) ELSE TextLength
      value     == SubSeq(text, end + 1, kept)
  IN  IF end = 0 \/ text[end] # ";" THEN <<>>
      ELSE <<Token(IF value = <<"?">> THEN "request" ELSE "attribute", value, <<number>>)>>

(* Controls act at once, inside a sequence too; some of them abandon it.   *)
Control(c) ==
  /\ c \in CTL
  /\ state # "osc"
  /\ CASE c = "ESC" -> Go("escape")
       [] c = "CAN" -> Finish(<<Token("ctl", c, <<>>)>>)
       [] OTHER -> Say(<<Token("ctl", c, <<>>)>>) /\ UNCHANGED unread

(* The text of a session attribute takes no control, and ends at BEL or    *)
(* ESC.                                                                    *)
Osc(c) ==
  /\ state = "osc"
  /\ CASE c \in {"BEL", "ESC"} -> Finish(Attribute)
       [] c \in {"CAN", "LF", "DEL"} -> Say(<<>>) /\ UNCHANGED unread
       [] OTHER -> /\ text' = IF Len(text) <= TextLength THEN Append(text, c) ELSE text
                   /\ Say(<<>>) /\ UNCHANGED <<state, fourth, params, marks>>

(* A character outside every sequence, and the one that chooses which      *)
(* sequence ESC began.                                                     *)
First(c) ==
  /\ state = "ground" /\ ansi
  /\ IF c = "CSI8" THEN Go("csi") ELSE Finish(<<Token("chr", c, <<>>)>>)

Second(c) ==
  /\ state = "escape" /\ ansi
  /\ CASE c = "[" -> Go("csi")
       [] c = "]" -> Go("osc")
       [] c = "P" -> Go("dcs")
       [] c = "#" \/ c \in SCS -> Mark("designate", c)
       [] OTHER -> Finish(<<Token("esc", c, <<>>)>>)

(* Device control strings are eaten.                                       *)
Dcs(c) == state = "dcs" /\ Say(<<>>) /\ UNCHANGED unread

(* The third character may choose a private list of parameters.            *)
Third(c) ==
  /\ state \in {"csi", "designate"}
  /\ CASE c = "?"  -> Go("private")
       [] c = ">"  -> Go("second")
       [] c = "!"  -> Go("bang")
       [] c = "SP" -> Go("space")
       [] OTHER -> /\ state = "designate"
                   /\ Finish(<<IF marks = <<"#">> THEN Token("de", c, <<>>)
                               ELSE Token("cs", c, marks)>>)

(* The parameters of a control sequence and the character that ends it.    *)
(* The kind of list decides before the character does.                     *)
Body(c) ==
  /\ state \in {"csi", "list", "private", "second", "bang", "space"}
  /\ state = "csi" => c \notin {"?", ">", "!", "SP"}
  /\ LET open == state \in {"csi", "list", "space"}
         more == /\ state' = (IF state = "csi" THEN "list" ELSE state)
                 /\ fourth' = (IF fourth = "space" THEN fourth
                               ELSE IF state = "csi" THEN "fresh" ELSE "other")
                 /\ Say(<<>>) /\ UNCHANGED <<text, marks>>
         each(kind) == [i \in 1 .. Len(params) |-> Token(kind, c, <<params[i]>>)]
         last == Len(params)
     IN  IF fourth = "fresh" /\ state # "csi" /\ c = "SP"
           THEN fourth' = "space" /\ Say(<<>>) /\ UNCHANGED <<state, params, text, marks>>
         ELSE IF open /\ c \in CPN
           THEN Finish(<<Token("pn", c, <<Parameter(1), Parameter(2)>>)>>)
         ELSE IF open /\ c \in CPS
           THEN \E third \in (IF Len(params) >= 3 THEN {params[3]} ELSE Leftover) :
                  Finish(<<Token("resize", c, <<Parameter(1), Parameter(2), third>>)>>)
         ELSE IF state = "bang"  THEN Finish(<<Token("pe", c, <<>>)>>)
         ELSE IF state = "space" THEN Finish(<<Token("sp", c, <<>>)>>)
         ELSE IF fourth = "space" THEN Finish(<<Token("psp", c, <<Parameter(1)>>)>>)
         ELSE IF c \in DIG
           THEN /\ params' = IF params[last] >= MaxArgument THEN params
                             ELSE [params EXCEPT ![last] = 10 * @ + DigitValue[c]]
                /\ more
         ELSE IF c = ";"
           THEN /\ params' = IF last < MaxParams THEN Append(params, 0)
                             ELSE [params EXCEPT ![last] = 0]
                /\ more
         ELSE Finish(CASE state = "private" -> each("pr")
                       [] state = "second"  -> each("pg")
                       [] OTHER             -> Rendition(c))

(* VT52 mode.  A character past 255 outside a sequence is taken for a      *)
(* command, and which one nothing says.                                    *)
VT52(c) ==
  /\ ~ansi /\ state \in {"ground", "escape", "row", "column"}
  /\ CASE state = "ground" ->
             IF c \in Wide THEN \E x \in Stale : Finish(<<Token("vt52", x, <<>>)>>)
             ELSE Finish(<<Token("chr", c, <<>>)>>)
       [] state = "escape" ->
             IF c = "Y" THEN Go("row") ELSE Finish(<<Token("vt52", c, <<>>)>>)
       [] state = "row"    -> Mark("column", c)
       [] state = "column" -> Finish(<<Token("vt52", "Y", Append(marks, c))>>)

PReceive(c) ==
  \/ c = "DEL" /\ state # "osc" /\ Say(<<>>) /\ UNCHANGED unread
  \/ Control(c)
  \/ Osc(c)
  \/ /\ c \notin CTL \cup {"DEL"}
     /\ First(c) \/ Second(c) \/ Dcs(c) \/ Third(c) \/ Body(c) \/ VT52(c)

PNext == \E c \in Char : PReceive(c)
PSpec == PInit /\ [][PNext]_parserVars
=============================================================================
