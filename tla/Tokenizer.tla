------------------------------ MODULE Tokenizer ------------------------------
(***************************************************************************)
(* The scanner of Vt102Emulation (receiveChar): characters go into a token *)
(* buffer, the state is deduced from what the buffer holds, and complete   *)
(* sequences are handed to processToken with their arguments.  The buffer  *)
(* and the arguments keep what earlier sequences left in them.             *)
(***************************************************************************)
EXTENDS ControlChars, SequencesExt, FiniteSetsExt

CONSTANTS Char,             \* the characters received
          MaxTokenLength,   \* MAX_TOKEN_LENGTH
          MaxArgs,          \* MAXARGS
          MaxArgument,      \* MAX_ARGUMENT
          ExtendedColours,  \* {38, 48}
          NoChar,           \* what a slot of the buffer holds at the start
          Garbage           \* what an argument holds at the start

ASSUME TokenizerAssumption ==
  /\ MaxTokenLength \in Nat /\ MaxTokenLength >= 6
  /\ MaxArgs \in Nat /\ MaxArgs >= 3
  /\ MaxArgument \in Nat \ {0}
  /\ Garbage \in Nat
  /\ NoChar \notin Char
  /\ {"ESC", "["} \subseteq Char

VARIABLES tokenBuffer, tokenBufferPos, argv, argc,
          ansi,             \* MODE_Ansi
          tokens            \* what the last character made of processToken

vars == <<tokenBuffer, tokenBufferPos, argv, argc, ansi, tokens>>

Init == /\ tokenBuffer = [i \in 0 .. MaxTokenLength - 1 |-> NoChar]
        /\ argv = [i \in 0 .. MaxArgs - 1 |-> IF i < 2 THEN 0 ELSE Garbage]
        /\ tokenBufferPos = 0 /\ argc = 0
        /\ ansi = TRUE /\ tokens = <<>>

(* As if the second argument kept its value.                               *)
ForgetFirst == argc' = 0 /\ argv' = [argv EXCEPT ![0] = 0]

ForgetArguments == argc' = 0 /\ argv' = [argv EXCEPT ![0] = 0, ![1] = 0]
ResetTokenizer == tokenBufferPos' = 0 /\ ForgetArguments

AddDigit(digit) ==
  /\ argv' = IF argv[argc] < MaxArgument THEN [argv EXCEPT ![argc] = 10 * @ + digit] ELSE argv
  /\ UNCHANGED argc
(* As if an argument began with what the slot held.                        *)
AddArgumentUncleared ==
  /\ argc' = Min({argc + 1, MaxArgs - 1})
  /\ UNCHANGED argv
AddArgument ==
  /\ argc' = Min({argc + 1, MaxArgs - 1})
  /\ argv' = [argv EXCEPT ![argc'] = 0]

(* addToCurrentToken: a full buffer overwrites its last character.         *)
NextPos == Min({tokenBufferPos + 1, MaxTokenLength - 1})

(* Inside ESC ]: Xpe and Xte of the source.                                *)
Xpe(pos, s) == pos >= 2 /\ s[1] = "]"
Ends(cc) == cc \in {"BEL", "ESC"}

(* The number and the text of a session attribute                          *)
(* (processSessionAttributeRequest).                                       *)
Attribute(pos, s) ==
  LET i      == Min({k \in 2 .. pos : k = pos \/ s[k] \notin DIG})
      number == Number([k \in 1 .. i - 2 |-> s[k + 1]])
      value  == [j \in 1 .. pos - i - 2 |-> s[i + j]]
  IN  IF s[i] # ";" THEN <<>>
      ELSE <<Token(IF value = <<"?">> THEN "request" ELSE "attribute", value, <<number>>)>>

(* The loop that handles a list of arguments one by one.                   *)
EachArgument(cc, s) ==
  LET colour(i, n, space) == /\ cc = "m" /\ argc - i >= n
                             /\ argv[i] \in ExtendedColours /\ argv[i + 1] = space
      from[i \in 0 .. MaxArgs] ==
        IF i > argc THEN <<>>
        ELSE IF s[2] = "?" THEN <<Token("pr", cc, <<argv[i]>>)>> \o from[i + 1]
        ELSE IF s[2] = ">" THEN <<Token("pg", cc, <<argv[i]>>)>> \o from[i + 1]
        ELSE IF colour(i, 4, 2)
          THEN <<Token("rgb", cc, <<argv[i], argv[i + 2], argv[i + 3], argv[i + 4]>>)>>
               \o from[i + 5]
        ELSE IF colour(i, 2, 5)
          THEN <<Token("indexed", cc, <<argv[i], argv[i + 2]>>)>> \o from[i + 3]
        ELSE <<Token("ps", cc, <<argv[i]>>)>> \o from[i + 1]
  IN  from[0]

(* The decisions of receiveChar in their order, as far as they end in a    *)
(* return; the first that holds is taken.  cc is already in the buffer.    *)
Rules(p, s, cc) ==
  LET lec(P, L, c) == p = P /\ s[L] = c
      les(P, L, C) == p = P /\ s[L] \in C
      eps(C)       == p >= 3 /\ s[2] \notin {"?", "!", ">"} /\ cc \in C
  IN  <<<<lec(1, 0, "ESC"), "wait">>,
         <<lec(1, 0, "CSI8"), "introducer">>,
         <<les(2, 1, GRP), "wait">>,
         <<Xpe(p, s) /\ Ends(cc), "attribute">>,
         <<Xpe(p, s), "wait">>,
         <<\E c \in {"?", ">", "!", "SP"} : lec(3, 2, c), "wait">>,
         <<lec(4, 3, "SP"), "wait">>,
         <<p = 1 /\ cc \notin CTL, "chr">>,
         <<p >= 2 /\ s[0] = "ESC" /\ s[1] = "P", "wait">>,
         <<lec(2, 0, "ESC"), "esc">>,
         <<les(3, 1, SCS), "cs">>,
         <<lec(3, 1, "#"), "de">>,
         <<eps(CPN), "pn">>,
         <<eps(CPS), "resize">>,
         <<p >= 3 /\ s[2] = "!", "pe">>,
         <<p >= 4 /\ s[2] = "SP", "sp">>,
         <<p >= 5 /\ s[3] = "SP", "psp">>,
         <<p >= 3 /\ cc \in DIG, "digit">>,
         <<p >= 3 /\ cc = ";", "argument">>,
         <<TRUE, "each">>>>

VT52Rules(p, s) ==
  <<<<p = 1 /\ s[0] = "ESC", "wait">>,
     <<p = 1 /\ s[0] \notin Wide, "chr">>,
     <<p \in {2, 3} /\ s[1] = "Y", "wait">>,
     <<p < 4, "vt52">>,
     <<TRUE, "vt52yx">>>>

FirstRule(rules) == rules[SelectInSeq(rules, LAMBDA r : r[1])][2]

Calls(rule, p, s, cc) ==
  CASE rule = "attribute" -> Attribute(p, s)
    [] rule = "chr"    -> <<Token("chr", cc, <<>>)>>
    [] rule = "esc"    -> <<Token("esc", s[1], <<>>)>>
    [] rule = "cs"     -> <<Token("cs", s[2], <<s[1]>>)>>
    [] rule = "de"     -> <<Token("de", s[2], <<>>)>>
    [] rule = "pn"     -> <<Token("pn", cc, <<argv[0], argv[1]>>)>>
    [] rule = "resize" -> <<Token("resize", cc, <<argv[0], argv[1], argv[2]>>)>>
    [] rule = "pe"     -> <<Token("pe", cc, <<>>)>>
    [] rule = "sp"     -> <<Token("sp", cc, <<>>)>>
    [] rule = "psp"    -> <<Token("psp", cc, <<argv[0]>>)>>
    [] rule = "vt52"   -> <<Token("vt52", s[1], <<>>)>>
    [] rule = "vt52yx" -> <<Token("vt52", s[1], <<s[2], s[3]>>)>>
    [] rule = "each"   -> EachArgument(cc, s)

Say(calls) == tokens' = calls /\ ansi' = AnsiAfter(calls, ansi)

(* A printable character, or the control that ends a session attribute.    *)
Scan(cc) ==
  LET s    == [tokenBuffer EXCEPT ![tokenBufferPos] = cc]
      p    == NextPos
      rule == FirstRule(IF ansi THEN Rules(p, s, cc) ELSE VT52Rules(p, s))
  IN  CASE rule = "introducer" ->   \* 8-bit CSI stands for ESC [
             /\ tokenBuffer' = [s EXCEPT ![0] = "ESC", ![1] = "["]
             /\ tokenBufferPos' = 2
             /\ Say(<<>>) /\ UNCHANGED <<argv, argc>>
        [] rule \in {"wait", "digit", "argument"} ->
             /\ tokenBuffer' = s /\ tokenBufferPos' = p /\ Say(<<>>)
             /\ \/ rule = "digit"    /\ AddDigit(DigitValue[cc])
                \/ rule = "argument" /\ AddArgument
                \/ rule = "wait"     /\ UNCHANGED <<argv, argc>>
        [] OTHER ->
             /\ tokenBuffer' = s /\ Say(Calls(rule, p, s, cc)) /\ ResetTokenizer

(* Other controls are handled at once, wherever they come; CAN, SUB and    *)
(* ESC abandon what was being scanned, and ESC starts a sequence.          *)
Control(cc) ==
  /\ cc \in CTL
  /\ Xpe(tokenBufferPos, tokenBuffer) => ~Ends(cc)
  /\ IF Xpe(tokenBufferPos, tokenBuffer)
       THEN Say(<<>>) /\ UNCHANGED <<tokenBuffer, tokenBufferPos, argv, argc>>
     ELSE IF cc = "ESC"
       THEN /\ tokenBuffer' = [tokenBuffer EXCEPT ![0] = cc]
            /\ tokenBufferPos' = 1 /\ ForgetArguments
            /\ Say(<<>>)
     ELSE /\ Say(<<Token("ctl", cc, <<>>)>>)
          /\ UNCHANGED tokenBuffer
          /\ IF cc \in Cancels THEN ResetTokenizer ELSE UNCHANGED <<tokenBufferPos, argv, argc>>

ReceiveChar(cc) ==
  \/ /\ cc = "DEL"
     /\ Say(<<>>) /\ UNCHANGED <<tokenBuffer, tokenBufferPos, argv, argc>>
  \/ Control(cc)
  \/ /\ cc # "DEL"
     /\ cc \in CTL => Xpe(tokenBufferPos, tokenBuffer) /\ Ends(cc)
     /\ Scan(cc)

Next == \E cc \in Char : ReceiveChar(cc)
Spec == Init /\ [][Next]_vars

-----------------------------------------------------------------------------
ArgumentLimit == 10 * MaxArgument - 1
TypeOK ==
  /\ tokenBufferPos \in 0 .. MaxTokenLength - 1
  /\ tokenBuffer \in [0 .. MaxTokenLength - 1 -> Char \cup {NoChar}]
  /\ argc \in 0 .. MaxArgs - 1
  /\ argv \in [0 .. MaxArgs - 1 -> 0 .. ArgumentLimit \cup {Garbage}]
  /\ ansi \in BOOLEAN

(* The arguments a sequence is handled with were all written while it was  *)
(* scanned and are no larger than MAX_ARGUMENT and one more digit allow;   *)
(* the first two are there even when none was given.                       *)
ArgumentsWritten ==
  /\ \A i \in 0 .. argc : argv[i] <= ArgumentLimit
  /\ argv[1] <= ArgumentLimit
  /\ argc = 0 => argv[1] = 0

(* Both, inductive together.                                               *)
TokenInv == TypeOK /\ ArgumentsWritten

-----------------------------------------------------------------------------
(* What the buffer and the arguments stand for, as ControlParser spells it *)
(* out: the state, the fourth character of a list, the parameters, the     *)
(* text of a session attribute and what a short sequence began with.       *)
StateAt(p, s, mode) ==
  IF p = 0 THEN "ground"
  ELSE IF p = 1 THEN "escape"
  ELSE IF ~mode THEN IF p = 2 THEN "row" ELSE "column"
  ELSE IF s[1] = "]" THEN "osc"
  ELSE IF s[1] = "P" THEN "dcs"
  ELSE IF p = 2 THEN IF s[1] = "[" THEN "csi" ELSE "designate"
  ELSE CASE s[2] = "?"  -> "private" [] s[2] = ">"  -> "second"
         [] s[2] = "!"  -> "bang"    [] s[2] = "SP" -> "space"
         [] OTHER -> "list"
Lists == {"private", "second", "bang", "space", "list"}
FourthAt(p, s, mode) ==
  IF StateAt(p, s, mode) \notin Lists \/ p = 3 THEN "fresh"
  ELSE IF s[3] = "SP" THEN "space" ELSE "other"
ParametersIn(n, a) == [i \in 1 .. n + 1 |-> a[i - 1]]
TextAt(p, s) == IF Xpe(p, s) THEN [i \in 1 .. p - 2 |-> s[i + 1]] ELSE <<>>
MarksAt(p, s, mode) ==
  CASE StateAt(p, s, mode) = "designate" -> <<s[1]>>
    [] StateAt(p, s, mode) = "column" -> <<s[2]>>
    [] OTHER -> <<>>

Parser == INSTANCE ControlParser WITH
  state  <- StateAt(tokenBufferPos, tokenBuffer, ansi),
  fourth <- FourthAt(tokenBufferPos, tokenBuffer, ansi),
  params <- ParametersIn(argc, argv),
  text   <- TextAt(tokenBufferPos, tokenBuffer),
  marks  <- MarksAt(tokenBufferPos, tokenBuffer, ansi),
  out    <- tokens,
  TextLength <- MaxTokenLength - 4,
  MaxParams  <- MaxArgs,
  Leftover   <- 0 .. ArgumentLimit \cup {Garbage},
  Stale      <- Char \cup {NoChar}

(* For every sequence of characters the scanner does what the parser with  *)
(* named states does, whatever earlier sequences left in the buffer and in *)
(* the arguments (receiveChar).                                            *)
ImplementsParser == Parser!PSpec
=============================================================================
