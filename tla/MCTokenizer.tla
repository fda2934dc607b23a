----------------------------- MODULE MCTokenizer -----------------------------
(***************************************************************************)
(* The scanner against its explicit parser.  A family is an alphabet and a *)
(* number of sequences: the first ones leave their characters and          *)
(* arguments behind, the last must not be read with them.  A sequence has  *)
(* any length: the buffer fills up and the arguments run out.              *)
(***************************************************************************)
EXTENDS Tokenizer

VARIABLES family, begun
MCvars == <<vars, family, begun>>

Families ==
  [lists   |-> [chars |-> {"ESC", "[", "?", "SP", "2", ";", "h"},      sequences |-> 2],
   ends    |-> [chars |-> {"CSI8", ">", "2", ";", "H", "t"},           sequences |-> 2],
   text    |-> [chars |-> {"ESC", "]", "2", ";", "?", "BEL"},          sequences |-> 2],
   short   |-> [chars |-> {"ESC", "(", "#", "P", "SP", "!", "DEL"},    sequences |-> 2],
   control |-> [chars |-> {"ESC", "[", "]", "3", "CAN", "LF", "c"},    sequences |-> 2],
   colours |-> [chars |-> {"CSI8", "2", "3", "5", ";", "m"},           sequences |-> 1],
   vt52    |-> [chars |-> {"ESC", "[", "?", "2", "l", "Y", "<", "WIDE"}, sequences |-> 3],
   wide    |-> [chars |-> {"ESC", "[", "?", "2", "WIDEl", "WIDE<"},    sequences |-> 2]]

MCInit == Init /\ family \in DOMAIN Families /\ begun = 0
MCNext == \E c \in Families[family].chars :
            /\ ReceiveChar(c)
            /\ begun' = begun + (IF c \in {"ESC", "CSI8"} THEN 1 ELSE 0)
            /\ begun' <= Families[family].sequences
            /\ UNCHANGED family
MCSpec == MCInit /\ [][MCNext]_MCvars
=============================================================================
