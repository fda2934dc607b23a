------------------------- MODULE ExtendedCharTable --------------------------
(***************************************************************************)
(* The table in which a cell that shows a character with combining marks   *)
(* keeps them: the cell holds a hash, the table the sequence of code       *)
(* points.  A table is a function from the hashes in use to sequences.     *)
(*                                                                         *)
(* Screen never asks for sequences of more than three code points, so a    *)
(* hash is below 2^32 and needs no wrapping; the clean-up when the probe   *)
(* has gone through all 2^32 slots is out of reach and left out.           *)
(***************************************************************************)
EXTENDS Integers, Sequences, FiniteSets, FiniteSetsExt

EmptyTable == <<>>

(* extendedCharHash *)
Hash(seq) ==
    LET upTo[n \in 0 .. Len(seq)] == IF n = 0 THEN 0 ELSE 31 * upTo[n - 1] + seq[n]
    IN  upTo[Len(seq)]

SlotUnmatched(table, seq) == Hash(seq)   \* mutant: a used hash is taken for a match
(* The slot the probe of createExtendedChar ends at: from the hash upwards *)
(* the first that is free or holds this very sequence.                     *)
Slot(table, seq) ==
    Min({h \in Hash(seq) .. Hash(seq) + Cardinality(DOMAIN table) :
            h \in DOMAIN table => table[h] = seq})

(* createExtendedChar: the table after it; the result is the slot *)
Inserted(table, seq) ==
    LET h == Slot(table, seq) IN
    [k \in DOMAIN table \cup {h} |-> IF k = h THEN seq ELSE table[k]]

(* lookupExtendedChar *)
Lookup(table, hash) == IF hash \in DOMAIN table THEN table[hash] ELSE <<>>
=============================================================================
