--------------------------- MODULE CompactHistory ---------------------------
(***************************************************************************)
(* A history of fixed size.  A line is stored as its code points and one   *)
(* format for each run of cells that look alike.  The line, its formats    *)
(* and its text are allocated one after the other from blocks, which are   *)
(* filled from the front and given back when nothing in them is in use.    *)
(***************************************************************************)
EXTENDS Integers, FiniteSets, SequencesExt, FiniteSetsExt

CONSTANTS
    BlockLength,                      \* the size of a block
    LineSize, FormatSize, CodeSize    \* the sizes of what is allocated

ASSUME CompactHistoryAssumption ==
    /\ {BlockLength, LineSize, FormatSize, CodeSize} \subseteq Nat \ {0}
    /\ LineSize <= BlockLength

NewCompact(max) == [lines |-> <<>>, blocks |-> <<>>, max |-> max]

(* The addresses of blocks that are not in use; the next block gets one *)
FreshId(blocks) == Min((0 .. Len(blocks)) \ {blocks[i].id : i \in DOMAIN blocks})

NeedsBlock(blocks, n) == blocks = <<>> \/ BlockLength - Last(blocks).used < n

(* CompactHistoryBlockList::allocate; the address is in the last block *)
Allocated(blocks, n) ==
    IF NeedsBlock(blocks, n)
    THEN Append(blocks, [id |-> FreshId(blocks), used |-> n, count |-> 1])
    ELSE [blocks EXCEPT ![Len(blocks)].used = @ + n, ![Len(blocks)].count = @ + 1]

(* CompactHistoryBlockList::deallocate of an address in block id *)
Deallocated(blocks, id) ==
    LET i == CHOOSE j \in DOMAIN blocks : blocks[j].id = id
    IN  IF blocks[i].count = 1 THEN RemoveAt(blocks, i)
        ELSE [blocks EXCEPT ![i].count = @ - 1]

-----------------------------------------------------------------------------
SameFormat(a, b) == a.format = b.format /\ a.ext = b.ext
RunStarts(cells) == {i \in DOMAIN cells : i = 1 \/ ~SameFormat(cells[i], cells[i - 1])}

(* The formats of a line, each at the column where its run starts: the     *)
(* first cell of the run without its code.                                 *)
Formats(cells) ==
    [s \in RunStarts(cells) |->
       [format |-> cells[s].format, ext |-> cells[s].ext, real |-> cells[s].real]]

(* new CompactHistoryLine: the blocks and the line, with the blocks of its *)
(* text, its formats and itself                                            *)
NewLineIn(blocks, cells) ==
    LET own == Allocated(blocks, LineSize)
        withFormats == Allocated(own, FormatSize * Cardinality(RunStarts(cells)))
        withText == Allocated(withFormats, CodeSize * Len(cells)) IN
    [blocks |-> IF cells = <<>> THEN own ELSE withText,
     line   |-> [parts |-> IF cells = <<>> THEN <<Last(own).id>>
                           ELSE <<Last(withText).id, Last(withFormats).id, Last(own).id>>,
                 formats |-> Formats(cells), text |-> [i \in DOMAIN cells |-> cells[i].code],
                 wrapped |-> FALSE]]

ReleasedNoText(blocks, parts) ==   \* mutant: the text leaks
    IF Len(parts) = 1 THEN Deallocated(blocks, parts[1])
    ELSE Deallocated(Deallocated(blocks, parts[2]), parts[3])
(* ~CompactHistoryLine *)
Released(blocks, parts) ==
    IF Len(parts) = 1 THEN Deallocated(blocks, parts[1])
    ELSE Deallocated(Deallocated(Deallocated(blocks, parts[1]), parts[2]), parts[3])

FreedFirst(h) ==
    [h EXCEPT !.lines = Tail(h.lines), !.blocks = Released(h.blocks, Head(h.lines).parts)]

(* addCellsVector drops a line only when there are more than the maximum *)
Full(h) == Len(h.lines) > h.max

(* addCellsVector and then addLine: the new line is allocated first *)
WithCompactLine(h, cells, wrapped) ==
    LET new == NewLineIn(h.blocks, cells)
        h1 == [h EXCEPT !.blocks = new.blocks]
        h2 == IF Full(h) THEN FreedFirst(h1) ELSE h1
    IN  [h2 EXCEPT !.lines = Append(@, [new.line EXCEPT !.wrapped = wrapped])]

(* setMaxNbLines *)
Trimmed(h, max) ==
    LET excess == IF Len(h.lines) > max THEN Len(h.lines) - max ELSE 0
        after[n \in 0 .. excess] == IF n = 0 THEN h ELSE FreedFirst(after[n - 1])
    IN  [after[excess] EXCEPT !.max = max]

(* getCharacter, for every column *)
CompactLineAt(line) ==
    [cells |-> [i \in DOMAIN line.text |->
                 LET f == line.formats[Max({s \in DOMAIN line.formats : s <= i})]
                 IN  [code |-> line.text[i], ext |-> f.ext, real |-> f.real, format |-> f.format]],
     wrapped |-> line.wrapped]

-----------------------------------------------------------------------------
(* The parts of lines that are in a block *)
LivePartsIn(lines, id) ==
    {p \in (DOMAIN lines) \X (1 .. 3) :
        p[2] \in DOMAIN lines[p[1]].parts /\ lines[p[1]].parts[p[2]] = id}

(* Each block counts the live parts in it, there is no block without one,  *)
(* every live part lies in a block that exists, and no block is filled     *)
(* beyond its length.                                                      *)
Accounted(h) ==
    /\ \A i, j \in DOMAIN h.blocks : h.blocks[i].id = h.blocks[j].id => i = j
    /\ \A i \in DOMAIN h.blocks :
         /\ h.blocks[i].count = Cardinality(LivePartsIn(h.lines, h.blocks[i].id))
         /\ h.blocks[i].count > 0
         /\ h.blocks[i].used <= BlockLength
    /\ \A i \in DOMAIN h.lines : \A k \in DOMAIN h.lines[i].parts :
         \E j \in DOMAIN h.blocks : h.blocks[j].id = h.lines[i].parts[k]
=============================================================================
