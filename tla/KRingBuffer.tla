----------------------------- MODULE KRingBuffer -----------------------------
(***************************************************************************)
(* The byte queue of the pseudo terminal device: a list of chunks, read at *)
(* `head' of the first and written at `tail' of the last.  A chunk before  *)
(* the last one was cut to the bytes written to it; the last one has bytes *)
(* behind `tail' that mean nothing yet.                                    *)
(***************************************************************************)
EXTENDS Integers, SequencesExt

CONSTANT CHUNKSIZE

ASSUME ChunkAssumption == CHUNKSIZE \in Nat \ {0}

Junk == 0   \* a byte that was never written; real bytes count from 1
Chunk(n) == [i \in 1 .. n |-> Junk]

Cleared == [buffers |-> <<Chunk(CHUNKSIZE)>>, head |-> 0, tail |-> 0, totalSize |-> 0]

Written(r, i) == IF i = Len(r.buffers) THEN r.tail ELSE Len(r.buffers[i])
readSize(r) == Written(r, 1) - r.head
isEmptyAtHead(r) == Len(r.buffers) = 1 /\ r.head = 0   \* mutant: nothing read yet
isEmpty(r) == Len(r.buffers) = 1 /\ r.tail = 0

Reset(r, bytes) == [Cleared EXCEPT !.totalSize = r.totalSize - bytes]

FreeKeepsHead(r, bytes) ==   \* mutant: head stays when its chunk goes
    IF bytes < readSize(r) THEN [r EXCEPT !.head = @ + bytes, !.totalSize = @ - bytes]
    ELSE IF Len(r.buffers) = 1 THEN Reset(r, bytes)
    ELSE [r EXCEPT !.buffers = Tail(@), !.totalSize = @ - bytes]
(* free(), for no more bytes than the first chunk holds: chunks with       *)
(* nothing left to read go, and a single one that is read out starts anew. *)
Free(r, bytes) ==
    IF bytes < readSize(r) THEN [r EXCEPT !.head = @ + bytes, !.totalSize = @ - bytes]
    ELSE LET last == Len(r.buffers)
             filled == {i \in 2 .. last : Written(r, i) > 0}
         IN  IF filled = {} THEN Reset(r, bytes)
             ELSE [r EXCEPT !.buffers = SubSeq(@, Min(filled), last), !.head = 0,
                            !.totalSize = @ - bytes]

Overwrite(chunk, at, data) ==
    [i \in DOMAIN chunk |-> IF i - at \in DOMAIN data THEN data[i - at] ELSE chunk[i]]

AppendUncut(r, n) == Append(r.buffers, Chunk(n))   \* mutant: the last chunk is not cut
AppendChunk(r, n) ==
    Append(ReplaceAt(r.buffers, Len(r.buffers), SubSeq(Last(r.buffers), 1, r.tail)), Chunk(n))

FilledTail(at, n, m) == at + m
(* reserve(n), of which `data' fills the first bytes, and unreserve() of   *)
(* the rest                                                                *)
Put(r, n, data) ==
    LET fits == r.tail + n <= Len(Last(r.buffers))
        at == IF fits THEN r.tail ELSE 0
        bufs == IF fits THEN r.buffers ELSE AppendChunk(r, Max({CHUNKSIZE, n}))
    IN  [r EXCEPT !.buffers = ReplaceAt(bufs, Len(bufs), Overwrite(Last(bufs), at, data)),
                  !.tail = FilledTail(at, n, Len(data)),
                  !.totalSize = @ + Len(data)]

(* The bytes in the queue, first to last *)
Piece(r, i) == SubSeq(r.buffers[i], IF i = 1 THEN r.head + 1 ELSE 1, Written(r, i))
Contents(r) == FlattenSeq([i \in 1 .. Len(r.buffers) |-> Piece(r, i)])

(* read() of all there is; an empty queue is left as it is *)
ReadAll(r) == IF r.totalSize = 0 THEN r ELSE Reset(r, r.totalSize)
=============================================================================
