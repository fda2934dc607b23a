------------------------------ MODULE PtyProofs ------------------------------
(***************************************************************************)
(* Proofs about PtyDevice, for chunks, kernel queues and amounts of any    *)
(* size: the write notifier is never left off with data to write, and no   *)
(* byte is lost, doubled or taken out of turn in either direction.         *)
(***************************************************************************)
EXTENDS PtyDevice, SequenceTheorems, WellFoundedInduction, TLAPS

Chunks == Seq(Nat)
Rings == [buffers : Seq(Chunks), head : Nat, tail : Nat, totalSize : Nat]

(* left[i] is the number of bytes written to the chunks from the i-th on;  *)
(* the sum is a witness, so that nothing needs induction over the chunks.  *)
Sums(r, left) ==
    LET n == Len(r.buffers) IN
    /\ left \in [1 .. n + 1 -> Nat]
    /\ left[n + 1] = 0
    /\ \A i \in 1 .. n : left[i] = Written(r, i) + left[i + 1]
    /\ r.totalSize = left[1] - r.head

(* A queue into which nothing empty was ever put: only its first chunk can *)
(* be empty, and what was read of it is less than what was written to it.  *)
RingFits(r) ==
    /\ r \in Rings
    /\ Len(r.buffers) >= 1
    /\ r.tail <= Len(r.buffers[Len(r.buffers)])
    /\ \A i \in 2 .. Len(r.buffers) : Written(r, i) > 0
    /\ r.head < Written(r, 1) \/ (r.head = 0 /\ Written(r, 1) = 0)
    /\ \E left : Sums(r, left)

IInv ==
    /\ RingFits(writeBuffer)
    /\ sent \in Nat
    /\ NothingStuck

-----------------------------------------------------------------------------
(* The ring buffer *)

LEMMA WrittenType ==
    ASSUME NEW r, RingFits(r), NEW i \in 1 .. Len(r.buffers)
    PROVE  Written(r, i) \in Nat
<1>1. r.buffers \in Seq(Chunks) /\ r.tail \in Nat
  BY DEF RingFits, Rings
<1>2. r.buffers[i] \in Chunks
  BY <1>1
<1>3. Len(r.buffers[i]) \in Nat
  BY <1>2 DEF Chunks
<1> QED
  BY <1>1, <1>3 DEF Written

(* The count of bytes is zero exactly when isEmpty() says so.              *)
LEMMA CountsRight ==
    ASSUME NEW r, RingFits(r)
    PROVE  /\ r.totalSize = 0 <=> isEmpty(r)
           /\ readSize(r) \in Nat
           /\ readSize(r) <= r.totalSize
           /\ readSize(r) = r.totalSize <=> Len(r.buffers) = 1
<1>1. PICK left : Sums(r, left)
  BY DEF RingFits
<1> DEFINE n == Len(r.buffers)
           w == Written(r, 1)
<1>2. /\ n \in Nat /\ n >= 1 /\ r.head \in Nat /\ r.tail \in Nat
      /\ r.head < w \/ (r.head = 0 /\ w = 0)
  BY DEF RingFits, Rings
<1>3. w \in Nat
  BY <1>2, WrittenType
<1>4. /\ left[1] \in Nat /\ left[2] \in Nat /\ left[1] = w + left[2]
      /\ r.totalSize = left[1] - r.head
  BY <1>1, <1>2 DEF Sums
<1>5. n = 1 => left[2] = 0 /\ w = r.tail
  BY <1>1 DEF Sums, Written
<1>6. n > 1 => left[2] > 0
  <2> SUFFICES ASSUME n > 1 PROVE left[2] > 0
    OBVIOUS
  <2>1. 2 \in 2 .. n /\ 2 \in 1 .. n /\ 3 \in 1 .. n + 1
    BY <1>2
  <2>2. Written(r, 2) > 0 /\ Written(r, 2) \in Nat
    BY <2>1, WrittenType DEF RingFits
  <2>3. left[2] = Written(r, 2) + left[3] /\ left[3] \in Nat
    BY <1>1, <2>1 DEF Sums
  <2> QED
    BY <2>2, <2>3
<1>7. readSize(r) = w - r.head /\ (isEmpty(r) <=> n = 1 /\ r.tail = 0)
  BY DEF readSize, isEmpty
<1> HIDE DEF n, w
<1>8. (r.totalSize = 0 <=> n = 1 /\ r.tail = 0) /\ w - r.head \in Nat
  BY <1>2, <1>3, <1>4, <1>5, <1>6
<1>9. (w - r.head <= r.totalSize) /\ (w - r.head = r.totalSize <=> n = 1)
  BY <1>2, <1>3, <1>4, <1>5, <1>6
<1> QED
  BY <1>7, <1>8, <1>9 DEF n

LEMMA ClearedFits == RingFits(Cleared) /\ Cleared.totalSize = 0
<1>1. Chunk(CHUNKSIZE) \in Chunks /\ Len(Chunk(CHUNKSIZE)) = CHUNKSIZE
  BY ChunkAssumption DEF Chunk, Chunks, Junk
<1> DEFINE c == Chunk(CHUNKSIZE)
<1>2. /\ Cleared \in Rings /\ Len(Cleared.buffers) = 1 /\ Cleared.buffers[1] = c
      /\ Cleared.tail = 0 /\ Cleared.head = 0 /\ Cleared.totalSize = 0
  <2> HIDE DEF c
  <2> QED
    BY <1>1 DEF Cleared, Rings, c
<1>3. Written(Cleared, 1) = 0
  BY <1>2 DEF Written
<1>4. Sums(Cleared, [i \in 1 .. 2 |-> 0])
  BY <1>2, <1>3 DEF Sums
<1> QED
  BY <1>1, <1>2, <1>3, <1>4, ChunkAssumption DEF RingFits

(* A queue with m more bytes in its last chunk, or in a new one behind it. *)
LastWritten(r, p, m) ==
    /\ Len(p.buffers) = Len(r.buffers)
    /\ \A i \in 1 .. Len(r.buffers) :
         Written(p, i) = Written(r, i) + (IF i = Len(r.buffers) THEN m ELSE 0)
NewWritten(r, p, m) ==
    /\ Len(p.buffers) = Len(r.buffers) + 1
    /\ \A i \in 1 .. Len(r.buffers) : Written(p, i) = Written(r, i)
    /\ Written(p, Len(p.buffers)) = m

LEMMA Longer ==
    ASSUME NEW r, RingFits(r), NEW p \in Rings, NEW m \in Nat, m > 0,
           p.head = r.head, p.totalSize = r.totalSize + m,
           p.tail <= Len(p.buffers[Len(p.buffers)]),
           LastWritten(r, p, m) \/ NewWritten(r, p, m)
    PROVE  RingFits(p) /\ p.totalSize > 0
<1> DEFINE n == Len(r.buffers)
           k == Len(p.buffers)
<1>1. PICK left : Sums(r, left)
  BY DEF RingFits
<1>2. /\ n \in Nat /\ n >= 1 /\ r.head \in Nat /\ r.totalSize \in Nat
      /\ k \in Nat /\ k \in {n, n + 1}
  <2>1. k = n \/ k = n + 1
    BY DEF LastWritten, NewWritten
  <2> QED
    BY <2>1 DEF RingFits, Rings
<1>3. \A i \in 1 .. n : Written(r, i) \in Nat
  BY WrittenType
<1>4. /\ left \in [1 .. n + 1 -> Nat] /\ left[n + 1] = 0
      /\ \A i \in 1 .. n : left[i] = Written(r, i) + left[i + 1]
      /\ r.totalSize = left[1] - r.head
  BY <1>1 DEF Sums
<1>5. /\ \A i \in 2 .. n : Written(r, i) > 0
      /\ r.head < Written(r, 1) \/ (r.head = 0 /\ Written(r, 1) = 0)
  BY DEF RingFits
<1>6. \/ /\ k = n
         /\ \A i \in 1 .. n : Written(p, i) = Written(r, i) + (IF i = n THEN m ELSE 0)
      \/ /\ k = n + 1
         /\ \A i \in 1 .. n : Written(p, i) = Written(r, i)
         /\ Written(p, k) = m
  BY DEF LastWritten, NewWritten
<1> DEFINE more == [i \in 1 .. k + 1 |-> IF i = k + 1 THEN 0 ELSE left[i] + m]
<1> HIDE DEF n, k
<1>7. /\ more \in [1 .. k + 1 -> Nat] /\ more[k + 1] = 0 /\ more[1] = left[1] + m
      /\ \A i \in 1 .. k : more[i] = left[i] + m
  <2>1. \A i \in 1 .. k : i \in 1 .. n + 1 /\ left[i] \in Nat /\ i # k + 1 /\ i \in 1 .. k + 1
    BY <1>2, <1>4
  <2>2. \A i \in 1 .. k + 1 : (IF i = k + 1 THEN 0 ELSE left[i] + m) \in Nat
    BY <1>2, <2>1
  <2>3. more \in [1 .. k + 1 -> Nat]
    BY <2>2
  <2>4. more[k + 1] = 0
    BY <1>2
  <2>5. \A i \in 1 .. k : more[i] = left[i] + m
    BY <2>1
  <2> HIDE DEF more
  <2> QED
    BY <1>2, <2>3, <2>4, <2>5
<1> HIDE DEF more
<1>8. \A i \in 1 .. k : more[i] = Written(p, i) + more[i + 1]
  <2> SUFFICES ASSUME NEW i \in 1 .. k PROVE more[i] = Written(p, i) + more[i + 1]
    OBVIOUS
  <2> DEFINE w == Written(r, i)
             v == Written(p, i)
  <2>1. more[i] = left[i] + m /\ (i < k => more[i + 1] = left[i + 1] + m)
    BY <1>2, <1>7
  <2>2. i <= n => left[i] = w + left[i + 1] /\ w \in Nat /\ left[i + 1] \in Nat
    <3> SUFFICES ASSUME i <= n
                 PROVE  left[i] = w + left[i + 1] /\ w \in Nat /\ left[i + 1] \in Nat
      OBVIOUS
    <3>1. i \in 1 .. n /\ i + 1 \in 1 .. n + 1
      BY <1>2
    <3>2. left[i + 1] \in Nat
      BY <1>4, <3>1
    <3> QED
      BY <1>3, <1>4, <3>1, <3>2
  <2>3. CASE i < n
    <3>1. v = w /\ i < k
      BY <1>2, <1>3, <1>6, <2>3
    <3> QED
      BY <1>2, <2>1, <2>2, <2>3, <3>1
  <2>4. CASE i = n /\ k = n
    <3>1. v = w + m
      BY <1>2, <1>6, <2>4
    <3> QED
      BY <1>2, <1>4, <1>7, <2>1, <2>2, <2>4, <3>1
  <2>5. CASE i = n /\ k = n + 1
    <3>1. v = w
      BY <1>2, <1>6, <2>5
    <3> QED
      BY <1>2, <2>1, <2>2, <2>5, <3>1
  <2>6. CASE i = n + 1
    <3>1. v = m /\ k = n + 1
      BY <1>2, <1>6, <2>6
    <3> QED
      BY <1>2, <1>4, <1>7, <2>1, <2>6, <3>1
  <2> QED
    BY <1>2, <2>3, <2>4, <2>5, <2>6
<1>9. Sums(p, more)
  BY <1>2, <1>4, <1>7, <1>8 DEF Sums, k
<1>10. \A i \in 2 .. k : Written(p, i) > 0
  <2> SUFFICES ASSUME NEW i \in 2 .. k PROVE Written(p, i) > 0
    OBVIOUS
  <2>1. CASE i <= n
    <3>1. i \in 1 .. n /\ Written(r, i) > 0 /\ Written(r, i) \in Nat
      BY <1>2, <1>3, <1>5, <2>1
    <3> QED
      BY <1>6, <3>1
  <2>2. CASE i = n + 1
    BY <1>2, <1>6, <2>2
  <2> QED
    BY <1>2, <2>1, <2>2
<1>11. p.head < Written(p, 1) \/ (p.head = 0 /\ Written(p, 1) = 0)
  BY <1>2, <1>3, <1>5, <1>6
<1>12. p.totalSize > 0
  BY <1>2
<1> QED
  BY <1>2, <1>9, <1>10, <1>11, <1>12 DEF RingFits, k

LEMMA Overwritten ==
    ASSUME NEW c \in Chunks, NEW at \in Nat, NEW data \in Seq(Nat)
    PROVE  Overwrite(c, at, data) \in Chunks /\ Len(Overwrite(c, at, data)) = Len(c)
<1> DEFINE d == Overwrite(c, at, data)
<1>1. Len(c) \in Nat /\ DOMAIN c = 1 .. Len(c) /\ \A i \in 1 .. Len(c) : c[i] \in Nat
  BY DEF Chunks
<1>2. DOMAIN d = 1 .. Len(c) /\ \A i \in 1 .. Len(c) : d[i] \in Nat
  BY <1>1 DEF Overwrite
<1>3. d = [i \in 1 .. Len(c) |-> d[i]]
  BY <1>1 DEF Overwrite
<1> HIDE DEF d
<1>4. d \in Seq(Nat) /\ Len(d) = Len(c)
  BY <1>1, <1>2, <1>3
<1> QED
  BY <1>4 DEF d, Chunks

LEMMA Chunking ==
    ASSUME NEW k \in Nat
    PROVE  Chunk(k) \in Chunks /\ Len(Chunk(k)) = k
BY DEF Chunk, Chunks, Junk

LEMMA Changed ==
    ASSUME NEW B, NEW r \in [buffers : B, head : Nat, tail : Nat, totalSize : Nat],
           NEW b \in B, NEW h \in Nat, NEW t \in Nat, NEW k \in Nat
    PROVE  LET p == [r EXCEPT !.buffers = b, !.tail = t, !.totalSize = k]
               q == [r EXCEPT !.buffers = b, !.head = h, !.totalSize = k]
               s == [r EXCEPT !.head = h, !.totalSize = k]
               Type == [buffers : B, head : Nat, tail : Nat, totalSize : Nat]
           IN  /\ p \in Type /\ p.buffers = b /\ p.tail = t
               /\ p.head = r.head /\ p.totalSize = k
               /\ q \in Type /\ q.buffers = b /\ q.tail = r.tail
               /\ q.head = h /\ q.totalSize = k
               /\ s \in Type /\ s.buffers = r.buffers /\ s.tail = r.tail
               /\ s.head = h /\ s.totalSize = k
OBVIOUS

LEMMA MaxOfTwo ==
    ASSUME NEW a \in Nat, NEW b \in Nat
    PROVE  Max({a, b}) \in Nat /\ Max({a, b}) >= a /\ Max({a, b}) >= b
<1>1. \E x \in {a, b} : \A y \in {a, b} : x >= y
  <2>1. a >= b \/ b >= a
    OBVIOUS
  <2> QED
    BY <2>1
<1> QED
  BY <1>1 DEF Max

LEMMA MinOfTwoOn ==
    ASSUME NEW n \in Nat, n >= 2
    PROVE  Min(2 .. n) = 2
<1>1. 2 \in 2 .. n /\ \A y \in 2 .. n : 2 <= y
  OBVIOUS
<1>2. \A x \in 2 .. n : (\A y \in 2 .. n : x <= y) => x = 2
  OBVIOUS
<1> QED
  BY <1>1, <1>2 DEF Min

(* free() for what the first chunk still holds.                            *)
LEMMA FreeFits ==
    ASSUME NEW r, RingFits(r), NEW k \in Nat, k <= readSize(r)
    PROVE  RingFits(Free(r, k))
<1> DEFINE n == Len(r.buffers)
           w == Written(r, 1)
           p == Free(r, k)
           filled == {i \in 2 .. n : Written(r, i) > 0}
<1>1. PICK left : Sums(r, left)
  BY DEF RingFits
<1>2. /\ n \in Nat /\ n >= 1 /\ r \in Rings /\ r.buffers \in Seq(Chunks)
      /\ r.head \in Nat /\ r.tail \in Nat /\ r.totalSize \in Nat
      /\ r.tail <= Len(r.buffers[n])
  BY DEF RingFits, Rings
<1>3. w \in Nat /\ readSize(r) = w - r.head /\ readSize(r) \in Nat
      /\ readSize(r) <= r.totalSize /\ (readSize(r) = r.totalSize <=> n = 1)
  BY <1>2, CountsRight, WrittenType DEF readSize
<1>4. /\ left \in [1 .. n + 1 -> Nat] /\ left[n + 1] = 0
      /\ \A i \in 1 .. n : left[i] = Written(r, i) + left[i + 1]
      /\ r.totalSize = left[1] - r.head
  BY <1>1 DEF Sums
<1>5. \A i \in 2 .. n : Written(r, i) > 0 /\ Written(r, i) \in Nat
  <2>1. \A i \in 2 .. n : i \in 1 .. n
    BY <1>2
  <2> QED
    BY <2>1, WrittenType DEF RingFits
<1>6. filled = 2 .. n
  BY <1>5
<1>7. CASE k < readSize(r)
  <2> DEFINE h == r.head + k
             t == r.totalSize - k
  <2>1. p = [r EXCEPT !.head = h, !.totalSize = t]
    BY <1>7 DEF Free
  <2>2. h \in Nat /\ t \in Nat
    <3>1. k <= r.totalSize
      BY <1>2, <1>3, <1>7
    <3> QED
      BY <1>2, <3>1
  <2>3. /\ p \in Rings /\ p.buffers = r.buffers /\ p.tail = r.tail /\ p.head = h
        /\ p.totalSize = t
    <3> DEFINE B == Seq(Chunks)
    <3>1. r \in [buffers : B, head : Nat, tail : Nat, totalSize : Nat] /\ r.buffers \in B
      BY <1>2 DEF Rings
    <3> HIDE DEF B, h, t, p
    <3>2. /\ p \in [buffers : B, head : Nat, tail : Nat, totalSize : Nat]
          /\ p.buffers = r.buffers /\ p.tail = r.tail /\ p.head = h /\ p.totalSize = t
      BY <2>1, <2>2, <3>1, Changed
    <3> QED
      BY <3>2 DEF B, Rings
  <2> HIDE DEF p
  <2>4. \A i \in 1 .. n : Written(p, i) = Written(r, i)
    BY <2>3 DEF Written
  <2>5. Sums(p, left)
    <3>1. Len(p.buffers) = n /\ p.totalSize = left[1] - p.head
      <4>1. left[1] \in Nat
        BY <1>2, <1>4
      <4> QED
        BY <1>2, <1>4, <2>3, <4>1
    <3>2. \A i \in 1 .. n : left[i] = Written(p, i) + left[i + 1]
      BY <1>4, <2>4
    <3> HIDE DEF n
    <3> QED
      BY <1>4, <3>1, <3>2 DEF Sums
  <2>6. p.head < Written(p, 1)
    BY <1>2, <1>3, <1>7, <2>3, <2>4
  <2>7. \A i \in 2 .. Len(p.buffers) : Written(p, i) > 0
    BY <1>2, <1>5, <2>3, <2>4
  <2> QED
    BY <1>2, <2>3, <2>5, <2>6, <2>7 DEF RingFits, p
<1>8. CASE k = readSize(r) /\ n = 1
  <2>1. filled = {} /\ ~(k < readSize(r))
    BY <1>3, <1>6, <1>8
  <2>2. p = Reset(r, k)
    BY <2>1 DEF Free
  <2>3. r.totalSize - k = 0
    BY <1>2, <1>3, <1>8
  <2>4. p = Cleared
    BY <2>2, <2>3 DEF Reset, Cleared
  <2> QED
    BY <2>4, ClearedFits
<1>9. CASE k = readSize(r) /\ n > 1
  <2> DEFINE bufs == SubSeq(r.buffers, 2, n)
             t == r.totalSize - k
             rest == [i \in 1 .. n |-> left[i + 1]]
  <2>1. filled # {} /\ ~(k < readSize(r)) /\ Min(filled) = 2
    <3>1. 2 \in 2 .. n /\ n >= 2
      BY <1>2, <1>9
    <3>2. Min(filled) = 2
      BY <1>2, <1>6, <3>1, MinOfTwoOn
    <3>3. ~(k < readSize(r))
      BY <1>3, <1>9
    <3> HIDE DEF filled
    <3> QED
      BY <1>6, <3>1, <3>2, <3>3
  <2>2. p = [r EXCEPT !.buffers = bufs, !.head = 0, !.totalSize = t]
    BY <2>1 DEF Free
  <2>3. t \in Nat /\ 0 \in Nat
    BY <1>2, <1>3, <1>9
  <2>4. /\ bufs \in Seq(Chunks) /\ Len(bufs) = n - 1
        /\ \A i \in 1 .. n - 1 : bufs[i] = r.buffers[i + 1]
    <3> DEFINE b == r.buffers
    <3>1. b \in Seq(Chunks) /\ Len(b) = n /\ \A i \in 2 .. n : b[i] \in Chunks
      BY <1>2
    <3>2. bufs = SubSeq(b, 2, n)
      OBVIOUS
    <3> HIDE DEF b, n, bufs
    <3>3. /\ bufs \in Seq(Chunks) /\ Len(bufs) = n - 1
          /\ \A i \in 1 .. n - 1 : bufs[i] = b[2 + i - 1]
      BY <1>2, <1>9, <3>1, <3>2, SubSeqProperties
    <3>4. \A i \in 1 .. n - 1 : 2 + i - 1 = i + 1
      BY <1>2
    <3> QED
      BY <3>3, <3>4 DEF b
  <2>5. /\ p \in Rings /\ p.buffers = bufs /\ p.tail = r.tail /\ p.head = 0
        /\ p.totalSize = t
    <3> DEFINE B == Seq(Chunks)
    <3>1. r \in [buffers : B, head : Nat, tail : Nat, totalSize : Nat] /\ bufs \in B
      BY <1>2, <2>4 DEF Rings
    <3> HIDE DEF B, t, p, bufs
    <3>2. /\ p \in [buffers : B, head : Nat, tail : Nat, totalSize : Nat]
          /\ p.buffers = bufs /\ p.tail = r.tail /\ p.head = 0 /\ p.totalSize = t
      BY <1>2, <2>2, <2>3, <3>1, Changed
    <3> QED
      BY <3>2 DEF B, Rings
  <2> HIDE DEF p, bufs
  <2>6. \A i \in 1 .. n - 1 : Written(p, i) = Written(r, i + 1)
    <3> SUFFICES ASSUME NEW i \in 1 .. n - 1 PROVE Written(p, i) = Written(r, i + 1)
      OBVIOUS
    <3>1. i \in Nat /\ (i = n - 1 <=> i + 1 = n)
      BY <1>2
    <3>2. Len(p.buffers) = n - 1 /\ p.buffers[i] = r.buffers[i + 1] /\ p.tail = r.tail
      BY <2>4, <2>5
    <3> QED
      BY <3>1, <3>2 DEF Written
  <2>7. /\ rest \in [1 .. n -> Nat] /\ rest[n] = 0
        /\ \A i \in 1 .. n - 1 : rest[i] = left[i + 1] /\ rest[i + 1] = left[i + 2]
    BY <1>2, <1>4
  <2>8. \A i \in 1 .. n - 1 : rest[i] = Written(p, i) + rest[i + 1]
    <3> SUFFICES ASSUME NEW i \in 1 .. n - 1 PROVE rest[i] = Written(p, i) + rest[i + 1]
      OBVIOUS
    <3>1. i + 1 \in 1 .. n /\ (i + 1) + 1 = i + 2
      BY <1>2
    <3>2. left[i + 1] = Written(r, i + 1) + left[i + 2]
      BY <1>4, <3>1
    <3> QED
      BY <2>6, <2>7, <3>2
  <2>9. t = rest[1]
    <3>1. left[1] = w + left[2] /\ left[2] \in Nat /\ rest[1] = left[2]
      BY <1>2, <1>4, <1>9, <2>7
    <3> QED
      BY <1>2, <1>3, <1>4, <1>9, <3>1
  <2> HIDE DEF rest, t
  <2>10. Sums(p, rest)
    <3>1. Len(p.buffers) = n - 1 /\ (n - 1) + 1 = n
      BY <1>2, <2>4, <2>5
    <3>2. p.totalSize = rest[1] - p.head
      BY <2>3, <2>5, <2>9
    <3> HIDE DEF n
    <3> QED
      BY <2>7, <2>8, <3>1, <3>2 DEF Sums
  <2>11. Written(p, 1) > 0
    BY <1>2, <1>5, <1>9, <2>6
  <2>12. \A i \in 2 .. Len(p.buffers) : Written(p, i) > 0
    <3> SUFFICES ASSUME NEW i \in 2 .. n - 1 PROVE Written(p, i) > 0
      BY <2>4, <2>5
    <3>1. i \in 1 .. n - 1 /\ i + 1 \in 2 .. n
      BY <1>2
    <3> QED
      BY <1>5, <2>6, <3>1
  <2>13. Len(p.buffers) >= 1 /\ p.tail <= Len(p.buffers[Len(p.buffers)])
    <3>1. n - 1 \in 1 .. n - 1 /\ (n - 1) + 1 = n
      BY <1>2, <1>9
    <3>2. bufs[n - 1] = r.buffers[n]
      BY <2>4, <3>1
    <3> QED
      BY <1>2, <2>4, <2>5, <3>1, <3>2
  <2> QED
    BY <2>5, <2>10, <2>11, <2>12, <2>13 DEF RingFits, p
<1> HIDE DEF n, w, p, filled
<1>10. k < readSize(r) \/ (k = readSize(r) /\ n = 1) \/ (k = readSize(r) /\ n > 1)
  BY <1>2, <1>3
<1> QED
  BY <1>7, <1>8, <1>9, <1>10

-----------------------------------------------------------------------------
(* A set of naturals that holds 0 and the successors of its elements holds *)
(* every natural: the induction over the chunks of a queue.                *)
LEMMA Successively ==
  ASSUME NEW S, 0 \in S, \A n \in Nat : n \in S => n + 1 \in S
  PROVE  Nat \subseteq S
<1> DEFINE T == Nat \ S
           R == OpToRel(<, Nat)
<1> SUFFICES ASSUME T # {} PROVE FALSE
  OBVIOUS
<1>1. IsWellFoundedOn(R, Nat)
  BY NatLessThanWellFounded
<1>2. \A k, y \in Nat : <<y, k>> \in R <=> y < k
  BY DEF OpToRel
<1> HIDE DEF R
<1>3. PICK k \in T : \A y \in T : ~(<<y, k>> \in R)
  BY <1>1, WFMin
<1>4. \A y \in T : ~(y < k)
  BY <1>2, <1>3
<1>5. k # 0 /\ k - 1 \in Nat /\ k - 1 < k /\ k = (k - 1) + 1
  BY <1>3
<1> QED
  BY <1>3, <1>4, <1>5

(* Chunks joined one after the other: f[i] is what the first i hold.       *)
JoinsTo(m, seqs, f) ==
    /\ f \in [1 .. m -> Chunks]
    /\ f[1] = seqs[1]
    /\ \A i \in 2 .. m : f[i] = f[i - 1] \o seqs[i]
Joins(seqs, f) == JoinsTo(Len(seqs), seqs, f)

LEMMA Joined ==
  ASSUME NEW a \in Chunks, NEW b \in Chunks
  PROVE  /\ a \o b \in Chunks /\ Len(a \o b) = Len(a) + Len(b)
         /\ \A i \in 1 .. Len(a) + Len(b) :
              (a \o b)[i] = IF i <= Len(a) THEN a[i] ELSE b[i - Len(a)]
BY ConcatProperties DEF Chunks

LEMMA Associates ==
  ASSUME NEW a \in Chunks, NEW b \in Chunks, NEW c \in Chunks
  PROVE  (a \o b) \o c = a \o (b \o c)
BY ConcatAssociative DEF Chunks

LEMMA JoinExists ==
  ASSUME NEW seqs \in Seq(Chunks), Len(seqs) >= 1
  PROVE  \E f : Joins(seqs, f)
<1> DEFINE n == Len(seqs)
           S == {k \in Nat : k + 1 <= n => \E f : JoinsTo(k + 1, seqs, f)}
<1>s. n \in Nat /\ n >= 1 /\ \A i \in 1 .. n : seqs[i] \in Chunks
  OBVIOUS
<1>1. 0 \in S
  <2> DEFINE f == [i \in 1 .. 1 |-> seqs[1]]
  <2>1. seqs[1] \in Chunks
    BY <1>s
  <2>2. f \in [1 .. 1 -> Chunks] /\ f[1] = seqs[1]
    BY <2>1
  <2> HIDE DEF f
  <2>3. JoinsTo(1, seqs, f)
    BY <2>2 DEF JoinsTo
  <2>4. 0 + 1 = 1
    OBVIOUS
  <2> QED
    BY <2>3, <2>4
<1>2. ASSUME NEW k \in Nat, k \in S PROVE k + 1 \in S
  <2> SUFFICES ASSUME k + 2 <= n PROVE \E f : JoinsTo(k + 2, seqs, f)
    <3>1. k + 1 + 1 = k + 2
      OBVIOUS
    <3> QED
      BY <3>1
  <2> HIDE DEF n
  <2>0. k + 1 <= n /\ k + 1 \in 1 .. n /\ k + 2 \in 1 .. n
    BY <1>s
  <2>1. PICK f : JoinsTo(k + 1, seqs, f)
    BY <1>2, <2>0
  <2>2. /\ f \in [1 .. k + 1 -> Chunks] /\ f[1] = seqs[1]
        /\ \A i \in 2 .. k + 1 : f[i] = f[i - 1] \o seqs[i]
    BY <2>1 DEF JoinsTo
  <2> DEFINE e == f[k + 1] \o seqs[k + 2]
             h == [i \in 1 .. k + 2 |-> IF i = k + 2 THEN e ELSE f[i]]
  <2>3. e \in Chunks
    <3>1. f[k + 1] \in Chunks /\ seqs[k + 2] \in Chunks
      BY <1>s, <2>0, <2>2
    <3> QED
      BY <3>1, Joined
  <2> HIDE DEF e
  <2>4. /\ h \in [1 .. k + 2 -> Chunks] /\ h[k + 2] = e
        /\ \A i \in 1 .. k + 1 : h[i] = f[i]
    BY <2>2, <2>3
  <2> HIDE DEF h
  <2>5. ASSUME NEW i \in 2 .. k + 2 PROVE h[i] = h[i - 1] \o seqs[i]
    <3>1. CASE i = k + 2
      <4>1. h[i] = e /\ h[i - 1] = f[k + 1]
        BY <2>4, <3>1
      <4> QED
        BY <3>1, <4>1 DEF e
    <3>2. CASE i \in 2 .. k + 1
      <4>1. h[i] = f[i] /\ h[i - 1] = f[i - 1]
        BY <2>4, <3>2
      <4> QED
        BY <2>2, <3>2, <4>1
    <3>3. i = k + 2 \/ i \in 2 .. k + 1
      OBVIOUS
    <3> QED
      BY <3>1, <3>2, <3>3
  <2>6. h[1] = seqs[1]
    BY <2>2, <2>4
  <2> QED
    BY <2>4, <2>5, <2>6 DEF JoinsTo
<1>3. n - 1 \in S
  <2> HIDE DEF S
  <2>1. Nat \subseteq S
    BY <1>1, <1>2, Successively
  <2> QED
    BY <1>s, <2>1
<1>4. (n - 1) + 1 = n
  BY <1>s
<1> HIDE DEF n
<1>5. \E f : JoinsTo(n, seqs, f)
  BY <1>3, <1>4, <1>s
<1> QED
  BY <1>5 DEF n, Joins

LEMMA JoinIs ==
  ASSUME NEW seqs \in Seq(Chunks), Len(seqs) >= 1, NEW f, Joins(seqs, f)
  PROVE  FlattenSeq(seqs) = f[Len(seqs)]
<1> DEFINE n == Len(seqs)
           Solves(h) == h = [i \in 1 .. n |-> IF i = 1 THEN seqs[i] ELSE h[i - 1] \o seqs[i]]
           g == CHOOSE h : Solves(h)
<1>s. n \in Nat /\ n >= 1
  OBVIOUS
<1>1. Solves(f)
  <2>1. f \in [1 .. n -> Chunks] /\ f[1] = seqs[1] /\ \A i \in 2 .. n : f[i] = f[i - 1] \o seqs[i]
    BY DEF Joins, JoinsTo
  <2>2. \A i \in 1 .. n : i = 1 \/ i \in 2 .. n
    OBVIOUS
  <2>3. \A i \in 1 .. n : f[i] = IF i = 1 THEN seqs[i] ELSE f[i - 1] \o seqs[i]
    BY <2>1, <2>2
  <2> HIDE DEF n
  <2> QED
    BY <2>1, <2>3
<1>2. Solves(g)
  BY <1>1
<1>3. FlattenSeq(seqs) = g[n]
  BY <1>s DEF FlattenSeq
<1> HIDE DEF g
<1>4. /\ g[1] = seqs[1] /\ \A i \in 2 .. n : g[i] = g[i - 1] \o seqs[i]
      /\ f[1] = seqs[1] /\ \A i \in 2 .. n : f[i] = f[i - 1] \o seqs[i]
  <2>1. \A i \in 1 .. n : g[i] = IF i = 1 THEN seqs[i] ELSE g[i - 1] \o seqs[i]
    BY <1>2
  <2>2. \A i \in 2 .. n : i \in 1 .. n /\ i # 1
    OBVIOUS
  <2>3. 1 \in 1 .. n
    BY <1>s
  <2> HIDE DEF n, Solves
  <2> QED
    BY <2>1, <2>2, <2>3 DEF Joins, JoinsTo, n
<1> DEFINE S == {k \in Nat : k + 1 <= n => g[k + 1] = f[k + 1]}
<1> HIDE DEF n, Solves
<1>5. 0 \in S
  BY <1>4
<1>6. ASSUME NEW k \in Nat, k \in S PROVE k + 1 \in S
  <2> SUFFICES ASSUME k + 1 + 1 <= n PROVE g[k + 1 + 1] = f[k + 1 + 1]
    OBVIOUS
  <2>1. g[k + 1] = f[k + 1]
    BY <1>6, <1>s
  <2>2. k + 1 + 1 \in 2 .. n /\ (k + 1 + 1) - 1 = k + 1
    BY <1>s
  <2> QED
    BY <1>4, <2>1, <2>2
<1> HIDE DEF S
<1>7. n - 1 \in S
  BY <1>s, <1>5, <1>6, Successively
<1>8. g[n] = f[n]
  BY <1>s, <1>7 DEF S
<1> QED
  BY <1>3, <1>8 DEF n

(* Where the last chunk grows, where there is a chunk more, where the      *)
(* first loses some of its bytes, and where it goes as a whole.            *)
Mostly(n, s, t, i, c) ==
    /\ s \in Seq(Chunks) /\ t \in Seq(Chunks)
    /\ Len(s) = n /\ Len(t) = n /\ i \in 1 .. n
    /\ t[i] = c /\ \A j \in 1 .. n : j # i => t[j] = s[j]
GrowsLast(n, s, t, d) == Mostly(n, s, t, n, s[n] \o d)

LEMMA LastGrows ==
  ASSUME NEW n, NEW s, NEW t, NEW d \in Chunks, GrowsLast(n, s, t, d)
  PROVE  FlattenSeq(s) \in Chunks /\ FlattenSeq(t) = FlattenSeq(s) \o d
<1>s. /\ s \in Seq(Chunks) /\ t \in Seq(Chunks) /\ n \in Nat /\ n >= 1
      /\ Len(s) = n /\ Len(t) = n
      /\ t[n] = s[n] \o d /\ \A j \in 1 .. n : j # n => t[j] = s[j]
      /\ \A j \in 1 .. n : s[j] \in Chunks
  BY DEF GrowsLast, Mostly
<1>1. PICK f : Joins(s, f)
  BY <1>s, JoinExists
<1>2. /\ f \in [1 .. n -> Chunks] /\ f[1] = s[1]
      /\ \A i \in 2 .. n : f[i] = f[i - 1] \o s[i]
  BY <1>1, <1>s DEF Joins, JoinsTo
<1> DEFINE e == f[n] \o d
           h == [i \in 1 .. n |-> IF i = n THEN e ELSE f[i]]
<1>3. e \in Chunks /\ f[n] \in Chunks
  <2>1. f[n] \in Chunks
    BY <1>s, <1>2
  <2> QED
    BY <2>1, Joined
<1>4. /\ h \in [1 .. n -> Chunks] /\ h[n] = e
      /\ \A i \in 1 .. n : i # n => h[i] = f[i]
  <2> HIDE DEF e
  <2> QED
    BY <1>s, <1>2, <1>3
<1> HIDE DEF h, e
<1>5. h[1] = t[1]
  <2>1. CASE n = 1
    <3>1. f[1] = s[1] /\ h[1] = e /\ t[1] = s[1] \o d
      BY <1>s, <1>2, <1>4, <2>1
    <3> QED
      BY <2>1, <3>1 DEF e
  <2>2. CASE n # 1
    <3>1. 1 \in 1 .. n
      BY <1>s
    <3> QED
      BY <1>s, <1>2, <1>4, <2>2, <3>1
  <2> QED
    BY <2>1, <2>2
<1>6. ASSUME NEW i \in 2 .. n PROVE h[i] = h[i - 1] \o t[i]
  <2>1. i - 1 \in 1 .. n /\ i - 1 # n /\ i \in 1 .. n
    BY <1>s
  <2>2. h[i - 1] = f[i - 1] /\ f[i - 1] \in Chunks /\ s[i] \in Chunks
    BY <1>s, <1>2, <1>4, <2>1
  <2>3. CASE i = n
    <3>1. h[n] = (f[n - 1] \o s[n]) \o d
      <4>1. h[n] = f[n] \o d
        BY <1>4 DEF e
      <4>2. f[n] = f[n - 1] \o s[n]
        BY <1>2, <2>3
      <4> HIDE DEF e
      <4> QED
        BY <4>1, <4>2, Zenon
    <3>a. f[n - 1] \in Chunks /\ s[n] \in Chunks
      BY <2>2, <2>3
    <3>2. (f[n - 1] \o s[n]) \o d = f[n - 1] \o (s[n] \o d)
      BY <3>a, Associates
    <3>3. h[n - 1] = f[n - 1] /\ t[n] = s[n] \o d
      BY <1>s, <2>2, <2>3
    <3>4. h[n] = h[n - 1] \o t[n]
      BY <3>1, <3>2, <3>3
    <3> QED
      BY <2>3, <3>4
  <2>4. CASE i # n
    BY <1>s, <1>2, <1>4, <2>1, <2>2, <2>4
  <2> QED
    BY <2>3, <2>4
<1>7. Joins(t, h)
  BY <1>s, <1>4, <1>5, <1>6 DEF Joins, JoinsTo
<1>8. FlattenSeq(t) = h[n] /\ FlattenSeq(s) = f[n]
  BY <1>1, <1>7, <1>s, JoinIs
<1> QED
  BY <1>3, <1>4, <1>8 DEF e

LEMMA OneMore ==
  ASSUME NEW s \in Seq(Chunks), Len(s) >= 1, NEW d \in Chunks,
         NEW t \in Seq(Chunks), Len(t) = Len(s) + 1, t[Len(s) + 1] = d,
         \A j \in 1 .. Len(s) : t[j] = s[j]
  PROVE  FlattenSeq(s) \in Chunks /\ FlattenSeq(t) = FlattenSeq(s) \o d
<1> DEFINE n == Len(s)
<1>s. n \in Nat /\ n >= 1 /\ Len(t) = n + 1 /\ t[n + 1] = d /\ \A j \in 1 .. n : t[j] = s[j]
  OBVIOUS
<1>1. PICK f : Joins(t, f)
  BY <1>s, JoinExists
<1> HIDE DEF n
<1>2. /\ f \in [1 .. n + 1 -> Chunks] /\ f[1] = t[1]
      /\ \A i \in 2 .. n + 1 : f[i] = f[i - 1] \o t[i]
  BY <1>1, <1>s DEF Joins, JoinsTo
<1> DEFINE h == [i \in 1 .. n |-> f[i]]
<1>3. h \in [1 .. n -> Chunks] /\ \A i \in 1 .. n : h[i] = f[i]
  BY <1>s, <1>2
<1> HIDE DEF h
<1>4. h[1] = s[1]
  BY <1>s, <1>2, <1>3
<1>5. ASSUME NEW i \in 2 .. n PROVE h[i] = h[i - 1] \o s[i]
  <2>1. i \in 1 .. n /\ i - 1 \in 1 .. n /\ i \in 2 .. n + 1
    BY <1>s
  <2> QED
    BY <1>s, <1>2, <1>3, <2>1
<1>6. Joins(s, h)
  BY <1>3, <1>4, <1>5 DEF Joins, JoinsTo, n
<1>7. FlattenSeq(s) = h[n] /\ FlattenSeq(t) = f[n + 1]
  <2>1. FlattenSeq(s) = h[n]
    BY <1>6, JoinIs DEF n
  <2>2. Len(t) >= 1
    BY <1>s
  <2> QED
    BY <1>1, <1>s, <2>1, <2>2, JoinIs
<1>8. f[n + 1] = f[n] \o d /\ h[n] = f[n] /\ f[n] \in Chunks
  <2>1. n + 1 \in 2 .. n + 1 /\ (n + 1) - 1 = n /\ n \in 1 .. n /\ n \in 1 .. n + 1
    BY <1>s
  <2> QED
    BY <1>s, <1>2, <1>3, <2>1
<1> QED
  BY <1>7, <1>8

Rest(a, k) == SubSeq(a, k + 1, Len(a))

LEMMA RestIs ==
  ASSUME NEW a \in Chunks, NEW k \in Nat, k <= Len(a)
  PROVE  /\ Rest(a, k) \in Chunks /\ Len(Rest(a, k)) = Len(a) - k
         /\ \A i \in 1 .. Len(a) - k : Rest(a, k)[i] = a[k + i]
<1> DEFINE n == Len(a)
           t == SubSeq(a, k + 1, n)
<1>1. n \in Nat /\ \A i \in k + 1 .. n : a[i] \in Nat
  BY DEF Chunks
<1> HIDE DEF n
<1>2. k + 1 \in Int /\ n \in Int
  BY <1>1
<1>3. /\ t \in Seq(Nat)
      /\ Len(t) = IF k + 1 <= n THEN n - (k + 1) + 1 ELSE 0
      /\ \A i \in 1 .. n - (k + 1) + 1 : t[i] = a[(k + 1) + i - 1]
  BY <1>1, <1>2, SubSeqProperties
<1>4. k <= n
  BY DEF n
<1> HIDE DEF t
<1>5. Len(t) = n - k /\ \A i \in 1 .. n - k : t[i] = a[k + i]
  <2>1. n - (k + 1) + 1 = n - k /\ \A i \in 1 .. n - k : (k + 1) + i - 1 = k + i
    BY <1>1
  <2> QED
    BY <1>1, <1>3, <1>4, <2>1
<1> QED
  BY <1>3, <1>5 DEF n, t, Rest, Chunks

LEMMA RestOfJoin ==
  ASSUME NEW a \in Chunks, NEW b \in Chunks, NEW k \in Nat, k <= Len(a)
  PROVE  Rest(a \o b, k) = Rest(a, k) \o b
<1> DEFINE c == a \o b
           u == Rest(c, k)
           v == Rest(a, k)
           w == v \o b
<1>1. /\ Len(a) \in Nat /\ Len(b) \in Nat /\ c \in Chunks /\ Len(c) = Len(a) + Len(b)
      /\ \A i \in 1 .. Len(a) + Len(b) : c[i] = IF i <= Len(a) THEN a[i] ELSE b[i - Len(a)]
  BY ConcatProperties DEF Chunks
<1> HIDE DEF c
<1>2. k <= Len(c)
  BY <1>1
<1>3. /\ u \in Chunks /\ Len(u) = Len(c) - k /\ \A i \in 1 .. Len(c) - k : u[i] = c[k + i]
      /\ v \in Chunks /\ Len(v) = Len(a) - k /\ \A i \in 1 .. Len(a) - k : v[i] = a[k + i]
  BY <1>1, <1>2, RestIs
<1> HIDE DEF u, v
<1>4. /\ w \in Chunks /\ Len(w) = Len(v) + Len(b)
      /\ \A i \in 1 .. Len(v) + Len(b) : w[i] = IF i <= Len(v) THEN v[i] ELSE b[i - Len(v)]
  BY <1>3, Joined
<1> HIDE DEF w
<1>5. Len(u) = Len(w) /\ Len(u) = Len(a) - k + Len(b)
  BY <1>1, <1>3, <1>4
<1>6. ASSUME NEW i \in 1 .. Len(u) PROVE u[i] = w[i]
  <2>1. i \in 1 .. Len(c) - k /\ k + i \in 1 .. Len(a) + Len(b) /\ i \in 1 .. Len(v) + Len(b)
    BY <1>1, <1>3, <1>5
  <2>2. u[i] = IF k + i <= Len(a) THEN a[k + i] ELSE b[k + i - Len(a)]
    BY <1>1, <1>3, <2>1
  <2>3. w[i] = IF i <= Len(v) THEN v[i] ELSE b[i - Len(v)]
    BY <1>4, <2>1
  <2>4. CASE k + i <= Len(a)
    <3>1. i <= Len(v) /\ i \in 1 .. Len(a) - k
      BY <1>1, <1>3, <2>4
    <3> QED
      BY <1>3, <2>2, <2>3, <2>4, <3>1
  <2>5. CASE ~(k + i <= Len(a))
    <3>1. ~(i <= Len(v)) /\ k + i - Len(a) = i - Len(v)
      BY <1>1, <1>3, <2>5
    <3> QED
      BY <2>2, <2>3, <2>5, <3>1
  <2> QED
    BY <2>4, <2>5
<1>7. u = w
  BY <1>3, <1>4, <1>5, <1>6, SeqEqual DEF Chunks
<1> QED
  BY <1>7 DEF c, u, v, w

(* No chunk takes anything away from those before it.                      *)
LEMMA JoinsGrow ==
  ASSUME NEW s \in Seq(Chunks), Len(s) >= 1, NEW f, Joins(s, f)
  PROVE  \A i \in 1 .. Len(s) : Len(s[1]) <= Len(f[i])
<1> DEFINE n == Len(s)
<1>s. /\ n \in Nat /\ f \in [1 .. n -> Chunks] /\ f[1] = s[1]
      /\ \A i \in 2 .. n : f[i] = f[i - 1] \o s[i]
      /\ \A i \in 1 .. n : s[i] \in Chunks
  <2>1. \A i \in 1 .. n : s[i] \in Chunks
    OBVIOUS
  <2>2. n \in Nat
    OBVIOUS
  <2> HIDE DEF n
  <2> QED
    BY <2>1, <2>2 DEF Joins, JoinsTo, n
<1>1. \A i \in 1 .. n : Len(f[i]) \in Nat /\ Len(s[i]) \in Nat
  BY <1>s DEF Chunks
<1> DEFINE S == {j \in Nat : j + 1 <= n => Len(s[1]) <= Len(f[j + 1])}
<1> HIDE DEF n
<1>2. 0 \in S
  BY <1>s, <1>1
<1>3. ASSUME NEW j \in Nat, j \in S PROVE j + 1 \in S
  <2> SUFFICES ASSUME j + 1 + 1 <= n PROVE Len(s[1]) <= Len(f[j + 1 + 1])
    OBVIOUS
  <2>1. /\ j + 1 + 1 \in 2 .. n /\ j + 1 + 1 \in 1 .. n /\ (j + 1 + 1) - 1 = j + 1
        /\ j + 1 \in 1 .. n /\ 1 \in 1 .. n
    BY <1>s
  <2>2. Len(s[1]) <= Len(f[j + 1])
    BY <1>3, <2>1
  <2>3. f[j + 1 + 1] = f[j + 1] \o s[j + 1 + 1]
    BY <1>s, <2>1
  <2>4. Len(f[j + 1 + 1]) = Len(f[j + 1]) + Len(s[j + 1 + 1])
    <3>1. f[j + 1] \in Chunks /\ s[j + 1 + 1] \in Chunks
      BY <1>s, <2>1
    <3> QED
      BY <2>3, <3>1, Joined
  <2>5. /\ Len(s[1]) \in Nat /\ Len(f[j + 1]) \in Nat
        /\ Len(s[j + 1 + 1]) \in Nat
    BY <1>1, <2>1
  <2> DEFINE x == Len(s[1])
             y == Len(f[j + 1])
             z == Len(s[j + 1 + 1])
             w == Len(f[j + 1 + 1])
  <2>6. x \in Nat /\ y \in Nat /\ z \in Nat /\ x <= y /\ w = y + z
    BY <2>2, <2>4, <2>5
  <2> HIDE DEF S, x, y, z, w
  <2>7. x <= w
    BY <2>6
  <2> QED
    BY <2>7 DEF x, w
<1> HIDE DEF S
<1>4. Nat \subseteq S
  BY <1>2, <1>3, Successively
<1> SUFFICES ASSUME NEW i \in 1 .. n PROVE Len(s[1]) <= Len(f[i])
  BY DEF n
<1>5. i - 1 \in S /\ (i - 1) + 1 = i /\ (i - 1) + 1 <= n
  BY <1>4, <1>s
<1> QED
  BY <1>5 DEF S

LEMMA FirstShrinks ==
  ASSUME NEW n, NEW s, NEW t, NEW k \in Nat,
         Mostly(n, s, t, 1, Rest(s[1], k)), k <= Len(s[1])
  PROVE  /\ FlattenSeq(s) \in Chunks /\ k <= Len(FlattenSeq(s))
         /\ FlattenSeq(t) = Rest(FlattenSeq(s), k)
<1>s. /\ s \in Seq(Chunks) /\ t \in Seq(Chunks) /\ n \in Nat /\ n >= 1
      /\ Len(s) = n /\ Len(t) = n
      /\ t[1] = Rest(s[1], k) /\ \A j \in 1 .. n : j # 1 => t[j] = s[j]
  BY DEF Mostly
<1>t. \A j \in 1 .. n : s[j] \in Chunks
  BY <1>s
<1>1. PICK f : Joins(s, f)
  BY <1>s, JoinExists
<1>2. /\ f \in [1 .. n -> Chunks] /\ f[1] = s[1]
      /\ \A i \in 2 .. n : f[i] = f[i - 1] \o s[i]
  BY <1>1, <1>s DEF Joins, JoinsTo
<1>3. \A i \in 1 .. n : f[i] \in Chunks /\ Len(f[i]) \in Nat /\ k <= Len(f[i])
  <2> SUFFICES ASSUME NEW i \in 1 .. n
               PROVE  f[i] \in Chunks /\ Len(f[i]) \in Nat /\ k <= Len(f[i])
    OBVIOUS
  <2>1. f[i] \in Chunks /\ s[1] \in Chunks /\ Len(s[1]) <= Len(f[i])
    BY <1>1, <1>2, <1>s, <1>t, JoinsGrow
  <2>2. Len(f[i]) \in Nat /\ Len(s[1]) \in Nat
    BY <2>1 DEF Chunks
  <2> QED
    BY <2>1, <2>2
<1> DEFINE h == [i \in 1 .. n |-> Rest(f[i], k)]
<1>4. /\ h \in [1 .. n -> Chunks] /\ \A i \in 1 .. n : h[i] = Rest(f[i], k)
  <2>1. \A i \in 1 .. n : Rest(f[i], k) \in Chunks
    BY <1>3, RestIs
  <2> QED
    BY <2>1
<1> HIDE DEF h
<1>5. h[1] = t[1]
  BY <1>s, <1>2, <1>4
<1>6. ASSUME NEW i \in 2 .. n PROVE h[i] = h[i - 1] \o t[i]
  <2>1. i \in 1 .. n /\ i - 1 \in 1 .. n /\ i # 1
    BY <1>s
  <2>2. /\ h[i] = Rest(f[i], k) /\ h[i - 1] = Rest(f[i - 1], k) /\ t[i] = s[i]
        /\ f[i] = f[i - 1] \o s[i]
    BY <1>s, <1>2, <1>4, <2>1
  <2>3. f[i - 1] \in Chunks /\ s[i] \in Chunks /\ k <= Len(f[i - 1])
    BY <1>3, <1>t, <2>1
  <2>4. Rest(f[i - 1] \o s[i], k) = Rest(f[i - 1], k) \o s[i]
    BY <2>3, RestOfJoin
  <2> QED
    BY <2>2, <2>4
<1>7. Joins(t, h)
  BY <1>s, <1>4, <1>5, <1>6 DEF Joins, JoinsTo
<1>8. FlattenSeq(t) = h[n] /\ FlattenSeq(s) = f[n]
  BY <1>1, <1>7, <1>s, JoinIs
<1>9. n \in 1 .. n
  BY <1>s
<1> QED
  BY <1>3, <1>4, <1>8, <1>9

LEMMA FirstGoes ==
  ASSUME NEW s \in Seq(Chunks), Len(s) >= 2,
         NEW t \in Seq(Chunks), Len(t) = Len(s) - 1, \A i \in 1 .. Len(s) - 1 : t[i] = s[i + 1]
  PROVE  /\ FlattenSeq(s) \in Chunks /\ Len(s[1]) <= Len(FlattenSeq(s))
         /\ FlattenSeq(t) = Rest(FlattenSeq(s), Len(s[1]))
<1> DEFINE n == Len(s)
           k == Len(s[1])
<1>s. n \in Nat /\ n >= 2 /\ Len(t) = n - 1 /\ \A i \in 1 .. n - 1 : t[i] = s[i + 1]
  OBVIOUS
<1>t. \A j \in 1 .. n : s[j] \in Chunks
  OBVIOUS
<1>1. PICK f : Joins(s, f)
  BY <1>s, JoinExists
<1>0. n = Len(s) /\ k = Len(s[1])
  OBVIOUS
<1> HIDE DEF n, k
<1>2. /\ f \in [1 .. n -> Chunks] /\ f[1] = s[1]
      /\ \A i \in 2 .. n : f[i] = f[i - 1] \o s[i]
  BY <1>1, <1>0 DEF Joins, JoinsTo
<1>k. k \in Nat /\ s[1] \in Chunks
  <2>1. s[1] \in Chunks
    BY <1>t, <1>s
  <2> QED
    BY <1>0, <2>1 DEF Chunks
<1>3. \A i \in 1 .. n : f[i] \in Chunks /\ k <= Len(f[i])
  <2>1. \A i \in 1 .. n : k <= Len(f[i])
    BY <1>0, <1>1, <1>s, JoinsGrow
  <2> QED
    BY <1>2, <2>1
<1> DEFINE h == [i \in 1 .. n - 1 |-> Rest(f[i + 1], k)]
<1>4. /\ h \in [1 .. n - 1 -> Chunks] /\ \A i \in 1 .. n - 1 : h[i] = Rest(f[i + 1], k)
  <2>1. \A i \in 1 .. n - 1 : i + 1 \in 1 .. n
    BY <1>s
  <2>2. \A i \in 1 .. n - 1 : Rest(f[i + 1], k) \in Chunks
    BY <1>3, <1>k, <2>1, RestIs
  <2> QED
    BY <2>2
<1> HIDE DEF h
<1>5. \A i \in 2 .. n : Rest(f[i], k) = Rest(f[i - 1], k) \o s[i]
  <2> SUFFICES ASSUME NEW i \in 2 .. n PROVE Rest(f[i], k) = Rest(f[i - 1], k) \o s[i]
    OBVIOUS
  <2>1. i \in 1 .. n /\ i - 1 \in 1 .. n
    BY <1>s
  <2>2. f[i - 1] \in Chunks /\ s[i] \in Chunks /\ k <= Len(f[i - 1])
    BY <1>3, <1>t, <2>1
  <2>3. Rest(f[i - 1] \o s[i], k) = Rest(f[i - 1], k) \o s[i]
    BY <1>k, <2>2, RestOfJoin
  <2> QED
    BY <1>2, <2>3
<1>6. h[1] = t[1]
  <2>1. 2 \in 2 .. n /\ 2 \in 1 .. n /\ 1 \in 1 .. n - 1 /\ 2 - 1 = 1 /\ 1 + 1 = 2
    BY <1>s
  <2>2. Rest(f[2], k) = Rest(s[1], k) \o s[2]
    BY <1>2, <1>5, <2>1
  <2>3. Rest(s[1], k) = <<>>
    <3>1. Rest(s[1], k) \in Chunks /\ Len(Rest(s[1], k)) = Len(s[1]) - k
      <4>1. k <= Len(s[1])
        BY <1>0, <1>k
      <4> QED
        BY <1>k, <4>1, RestIs
    <3>2. Len(Rest(s[1], k)) = 0
      BY <1>0, <1>k, <3>1
    <3> QED
      BY <3>1, <3>2, EmptySeq DEF Chunks
  <2>4. s[2] \in Chunks
    BY <1>t, <2>1
  <2>5. <<>> \o s[2] = s[2]
    BY <2>4, ConcatEmptySeq DEF Chunks
  <2>6. h[1] = Rest(f[2], k) /\ t[1] = s[2]
    BY <1>s, <1>4, <2>1
  <2> QED
    BY <2>2, <2>3, <2>5, <2>6
<1>7. ASSUME NEW i \in 2 .. n - 1 PROVE h[i] = h[i - 1] \o t[i]
  <2>1. /\ i + 1 \in 2 .. n /\ i \in 1 .. n - 1 /\ i - 1 \in 1 .. n - 1
        /\ (i - 1) + 1 = i /\ (i + 1) - 1 = i
    BY <1>s
  <2>2. h[i] = Rest(f[i + 1], k) /\ h[i - 1] = Rest(f[i], k) /\ t[i] = s[i + 1]
    BY <1>s, <1>4, <2>1
  <2>3. Rest(f[i + 1], k) = Rest(f[i], k) \o s[i + 1]
    BY <1>5, <2>1
  <2> QED
    BY <2>2, <2>3
<1>8. Joins(t, h)
  BY <1>s, <1>4, <1>6, <1>7 DEF Joins, JoinsTo
<1>9. FlattenSeq(t) = h[n - 1] /\ FlattenSeq(s) = f[n]
  <2>1. Len(t) >= 1 /\ Len(s) >= 1
    BY <1>0, <1>s
  <2> QED
    BY <1>0, <1>1, <1>8, <1>s, <2>1, JoinIs
<1>10. n \in 1 .. n /\ n - 1 \in 1 .. n - 1 /\ (n - 1) + 1 = n
  BY <1>s
<1> QED
  BY <1>0, <1>3, <1>4, <1>9, <1>10

-----------------------------------------------------------------------------
(* The bytes of a queue.  Nothing of the first chunk is read that was not  *)
(* written.                                                                *)
Filled(r) ==
    /\ r \in Rings
    /\ Len(r.buffers) >= 1
    /\ r.tail <= Len(r.buffers[Len(r.buffers)])
    /\ r.head <= Written(r, 1)

Pieces(r) == [i \in 1 .. Len(r.buffers) |-> Piece(r, i)]
From(r, i) == IF i = 1 THEN r.head ELSE 0

LEMMA FilledIs ==
  ASSUME NEW r, Filled(r)
  PROVE  /\ r.buffers \in Seq(Chunks) /\ Len(r.buffers) \in Nat /\ Len(r.buffers) >= 1
         /\ r.head \in Nat /\ r.tail \in Nat /\ r.totalSize \in Nat
         /\ \A i \in 1 .. Len(r.buffers) :
              /\ r.buffers[i] \in Chunks /\ Len(r.buffers[i]) \in Nat
              /\ Written(r, i) \in Nat /\ Written(r, i) <= Len(r.buffers[i])
              /\ From(r, i) \in Nat /\ From(r, i) <= Written(r, i)
<1> DEFINE b == r.buffers
           n == Len(b)
<1>1. b \in Seq(Chunks) /\ r.head \in Nat /\ r.tail \in Nat /\ r.totalSize \in Nat
  BY DEF Filled, Rings
<1>2. n \in Nat /\ n >= 1 /\ r.tail <= Len(b[n]) /\ r.head <= Written(r, 1)
  BY <1>1 DEF Filled
<1>3. \A i \in 1 .. n : b[i] \in Chunks
  BY <1>1
<1>4. \A i \in 1 .. n : Written(r, i) = IF i = n THEN r.tail ELSE Len(b[i])
  BY DEF Written
<1> HIDE DEF b, n
<1>5. \A i \in 1 .. n : Len(b[i]) \in Nat
  BY <1>3 DEF Chunks
<1>6. \A i \in 1 .. n : Written(r, i) \in Nat /\ Written(r, i) <= Len(b[i])
  <2> SUFFICES ASSUME NEW i \in 1 .. n PROVE Written(r, i) \in Nat /\ Written(r, i) <= Len(b[i])
    OBVIOUS
  <2>1. CASE i = n
    BY <1>1, <1>2, <1>4, <2>1
  <2>2. CASE i # n
    BY <1>4, <1>5, <2>2
  <2> QED
    BY <2>1, <2>2
<1>7. \A i \in 1 .. n : From(r, i) \in Nat /\ From(r, i) <= Written(r, i)
  BY <1>1, <1>2, <1>6 DEF From
<1> QED
  BY <1>1, <1>2, <1>3, <1>5, <1>6, <1>7 DEF b, n

(* What a chunk holds behind its first h bytes, up to the w-th             *)
Window(c, h, w) == SubSeq(c, h + 1, w)

LEMMA CutIs ==
  ASSUME NEW c \in Chunks, NEW h \in Nat, NEW w \in Nat, h <= w, w <= Len(c)
  PROVE  /\ Window(c, h, w) \in Chunks
         /\ Len(Window(c, h, w)) = w - h
         /\ \A i \in 1 .. w - h : Window(c, h, w)[i] = c[h + i]
<1> DEFINE t == Window(c, h, w)
<1>1. \A i \in h + 1 .. w : c[i] \in Nat
  BY DEF Chunks
<1>2. h + 1 \in Int /\ w \in Int
  OBVIOUS
<1>3. /\ t \in Seq(Nat)
      /\ Len(t) = IF h + 1 <= w THEN w - (h + 1) + 1 ELSE 0
      /\ \A i \in 1 .. w - (h + 1) + 1 : t[i] = c[(h + 1) + i - 1]
  BY <1>1, <1>2, SubSeqProperties DEF Window
<1> HIDE DEF t
<1>4. w - (h + 1) + 1 = w - h /\ \A i \in 1 .. w - h : (h + 1) + i - 1 = h + i
  OBVIOUS
<1>5. Len(t) = w - h /\ \A i \in 1 .. w - h : t[i] = c[h + i]
  BY <1>3, <1>4
<1> QED
  BY <1>3, <1>5 DEF t, Chunks

LEMMA HeadIs ==
  ASSUME NEW c \in Chunks, NEW w \in Nat, w <= Len(c)
  PROVE  /\ Window(c, 0, w) \in Chunks
         /\ Len(Window(c, 0, w)) = w
         /\ \A i \in 1 .. w : Window(c, 0, w)[i] = c[i]
<1>1. PICK h \in Nat : h = 0
  OBVIOUS
<1> DEFINE t == Window(c, h, w)
<1>2. h <= w
  BY <1>1
<1>3. t \in Chunks /\ Len(t) = w - h /\ \A i \in 1 .. w - h : t[i] = c[h + i]
  BY <1>2, CutIs
<1>4. t = Window(c, 0, w)
  BY <1>1
<1> HIDE DEF t
<1>5. w - h = w /\ \A i \in 1 .. w : h + i = i
  BY <1>1
<1>6. t \in Chunks /\ Len(t) = w /\ \A i \in 1 .. w : t[i] = c[i]
  BY <1>3, <1>5
<1> QED
  BY <1>4, <1>6

LEMMA PiecesAre ==
  ASSUME NEW r, Filled(r)
  PROVE  /\ Pieces(r) \in Seq(Chunks)
         /\ Len(Pieces(r)) = Len(r.buffers)
         /\ Contents(r) = FlattenSeq(Pieces(r))
         /\ \A i \in 1 .. Len(r.buffers) :
              /\ Pieces(r)[i] = Window(r.buffers[i], From(r, i), Written(r, i))
              /\ Pieces(r)[i] \in Chunks
              /\ Len(Pieces(r)[i]) = Written(r, i) - From(r, i)
<1> DEFINE n == Len(r.buffers)
<1>1. n \in Nat /\ r.head \in Nat
  BY FilledIs
<1>2. \A i \in 1 .. n : Piece(r, i) = Window(r.buffers[i], From(r, i), Written(r, i))
  <2>1. 0 + 1 = 1
    OBVIOUS
  <2>2. \A i \in 1 .. n : From(r, i) + 1 = IF i = 1 THEN r.head + 1 ELSE 1
    BY <2>1 DEF From
  <2> HIDE DEF n
  <2> QED
    BY <2>2 DEF Piece, Window
<1>3. \A i \in 1 .. n : /\ Piece(r, i) \in Chunks
                        /\ Len(Piece(r, i)) = Written(r, i) - From(r, i)
  <2> SUFFICES ASSUME NEW i \in 1 .. n
               PROVE  /\ Piece(r, i) \in Chunks
                      /\ Len(Piece(r, i)) = Written(r, i) - From(r, i)
    OBVIOUS
  <2> DEFINE c == r.buffers[i]
             h == From(r, i)
             w == Written(r, i)
  <2>1. c \in Chunks /\ h \in Nat /\ w \in Nat /\ h <= w /\ w <= Len(c)
    BY FilledIs
  <2>2. Piece(r, i) = Window(c, h, w)
    BY <1>2
  <2> HIDE DEF c, h, w
  <2>3. Window(c, h, w) \in Chunks /\ Len(Window(c, h, w)) = w - h
    BY <2>1, CutIs
  <2> QED
    BY <2>2, <2>3 DEF h, w
<1>4. Contents(r) = FlattenSeq(Pieces(r))
  BY DEF Contents, Pieces
<1> HIDE DEF n
<1>5. Pieces(r) = [i \in 1 .. n |-> Piece(r, i)]
  BY DEF n, Pieces
<1>6. Pieces(r) \in Seq(Chunks) /\ Len(Pieces(r)) = n /\ \A i \in 1 .. n : Pieces(r)[i] = Piece(r, i)
  BY <1>1, <1>3, <1>5
<1> QED
  BY <1>2, <1>3, <1>4, <1>6 DEF n

LEMMA OverwrittenPiece ==
  ASSUME NEW c \in Chunks, NEW at \in Nat, NEW data \in Chunks, at + Len(data) <= Len(c),
         NEW h \in Nat, h <= at
  PROVE  Window(Overwrite(c, at, data), h, at + Len(data)) = Window(c, h, at) \o data
<1> DEFINE m == Len(data)
           d == Overwrite(c, at, data)
           u == Window(d, h, at + m)
           v == Window(c, h, at)
           w == v \o data
<1>1. m \in Nat /\ Len(c) \in Nat /\ DOMAIN c = 1 .. Len(c) /\ DOMAIN data = 1 .. m
  BY DEF Chunks
<1>2. d \in Chunks /\ Len(d) = Len(c)
  BY Overwritten DEF Chunks
<1>3. \A i \in 1 .. Len(c) : d[i] = IF i - at \in 1 .. m THEN data[i - at] ELSE c[i]
  BY <1>1 DEF Overwrite
<1>0. at + m <= Len(c)
  OBVIOUS
<1> HIDE DEF d, m
<1>4. /\ u \in Chunks /\ Len(u) = (at + m) - h /\ \A i \in 1 .. (at + m) - h : u[i] = d[h + i]
  <2>1. at + m \in Nat /\ h <= at + m /\ at + m <= Len(d)
    BY <1>0, <1>1, <1>2
  <2> QED
    BY <1>2, <2>1, CutIs
<1>5. /\ v \in Chunks /\ Len(v) = at - h /\ \A i \in 1 .. at - h : v[i] = c[h + i]
  <2>1. at <= Len(c)
    BY <1>0, <1>1
  <2> QED
    BY <2>1, CutIs
<1> HIDE DEF u, v
<1>6. /\ w \in Chunks /\ Len(w) = Len(v) + m
      /\ \A i \in 1 .. Len(v) + m : w[i] = IF i <= Len(v) THEN v[i] ELSE data[i - Len(v)]
  BY <1>5, Joined DEF m
<1> HIDE DEF w
<1>7. Len(u) = Len(w)
  BY <1>1, <1>4, <1>5, <1>6
<1>8. ASSUME NEW i \in 1 .. Len(u) PROVE u[i] = w[i]
  <2>1. /\ i \in 1 .. (at + m) - h /\ h + i \in 1 .. Len(c) /\ i \in 1 .. Len(v) + m
    BY <1>0, <1>1, <1>4, <1>5
  <2>2. u[i] = IF (h + i) - at \in 1 .. m THEN data[(h + i) - at] ELSE c[h + i]
    BY <1>3, <1>4, <2>1
  <2>3. w[i] = IF i <= Len(v) THEN v[i] ELSE data[i - Len(v)]
    BY <1>6, <2>1
  <2>4. CASE i <= Len(v)
    <3>1. ~((h + i) - at \in 1 .. m) /\ i \in 1 .. at - h
      BY <1>1, <1>5, <2>4
    <3> QED
      BY <1>5, <2>2, <2>3, <2>4, <3>1
  <2>5. CASE ~(i <= Len(v))
    <3>1. (h + i) - at \in 1 .. m /\ (h + i) - at = i - Len(v)
      BY <1>1, <1>4, <1>5, <2>5
    <3> QED
      BY <2>2, <2>3, <2>5, <3>1
  <2> QED
    BY <2>4, <2>5
<1>9. u = w
  BY <1>4, <1>6, <1>7, <1>8, SeqEqual DEF Chunks
<1> QED
  BY <1>9 DEF d, m, u, v, w

LEMMA CutPiece ==
  ASSUME NEW c \in Chunks, NEW w \in Nat, w <= Len(c), NEW h \in Nat, h <= w
  PROVE  Window(SubSeq(c, 1, w), h, w) = Window(c, h, w)
<1> DEFINE d == SubSeq(c, 1, w)
           u == Window(d, h, w)
           v == Window(c, h, w)
<1>1. d \in Chunks /\ Len(d) = w /\ \A i \in 1 .. w : d[i] = c[i]
  <2>1. d = Window(c, 0, w)
    BY DEF Window
  <2> HIDE DEF d
  <2> QED
    BY <2>1, HeadIs
<1> HIDE DEF d
<1>2. u \in Chunks /\ Len(u) = w - h /\ \A i \in 1 .. w - h : u[i] = d[h + i]
  <2>1. w <= Len(d)
    BY <1>1
  <2> QED
    BY <1>1, <2>1, CutIs
<1>3. v \in Chunks /\ Len(v) = w - h /\ \A i \in 1 .. w - h : v[i] = c[h + i]
  BY CutIs
<1> HIDE DEF u, v
<1>4. \A i \in 1 .. w - h : h + i \in 1 .. w
  OBVIOUS
<1>5. \A i \in 1 .. Len(u) : u[i] = v[i]
  BY <1>1, <1>2, <1>3, <1>4
<1>6. u = v
  BY <1>2, <1>3, <1>5, SeqEqual DEF Chunks
<1> QED
  BY <1>6 DEF d, u, v

(* reserve() and what is written to it: in the last chunk, or in a new one *)
(* behind it, after the last one was cut.                                  *)
Put0(r, p, data) ==
    /\ p \in Rings /\ p.head = r.head
    /\ p.totalSize = r.totalSize + Len(data)
    /\ \A j \in 1 .. Len(r.buffers) : j # Len(r.buffers) => p.buffers[j] = r.buffers[j]
PutLast(r, p, data) ==
    LET n == Len(r.buffers) IN
    /\ Put0(r, p, data)
    /\ Len(p.buffers) = n
    /\ p.buffers[n] = Overwrite(r.buffers[n], r.tail, data)
    /\ r.tail + Len(data) <= Len(r.buffers[n])
    /\ p.tail = r.tail + Len(data)
PutNew(r, p, data) ==
    LET n == Len(r.buffers) IN
    /\ Put0(r, p, data)
    /\ Len(p.buffers) = n + 1
    /\ p.buffers[n] = SubSeq(r.buffers[n], 1, r.tail)
    /\ \E size \in Nat : /\ Len(data) <= size
                         /\ p.buffers[n + 1] = Overwrite(Chunk(size), 0, data)
    /\ p.tail = Len(data)

LEMMA PutShape ==
    ASSUME NEW r, Filled(r), NEW data \in Chunks, NEW room \in Nat, Len(data) <= room
    PROVE  PutLast(r, Put(r, room, data), data) \/ PutNew(r, Put(r, room, data), data)
<1> DEFINE n == Len(r.buffers)
           m == Len(data)
           last == r.buffers[n]
           p == Put(r, room, data)
<1>0. r \in Rings /\ r.tail <= Len(last) /\ data \in Seq(Nat)
  BY DEF Filled, Chunks
<1>1. /\ n \in Nat /\ n >= 1 /\ r.buffers \in Seq(Chunks) /\ last \in Chunks
      /\ r.tail \in Nat /\ Len(last) \in Nat /\ r.tail <= Len(last) /\ m \in Nat
      /\ r.head \in Nat /\ r.totalSize \in Nat /\ Last(r.buffers) = last
      /\ r \in Rings /\ n \in 1 .. Len(r.buffers) /\ n + 1 \in Nat
  BY <1>0, FilledIs DEF Last, Chunks
<1>2. CASE r.tail + room <= Len(last)
  <2> DEFINE chunk == Overwrite(last, r.tail, data)
             bufs == ReplaceAt(r.buffers, n, chunk)
  <2>1. p = [r EXCEPT !.buffers = bufs, !.tail = r.tail + m, !.totalSize = @ + m]
    BY <1>1, <1>2 DEF Put, FilledTail
  <2>2. chunk \in Chunks /\ Len(chunk) = Len(last)
    BY <1>0, <1>1, Overwritten
  <2>c. chunk = Overwrite(last, r.tail, data)
    OBVIOUS
  <2> HIDE DEF chunk
  <2>3. /\ bufs \in Seq(Chunks) /\ Len(bufs) = n
        /\ bufs[n] = chunk /\ \A j \in 1 .. n : j # n => bufs[j] = r.buffers[j]
    <3> DEFINE b == r.buffers
    <3>1. b \in Seq(Chunks) /\ n \in 1 .. Len(b) /\ Len(b) = n /\ chunk \in Chunks
      BY <1>1, <2>2
    <3>2. bufs = ReplaceAt(b, n, chunk)
      OBVIOUS
    <3> HIDE DEF b, n, bufs
    <3>3. /\ bufs \in Seq(Chunks) /\ Len(bufs) = n
          /\ bufs[n] = chunk /\ \A j \in 1 .. n : j # n => bufs[j] = b[j]
      BY <3>1, <3>2 DEF ReplaceAt
    <3> QED
      BY <3>3 DEF b
  <2> HIDE DEF bufs
  <2>4. /\ p \in Rings /\ p.buffers = bufs /\ p.tail = r.tail + m /\ p.head = r.head
        /\ p.totalSize = r.totalSize + m
    <3> HIDE DEF p
    <3> QED
      <4> DEFINE B == Seq(Chunks)
                 k == r.totalSize + m
      <4>1. /\ r \in [buffers : B, head : Nat, tail : Nat, totalSize : Nat]
            /\ bufs \in B /\ k \in Nat /\ r.tail + m \in Nat
        BY <1>1, <2>3 DEF Rings
      <4>2. p = [r EXCEPT !.buffers = bufs, !.tail = r.tail + m, !.totalSize = k]
        BY <2>1
      <4> HIDE DEF B, k, bufs
      <4>3. /\ p \in [buffers : B, head : Nat, tail : Nat, totalSize : Nat]
            /\ p.buffers = bufs /\ p.tail = r.tail + m
            /\ p.head = r.head /\ p.totalSize = k
        BY <4>1, <4>2, Changed
      <4> QED
        BY <4>3 DEF B, k, Rings
  <2> HIDE DEF p
  <2>5. r.tail + m <= Len(last)
    BY <1>1, <1>2
  <2>6. Put0(r, p, data)
    BY <2>3, <2>4 DEF Put0
  <2>7. PutLast(r, p, data)
    <3>1. p.buffers[n] = Overwrite(last, r.tail, data)
      BY <2>3, <2>4, <2>c
    <3> QED
      BY <2>3, <2>4, <2>5, <2>6, <3>1 DEF PutLast
  <2> QED
    BY <2>7 DEF p
<1>3. CASE ~(r.tail + room <= Len(last))
  <2> DEFINE size == Max({CHUNKSIZE, room})
             cut == SubSeq(last, 1, r.tail)
             short == ReplaceAt(r.buffers, n, cut)
             fresh == Chunk(size)
             long == Append(short, fresh)
             chunk == Overwrite(fresh, 0, data)
             bufs == ReplaceAt(long, n + 1, chunk)
  <2>1. cut \in Chunks /\ Len(cut) = r.tail
    <3>1. last \in Seq(Nat) /\ 1 <= Len(last) + 1 /\ r.tail \in Nat /\ r.tail <= Len(last)
      BY <1>1 DEF Chunks
    <3> HIDE DEF last
    <3> QED
      BY <3>1, SubSeqProperties DEF Chunks
  <2>2. size \in Nat /\ size >= m
    <3>1. size \in Nat /\ size >= room
      BY ChunkAssumption, MaxOfTwo
    <3> HIDE DEF size
    <3> QED
      BY <1>1, <3>1
  <2>3. fresh \in Chunks /\ Len(fresh) = size
    BY <2>2, Chunking
  <2>4. /\ short \in Seq(Chunks) /\ Len(short) = n
        /\ short[n] = cut /\ \A j \in 1 .. n : j # n => short[j] = r.buffers[j]
    <3> DEFINE b == r.buffers
    <3>1. b \in Seq(Chunks) /\ n \in 1 .. Len(b) /\ Len(b) = n /\ cut \in Chunks
      BY <1>1, <2>1
    <3>2. short = ReplaceAt(b, n, cut)
      OBVIOUS
    <3> HIDE DEF b, n, short, cut
    <3>3. /\ short \in Seq(Chunks) /\ Len(short) = n
          /\ short[n] = cut /\ \A j \in 1 .. n : j # n => short[j] = b[j]
      BY <3>1, <3>2 DEF ReplaceAt
    <3> QED
      BY <3>3 DEF b
  <2>f. fresh = Chunk(size) /\ chunk = Overwrite(fresh, 0, data) /\ cut = SubSeq(last, 1, r.tail)
    OBVIOUS
  <2> HIDE DEF fresh, size, cut, short
  <2>5. /\ long \in Seq(Chunks) /\ Len(long) = n + 1 /\ long[n + 1] = fresh
        /\ \A j \in 1 .. n : long[j] = short[j]
    <3> HIDE DEF n
    <3>1. short \in Seq(Chunks) /\ Len(short) = n /\ fresh \in Chunks /\ n \in Nat
      BY <1>1, <2>3, <2>4
    <3>2. long = Append(short, fresh)
      OBVIOUS
    <3> HIDE DEF long
    <3> QED
      BY <3>1, <3>2, AppendProperties
  <2> HIDE DEF long
  <2>6. chunk \in Chunks /\ Len(chunk) = size
    BY <1>0, <1>1, <2>3, Overwritten
  <2> HIDE DEF chunk
  <2>7. /\ bufs \in Seq(Chunks) /\ Len(bufs) = n + 1
        /\ bufs[n + 1] = chunk /\ \A j \in 1 .. n : bufs[j] = long[j]
    <3>1. n + 1 \in 1 .. Len(long)
      BY <1>1, <2>5
    <3> QED
      <4> HIDE DEF n
      <4>1. bufs = ReplaceAt(long, n + 1, chunk)
        OBVIOUS
      <4> HIDE DEF bufs
      <4>2. /\ bufs \in Seq(Chunks) /\ Len(bufs) = Len(long) /\ bufs[n + 1] = chunk
            /\ \A j \in 1 .. Len(long) : j # n + 1 => bufs[j] = long[j]
        BY <2>5, <2>6, <3>1, <4>1 DEF ReplaceAt
      <4>3. \A j \in 1 .. n : j \in 1 .. Len(long) /\ j # n + 1
        BY <1>1, <2>5 DEF n
      <4> QED
        BY <2>5, <4>2, <4>3
  <2>8. p = [r EXCEPT !.buffers = bufs, !.tail = m, !.totalSize = @ + m]
    <3>1. AppendChunk(r, size) = long
      BY <1>1 DEF AppendChunk, long, short, cut, fresh
    <3>2. Last(long) = fresh
      BY <1>1, <2>5 DEF Last
    <3>3. p = [r EXCEPT !.buffers = ReplaceAt(AppendChunk(r, size), Len(AppendChunk(r, size)),
                                        Overwrite(Last(AppendChunk(r, size)), 0, data)),
                        !.tail = 0 + m, !.totalSize = @ + m]
      BY <1>1, <1>3 DEF Put, FilledTail, size
    <3> HIDE DEF p
    <3> QED
      BY <1>1, <2>5, <3>1, <3>2, <3>3 DEF chunk
  <2> HIDE DEF bufs
  <2>9. /\ p \in Rings /\ p.buffers = bufs /\ p.tail = m /\ p.head = r.head
        /\ p.totalSize = r.totalSize + m
    <3> HIDE DEF p
    <3> QED
      <4> DEFINE B == Seq(Chunks)
                 k == r.totalSize + m
      <4>1. /\ r \in [buffers : B, head : Nat, tail : Nat, totalSize : Nat]
            /\ bufs \in B /\ k \in Nat /\ m \in Nat
        BY <1>1, <2>7 DEF Rings
      <4>2. p = [r EXCEPT !.buffers = bufs, !.tail = m, !.totalSize = k]
        BY <2>8
      <4> HIDE DEF B, k, bufs
      <4>3. /\ p \in [buffers : B, head : Nat, tail : Nat, totalSize : Nat]
            /\ p.buffers = bufs /\ p.tail = m
            /\ p.head = r.head /\ p.totalSize = k
        BY <4>1, <4>2, Changed
      <4> QED
        BY <4>3 DEF B, k, Rings
  <2> HIDE DEF p
  <2>10. \A i \in 1 .. n : p.buffers[i] = IF i = n THEN cut ELSE r.buffers[i]
    <3> SUFFICES ASSUME NEW i \in 1 .. n
                 PROVE  p.buffers[i] = IF i = n THEN cut ELSE r.buffers[i]
      OBVIOUS
    <3>1. p.buffers[i] = long[i] /\ long[i] = short[i]
      BY <1>1, <2>5, <2>7, <2>9
    <3>2. short[i] = IF i = n THEN cut ELSE r.buffers[i]
      BY <1>1, <2>4
    <3> QED
      BY <3>1, <3>2
  <2>11. Put0(r, p, data)
    BY <2>9, <2>10 DEF Put0
  <2>12. \E k \in Nat : m <= k /\ p.buffers[n + 1] = Overwrite(Chunk(k), 0, data)
    <3>1. m <= size /\ p.buffers[n + 1] = Overwrite(Chunk(size), 0, data)
      BY <1>1, <2>2, <2>7, <2>9, <2>f
    <3> QED
      BY <2>2, <3>1
  <2>13. p.buffers[n] = SubSeq(last, 1, r.tail) /\ Len(p.buffers) = n + 1
    BY <1>1, <2>7, <2>9, <2>10, <2>f
  <2>14. PutNew(r, p, data)
    BY <2>9, <2>11, <2>12, <2>13 DEF PutNew
  <2> QED
    BY <2>14 DEF p
<1> QED
  BY <1>2, <1>3

LEMMA LastPut ==
  ASSUME NEW r, Filled(r), NEW data \in Chunks, NEW p, PutLast(r, p, data)
  PROVE  /\ Filled(p)
         /\ \A i \in 1 .. Len(r.buffers) :
              Written(p, i) = Written(r, i) + (IF i = Len(r.buffers) THEN Len(data) ELSE 0)
         /\ Mostly(Len(r.buffers), Pieces(r), Pieces(p), Len(r.buffers),
                   Pieces(r)[Len(r.buffers)] \o data)
<1> DEFINE n == Len(r.buffers)
           m == Len(data)
           last == r.buffers[n]
<1>0. n = Len(r.buffers) /\ m = Len(data) /\ last = r.buffers[n]
  OBVIOUS
<1> HIDE DEF n, m, last
<1>1. /\ n \in Nat /\ n >= 1 /\ r.head \in Nat /\ r.tail \in Nat
      /\ \A i \in 1 .. n :
           /\ r.buffers[i] \in Chunks /\ Len(r.buffers[i]) \in Nat
           /\ Written(r, i) \in Nat /\ Written(r, i) <= Len(r.buffers[i])
           /\ From(r, i) \in Nat /\ From(r, i) <= Written(r, i)
  BY <1>0, FilledIs
<1>2. /\ p \in Rings /\ p.head = r.head
      /\ \A j \in 1 .. n : j # n => p.buffers[j] = r.buffers[j]
      /\ Len(p.buffers) = n /\ p.buffers[n] = Overwrite(last, r.tail, data)
      /\ r.tail + m <= Len(last) /\ p.tail = r.tail + m
  BY <1>0 DEF PutLast, Put0
<1>3. m \in Nat /\ data \in Seq(Nat)
  BY <1>0 DEF Chunks
<1>4. last \in Chunks /\ Len(p.buffers[n]) = Len(last)
  <2>1. last \in Chunks
    BY <1>0, <1>1
  <2>2. Len(Overwrite(last, r.tail, data)) = Len(last)
    BY <1>1, <1>3, <2>1, Overwritten
  <2> QED
    BY <1>2, <2>1, <2>2
<1>5. ASSUME NEW i \in 1 .. n PROVE Written(p, i) = Written(r, i) + (IF i = n THEN m ELSE 0)
  <2>1. CASE i = n
    <3>1. Written(p, n) = p.tail /\ Written(r, n) = r.tail
      BY <1>0, <1>2 DEF Written
    <3> QED
      BY <1>2, <2>1, <3>1
  <2>2. CASE i # n
    <3>1. Written(p, i) = Len(p.buffers[i]) /\ Written(r, i) = Len(r.buffers[i])
      BY <1>0, <1>2, <2>2 DEF Written
    <3>2. Written(p, i) = Written(r, i) /\ Written(r, i) \in Nat
      BY <1>1, <1>2, <2>2, <3>1
    <3> QED
      BY <2>2, <3>2
  <2> QED
    BY <2>1, <2>2
<1>6. Filled(p)
  <2>1. p.tail <= Len(p.buffers[n])
    BY <1>2, <1>4
  <2>2. p.head <= Written(p, 1)
    <3>1. 1 \in 1 .. n /\ From(r, 1) = r.head
      BY <1>1 DEF From
    <3>2. r.head <= Written(r, 1) /\ Written(r, 1) \in Nat
      BY <1>1, <3>1
    <3>3. Written(p, 1) = Written(r, 1) + (IF 1 = n THEN m ELSE 0)
      BY <1>5, <3>1
    <3> QED
      BY <1>1, <1>2, <1>3, <3>2, <3>3
  <2> QED
    BY <1>1, <1>2, <2>1, <2>2 DEF Filled
<1>7. /\ Pieces(r) \in Seq(Chunks) /\ Len(Pieces(r)) = n
      /\ \A i \in 1 .. n : Pieces(r)[i] = Window(r.buffers[i], From(r, i), Written(r, i))
      /\ Pieces(p) \in Seq(Chunks) /\ Len(Pieces(p)) = n
      /\ \A i \in 1 .. n : Pieces(p)[i] = Window(p.buffers[i], From(p, i), Written(p, i))
  <2>1. /\ Pieces(r) \in Seq(Chunks) /\ Len(Pieces(r)) = n
        /\ \A i \in 1 .. n : Pieces(r)[i] = Window(r.buffers[i], From(r, i), Written(r, i))
    BY <1>0, PiecesAre
  <2>2. /\ Pieces(p) \in Seq(Chunks) /\ Len(Pieces(p)) = n
        /\ \A i \in 1 .. n : Pieces(p)[i] = Window(p.buffers[i], From(p, i), Written(p, i))
    BY <1>2, <1>6, PiecesAre
  <2> QED
    BY <2>1, <2>2
<1>8. \A i \in 1 .. n : From(p, i) = From(r, i)
  BY <1>2 DEF From
<1>9. \A j \in 1 .. n : j # n => Pieces(p)[j] = Pieces(r)[j]
  <2> SUFFICES ASSUME NEW j \in 1 .. n, j # n PROVE Pieces(p)[j] = Pieces(r)[j]
    OBVIOUS
  <2>1. Written(p, j) = Written(r, j)
    BY <1>1, <1>5
  <2> QED
    BY <1>2, <1>7, <1>8, <2>1
<1>10. Pieces(p)[n] = Pieces(r)[n] \o data
  <2> DEFINE h == From(r, n)
  <2>1. n \in 1 .. n /\ Written(r, n) = r.tail /\ Written(p, n) = r.tail + m
    BY <1>0, <1>1, <1>2 DEF Written
  <2>2. h \in Nat /\ h <= r.tail
    BY <1>1, <2>1
  <2>3. Pieces(p)[n] = Window(Overwrite(last, r.tail, data), h, r.tail + m)
    BY <1>2, <1>7, <1>8, <2>1
  <2>4. Pieces(r)[n] = Window(last, h, r.tail)
    BY <1>0, <1>7, <2>1
  <2> HIDE DEF h
  <2>5. r.tail + Len(data) <= Len(last)
    BY <1>0, <1>2
  <2>6. Window(Overwrite(last, r.tail, data), h, r.tail + Len(data))
        = Window(last, h, r.tail) \o data
    <3> DEFINE at == r.tail
    <3>1. last \in Chunks /\ at \in Nat /\ h \in Nat /\ h <= at /\ at + Len(data) <= Len(last)
      BY <1>1, <1>4, <2>2, <2>5
    <3> HIDE DEF at
    <3>2. Window(Overwrite(last, at, data), h, at + Len(data)) = Window(last, h, at) \o data
      BY <3>1, OverwrittenPiece
    <3> QED
      BY <3>2 DEF at
  <2> QED
    BY <1>0, <2>3, <2>4, <2>6
<1>11. n \in 1 .. n
  BY <1>1
<1>12. Mostly(n, Pieces(r), Pieces(p), n, Pieces(r)[n] \o data)
  BY <1>7, <1>9, <1>10, <1>11 DEF Mostly
<1> QED
  BY <1>0, <1>5, <1>6, <1>12

LEMMA NewPut ==
  ASSUME NEW r, Filled(r), NEW data \in Chunks, NEW p, PutNew(r, p, data)
  PROVE  /\ Filled(p)
         /\ \A i \in 1 .. Len(r.buffers) : Written(p, i) = Written(r, i)
         /\ Len(p.buffers) = Len(r.buffers) + 1
         /\ Written(p, Len(r.buffers) + 1) = Len(data)
         /\ \A i \in 1 .. Len(r.buffers) : Pieces(p)[i] = Pieces(r)[i]
         /\ Pieces(p)[Len(r.buffers) + 1] = data
<1> DEFINE n == Len(r.buffers)
           m == Len(data)
           last == r.buffers[n]
<1>0. n = Len(r.buffers) /\ m = Len(data) /\ last = r.buffers[n]
  OBVIOUS
<1> HIDE DEF n, m, last
<1>1. /\ n \in Nat /\ n >= 1 /\ r.head \in Nat /\ r.tail \in Nat
      /\ \A i \in 1 .. n :
           /\ r.buffers[i] \in Chunks /\ Len(r.buffers[i]) \in Nat
           /\ Written(r, i) \in Nat /\ Written(r, i) <= Len(r.buffers[i])
           /\ From(r, i) \in Nat /\ From(r, i) <= Written(r, i)
  BY <1>0, FilledIs
<1>2. /\ p \in Rings /\ p.head = r.head
      /\ \A j \in 1 .. n : j # n => p.buffers[j] = r.buffers[j]
      /\ Len(p.buffers) = n + 1 /\ p.buffers[n] = SubSeq(last, 1, r.tail) /\ p.tail = m
  BY <1>0 DEF PutNew, Put0
<1>3. PICK size \in Nat : m <= size /\ p.buffers[n + 1] = Overwrite(Chunk(size), 0, data)
  BY <1>0 DEF PutNew
<1>4. m \in Nat /\ data \in Seq(Nat)
  BY <1>0 DEF Chunks
<1>5. Chunk(size) \in Chunks /\ Len(Chunk(size)) = size /\ Len(p.buffers[n + 1]) = size
  <2>1. Chunk(size) \in Chunks /\ Len(Chunk(size)) = size
    BY Chunking
  <2> QED
    BY <1>3, <1>4, <2>1, Overwritten
<1>6. n \in 1 .. n /\ last \in Chunks /\ Written(r, n) = r.tail /\ r.tail <= Len(last)
  <2>1. n \in 1 .. n /\ Written(r, n) = r.tail
    BY <1>0, <1>1 DEF Written
  <2> QED
    BY <1>0, <1>1, <2>1
<1>7. Len(p.buffers[n]) = r.tail
  <2>1. SubSeq(last, 1, r.tail) = Window(last, 0, r.tail)
    BY DEF Window
  <2>2. Len(Window(last, 0, r.tail)) = r.tail
    BY <1>1, <1>6, HeadIs
  <2> QED
    BY <1>2, <2>1, <2>2
<1>8. ASSUME NEW i \in 1 .. n PROVE Written(p, i) = Written(r, i)
  <2>0. Written(p, i) = Len(p.buffers[i])
    BY <1>1, <1>2 DEF Written
  <2>1. CASE i = n
    BY <1>6, <1>7, <2>0, <2>1
  <2>2. CASE i # n
    BY <1>0, <1>2, <2>0, <2>2 DEF Written
  <2> QED
    BY <2>1, <2>2
<1>9. Written(p, n + 1) = m
  BY <1>2 DEF Written
<1>10. Filled(p)
  <2>1. p.tail <= Len(p.buffers[n + 1]) /\ n + 1 >= 1
    BY <1>1, <1>2, <1>3, <1>5
  <2>2. p.head <= Written(p, 1)
    <3>1. 1 \in 1 .. n /\ From(r, 1) = r.head
      BY <1>1 DEF From
    <3> QED
      BY <1>1, <1>2, <1>8, <3>1
  <2> QED
    BY <1>2, <2>1, <2>2 DEF Filled
<1>11. \A i \in 1 .. n : Pieces(r)[i] = Window(r.buffers[i], From(r, i), Written(r, i))
  BY <1>0, PiecesAre
<1>12. \A i \in 1 .. n + 1 : Pieces(p)[i] = Window(p.buffers[i], From(p, i), Written(p, i))
  BY <1>2, <1>10, PiecesAre
<1>13. ASSUME NEW i \in 1 .. n PROVE Pieces(p)[i] = Pieces(r)[i]
  <2>0. i \in 1 .. n + 1 /\ From(p, i) = From(r, i)
    BY <1>1, <1>2 DEF From
  <2>1. CASE i = n
    <3> DEFINE h == From(r, n)
    <3>1. h \in Nat /\ h <= r.tail
      BY <1>1, <1>6
    <3>2. Pieces(p)[n] = Window(SubSeq(last, 1, r.tail), h, r.tail)
      BY <1>2, <1>6, <1>8, <1>12, <2>0, <2>1
    <3>3. Pieces(r)[n] = Window(last, h, r.tail)
      BY <1>0, <1>6, <1>11
    <3> HIDE DEF h
    <3>4. Pieces(p)[n] = Pieces(r)[n]
      BY <1>1, <1>6, <3>1, <3>2, <3>3, CutPiece
    <3> QED
      BY <2>1, <3>4
  <2>2. CASE i # n
    BY <1>2, <1>8, <1>11, <1>12, <2>0, <2>2
  <2> QED
    BY <2>1, <2>2
<1>14. Pieces(p)[n + 1] = data
  <2> DEFINE c == Chunk(size)
  <2>1. n + 1 \in 1 .. n + 1 /\ From(p, n + 1) = 0
    BY <1>1 DEF From
  <2>2. Pieces(p)[n + 1] = Window(Overwrite(c, 0, data), 0, 0 + m)
    <3>1. Pieces(p)[n + 1] = Window(p.buffers[n + 1], From(p, n + 1), Written(p, n + 1))
      BY <1>12, <2>1
    <3>2. 0 + m = m
      BY <1>4
    <3> QED
      BY <1>3, <1>9, <2>1, <3>1, <3>2
  <2>c. c \in Chunks /\ Len(c) = size
    BY <1>5
  <2> HIDE DEF c
  <2>3. Window(Overwrite(c, 0, data), 0, 0 + m) = Window(c, 0, 0) \o data
    <3>1. 0 + Len(data) <= Len(c)
      BY <1>0, <1>3, <1>4, <2>c
    <3>2. Window(Overwrite(c, 0, data), 0, 0 + Len(data)) = Window(c, 0, 0) \o data
      <4>1. \A at, h \in Nat : at + Len(data) <= Len(c) /\ h <= at =>
              Window(Overwrite(c, at, data), h, at + Len(data)) = Window(c, h, at) \o data
        BY <2>c, OverwrittenPiece
      <4>2. 0 \in Nat /\ 0 <= 0
        OBVIOUS
      <4> QED
        BY <3>1, <4>1, <4>2, Zenon
    <3> QED
      BY <1>0, <3>2
  <2>4. Window(c, 0, 0) = <<>>
    <3>1. Window(c, 0, 0) \in Chunks /\ Len(Window(c, 0, 0)) = 0 - 0
      <4>1. 0 <= Len(c)
        BY <2>c
      <4> QED
        BY <2>c, <4>1, CutIs
    <3> QED
      BY <3>1, EmptySeq DEF Chunks
  <2>5. <<>> \o data = data
    BY <1>4, ConcatEmptySeq
  <2> QED
    BY <2>2, <2>3, <2>4, <2>5
<1> QED
  BY <1>0, <1>2, <1>8, <1>9, <1>10, <1>13, <1>14

LEMMA FitsFilled ==
  ASSUME NEW r, RingFits(r)
  PROVE  Filled(r)
<1>1. 1 \in 1 .. Len(r.buffers) /\ r.head \in Nat
  BY DEF RingFits, Rings
<1>2. Written(r, 1) \in Nat
  BY <1>1, WrittenType
<1>3. r.head <= Written(r, 1)
  BY <1>1, <1>2 DEF RingFits
<1> QED
  BY <1>3 DEF RingFits, Filled

LEMMA PutFits ==
    ASSUME NEW r, RingFits(r), NEW data \in Seq(Nat), Len(data) > 0
    PROVE  RingFits(Put(r, Len(data), data)) /\ Put(r, Len(data), data).totalSize > 0
<1> DEFINE m == Len(data)
           p == Put(r, m, data)
<1>1. Filled(r) /\ data \in Chunks /\ m \in Nat /\ m > 0 /\ m <= m
  BY FitsFilled DEF Chunks
<1>2. PutLast(r, p, data) \/ PutNew(r, p, data)
  BY <1>1, PutShape
<1> HIDE DEF p
<1>3. ASSUME PutLast(r, p, data) PROVE RingFits(p) /\ p.totalSize > 0
  <2>1. /\ p \in Rings /\ p.head = r.head /\ p.totalSize = r.totalSize + m
        /\ Len(p.buffers) = Len(r.buffers)
    BY <1>3 DEF PutLast, Put0
  <2>2. /\ Filled(p)
        /\ \A i \in 1 .. Len(r.buffers) :
             Written(p, i) = Written(r, i) + (IF i = Len(r.buffers) THEN m ELSE 0)
    BY <1>1, <1>3, LastPut
  <2>3. p.tail <= Len(p.buffers[Len(p.buffers)])
    BY <2>2 DEF Filled
  <2>4. LastWritten(r, p, m)
    BY <2>1, <2>2 DEF LastWritten
  <2> HIDE DEF m
  <2> QED
    BY <1>1, <2>1, <2>3, <2>4, Longer
<1>4. ASSUME PutNew(r, p, data) PROVE RingFits(p) /\ p.totalSize > 0
  <2>1. /\ p \in Rings /\ p.head = r.head /\ p.totalSize = r.totalSize + m
    BY <1>4 DEF PutNew, Put0
  <2>2. /\ Filled(p)
        /\ \A i \in 1 .. Len(r.buffers) : Written(p, i) = Written(r, i)
        /\ Len(p.buffers) = Len(r.buffers) + 1
        /\ Written(p, Len(r.buffers) + 1) = m
    BY <1>1, <1>4, NewPut
  <2>3. p.tail <= Len(p.buffers[Len(p.buffers)]) /\ Written(p, Len(p.buffers)) = m
    BY <2>2 DEF Filled
  <2>4. NewWritten(r, p, m)
    BY <2>2, <2>3 DEF NewWritten
  <2> HIDE DEF m
  <2> QED
    BY <1>1, <2>1, <2>3, <2>4, Longer
<1>5. RingFits(p) /\ p.totalSize > 0
  BY <1>2, <1>3, <1>4
<1> QED
  BY <1>5 DEF p

(* What is put into a queue comes after what was there.                    *)
LEMMA PutHolds ==
  ASSUME NEW r, Filled(r), NEW data \in Chunks, NEW room \in Nat, Len(data) <= room
  PROVE  LET p == Put(r, room, data)
         IN  /\ Filled(p)
             /\ Contents(r) \in Chunks
             /\ Contents(p) = Contents(r) \o data
             /\ p.totalSize = r.totalSize + Len(data)
<1> DEFINE n == Len(r.buffers)
           p == Put(r, room, data)
<1>1. PutLast(r, p, data) \/ PutNew(r, p, data)
  BY PutShape
<1>2. p.totalSize = r.totalSize + Len(data)
  BY <1>1 DEF PutLast, PutNew, Put0
<1>0. p = Put(r, room, data)
  OBVIOUS
<1> HIDE DEF p
<1>3. n >= 1 /\ Pieces(r) \in Seq(Chunks) /\ Len(Pieces(r)) = n /\ Contents(r) = FlattenSeq(Pieces(r))
  BY FilledIs, PiecesAre
<1>4. CASE PutLast(r, p, data)
  <2>1. Filled(p) /\ Mostly(n, Pieces(r), Pieces(p), n, Pieces(r)[n] \o data)
    BY <1>4, LastPut
  <2>2. Contents(p) = FlattenSeq(Pieces(p))
    BY <2>1, PiecesAre
  <2> DEFINE s == Pieces(r)
             t == Pieces(p)
  <2>s. GrowsLast(n, s, t, data)
    BY <2>1 DEF GrowsLast
  <2> HIDE DEF s, t, n
  <2>3. FlattenSeq(s) \in Chunks /\ FlattenSeq(t) = FlattenSeq(s) \o data
    BY <2>s, LastGrows
  <2> QED
    BY <1>0, <1>2, <1>3, <2>1, <2>2, <2>3 DEF s, t
<1>5. CASE PutNew(r, p, data)
  <2>1. /\ Filled(p) /\ Len(p.buffers) = n + 1
        /\ \A i \in 1 .. n : Pieces(p)[i] = Pieces(r)[i]
        /\ Pieces(p)[n + 1] = data
    BY <1>5, NewPut
  <2>2. Contents(p) = FlattenSeq(Pieces(p)) /\ Pieces(p) \in Seq(Chunks) /\ Len(Pieces(p)) = n + 1
    BY <2>1, PiecesAre
  <2> DEFINE s == Pieces(r)
             t == Pieces(p)
  <2>3. /\ s \in Seq(Chunks) /\ Len(s) >= 1
        /\ t \in Seq(Chunks) /\ Len(t) = Len(s) + 1 /\ t[Len(s) + 1] = data
        /\ \A j \in 1 .. Len(s) : t[j] = s[j]
    BY <1>3, <2>1, <2>2
  <2> HIDE DEF s, t
  <2>4. FlattenSeq(s) \in Chunks /\ FlattenSeq(t) = FlattenSeq(s) \o data
    BY <2>3, OneMore
  <2> QED
    BY <1>0, <1>2, <1>3, <2>1, <2>2, <2>4 DEF s, t
<1> QED
  BY <1>1, <1>4, <1>5

LEMMA RestOfCut ==
  ASSUME NEW c \in Chunks, NEW h \in Nat, NEW w \in Nat, h <= w, w <= Len(c),
         NEW k \in Nat, h + k <= w
  PROVE  Rest(Window(c, h, w), k) = Window(c, h + k, w)
<1> DEFINE t == Window(c, h, w)
           u == Rest(t, k)
           v == Window(c, h + k, w)
<1>1. t \in Chunks /\ Len(t) = w - h /\ \A i \in 1 .. w - h : t[i] = c[h + i]
  BY CutIs
<1> HIDE DEF t
<1>2. k <= Len(t)
  BY <1>1
<1>3. u \in Chunks /\ Len(u) = Len(t) - k /\ \A i \in 1 .. Len(t) - k : u[i] = t[k + i]
  BY <1>1, <1>2, RestIs
<1>4. /\ v \in Chunks /\ Len(v) = w - (h + k)
      /\ \A i \in 1 .. w - (h + k) : v[i] = c[(h + k) + i]
  <2> DEFINE g == h + k
  <2>1. g \in Nat /\ g <= w
    OBVIOUS
  <2> HIDE DEF g
  <2>2. /\ Window(c, g, w) \in Chunks /\ Len(Window(c, g, w)) = w - g
        /\ \A i \in 1 .. w - g : Window(c, g, w)[i] = c[g + i]
    BY <2>1, CutIs
  <2> QED
    BY <2>2 DEF g
<1> HIDE DEF u, v
<1>5. Len(u) = Len(v)
  BY <1>1, <1>3, <1>4
<1>6. ASSUME NEW i \in 1 .. Len(u) PROVE u[i] = v[i]
  <2>1. /\ i \in 1 .. Len(t) - k /\ k + i \in 1 .. w - h /\ i \in 1 .. w - (h + k)
        /\ h + (k + i) = (h + k) + i
    BY <1>1, <1>3
  <2> QED
    BY <1>1, <1>3, <1>4, <2>1
<1>7. u = v
  BY <1>3, <1>4, <1>5, <1>6, SeqEqual DEF Chunks
<1> QED
  BY <1>7 DEF t, u, v

LEMMA OneChunk ==
  ASSUME NEW s \in Seq(Chunks), Len(s) = 1
  PROVE  FlattenSeq(s) = s[1] /\ s[1] \in Chunks
<1>0. Len(s) >= 1
  OBVIOUS
<1>1. PICK f : Joins(s, f)
  BY <1>0, JoinExists
<1>2. FlattenSeq(s) = f[1]
  <2>1. FlattenSeq(s) = f[Len(s)]
    BY <1>0, <1>1, JoinIs
  <2> QED
    BY <2>1
<1>3. f[1] = s[1]
  BY <1>1 DEF Joins, JoinsTo
<1>4. s[1] \in Chunks
  OBVIOUS
<1> QED
  BY <1>2, <1>3, <1>4

LEMMA ClearedHolds == Filled(Cleared) /\ Contents(Cleared) = <<>> /\ Cleared.totalSize = 0
<1>1. RingFits(Cleared) /\ Cleared.totalSize = 0
  BY ClearedFits
<1>2. Filled(Cleared)
  BY <1>1, FitsFilled
<1>3. Len(Cleared.buffers) = 1 /\ Cleared.head = 0 /\ Cleared.tail = 0
  BY DEF Cleared
<1>4. Written(Cleared, 1) = 0 /\ From(Cleared, 1) = 0
  BY <1>3 DEF Written, From
<1> DEFINE s == Pieces(Cleared)
<1>5. s \in Seq(Chunks) /\ Len(s) = 1 /\ Contents(Cleared) = FlattenSeq(s) /\ Len(s[1]) = 0
  <2>1. /\ s \in Seq(Chunks) /\ Len(s) = Len(Cleared.buffers) /\ Contents(Cleared) = FlattenSeq(s)
        /\ \A i \in 1 .. Len(Cleared.buffers) : Len(s[i]) = Written(Cleared, i) - From(Cleared, i)
    BY <1>2, PiecesAre
  <2>2. 1 \in 1 .. 1 /\ 0 - 0 = 0
    OBVIOUS
  <2> HIDE DEF s
  <2> QED
    BY <1>3, <1>4, <2>1, <2>2
<1> HIDE DEF s
<1>6. Contents(Cleared) \in Chunks /\ Len(Contents(Cleared)) = 0
  BY <1>5, OneChunk
<1>7. Contents(Cleared) = <<>>
  BY <1>6, EmptySeq DEF Chunks
<1> QED
  BY <1>1, <1>2, <1>7

(* What is freed is what came first.                                       *)
LEMMA FreeHolds ==
  ASSUME NEW r, RingFits(r), NEW k \in Nat, k <= readSize(r)
  PROVE  /\ Contents(r) \in Chunks
         /\ k <= Len(Contents(r))
         /\ Contents(Free(r, k)) = Rest(Contents(r), k)
         /\ r.totalSize = Len(Contents(r)) =>
              Free(r, k).totalSize = Len(Contents(Free(r, k)))
<1> DEFINE n == Len(r.buffers)
           w == Written(r, 1)
           p == Free(r, k)
           s == Pieces(r)
           c == r.buffers[1]
           Fine == /\ Contents(r) \in Chunks
                   /\ k <= Len(Contents(r))
                   /\ Contents(p) = Rest(Contents(r), k)
                   /\ r.totalSize = Len(Contents(r)) => p.totalSize = Len(Contents(p))
<1>1. /\ Filled(r) /\ r \in Rings
      /\ \A i \in 2 .. n : Written(r, i) > 0
  BY FitsFilled DEF RingFits
<1>2. /\ r.buffers \in Seq(Chunks) /\ n \in Nat /\ n >= 1
      /\ r.head \in Nat /\ r.tail \in Nat /\ r.totalSize \in Nat
      /\ c \in Chunks /\ w \in Nat /\ w <= Len(c) /\ r.head <= w
      /\ \A i \in 1 .. n : From(r, i) = IF i = 1 THEN r.head ELSE 0
  <2>1. 1 \in 1 .. n /\ From(r, 1) = r.head
    BY <1>1, FilledIs DEF From
  <2>2. \A i \in 1 .. n : From(r, i) = IF i = 1 THEN r.head ELSE 0
    BY DEF From
  <2>3. c \in Chunks /\ w \in Nat /\ w <= Len(c) /\ r.head <= w
    BY <1>1, <2>1, FilledIs
  <2> QED
    BY <1>1, <2>2, <2>3, FilledIs
<1>3. /\ s \in Seq(Chunks) /\ Len(s) = n /\ Contents(r) = FlattenSeq(s)
      /\ \A i \in 1 .. n : s[i] = Window(r.buffers[i], From(r, i), Written(r, i))
      /\ s[1] = Window(c, r.head, w) /\ s[1] \in Chunks /\ Len(s[1]) = w - r.head
  <2>1. 1 \in 1 .. n /\ From(r, 1) = r.head
    BY <1>2 DEF From
  <2>2. /\ s \in Seq(Chunks) /\ Len(s) = n /\ Contents(r) = FlattenSeq(s)
        /\ \A i \in 1 .. n : /\ s[i] = Window(r.buffers[i], From(r, i), Written(r, i))
                             /\ s[i] \in Chunks /\ Len(s[i]) = Written(r, i) - From(r, i)
    BY <1>1, PiecesAre
  <2> HIDE DEF s
  <2> QED
    BY <2>1, <2>2
<1>4. readSize(r) = w - r.head /\ k <= w - r.head /\ (n > 1 => readSize(r) < r.totalSize)
  <2>1. readSize(r) = w - r.head /\ k <= w - r.head
    BY DEF readSize
  <2>2. readSize(r) \in Nat /\ readSize(r) <= r.totalSize /\ (readSize(r) = r.totalSize <=> n = 1)
    BY CountsRight
  <2> HIDE DEF w, n
  <2> QED
    BY <1>2, <2>1, <2>2
<1>5. \A t : k <= Len(Contents(r)) /\ Contents(r) \in Chunks =>
               Len(Rest(Contents(r), k)) = Len(Contents(r)) - k
  BY RestIs
<1>6. CASE k < readSize(r)
  <2> DEFINE h == r.head + k
             d == r.totalSize - k
  <2>1. p = [r EXCEPT !.head = h, !.totalSize = d]
    BY <1>6 DEF Free
  <2>2. h \in Nat /\ d \in Nat
    <3>1. readSize(r) \in Nat /\ readSize(r) <= r.totalSize
      BY CountsRight
    <3> QED
      BY <1>2, <1>6, <3>1
  <2>3. /\ p \in Rings /\ p.buffers = r.buffers /\ p.tail = r.tail /\ p.head = h
        /\ p.totalSize = d
    <3> DEFINE B == Seq(Chunks)
    <3>1. r \in [buffers : B, head : Nat, tail : Nat, totalSize : Nat] /\ r.buffers \in B
      BY <1>1, <1>2 DEF Rings
    <3> HIDE DEF B, h, d, p
    <3>2. /\ p \in [buffers : B, head : Nat, tail : Nat, totalSize : Nat]
          /\ p.buffers = r.buffers /\ p.tail = r.tail /\ p.head = h /\ p.totalSize = d
      BY <2>1, <2>2, <3>1, Changed
    <3> QED
      BY <3>2 DEF B, Rings
  <2>p. p = Free(r, k)
    OBVIOUS
  <2> HIDE DEF p
  <2>4. \A i \in 1 .. n : Written(p, i) = Written(r, i)
    BY <2>3 DEF Written
  <2>5. Filled(p)
    <3>1. p.head <= Written(p, 1)
      BY <1>2, <1>4, <1>6, <2>3, <2>4
    <3> QED
      BY <1>1, <2>3, <3>1 DEF Filled
  <2> DEFINE t == Pieces(p)
  <2>6. /\ t \in Seq(Chunks) /\ Len(t) = n /\ Contents(p) = FlattenSeq(t)
        /\ \A i \in 1 .. n : t[i] = Window(r.buffers[i], From(p, i), Written(r, i))
    <3>1. /\ t \in Seq(Chunks) /\ Len(t) = Len(p.buffers) /\ Contents(p) = FlattenSeq(t)
          /\ \A i \in 1 .. Len(p.buffers) : t[i] = Window(p.buffers[i], From(p, i), Written(p, i))
      BY <2>5, PiecesAre
    <3> HIDE DEF t
    <3> QED
      BY <2>3, <2>4, <3>1
  <2>7. \A j \in 1 .. n : j # 1 => t[j] = s[j]
    <3>1. \A j \in 1 .. n : j # 1 => From(p, j) = From(r, j)
      BY DEF From
    <3> HIDE DEF t, s
    <3> QED
      BY <1>3, <2>6, <3>1
  <2>8. t[1] = Rest(s[1], k)
    <3>1. 1 \in 1 .. n /\ From(p, 1) = r.head + k
      BY <1>2, <2>3 DEF From
    <3>2. Rest(Window(c, r.head, w), k) = Window(c, r.head + k, w)
      <4>1. r.head + k <= w
        BY <1>2, <1>4
      <4> HIDE DEF c, w
      <4> QED
        BY <1>2, <4>1, RestOfCut
    <3>3. t[1] = Window(c, From(p, 1), w)
      BY <2>6, <3>1
    <3> HIDE DEF t, s, c, w
    <3> QED
      BY <1>3, <3>1, <3>2, <3>3
  <2> HIDE DEF s, t
  <2>9. Mostly(n, s, t, 1, Rest(s[1], k)) /\ k <= Len(s[1])
    <3>1. 1 \in 1 .. n
      BY <1>2
    <3> QED
      BY <1>3, <1>4, <2>6, <2>7, <2>8, <3>1 DEF Mostly
  <2>10. /\ FlattenSeq(s) \in Chunks /\ k <= Len(FlattenSeq(s))
         /\ FlattenSeq(t) = Rest(FlattenSeq(s), k)
    <3> HIDE DEF n
    <3> QED
      BY <2>9, FirstShrinks
  <2>11. r.totalSize = Len(Contents(r)) => p.totalSize = Len(Contents(p))
    BY <1>3, <1>5, <2>3, <2>6, <2>10
  <2> QED
    BY <1>3, <2>6, <2>10, <2>11, <2>p
<1>7. CASE k = readSize(r) /\ n = 1
  <2>1. {i \in 2 .. n : Written(r, i) > 0} = {} /\ ~(k < readSize(r))
    BY <1>4, <1>7, <1>2
  <2>2. p = Reset(r, k)
    BY <2>1 DEF Free
  <2>3. r.totalSize = k
    <3>1. readSize(r) = r.totalSize <=> n = 1
      BY CountsRight
    <3> QED
      BY <1>7, <3>1
  <2>4. p = Cleared
    <3>1. r.totalSize - k = 0
      BY <1>2, <2>3
    <3> QED
      BY <2>2, <3>1 DEF Reset, Cleared
  <2>5. Contents(p) = <<>> /\ p.totalSize = 0
    BY <2>4, ClearedHolds
  <2>6. Contents(r) = s[1]
    BY <1>3, <1>7, OneChunk
  <2>7. Contents(r) \in Chunks /\ Len(Contents(r)) = k
    BY <1>3, <1>4, <1>7, <2>6
  <2>8. Rest(Contents(r), k) \in Chunks /\ Len(Rest(Contents(r), k)) = k - k
    BY <2>7, RestIs
  <2>9. Rest(Contents(r), k) = <<>>
    BY <2>8, EmptySeq DEF Chunks
  <2>10. Len(<<>>) = 0 /\ k <= k
    OBVIOUS
  <2> HIDE DEF p, s
  <2> QED
    BY <2>5, <2>7, <2>9, <2>10 DEF p
<1>8. CASE k = readSize(r) /\ n > 1
  <2> DEFINE bufs == SubSeq(r.buffers, 2, n)
             d == r.totalSize - k
             filled == {i \in 2 .. n : Written(r, i) > 0}
  <2>0. filled # {} /\ Min(filled) = 2
    <3>1. 2 \in 2 .. n /\ n >= 2 /\ filled = 2 .. n
      BY <1>1, <1>2, <1>8
    <3> HIDE DEF filled
    <3> QED
      BY <1>2, <3>1, MinOfTwoOn
  <2>1. ~(k < readSize(r))
    BY <1>2, <1>4, <1>8
  <2>2. p = [r EXCEPT !.buffers = bufs, !.head = 0, !.totalSize = d]
    BY <2>0, <2>1 DEF Free
  <2>3. d \in Nat /\ 0 \in Nat
    <3>1. readSize(r) \in Nat /\ readSize(r) <= r.totalSize
      BY CountsRight
    <3> QED
      BY <1>2, <1>8, <3>1
  <2>4. /\ bufs \in Seq(Chunks) /\ Len(bufs) = n - 1
        /\ \A i \in 1 .. n - 1 : bufs[i] = r.buffers[i + 1]
    <3> DEFINE b == r.buffers
    <3>1. b \in Seq(Chunks) /\ Len(b) = n /\ \A i \in 2 .. n : b[i] \in Chunks
      BY <1>2
    <3>2. bufs = SubSeq(b, 2, n)
      OBVIOUS
    <3> HIDE DEF b, n, bufs
    <3>3. /\ bufs \in Seq(Chunks) /\ Len(bufs) = n - 1
          /\ \A i \in 1 .. n - 1 : bufs[i] = b[2 + i - 1]
      BY <1>2, <1>8, <3>1, <3>2, SubSeqProperties
    <3>4. \A i \in 1 .. n - 1 : 2 + i - 1 = i + 1
      BY <1>2
    <3> QED
      BY <3>3, <3>4 DEF b
  <2>5. /\ p \in Rings /\ p.buffers = bufs /\ p.tail = r.tail /\ p.head = 0
        /\ p.totalSize = d
    <3> DEFINE B == Seq(Chunks)
    <3>1. r \in [buffers : B, head : Nat, tail : Nat, totalSize : Nat] /\ bufs \in B
      BY <1>1, <2>4 DEF Rings
    <3> HIDE DEF B, d, p, bufs
    <3>2. /\ p \in [buffers : B, head : Nat, tail : Nat, totalSize : Nat]
          /\ p.buffers = bufs /\ p.tail = r.tail /\ p.head = 0 /\ p.totalSize = d
      BY <1>2, <2>2, <2>3, <3>1, Changed
    <3> QED
      BY <3>2 DEF B, Rings
  <2>p. p = Free(r, k)
    OBVIOUS
  <2>6. Filled(p)
    <3>1. RingFits(p)
      BY FreeFits
    <3> HIDE DEF p
    <3> QED
      BY <3>1, FitsFilled
  <2> HIDE DEF p, bufs
  <2>7. \A i \in 1 .. n - 1 : Written(p, i) = Written(r, i + 1)
    <3> SUFFICES ASSUME NEW i \in 1 .. n - 1 PROVE Written(p, i) = Written(r, i + 1)
      OBVIOUS
    <3>1. i \in Nat /\ (i = n - 1 <=> i + 1 = n)
      BY <1>2
    <3>2. Len(p.buffers) = n - 1 /\ p.buffers[i] = r.buffers[i + 1] /\ p.tail = r.tail
      BY <2>4, <2>5
    <3> QED
      BY <3>1, <3>2 DEF Written
  <2> DEFINE t == Pieces(p)
  <2>8. /\ t \in Seq(Chunks) /\ Len(t) = n - 1 /\ Contents(p) = FlattenSeq(t)
        /\ \A i \in 1 .. n - 1 : t[i] = Window(p.buffers[i], From(p, i), Written(p, i))
    <3>1. /\ t \in Seq(Chunks) /\ Len(t) = Len(p.buffers) /\ Contents(p) = FlattenSeq(t)
          /\ \A i \in 1 .. Len(p.buffers) : t[i] = Window(p.buffers[i], From(p, i), Written(p, i))
      BY <2>6, PiecesAre
    <3> HIDE DEF t
    <3> QED
      BY <2>4, <2>5, <3>1
  <2> HIDE DEF s, t
  <2>9. \A i \in 1 .. n - 1 : t[i] = s[i + 1]
    <3> SUFFICES ASSUME NEW i \in 1 .. n - 1 PROVE t[i] = s[i + 1]
      OBVIOUS
    <3>1. i + 1 \in 1 .. n /\ i + 1 # 1
      BY <1>2
    <3>2. From(p, i) = 0 /\ From(r, i + 1) = 0
      BY <2>5, <3>1 DEF From
    <3>3. p.buffers[i] = r.buffers[i + 1] /\ Written(p, i) = Written(r, i + 1)
      BY <2>4, <2>5, <2>7
    <3>4. t[i] = Window(p.buffers[i], From(p, i), Written(p, i))
      BY <2>8
    <3>5. s[i + 1] = Window(r.buffers[i + 1], From(r, i + 1), Written(r, i + 1))
      BY <1>3, <3>1
    <3> QED
      BY <3>2, <3>3, <3>4, <3>5
  <2>10. /\ s \in Seq(Chunks) /\ Len(s) >= 2 /\ t \in Seq(Chunks) /\ Len(t) = Len(s) - 1
         /\ \A i \in 1 .. Len(s) - 1 : t[i] = s[i + 1]
    BY <1>2, <1>3, <1>8, <2>8, <2>9
  <2>11. k = Len(s[1])
    BY <1>3, <1>4, <1>8
  <2>12. /\ FlattenSeq(s) \in Chunks /\ k <= Len(FlattenSeq(s))
         /\ FlattenSeq(t) = Rest(FlattenSeq(s), k)
    BY <2>10, <2>11, FirstGoes
  <2>13. r.totalSize = Len(Contents(r)) => p.totalSize = Len(Contents(p))
    BY <1>3, <1>5, <2>5, <2>8, <2>12
  <2> QED
    BY <1>3, <2>8, <2>12, <2>13, <2>p
<1> HIDE DEF n, w, p, s, c
<1>9. k < readSize(r) \/ (k = readSize(r) /\ n = 1) \/ (k = readSize(r) /\ n > 1)
  BY <1>2, <1>4
<1> QED
  BY <1>6, <1>7, <1>8, <1>9

-----------------------------------------------------------------------------
(* The device *)

LEMMA Starts == Init => IInv
<1> SUFFICES ASSUME Init PROVE IInv
  OBVIOUS
<1>1. writeBuffer = Cleared /\ sent = 0
  BY DEF Init
<1>2. RingFits(writeBuffer) /\ writeBuffer.totalSize = 0
  BY <1>1, ClearedFits
<1>3. isEmpty(writeBuffer)
  BY <1>2, CountsRight
<1> QED
  BY <1>1, <1>2, <1>3 DEF IInv, NothingStuck

LEMMA Queueing ==
    ASSUME IInv, NEW k \in Nat, k > 0, Queue(k)
    PROVE  IInv'
<1> DEFINE data == Numbered(sent, k)
<1>1. RingFits(writeBuffer) /\ sent \in Nat
  BY DEF IInv
<1>2. data \in Seq(Nat) /\ Len(data) = k
  BY <1>1 DEF Numbered
<1>3. writeBuffer' = Put(writeBuffer, k, data) /\ sent' = sent + k /\ writeOn' = TRUE
  BY DEF Queue
<1> HIDE DEF data
<1>4. RingFits(writeBuffer') /\ writeBuffer'.totalSize > 0
  BY <1>1, <1>2, <1>3, PutFits
<1>5. writeBuffer'.totalSize \in Nat
  BY <1>4 DEF RingFits, Rings
<1>6. NothingStuck'
  <2>1. writeBuffer'.totalSize # 0
    BY <1>4, <1>5
  <2> QED
    BY <1>3, <2>1 DEF NothingStuck
<1> QED
  BY <1>1, <1>3, <1>4, <1>6 DEF IInv

LEMMA Writing ==
    ASSUME IInv, NEW k \in 0 .. Room, CanWrite(k)
    PROVE  IInv'
<1>1. RingFits(writeBuffer) /\ k \in Nat /\ k <= readSize(writeBuffer)
  BY DEF IInv, CanWrite
<1>2. writeBuffer' = Free(writeBuffer, k) /\ sent' = sent /\ writeOn' = ~isEmpty(writeBuffer')
  BY DEF CanWrite, Rearmed
<1>3. RingFits(writeBuffer')
  BY <1>1, <1>2, FreeFits
<1>4. writeBuffer'.totalSize = 0 <=> isEmpty(writeBuffer')
  BY <1>3, CountsRight
<1>5. writeBuffer'.totalSize \in Nat
  BY <1>3 DEF RingFits, Rings
<1>6. writeBuffer'.totalSize > 0 => writeBuffer'.totalSize # 0
  BY <1>5
<1>7. NothingStuck'
  BY <1>2, <1>4, <1>6 DEF NothingStuck
<1> QED
  BY <1>2, <1>3, <1>7 DEF IInv

LEMMA Steps == IInv /\ [Next]_vars => IInv'
<1> SUFFICES ASSUME IInv, [Next]_vars PROVE IInv'
  OBVIOUS
<1>0. UNCHANGED <<writeBuffer, writeOn, writeFailed, sent>> => IInv'
  BY DEF IInv, NothingStuck
<1>1. ASSUME NEW k \in Lengths, SendData(k) PROVE IInv'
  <2>1. k \in Nat /\ k > 0
    BY DeviceAssumption
  <2> QED
    BY <1>1, <2>1, Queueing DEF SendData
<1>2. CASE SendEof
  BY <1>2, Queueing DEF SendEof
<1>3. CASE Writes
  BY <1>3, Writing DEF Writes
<1>4. CASE WriteFails
  BY <1>4 DEF WriteFails, IInv, NothingStuck
<1>5. ASSUME NEW k \in 1 .. MaxPrinted, NEW answer \in {0, 1}, CanRead(k, answer) PROVE IInv'
  <2>1. CASE answer > 0 /\ Queue(answer)
    BY <2>1, Queueing
  <2>2. CASE answer = 0 /\ UNCHANGED <<writeBuffer, writeOn, writeFailed, sent>>
    BY <1>0, <2>2
  <2> QED
    BY <1>5, <2>1, <2>2 DEF CanRead
<1>6. CASE ReadFails \/ ClosePty
  BY <1>0, <1>6 DEF ReadFails, ClosePty
<1>7. CASE Shell
  BY <1>0, <1>7 DEF Shell, ShellReads, ShellPrints
<1>8. CASE UNCHANGED vars
  BY <1>0, <1>8 DEF vars
<1> QED
  BY <1>1, <1>2, <1>3, <1>4, <1>5, <1>6, <1>7, <1>8 DEF Next, Reads

-----------------------------------------------------------------------------
(* The write notifier is off only after a failed write or when the buffer  *)
(* is empty, and an empty buffer is one that isEmpty() calls empty         *)
(* (_k_canWrite, KRingBuffer), for chunks and kernel queues of any size.   *)
THEOREM NothingGetsStuck == Spec => []NothingStuck
<1>1. IInv => NothingStuck
  BY DEF IInv
<1> QED
  BY <1>1, Starts, Steps, PTL DEF Spec

-----------------------------------------------------------------------------
(* The bytes on both lines.  Nothing in a queue is Junk.                   *)
Bytes == Nat \ {0}

Holds(r) ==
    /\ Filled(r)
    /\ Contents(r) \in Seq(Bytes)
    /\ r.totalSize = Len(Contents(r))

LinesInv ==
    /\ open \in BOOLEAN /\ writeOn \in BOOLEAN /\ writeFailed \in BOOLEAN
    /\ waiting \in BOOLEAN
    /\ RingFits(writeBuffer) /\ Holds(writeBuffer) /\ Holds(readBuffer)
    /\ input \in Seq(Bytes) /\ Len(input) <= Room
    /\ output \in Seq(Bytes)
    /\ sent \in 0 .. MaxSent /\ printed \in 0 .. MaxPrinted

LEMMA NumberedIs ==
  ASSUME NEW n \in Nat, NEW k \in Nat
  PROVE  Numbered(n, k) \in Seq(Bytes) /\ Numbered(n, k) \in Chunks /\ Len(Numbered(n, k)) = k
BY DEF Numbered, Bytes, Chunks

LEMMA BytesAreNumbers ==
  ASSUME NEW s \in Seq(Bytes)
  PROVE  s \in Chunks /\ s \in Seq(Nat) /\ Len(s) \in Nat
BY DEF Bytes, Chunks

LEMMA BytesAssociate ==
  ASSUME NEW a \in Seq(Bytes), NEW b \in Seq(Bytes), NEW c \in Seq(Bytes)
  PROVE  (a \o b) \o c = a \o (b \o c)
BY ConcatAssociative

LEMMA BytesJoin ==
  ASSUME NEW a \in Seq(Bytes), NEW b \in Seq(Bytes)
  PROVE  /\ a \o b \in Seq(Bytes) /\ Len(a \o b) = Len(a) + Len(b)
         /\ \A i \in 1 .. Len(a) + Len(b) :
              (a \o b)[i] = IF i <= Len(a) THEN a[i] ELSE b[i - Len(a)]
BY ConcatProperties

LEMMA RingIsOK ==
  ASSUME NEW r, Holds(r)
  PROVE  RingOK(r)
<1>1. /\ r.head \in Nat /\ r.tail \in Nat /\ r.buffers # <<>> /\ r.tail <= Len(Last(r.buffers))
  BY FilledIs DEF Holds, Filled, Last
<1>2. Contents(r) \in Seq(Bytes) /\ r.totalSize = Len(Contents(r))
  BY DEF Holds
<1>3. Junk \notin Range(Contents(r))
  <2> DEFINE s == Contents(r)
  <2>1. s \in Seq(Bytes)
    BY <1>2
  <2> HIDE DEF s
  <2>2. \A i \in DOMAIN s : s[i] \in Bytes
    BY <2>1
  <2>3. Junk \notin Range(s)
    BY <2>2 DEF Range, Junk, Bytes
  <2> QED
    BY <2>3 DEF s
<1> QED
  BY <1>1, <1>2, <1>3 DEF RingOK

LEMMA LinesAreTyped == LinesInv => TypeOK
BY RingIsOK DEF LinesInv, TypeOK

LEMMA PutKeeps ==
  ASSUME NEW r, Holds(r), NEW data \in Seq(Bytes), NEW room \in Nat, Len(data) <= room
  PROVE  /\ Holds(Put(r, room, data))
         /\ Contents(Put(r, room, data)) = Contents(r) \o data
<1> DEFINE p == Put(r, room, data)
<1>1. Filled(r) /\ data \in Chunks /\ Contents(r) \in Seq(Bytes) /\ r.totalSize = Len(Contents(r))
  BY BytesAreNumbers DEF Holds
<1>2. /\ Filled(p) /\ Contents(p) = Contents(r) \o data
      /\ p.totalSize = r.totalSize + Len(data)
  BY <1>1, PutHolds
<1> DEFINE c == Contents(r)
<1> HIDE DEF p, c
<1>3. c \in Seq(Bytes) /\ c = Contents(r)
  BY <1>1 DEF c
<1>4. c \o data \in Seq(Bytes) /\ Len(c \o data) = Len(c) + Len(data)
  BY <1>3, ConcatProperties
<1>5. Holds(p)
  BY <1>1, <1>2, <1>3, <1>4 DEF Holds
<1> QED
  BY <1>2, <1>5 DEF p

LEMMA FreeKeeps ==
  ASSUME NEW r, RingFits(r), Holds(r), NEW k \in Nat, k <= readSize(r)
  PROVE  /\ RingFits(Free(r, k)) /\ Holds(Free(r, k))
         /\ k <= Len(Contents(r))
         /\ Contents(Free(r, k)) = SubSeq(Contents(r), k + 1, Len(Contents(r)))
<1> DEFINE p == Free(r, k)
           c == Contents(r)
<1>1. c \in Seq(Bytes) /\ r.totalSize = Len(c)
  BY DEF Holds
<1>2. RingFits(p) /\ Filled(p)
  <2>1. RingFits(p)
    BY FreeFits
  <2> HIDE DEF p
  <2> QED
    BY <2>1, FitsFilled
<1>3. k <= Len(c) /\ Contents(p) = SubSeq(c, k + 1, Len(c)) /\ p.totalSize = Len(Contents(p))
  BY <1>1, FreeHolds DEF Rest
<1> HIDE DEF p, c
<1>4. Len(c) \in Nat /\ \A i \in k + 1 .. Len(c) : c[i] \in Bytes
  BY <1>1
<1>5. SubSeq(c, k + 1, Len(c)) \in Seq(Bytes)
  BY <1>4, SubSeqProperties
<1>6. Holds(p)
  BY <1>2, <1>3, <1>5 DEF Holds
<1> QED
  BY <1>2, <1>3, <1>6 DEF p, c

(* A queue that was read out is new, or was empty and stays as it is.      *)
LEMMA ReadKeeps ==
  ASSUME NEW r, Holds(r)
  PROVE  Holds(ReadAll(r)) /\ Contents(ReadAll(r)) = <<>>
<1>1. Filled(r) /\ Contents(r) \in Seq(Bytes) /\ r.totalSize = Len(Contents(r))
  BY DEF Holds
<1>2. r.totalSize \in Nat
  BY <1>1, FilledIs
<1>3. CASE r.totalSize = 0
  BY <1>1, <1>3, EmptySeq DEF ReadAll
<1>4. CASE r.totalSize # 0
  <2>1. ReadAll(r) = Reset(r, r.totalSize) /\ r.totalSize - r.totalSize = 0
    BY <1>2, <1>4 DEF ReadAll
  <2>2. ReadAll(r) = Cleared
    BY <2>1 DEF Reset, Cleared
  <2>3. Filled(Cleared) /\ Contents(Cleared) = <<>> /\ Cleared.totalSize = 0
    BY ClearedHolds
  <2>4. Holds(Cleared)
    <3>1. <<>> \in Seq(Bytes) /\ Len(<<>>) = 0
      OBVIOUS
    <3> QED
      BY <2>3, <3>1 DEF Holds
  <2> QED
    BY <2>2, <2>3, <2>4
<1> QED
  BY <1>3, <1>4

LEMMA Opened == Init => LinesInv
<1> SUFFICES ASSUME Init PROVE LinesInv
  OBVIOUS
<1>1. RingFits(Cleared) /\ Filled(Cleared) /\ Contents(Cleared) = <<>> /\ Cleared.totalSize = 0
  BY ClearedFits, ClearedHolds
<1>2. <<>> \in Seq(Bytes) /\ Len(<<>>) = 0
  OBVIOUS
<1>3. Holds(Cleared)
  BY <1>1, <1>2 DEF Holds
<1>4. 0 \in 0 .. MaxSent /\ 0 \in 0 .. MaxPrinted /\ 0 <= Room
  BY DeviceAssumption
<1> QED
  BY <1>1, <1>2, <1>3, <1>4 DEF Init, LinesInv

typingVars == <<sent, input \o Contents(writeBuffer), typed>>
printingVars == <<printed, Contents(readBuffer) \o output, received>>

(* What the two directions of the line owe to every step.                  *)
InOrder == [Typing!Next]_typingVars /\ [Printing!Next]_printingVars

ReadSide == <<readBuffer, output, printed, received>>
WriteSide == <<writeBuffer, input, sent, typed>>

LEMMA QueueSends ==
  ASSUME LinesInv, NEW k \in Nat, k > 0, Queue(k), input' = input, typed' = typed
  PROVE  /\ RingFits(writeBuffer') /\ Holds(writeBuffer')
         /\ sent' \in 0 .. MaxSent /\ writeOn' \in BOOLEAN /\ writeFailed' \in BOOLEAN
         /\ Typing!Next
<1> DEFINE data == Numbered(sent, k)
           c == Contents(writeBuffer)
<1>1. /\ RingFits(writeBuffer) /\ Holds(writeBuffer) /\ sent \in Nat /\ MaxSent \in Nat
      /\ input \in Seq(Bytes)
  BY DeviceAssumption DEF LinesInv
<1>2. /\ sent + k <= MaxSent /\ sent' = sent + k /\ writeBuffer' = Put(writeBuffer, k, data)
      /\ writeOn' = TRUE /\ writeFailed' = FALSE
  BY DEF Queue
<1>3. data \in Seq(Bytes) /\ Len(data) = k /\ data \in Seq(Nat)
  BY <1>1, NumberedIs DEF Chunks
<1>d. data = Numbered(sent, k)
  OBVIOUS
<1> HIDE DEF data
<1>4. Holds(writeBuffer') /\ Contents(writeBuffer') = c \o data
  <2>1. Len(data) <= k
    BY <1>3
  <2> QED
    BY <1>1, <1>2, <1>3, <2>1, PutKeeps
<1>5. RingFits(writeBuffer')
  BY <1>1, <1>2, <1>3, PutFits
<1>6. c \in Seq(Bytes)
  BY <1>1 DEF Holds
<1> HIDE DEF c
<1>7. input \o (c \o data) = (input \o c) \o data
  BY <1>1, <1>3, <1>6, BytesAssociate
<1>8. sent' > sent /\ sent' - sent = k /\ sent' \in 0 .. MaxSent
  BY <1>1, <1>2
<1>9. data = [i \in 1 .. (sent' - sent) |-> sent + i]
  BY <1>8, <1>d DEF Numbered
<1>10. input' \o Contents(writeBuffer')
         = (input \o Contents(writeBuffer)) \o [i \in 1 .. (sent' - sent) |-> sent + i]
  BY <1>4, <1>7, <1>9 DEF c
<1>11. Typing!Send
  BY <1>8, <1>10 DEF Typing!Send
<1> QED
  BY <1>2, <1>4, <1>5, <1>8, <1>11 DEF Typing!Next

LEMMA Sends ==
  ASSUME LinesInv, NEW k \in Nat, k > 0, Queue(k), waiting' \in BOOLEAN,
         UNCHANGED <<open, readBuffer, input, output, printed, typed, received>>
  PROVE  LinesInv' /\ InOrder
<1>1. /\ RingFits(writeBuffer') /\ Holds(writeBuffer')
      /\ sent' \in 0 .. MaxSent /\ writeOn' \in BOOLEAN /\ writeFailed' \in BOOLEAN
      /\ Typing!Next
  BY QueueSends
<1>2. LinesInv'
  BY <1>1 DEF LinesInv
<1>3. UNCHANGED printingVars
  BY DEF printingVars
<1> QED
  BY <1>1, <1>2, <1>3 DEF InOrder

LEMMA LineWrites ==
  ASSUME LinesInv, NEW k \in 0 .. Room, CanWrite(k)
  PROVE  LinesInv' /\ InOrder
<1> DEFINE c == Contents(writeBuffer)
           n == Len(c)
           u == SubSeq(c, 1, k)
           v == SubSeq(c, k + 1, n)
<1>1. /\ RingFits(writeBuffer) /\ Holds(writeBuffer) /\ input \in Seq(Bytes)
      /\ Len(input) <= Room /\ Room \in Nat /\ k \in Nat
  BY DeviceAssumption DEF LinesInv
<1>2. /\ k <= readSize(writeBuffer) /\ Len(input) + k <= Room
      /\ input' = input \o u /\ writeBuffer' = Free(writeBuffer, k)
      /\ writeOn' \in BOOLEAN /\ writeFailed' = FALSE /\ waiting' = FALSE
      /\ UNCHANGED <<open, readBuffer, output, sent, printed, typed, received>>
  BY DEF CanWrite, Rearmed
<1>3. /\ RingFits(writeBuffer') /\ Holds(writeBuffer') /\ k <= n
      /\ Contents(writeBuffer') = v
  BY <1>1, <1>2, FreeKeeps
<1>4. c \in Seq(Bytes) /\ n \in Nat
  BY <1>1 DEF Holds
<1>n. n = Len(c)
  OBVIOUS
<1> HIDE DEF c, n
<1>5. u \in Seq(Bytes) /\ Len(u) = k /\ v \in Seq(Bytes) /\ u \o v = c
  <2>1. \A i \in 1 .. n : c[i] \in Bytes
    BY <1>4, <1>n
  <2>2. u \in Seq(Bytes) /\ Len(u) = k
    BY <1>1, <1>3, <2>1, <1>4, SubSeqProperties
  <2>3. v \in Seq(Bytes)
    BY <1>1, <1>3, <2>1, <1>4, SubSeqProperties
  <2>4. u \o v = SubSeq(c, 1, n)
    <3>1. 1 \in 1 .. Len(c) + 1 /\ k \in 1 - 1 .. Len(c) /\ n \in k .. Len(c)
      BY <1>1, <1>3, <1>4, <1>n
    <3> QED
      BY <1>4, <3>1, ConcatAdjacentSubSeq
  <2>5. SubSeq(c, 1, n) = c
    BY <1>4, <1>n, SubSeqFull
  <2> QED
    BY <2>2, <2>3, <2>4, <2>5
<1> HIDE DEF u, v
<1>6. input' \in Seq(Bytes) /\ Len(input') <= Room
  <2>1. input \o u \in Seq(Bytes) /\ Len(input \o u) = Len(input) + Len(u)
    BY <1>1, <1>5, BytesJoin
  <2> QED
    BY <1>2, <1>5, <2>1
<1>7. (input \o u) \o v = input \o (u \o v)
  BY <1>1, <1>5, BytesAssociate
<1>8. LinesInv'
  BY <1>2, <1>3, <1>6 DEF LinesInv
<1>9. UNCHANGED typingVars
  BY <1>2, <1>3, <1>5, <1>7 DEF typingVars, c
<1>10. UNCHANGED printingVars
  BY <1>2 DEF printingVars
<1> QED
  BY <1>8, <1>9, <1>10 DEF InOrder

LEMMA LineReads ==
  ASSUME LinesInv, NEW k \in Nat, NEW answer \in {0, 1}, CanRead(k, answer)
  PROVE  LinesInv' /\ InOrder
<1> DEFINE n == Len(output)
           u == SubSeq(output, 1, k)
           v == SubSeq(output, k + 1, n)
           c == Contents(readBuffer)
           buffer == Put(readBuffer, n, u)
<1>1. Holds(readBuffer) /\ output \in Seq(Bytes) /\ n \in Nat
  BY DEF LinesInv
<1>2. /\ k \in 1 .. n /\ received' = Contents(buffer) /\ readBuffer' = ReadAll(buffer)
      /\ output' = v /\ UNCHANGED <<open, waiting, input, printed, typed>>
      /\ \/ answer > 0 /\ Queue(answer)
         \/ answer = 0 /\ UNCHANGED <<writeBuffer, writeOn, writeFailed, sent>>
  BY DEF CanRead
<1>n. n = Len(output)
  OBVIOUS
<1> HIDE DEF n
<1>3. /\ u \in Seq(Bytes) /\ Len(u) = k /\ v \in Seq(Bytes) /\ Len(v) = n - k /\ u \o v = output
      /\ \A i \in 1 .. k : u[i] = output[i]
      /\ \A i \in 1 .. n - k : v[i] = output[k + i]
  <2>1. \A i \in 1 .. n : output[i] \in Bytes
    BY <1>1, <1>n
  <2>2. u \in Seq(Bytes) /\ Len(u) = k /\ \A i \in 1 .. k : u[i] = output[i]
    <3>1. /\ u \in Seq(Bytes) /\ Len(u) = IF 1 <= k THEN k - 1 + 1 ELSE 0
          /\ \A i \in 1 .. k - 1 + 1 : u[i] = output[1 + i - 1]
      BY <1>1, <1>2, <2>1, SubSeqProperties
    <3>2. \A i \in 1 .. k : 1 + i - 1 = i /\ i \in 1 .. k - 1 + 1
      OBVIOUS
    <3> HIDE DEF u
    <3> QED
      BY <1>2, <3>1, <3>2
  <2>3. v \in Seq(Bytes) /\ Len(v) = n - k /\ \A i \in 1 .. n - k : v[i] = output[k + i]
    <3>1. /\ v \in Seq(Bytes) /\ Len(v) = IF k + 1 <= n THEN n - (k + 1) + 1 ELSE 0
          /\ \A i \in 1 .. n - (k + 1) + 1 : v[i] = output[(k + 1) + i - 1]
      BY <1>1, <1>2, <2>1, SubSeqProperties
    <3>2. \A i \in 1 .. n - k : (k + 1) + i - 1 = k + i /\ i \in 1 .. n - (k + 1) + 1
      BY <1>1
    <3> HIDE DEF v
    <3> QED
      BY <1>1, <1>2, <3>1, <3>2
  <2>4. u \o v = SubSeq(output, 1, n)
    <3>1. 1 \in 1 .. Len(output) + 1 /\ k \in 1 - 1 .. Len(output) /\ n \in k .. Len(output)
      BY <1>1, <1>2, <1>n
    <3> QED
      BY <1>1, <3>1, ConcatAdjacentSubSeq
  <2>5. SubSeq(output, 1, n) = output
    BY <1>1, <1>n, SubSeqFull
  <2> QED
    BY <2>2, <2>3, <2>4, <2>5
<1> HIDE DEF u, v
<1>4. Holds(buffer) /\ Contents(buffer) = c \o u
  <2>1. Len(u) <= n
    BY <1>1, <1>2, <1>3
  <2> QED
    BY <1>1, <1>3, <2>1, PutKeeps
<1> HIDE DEF buffer
<1>5. Holds(readBuffer') /\ Contents(readBuffer') = <<>>
  BY <1>2, <1>4, ReadKeeps
<1>6. c \in Seq(Bytes)
  BY <1>1 DEF Holds
<1>c. c = Contents(readBuffer)
  OBVIOUS
<1> HIDE DEF c
<1>7. Printing!Next
  <2> DEFINE q == c \o output
             m == Len(c) + k
  <2>1. /\ q \in Seq(Bytes) /\ Len(q) = Len(c) + n /\ Len(c) \in Nat
        /\ q = (c \o u) \o v
    <3>1. (c \o u) \o v = c \o (u \o v)
      BY <1>3, <1>6, BytesAssociate
    <3>2. c \o output \in Seq(Bytes) /\ Len(c \o output) = Len(c) + n /\ Len(c) \in Nat
      BY <1>1, <1>6, <1>n, BytesJoin
    <3> QED
      BY <1>3, <3>1, <3>2
  <2> DEFINE a == c \o u
  <2>2. a \in Seq(Bytes) /\ Len(a) = m
    <3>1. c \o u \in Seq(Bytes) /\ Len(c \o u) = Len(c) + Len(u)
      BY <1>3, <1>6, BytesJoin
    <3> QED
      BY <1>3, <3>1
  <2>3. m \in 1 .. Len(q) /\ m \in Nat
    BY <1>1, <1>2, <2>1
  <2>q. q = a \o v /\ q = c \o output /\ a = c \o u
    BY <2>1
  <2> HIDE DEF q, m, a
  <2>4. /\ Len(q) = m + Len(v)
        /\ \A i \in 1 .. m + Len(v) : q[i] = IF i <= m THEN a[i] ELSE v[i - m]
    <3>1. /\ Len(a \o v) = Len(a) + Len(v)
          /\ \A i \in 1 .. Len(a) + Len(v) :
               (a \o v)[i] = IF i <= Len(a) THEN a[i] ELSE v[i - Len(a)]
      BY <1>3, <2>2, BytesJoin
    <3> QED
      BY <2>2, <2>q, <3>1
  <2>5. Len(v) \in Nat /\ \A i \in 1 .. Len(q) : q[i] \in Bytes
    BY <1>3, <2>1
  <2>6. SubSeq(q, 1, m) = a
    <3> DEFINE t == SubSeq(q, 1, m)
    <3>1. /\ t \in Seq(Bytes) /\ Len(t) = IF 1 <= m THEN m - 1 + 1 ELSE 0
          /\ \A i \in 1 .. m - 1 + 1 : t[i] = q[1 + i - 1]
      BY <2>3, <2>5, SubSeqProperties
    <3> HIDE DEF t
    <3>2. Len(t) = m /\ m - 1 + 1 = m /\ \A i \in 1 .. m : 1 + i - 1 = i /\ i <= m /\ i \in 1 .. m + Len(v)
      BY <2>3, <2>5, <3>1
    <3>3. \A i \in 1 .. Len(t) : t[i] = a[i]
      BY <2>4, <3>1, <3>2
    <3> QED
      BY <2>2, <3>1, <3>2, <3>3, SeqEqual DEF t
  <2>7. SubSeq(q, m + 1, Len(q)) = v
    <3> DEFINE t == SubSeq(q, m + 1, Len(q))
    <3>0. Len(q) \in Nat /\ m + 1 \in Int /\ \A i \in m + 1 .. Len(q) : q[i] \in Bytes
      BY <2>3, <2>4, <2>5
    <3>1. /\ t \in Seq(Bytes) /\ Len(t) = IF m + 1 <= Len(q) THEN Len(q) - (m + 1) + 1 ELSE 0
          /\ \A i \in 1 .. Len(q) - (m + 1) + 1 : t[i] = q[(m + 1) + i - 1]
      BY <3>0, SubSeqProperties
    <3> HIDE DEF t
    <3>2. Len(t) = Len(v)
      BY <2>3, <2>4, <2>5, <3>1
    <3>3. \A i \in 1 .. Len(t) : t[i] = v[i]
      <4> SUFFICES ASSUME NEW i \in 1 .. Len(v) PROVE t[i] = v[i]
        BY <3>2
      <4>1. /\ i \in 1 .. Len(q) - (m + 1) + 1 /\ (m + 1) + i - 1 = m + i
            /\ m + i \in 1 .. m + Len(v) /\ ~(m + i <= m) /\ (m + i) - m = i
        BY <2>3, <2>4, <2>5
      <4>2. t[i] = q[m + i]
        BY <3>1, <4>1
      <4>3. q[m + i] = v[(m + i) - m]
        BY <2>4, <4>1
      <4> QED
        BY <4>1, <4>2, <4>3
    <3> QED
      BY <1>3, <3>1, <3>2, <3>3, SeqEqual DEF t
  <2>8. <<>> \o v = v
    BY <1>3, ConcatEmptySeq
  <2>9. /\ printed' = printed /\ received' = SubSeq(q, 1, m)
        /\ Contents(readBuffer') \o output' = SubSeq(q, m + 1, Len(q))
    BY <1>2, <1>4, <1>5, <2>6, <2>7, <2>8, <2>q
  <2>10. Printing!Deliver
    BY <1>c, <2>3, <2>9, <2>q DEF Printing!Deliver
  <2> QED
    BY <2>10 DEF Printing!Next
<1>8. CASE answer > 0 /\ Queue(answer)
  <2>1. /\ RingFits(writeBuffer') /\ Holds(writeBuffer')
        /\ sent' \in 0 .. MaxSent /\ writeOn' \in BOOLEAN /\ writeFailed' \in BOOLEAN
        /\ Typing!Next
    BY <1>2, <1>8, QueueSends
  <2>2. LinesInv'
    BY <1>2, <1>3, <1>5, <2>1 DEF LinesInv
  <2> QED
    BY <1>7, <2>1, <2>2 DEF InOrder
<1>9. CASE answer = 0 /\ UNCHANGED <<writeBuffer, writeOn, writeFailed, sent>>
  <2>1. LinesInv'
    BY <1>2, <1>3, <1>5, <1>9 DEF LinesInv
  <2>2. UNCHANGED typingVars
    BY <1>2, <1>9 DEF typingVars
  <2> QED
    BY <1>7, <2>1, <2>2 DEF InOrder
<1> QED
  BY <1>2, <1>8, <1>9

LEMMA LineFails ==
  ASSUME LinesInv, ReadFails
  PROVE  LinesInv' /\ InOrder
<1> DEFINE n == Len(output)
<1>1. Holds(readBuffer) /\ n \in Nat /\ <<>> \in Seq(Bytes) /\ Len(<<>>) <= n
  BY DEF LinesInv
<1>2. /\ readBuffer' = Put(readBuffer, n, <<>>)
      /\ UNCHANGED <<open, writeBuffer, writeOn, writeFailed, waiting, input, output, sent,
                     printed, typed, received>>
  BY DEF ReadFails
<1> HIDE DEF n
<1>3. Holds(readBuffer') /\ Contents(readBuffer') = Contents(readBuffer) \o <<>>
  BY <1>1, <1>2, PutKeeps
<1>4. Contents(readBuffer) \o <<>> = Contents(readBuffer)
  <2>1. Contents(readBuffer) \in Seq(Bytes)
    BY <1>1 DEF Holds
  <2> QED
    BY <2>1, ConcatEmptySeq
<1>5. LinesInv'
  BY <1>2, <1>3 DEF LinesInv
<1>6. UNCHANGED typingVars /\ UNCHANGED printingVars
  BY <1>2, <1>3, <1>4 DEF typingVars, printingVars
<1> QED
  BY <1>5, <1>6 DEF InOrder

LEMMA ShellTypes ==
  ASSUME LinesInv, NEW k \in 1 .. Room, ShellReads(k)
  PROVE  LinesInv' /\ InOrder
<1> DEFINE n == Len(input)
           v == SubSeq(input, k + 1, n)
           c == Contents(writeBuffer)
           q == input \o c
<1>1. /\ Holds(writeBuffer) /\ input \in Seq(Bytes) /\ n \in Nat /\ n <= Room
      /\ Room \in Nat
  BY DeviceAssumption DEF LinesInv
<1>2. /\ k \in 1 .. n /\ typed' = SubSeq(input, 1, k) /\ input' = v
      /\ UNCHANGED <<open, writeBuffer, readBuffer, writeOn, writeFailed, waiting, output, sent,
                     printed, received>>
  BY DEF ShellReads
<1>n. n = Len(input) /\ c \in Seq(Bytes)
  BY <1>1 DEF Holds
<1> HIDE DEF n
<1>c. c = Contents(writeBuffer)
  OBVIOUS
<1> HIDE DEF c
<1>3. /\ v \in Seq(Bytes) /\ Len(v) = n - k /\ \A i \in 1 .. n - k : v[i] = input[k + i]
  <2>1. \A i \in k + 1 .. n : input[i] \in Bytes
    BY <1>1, <1>2, <1>n
  <2>2. /\ v \in Seq(Bytes) /\ Len(v) = IF k + 1 <= n THEN n - (k + 1) + 1 ELSE 0
        /\ \A i \in 1 .. n - (k + 1) + 1 : v[i] = input[(k + 1) + i - 1]
    BY <1>1, <1>2, <2>1, SubSeqProperties
  <2>3. \A i \in 1 .. n - k : (k + 1) + i - 1 = k + i /\ i \in 1 .. n - (k + 1) + 1
    BY <1>1
  <2> HIDE DEF v
  <2> QED
    BY <1>1, <1>2, <2>2, <2>3
<1> HIDE DEF v
<1>4. /\ q \in Seq(Bytes) /\ Len(q) = n + Len(c) /\ Len(c) \in Nat
      /\ \A i \in 1 .. n + Len(c) : q[i] = IF i <= n THEN input[i] ELSE c[i - n]
  <2>1. /\ input \o c \in Seq(Bytes) /\ Len(input \o c) = Len(input) + Len(c)
        /\ \A i \in 1 .. Len(input) + Len(c) :
             (input \o c)[i] = IF i <= Len(input) THEN input[i] ELSE c[i - Len(input)]
    BY <1>1, <1>n, BytesJoin
  <2>2. Len(c) \in Nat
    BY <1>n
  <2> QED
    BY <1>n, <2>1, <2>2
<1>q. q = input \o c
  OBVIOUS
<1> HIDE DEF q
<1>5. k \in 1 .. Len(q) /\ Len(q) \in Nat /\ \A i \in 1 .. Len(q) : q[i] \in Bytes
  BY <1>1, <1>2, <1>4
<1>6. SubSeq(q, 1, k) = SubSeq(input, 1, k)
  <2> DEFINE t == SubSeq(q, 1, k)
             u == SubSeq(input, 1, k)
  <2>0. \A i \in 1 .. k : i \in 1 .. n /\ i <= n /\ i \in 1 .. n + Len(c)
    BY <1>1, <1>2, <1>4
  <2>1. /\ t \in Seq(Bytes) /\ Len(t) = IF 1 <= k THEN k - 1 + 1 ELSE 0
        /\ \A i \in 1 .. k - 1 + 1 : t[i] = q[1 + i - 1]
    BY <1>5, SubSeqProperties
  <2>2. /\ u \in Seq(Bytes) /\ Len(u) = IF 1 <= k THEN k - 1 + 1 ELSE 0
        /\ \A i \in 1 .. k - 1 + 1 : u[i] = input[1 + i - 1]
    <3>1. \A i \in 1 .. k : input[i] \in Bytes
      BY <1>1, <1>n, <2>0
    <3> QED
      BY <3>1, SubSeqProperties
  <2> HIDE DEF t, u
  <2>3. Len(t) = k /\ Len(u) = k /\ \A i \in 1 .. k : 1 + i - 1 = i /\ i \in 1 .. k - 1 + 1
    BY <2>1, <2>2
  <2>4. \A i \in 1 .. Len(t) : t[i] = u[i]
    BY <1>4, <2>0, <2>1, <2>2, <2>3
  <2> QED
    BY <2>1, <2>2, <2>3, <2>4, SeqEqual DEF t, u
<1>7. SubSeq(q, k + 1, Len(q)) = v \o c
  <2> DEFINE t == SubSeq(q, k + 1, Len(q))
             w == v \o c
  <2>1. /\ t \in Seq(Bytes) /\ Len(t) = IF k + 1 <= Len(q) THEN Len(q) - (k + 1) + 1 ELSE 0
        /\ \A i \in 1 .. Len(q) - (k + 1) + 1 : t[i] = q[(k + 1) + i - 1]
    <3>1. \A i \in k + 1 .. Len(q) : q[i] \in Bytes
      BY <1>5
    <3> QED
      BY <1>5, <3>1, SubSeqProperties
  <2>2. /\ w \in Seq(Bytes) /\ Len(w) = Len(v) + Len(c)
        /\ \A i \in 1 .. Len(v) + Len(c) : w[i] = IF i <= Len(v) THEN v[i] ELSE c[i - Len(v)]
    BY <1>3, <1>n, BytesJoin
  <2> HIDE DEF t, w
  <2>3. Len(t) = Len(w)
    BY <1>1, <1>2, <1>3, <1>4, <2>1, <2>2
  <2>4. ASSUME NEW i \in 1 .. Len(t) PROVE t[i] = w[i]
    <3>1. /\ i \in 1 .. Len(q) - (k + 1) + 1 /\ (k + 1) + i - 1 = k + i
          /\ k + i \in 1 .. n + Len(c) /\ i \in 1 .. Len(v) + Len(c)
      BY <1>1, <1>2, <1>3, <1>4, <2>1
    <3>2. t[i] = IF k + i <= n THEN input[k + i] ELSE c[(k + i) - n]
      BY <1>4, <2>1, <3>1
    <3>3. w[i] = IF i <= Len(v) THEN v[i] ELSE c[i - Len(v)]
      BY <2>2, <3>1
    <3>4. CASE k + i <= n
      <4>1. i <= Len(v) /\ i \in 1 .. n - k
        BY <1>1, <1>2, <1>3, <3>4
      <4> QED
        BY <1>3, <3>2, <3>3, <3>4, <4>1
    <3>5. CASE ~(k + i <= n)
      <4>1. ~(i <= Len(v)) /\ (k + i) - n = i - Len(v)
        BY <1>1, <1>2, <1>3, <3>5
      <4> QED
        BY <3>2, <3>3, <3>5, <4>1
    <3> QED
      BY <3>4, <3>5
  <2> QED
    BY <2>1, <2>2, <2>3, <2>4, SeqEqual DEF t, w
<1>8. Typing!Deliver
  <2>1. /\ sent' = sent /\ typed' = SubSeq(q, 1, k)
        /\ input' \o Contents(writeBuffer') = SubSeq(q, k + 1, Len(q))
    BY <1>2, <1>6, <1>7, <1>c
  <2> QED
    BY <1>5, <1>c, <1>q, <2>1 DEF Typing!Deliver
<1>9. LinesInv'
  <2>1. Len(v) <= Room
    BY <1>1, <1>2, <1>3
  <2> QED
    BY <1>2, <1>3, <2>1 DEF LinesInv
<1>10. UNCHANGED printingVars
  BY <1>2 DEF printingVars
<1> QED
  BY <1>8, <1>9, <1>10 DEF InOrder, Typing!Next

LEMMA ShellSays ==
  ASSUME LinesInv, NEW k \in Lengths, ShellPrints(k)
  PROVE  LinesInv' /\ InOrder
<1> DEFINE data == Numbered(printed, k)
           c == Contents(readBuffer)
<1>1. /\ Holds(readBuffer) /\ output \in Seq(Bytes) /\ printed \in Nat /\ MaxPrinted \in Nat
      /\ k \in Nat /\ k > 0
  BY DeviceAssumption DEF LinesInv
<1>2. /\ printed + k <= MaxPrinted /\ output' = output \o data /\ printed' = printed + k
      /\ UNCHANGED <<open, writeBuffer, readBuffer, writeOn, writeFailed, waiting, input, sent,
                     typed, received>>
  BY DEF ShellPrints
<1>3. data \in Seq(Bytes)
  BY <1>1, NumberedIs
<1>d. data = Numbered(printed, k)
  OBVIOUS
<1>4. c \in Seq(Bytes)
  BY <1>1 DEF Holds
<1> HIDE DEF data, c
<1>5. output \o data \in Seq(Bytes)
  BY <1>1, <1>3, BytesJoin
<1>6. (c \o output) \o data = c \o (output \o data)
  BY <1>1, <1>3, <1>4, BytesAssociate
<1>7. printed' > printed /\ printed' - printed = k /\ printed' \in 0 .. MaxPrinted
  BY <1>1, <1>2
<1>8. data = [i \in 1 .. (printed' - printed) |-> printed + i]
  BY <1>7, <1>d DEF Numbered
<1>9. Contents(readBuffer') \o output'
        = (Contents(readBuffer) \o output) \o [i \in 1 .. (printed' - printed) |-> printed + i]
  BY <1>2, <1>6, <1>8 DEF c
<1>10. Printing!Send
  BY <1>2, <1>7, <1>9 DEF Printing!Send
<1>11. LinesInv'
  BY <1>2, <1>5, <1>7 DEF LinesInv
<1>12. UNCHANGED typingVars
  BY <1>2 DEF typingVars
<1> QED
  BY <1>10, <1>11, <1>12 DEF InOrder, Printing!Next

LEMMA LineSteps == LinesInv /\ [Next]_vars => LinesInv' /\ InOrder
<1> SUFFICES ASSUME LinesInv, [Next]_vars PROVE LinesInv' /\ InOrder
  OBVIOUS
<1>1. ASSUME NEW k \in Lengths, SendData(k) PROVE LinesInv' /\ InOrder
  <2>1. k \in Nat /\ k > 0
    BY DeviceAssumption
  <2>2. waiting' \in BOOLEAN
    BY <1>1 DEF SendData, LinesInv
  <2> QED
    BY <1>1, <2>1, <2>2, Sends DEF SendData
<1>2. CASE SendEof
  BY <1>2, Sends DEF SendEof
<1>3. CASE Writes
  BY <1>3, LineWrites DEF Writes
<1>4. CASE WriteFails
  <2>1. LinesInv'
    BY <1>4 DEF WriteFails, LinesInv
  <2> QED
    BY <1>4, <2>1 DEF WriteFails, InOrder, typingVars, printingVars
<1>5. CASE Reads
  <2>1. \A k \in 1 .. MaxPrinted : k \in Nat
    BY DeviceAssumption
  <2> QED
    BY <1>5, <2>1, LineReads DEF Reads
<1>6. CASE ReadFails
  BY <1>6, LineFails
<1>7. CASE ClosePty
  <2>1. LinesInv'
    BY <1>7 DEF ClosePty, LinesInv
  <2> QED
    BY <1>7, <2>1 DEF ClosePty, InOrder, typingVars, printingVars
<1>8. CASE Shell
  BY <1>8, ShellTypes, ShellSays DEF Shell
<1>9. CASE UNCHANGED vars
  <2>1. LinesInv'
    BY <1>9 DEF vars, LinesInv
  <2> QED
    BY <1>9, <2>1 DEF vars, InOrder, typingVars, printingVars
<1> QED
  BY <1>1, <1>2, <1>3, <1>4, <1>5, <1>6, <1>7, <1>8, <1>9 DEF Next

(* Both queues count the bytes they hold and hold nothing that was never   *)
(* written, and the kernel's queue to the shell never overflows, for       *)
(* chunks, kernel queues and amounts of any size (KRingBuffer).            *)
THEOREM QueuesSound == Spec => []TypeOK
<1> QED
  BY Opened, LineSteps, LinesAreTyped, PTL DEF Spec

LEMMA LineStarts == Init => Typing!Init /\ Printing!Init
<1> SUFFICES ASSUME Init PROVE Typing!Init /\ Printing!Init
  OBVIOUS
<1>1. Contents(Cleared) = <<>>
  BY ClearedHolds
<1>2. <<>> \o <<>> = <<>>
  <2>1. <<>> \in Seq(Nat)
    OBVIOUS
  <2> QED
    BY <2>1, ConcatEmptySeq
<1> QED
  BY <1>1, <1>2 DEF Init, Typing!Init, Printing!Init

(* What is typed reaches the shell and what the shell prints the emulation *)
(* in order, none lost and none twice, for chunks, kernel queues, amounts  *)
(* and partial reads and writes of any size (KRingBuffer, _k_canRead,      *)
(* _k_canWrite).                                                           *)
THEOREM NoByteLost == Spec => BytesInOrder
<1>1. InOrder => [Typing!Next]_<<sent, input \o Contents(writeBuffer), typed>>
                 /\ [Printing!Next]_<<printed, Contents(readBuffer) \o output, received>>
  BY DEF InOrder, typingVars, printingVars
<1> QED
  BY <1>1, Opened, LineSteps, LineStarts, PTL
     DEF Spec, BytesInOrder, Typing!Spec, Printing!Spec
=============================================================================
