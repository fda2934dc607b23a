--------------------------- MODULE ScrollbackProofs ---------------------------
(***************************************************************************)
(* Proofs about Scrollback, for any code points, renditions, sizes of the  *)
(* screen and of the blocks, and any length of the history.                *)
(***************************************************************************)
EXTENDS Scrollback, FiniteSetTheorems, SequenceTheorems, TLAPS

-----------------------------------------------------------------------------
(* Numbers.  A set of naturals has a least element, so a set that holds 0  *)
(* and the successors of its elements holds every natural: the induction   *)
(* of all the proofs below.                                                *)
LEMMA LeastExists ==
  ASSUME NEW T, T \subseteq Nat, T # {}
  PROVE  \E k \in T : \A y \in T : k <= y
<1> DEFINE R == OpToRel(<, Nat)
<1>1. IsWellFoundedOn(R, Nat)
  BY NatLessThanWellFounded
<1>2. \A k, y \in Nat : <<y, k>> \in R <=> y < k
  BY DEF OpToRel
<1> HIDE DEF R
<1>3. \E k \in T : \A y \in T : ~(<<y, k>> \in R)
  BY <1>1, WFMin
<1>4. PICK k \in T : \A y \in T : ~(y < k)
  BY <1>2, <1>3
<1>5. \A y \in T : k <= y
  BY <1>4
<1> QED
  BY <1>5

LEMMA Successively ==
  ASSUME NEW S, 0 \in S, \A n \in Nat : n \in S => n + 1 \in S
  PROVE  Nat \subseteq S
<1> SUFFICES ASSUME Nat \ S # {} PROVE FALSE
  OBVIOUS
<1>1. PICK k \in Nat \ S : \A y \in Nat \ S : k <= y
  BY LeastExists
<1>2. k # 0 /\ k - 1 \in Nat /\ ~(k <= k - 1) /\ k = (k - 1) + 1
  BY <1>1
<1> QED
  BY <1>1, <1>2

LEMMA LeastIs ==
  ASSUME NEW T, T \subseteq Nat, T # {}
  PROVE  Min(T) \in T /\ \A y \in T : Min(T) <= y
BY LeastExists DEF Min

LEMMA GreatestIs ==
  ASSUME NEW T, T \subseteq Nat, T # {}, NEW n \in Nat, \A y \in T : y <= n
  PROVE  Max(T) \in T /\ \A y \in T : y <= Max(T)
<1> DEFINE U == {m \in Nat : \A y \in T : y <= m}
<1>1. PICK m \in U : \A k \in U : m <= k
  BY LeastExists
<1>2. m \in T
  <2> SUFFICES ASSUME m \notin T PROVE FALSE
    OBVIOUS
  <2>1. \A y \in T : y <= m - 1
    BY <1>1
  <2>2. m - 1 \in Nat
    <3>1. PICK y \in T : TRUE
      OBVIOUS
    <3>2. y <= m - 1 /\ y \in Nat /\ m \in Nat
      BY <2>1, <3>1
    <3> QED
      BY <3>2
  <2> QED
    BY <1>1, <2>1, <2>2
<1>3. \E k \in T : \A y \in T : k >= y
  BY <1>1, <1>2
<1>4. Max(T) \in T /\ \A y \in T : Max(T) >= y
  BY <1>3 DEF Max
<1> QED
  BY <1>4

(* A function on an interval is defined by its first value and its steps.  *)
Steps(n, T, b, g) == n \in Nat /\ b \in T /\ g \in [1 .. n -> [T -> T]]
Follows(f, n, T, b, g) ==
    f \in [0 .. n -> T] /\ f[0] = b /\ \A i \in 1 .. n : f[i] = g[i][f[i - 1]]

LEMMA Recursion ==
  ASSUME NEW n, NEW T, NEW b, NEW g, Steps(n, T, b, g)
  PROVE  \E f : Follows(f, n, T, b, g)
<1>s. n \in Nat /\ b \in T /\ g \in [1 .. n -> [T -> T]]
  BY DEF Steps
<1> DEFINE Upto(k) == \E f \in [0 .. k -> T] :
                        f[0] = b /\ \A i \in 1 .. k : f[i] = g[i][f[i - 1]]
           S == {k \in Nat : k <= n => Upto(k)}
<1>1. 0 \in S
  <2> DEFINE f == [i \in 0 .. 0 |-> b]
  <2>1. f \in [0 .. 0 -> T] /\ f[0] = b /\ \A i \in 1 .. 0 : f[i] = g[i][f[i - 1]]
    BY <1>s
  <2> QED
    BY <1>s, <2>1
<1>2. ASSUME NEW k \in Nat, k \in S PROVE k + 1 \in S
  <2> SUFFICES ASSUME k + 1 <= n PROVE Upto(k + 1)
    BY <1>s
  <2>1. PICK f \in [0 .. k -> T] : f[0] = b /\ \A i \in 1 .. k : f[i] = g[i][f[i - 1]]
    BY <1>s, <1>2
  <2> DEFINE h == [i \in 0 .. k + 1 |-> IF i = k + 1 THEN g[k + 1][f[k]] ELSE f[i]]
  <2>2. g[k + 1][f[k]] \in T
    BY <1>s
  <2>3. h \in [0 .. k + 1 -> T]
    BY <2>2
  <2>4. ASSUME NEW i \in 1 .. k + 1 PROVE h[i] = g[i][h[i - 1]]
    <3>1. CASE i = k + 1
      <4>1. i - 1 = k /\ k \in 0 .. k + 1 /\ k # k + 1
        BY <3>1
      <4>2. h[i - 1] = f[k] /\ h[i] = g[k + 1][f[k]]
        BY <3>1, <4>1
      <4> QED
        BY <3>1, <4>2
    <3>2. CASE i \in 1 .. k
      BY <2>1, <3>2
    <3> QED
      BY <3>1, <3>2
  <2>5. h[0] = b
    BY <2>1
  <2> QED
    BY <2>3, <2>4, <2>5
<1> HIDE DEF S
<1>3. n \in S
  BY <1>s, <1>1, <1>2, Successively
<1> QED
  BY <1>s, <1>3 DEF S, Follows

-----------------------------------------------------------------------------
(* The table of extended characters.                                       *)
LEMMA HashIsNat ==
  ASSUME NEW seq \in Seq(Nat)
  PROVE  Hash(seq) \in Nat
<1> DEFINE n == Len(seq)
           upTo[i \in 0 .. n] == IF i = 0 THEN 0 ELSE 31 * upTo[i - 1] + seq[i]
           g == [i \in 1 .. n |-> [h \in Nat |-> 31 * h + seq[i]]]
<1>1. n \in Nat /\ g \in [1 .. n -> [Nat -> Nat]]
  OBVIOUS
<1>2. \E f : Follows(f, n, Nat, 0, g)
  BY <1>1, Recursion DEF Steps
<1>3. PICK f : f = [i \in 0 .. n |-> IF i = 0 THEN 0 ELSE 31 * f[i - 1] + seq[i]]
  <2>1. PICK f \in [0 .. n -> Nat] : f[0] = 0 /\ \A i \in 1 .. n : f[i] = g[i][f[i - 1]]
    BY <1>2 DEF Follows
  <2>2. ASSUME NEW i \in 1 .. n PROVE f[i] = 31 * f[i - 1] + seq[i]
    <3>0. i - 1 \in 0 .. n /\ f \in [0 .. n -> Nat]
      BY <1>1, <2>1
    <3> HIDE DEF g
    <3>1. i - 1 \in 0 .. n /\ f[i - 1] \in Nat
      BY <3>0
    <3> USE DEF g
    <3>2. g[i] = [h \in Nat |-> 31 * h + seq[i]]
      OBVIOUS
    <3> HIDE DEF g
    <3>3. f[i] = g[i][f[i - 1]]
      BY <2>1
    <3> QED
      BY <3>1, <3>2, <3>3
  <2>3. \A i \in 0 .. n : f[i] = IF i = 0 THEN 0 ELSE 31 * f[i - 1] + seq[i]
    BY <1>1, <2>1, <2>2
  <2> QED
    BY <2>1, <2>3
<1>4. upTo = [i \in 0 .. n |-> IF i = 0 THEN 0 ELSE 31 * upTo[i - 1] + seq[i]]
  BY <1>3
<1> HIDE DEF upTo
<1> DEFINE S == {i \in Nat : i <= n => upTo[i] \in Nat}
<1>5. 0 \in S /\ \A i \in Nat : i \in S => i + 1 \in S
  <2>1. 0 \in S
    BY <1>1, <1>4
  <2>2. ASSUME NEW i \in Nat, i \in S PROVE i + 1 \in S
    <3> SUFFICES ASSUME i + 1 <= n PROVE upTo[i + 1] \in Nat
      OBVIOUS
    <3>1. i + 1 \in 0 .. n /\ i + 1 # 0 /\ (i + 1) - 1 = i /\ i + 1 \in 1 .. n
      BY <1>1
    <3>2. upTo[i + 1] = 31 * upTo[i] + seq[i + 1]
      BY <1>4, <3>1
    <3>3. upTo[i] \in Nat /\ seq[i + 1] \in Nat
      BY <1>1, <2>2, <3>1
    <3> QED
      BY <3>2, <3>3
  <2> QED
    BY <2>1, <2>2
<1>6. n \in S
  BY <1>1, <1>5, Successively
<1>7. Hash(seq) = upTo[n]
  BY DEF Hash, upTo
<1> QED
  BY <1>1, <1>6, <1>7

TableOK(t) ==
    /\ IsFiniteSet(DOMAIN t)
    /\ \A h \in DOMAIN t : h \in Nat /\ t[h] \in Seq(Nat) /\ Len(t[h]) \in {2, 3}

(* The probe ends: one slot in more than the table has is free.            *)
LEMMA SlotIs ==
  ASSUME NEW t, TableOK(t), NEW seq \in Seq(Nat)
  PROVE  Slot(t, seq) \in Nat /\ (Slot(t, seq) \in DOMAIN t => t[Slot(t, seq)] = seq)
<1> DEFINE a == Hash(seq)
           n == Cardinality(DOMAIN t)
           T == {h \in a .. a + n : h \in DOMAIN t => t[h] = seq}
<1>1. a \in Nat /\ n \in Nat
  BY HashIsNat, FS_CardinalityType DEF TableOK
<1>2. T # {}
  <2> SUFFICES ASSUME T = {} PROVE FALSE
    OBVIOUS
  <2>1. a .. a + n \subseteq DOMAIN t
    OBVIOUS
  <2>2. Cardinality(a .. a + n) <= n
    BY <2>1, FS_Subset DEF TableOK
  <2>3. Cardinality(a .. a + n) = n + 1
    <3> HIDE DEF a, n
    <3>1. a \in Int /\ a + n \in Int /\ ~(a > a + n) /\ (a + n) - a + 1 = n + 1
      BY <1>1
    <3> QED
      BY <3>1, FS_Interval
  <2> QED
    BY <1>1, <2>2, <2>3
<1>3. T \subseteq Nat
  BY <1>1
<1>4. Slot(t, seq) = Min(T)
  BY DEF Slot
<1>5. Min(T) \in T
  <2> HIDE DEF T
  <2> QED
    BY <1>2, <1>3, LeastIs
<1> QED
  BY <1>3, <1>4, <1>5

LEMMA InsertedIs ==
  ASSUME NEW t, TableOK(t), NEW seq \in Seq(Nat), Len(seq) \in {2, 3}
  PROVE  LET u == Inserted(t, seq)
         IN  /\ TableOK(u) /\ DOMAIN t \subseteq DOMAIN u
             /\ \A h \in DOMAIN t : u[h] = t[h]
             /\ Slot(t, seq) \in DOMAIN u /\ u[Slot(t, seq)] = seq /\ Slot(t, seq) \in Nat
<1> DEFINE h == Slot(t, seq)
           u == Inserted(t, seq)
<1>1. h \in Nat /\ (h \in DOMAIN t => t[h] = seq)
  BY SlotIs
<1>2. u = [k \in DOMAIN t \cup {h} |-> IF k = h THEN seq ELSE t[k]]
  BY DEF Inserted
<1> HIDE DEF h, u
<1>3. IsFiniteSet(DOMAIN u)
  BY <1>2, FS_AddElement DEF TableOK
<1>4. \A k \in DOMAIN u : k \in Nat /\ u[k] \in Seq(Nat) /\ Len(u[k]) \in {2, 3}
  BY <1>1, <1>2 DEF TableOK
<1> QED
  BY <1>1, <1>2, <1>3, <1>4 DEF TableOK, h, u

-----------------------------------------------------------------------------
(* The rows.  A row is sound if every cell shows what was typed there, and *)
(* the table has what an extended cell refers to.                          *)
RowType == [cells : Seq(CellType), wrapped : BOOLEAN]
Known(t, cell) == cell.ext => cell.code \in DOMAIN t
RowOK(t, cells, shown) ==
    /\ cells \in Seq(CellType) /\ shown \in Seq(TypedType)
    /\ Len(cells) <= Columns /\ Len(shown) = Len(cells)
    /\ \A i \in 1 .. Len(cells) : Known(t, cells[i]) /\ Shown(t, cells[i]) = shown[i]

IsGrown(g, T, s, n, e) ==
    /\ g \in Seq(T) /\ Len(g) = IF n >= Len(s) THEN n ELSE Len(s)
    /\ \A i \in 1 .. Len(g) : g[i] = IF i <= Len(s) THEN s[i] ELSE e

LEMMA GrownIs ==
  ASSUME NEW T, NEW s \in Seq(T), NEW n \in Nat, NEW e \in T
  PROVE  IsGrown(Grown(s, n, e), T, s, n, e)
<1> DEFINE m == Max({n, Len(s)})
<1>1. m = IF n >= Len(s) THEN n ELSE Len(s)
  <2> DEFINE k == IF n >= Len(s) THEN n ELSE Len(s)
  <2>1. {n, Len(s)} \subseteq Nat /\ {n, Len(s)} # {} /\ k \in Nat /\ \A y \in {n, Len(s)} : y <= k
    OBVIOUS
  <2>2. m \in {n, Len(s)} /\ \A y \in {n, Len(s)} : y <= m
    <3> HIDE DEF k
    <3> QED
      BY <2>1, GreatestIs
  <2> HIDE DEF m
  <2> QED
    BY <2>2
<1>2. Grown(s, n, e) = [i \in 1 .. m |-> IF i <= Len(s) THEN s[i] ELSE e]
  BY DEF Grown
<1> HIDE DEF m
<1>3. m \in Nat
  BY <1>1
<1>4. Grown(s, n, e) \in [1 .. m -> T]
  BY <1>2
<1>5. Grown(s, n, e) \in Seq(T) /\ Len(Grown(s, n, e)) = m
  BY <1>3, <1>4
<1> QED
  BY <1>1, <1>2, <1>5 DEF IsGrown

LEMMA Cells ==
  /\ FreshCell \in CellType /\ TypedSpace(Default) \in TypedType
  /\ \A c \in Nat, f \in Pens :
       /\ Cell(c, f) \in CellType /\ PlaceHolder(f) \in CellType
       /\ [seq |-> <<c>>, format |-> f] \in TypedType /\ TypedSpace(f) \in TypedType
       /\ \A t : /\ Shown(t, Cell(c, f)) = [seq |-> <<c>>, format |-> f] /\ Known(t, Cell(c, f))
                 /\ Shown(t, PlaceHolder(f)) = TypedSpace(f) /\ Known(t, PlaceHolder(f))
  /\ \A t : Shown(t, FreshCell) = TypedSpace(Default) /\ Known(t, FreshCell)
<1>1. Default \in Pens /\ Space \in Nat
  BY ScrollbackAssumption DEF Space
<1> QED
  BY <1>1 DEF FreshCell, TypedSpace, CellType, TypedType, Cell, PlaceHolder, Shown, Known

LEMMA RowGrown ==
  ASSUME NEW t, NEW cells, NEW shown, RowOK(t, cells, shown), NEW n \in 0 .. Columns
  PROVE  LET g == Grown(cells, n, FreshCell)
             h == Grown(shown, n, TypedSpace(Default))
         IN  RowOK(t, g, h) /\ Len(g) >= n
<1> DEFINE g == Grown(cells, n, FreshCell)
           h == Grown(shown, n, TypedSpace(Default))
<1>1. cells \in Seq(CellType) /\ shown \in Seq(TypedType) /\ Len(shown) = Len(cells)
      /\ Len(cells) <= Columns /\ n \in Nat /\ n <= Columns
      /\ \A i \in 1 .. Len(cells) : Known(t, cells[i]) /\ Shown(t, cells[i]) = shown[i]
  BY ScrollbackAssumption DEF RowOK
<1>0. FreshCell \in CellType /\ TypedSpace(Default) \in TypedType
  BY Cells
<1>a. IsGrown(g, CellType, cells, n, FreshCell)
      /\ IsGrown(h, TypedType, shown, n, TypedSpace(Default))
  BY <1>0, <1>1, GrownIs
<1> HIDE DEF g, h
<1>2. /\ g \in Seq(CellType) /\ Len(g) = IF n >= Len(cells) THEN n ELSE Len(cells)
      /\ \A i \in 1 .. Len(g) : g[i] = IF i <= Len(cells) THEN cells[i] ELSE FreshCell
  BY <1>a DEF IsGrown
<1>3. /\ h \in Seq(TypedType) /\ Len(h) = IF n >= Len(shown) THEN n ELSE Len(shown)
      /\ \A i \in 1 .. Len(h) : h[i] = IF i <= Len(shown) THEN shown[i] ELSE TypedSpace(Default)
  BY <1>a DEF IsGrown
<1>4. ASSUME NEW i \in 1 .. Len(g) PROVE Known(t, g[i]) /\ Shown(t, g[i]) = h[i]
  <2>1. CASE i <= Len(cells)
    BY <1>1, <1>2, <1>3, <2>1
  <2>2. CASE ~(i <= Len(cells))
    BY <1>1, <1>2, <1>3, <2>2, Cells
  <2> QED
    BY <2>1, <2>2
<1>5. Len(g) <= Columns /\ Len(h) = Len(g) /\ Len(g) >= n
  BY <1>1, <1>2, <1>3
<1> QED
  BY <1>2, <1>3, <1>4, <1>5 DEF RowOK, g, h

LEMMA RowSet ==
  ASSUME NEW t, NEW cells, NEW shown, RowOK(t, cells, shown), NEW i \in 1 .. Len(cells),
         NEW c \in CellType, Known(t, c), NEW e \in TypedType, Shown(t, c) = e
  PROVE  RowOK(t, [cells EXCEPT ![i] = c], [shown EXCEPT ![i] = e])
<1>1. /\ [cells EXCEPT ![i] = c] \in Seq(CellType) /\ Len([cells EXCEPT ![i] = c]) = Len(cells)
      /\ \A j \in 1 .. Len(cells) : [cells EXCEPT ![i] = c][j] = IF j = i THEN c ELSE cells[j]
  BY ExceptSeq DEF RowOK
<1>2. /\ [shown EXCEPT ![i] = e] \in Seq(TypedType) /\ Len([shown EXCEPT ![i] = e]) = Len(shown)
      /\ \A j \in 1 .. Len(shown) : [shown EXCEPT ![i] = e][j] = IF j = i THEN e ELSE shown[j]
  BY ExceptSeq DEF RowOK
<1> QED
  BY <1>1, <1>2 DEF RowOK

LEMMA RowEmpty ==
  ASSUME NEW t
  PROVE  RowOK(t, <<>>, <<>>)
BY ScrollbackAssumption DEF RowOK

LEMMA RowOne ==
  ASSUME NEW t, NEW c \in Nat, NEW f \in Pens
  PROVE  RowOK(t, <<Cell(c, f)>>, <<[seq |-> <<c>>, format |-> f]>>)
<1>1. Cell(c, f) \in CellType /\ [seq |-> <<c>>, format |-> f] \in TypedType /\ Columns >= 1
      /\ Known(t, Cell(c, f)) /\ Shown(t, Cell(c, f)) = [seq |-> <<c>>, format |-> f]
  BY Cells, ScrollbackAssumption
<1> QED
  BY <1>1 DEF RowOK

(* The table may get entries, and rows keep what they show.                *)
Extends(u, t) == DOMAIN t \subseteq DOMAIN u /\ \A h \in DOMAIN t : u[h] = t[h]

LEMMA RowExtends ==
  ASSUME NEW t, NEW u, Extends(u, t), NEW cells, NEW shown, RowOK(t, cells, shown)
  PROVE  RowOK(u, cells, shown)
<1>1. ASSUME NEW cell, Known(t, cell) PROVE Known(u, cell) /\ Shown(u, cell) = Shown(t, cell)
  BY <1>1 DEF Extends, Known, Shown, Lookup
<1> QED
  BY <1>1 DEF RowOK

LEMMA RowCleared ==
  ASSUME NEW t, NEW cells, NEW shown, RowOK(t, cells, shown), NEW n \in Nat, NEW f \in Pens
  PROVE  RowOK(t, [i \in DOMAIN cells |-> IF i <= n THEN PlaceHolder(f) ELSE cells[i]],
                  [i \in DOMAIN shown |-> IF i <= n THEN TypedSpace(f) ELSE shown[i]])
<1> DEFINE g == [i \in DOMAIN cells |-> IF i <= n THEN PlaceHolder(f) ELSE cells[i]]
           h == [i \in DOMAIN shown |-> IF i <= n THEN TypedSpace(f) ELSE shown[i]]
<1>1. /\ cells \in Seq(CellType) /\ shown \in Seq(TypedType) /\ Len(shown) = Len(cells)
      /\ PlaceHolder(f) \in CellType /\ TypedSpace(f) \in TypedType
      /\ Known(t, PlaceHolder(f)) /\ Shown(t, PlaceHolder(f)) = TypedSpace(f)
  <2>1. Space \in Nat
    BY DEF Space
  <2> QED
    BY <2>1, Cells DEF RowOK
<1>2. g \in [1 .. Len(cells) -> CellType] /\ h \in [1 .. Len(cells) -> TypedType]
  BY <1>1
<1>3. g \in Seq(CellType) /\ h \in Seq(TypedType) /\ Len(g) = Len(cells) /\ Len(h) = Len(cells)
  BY <1>1, <1>2
<1>4. \A i \in 1 .. Len(cells) : Known(t, g[i]) /\ Shown(t, g[i]) = h[i]
  BY <1>1 DEF RowOK
<1> HIDE DEF g, h
<1> QED
  BY <1>3, <1>4 DEF RowOK, g, h

(* All rows are sound.                                                     *)
RowsInv ==
    /\ TableOK(table) /\ x \in 0 .. Columns
    /\ rows \in [1 .. Height -> RowType] /\ typed \in [1 .. Height -> Seq(TypedType)]
    /\ \A y \in 1 .. Height : RowOK(table, rows[y].cells, typed[y])

LEMMA OneRowChanges ==
  ASSUME RowsInv, TableOK(table'), Extends(table', table), x' \in 0 .. Columns,
         NEW y \in 1 .. Height, NEW cells, NEW shown, NEW wrapped \in BOOLEAN,
         RowOK(table', cells, shown),
         rows' = [rows EXCEPT ![y] = [cells |-> cells, wrapped |-> wrapped]],
         typed' = [typed EXCEPT ![y] = shown]
  PROVE  RowsInv'
<1>1. cells \in Seq(CellType) /\ shown \in Seq(TypedType)
  BY DEF RowOK
<1>2. rows' \in [1 .. Height -> RowType] /\ typed' \in [1 .. Height -> Seq(TypedType)]
  BY <1>1 DEF RowsInv, RowType
<1>3. ASSUME NEW z \in 1 .. Height PROVE RowOK(table', rows'[z].cells, typed'[z])
  <2>1. CASE z = y
    <3>1. rows'[z].cells = cells /\ typed'[z] = shown
      BY <2>1 DEF RowsInv
    <3> QED
      BY <3>1
  <2>2. CASE z # y
    <3>1. rows'[z] = rows[z] /\ typed'[z] = typed[z]
      BY <2>2 DEF RowsInv
    <3>2. RowOK(table, rows[z].cells, typed[z])
      BY DEF RowsInv
    <3> QED
      BY <3>1, <3>2, RowExtends
  <2> QED
    BY <2>1, <2>2
<1> QED
  BY <1>2, <1>3 DEF RowsInv

MovesUp(r, n, T, s, e) ==
    r \in [1 .. n -> T] /\ \A y \in 1 .. n : r[y] = IF y = n THEN e ELSE s[y + 1]

LEMMA MovedUp ==
  ASSUME NEW T, NEW n \in Nat \ {0}, NEW s \in [1 .. n -> T], NEW e \in T
  PROVE  MovesUp(Append(Tail(s), e), n, T, s, e)
<1>1. s \in Seq(T) /\ Len(s) = n /\ s # <<>>
  OBVIOUS
<1>2. /\ Tail(s) \in Seq(T) /\ Len(Tail(s)) = n - 1
      /\ \A i \in 1 .. n - 1 : Tail(s)[i] = s[i + 1]
  BY <1>1, HeadTailProperties
<1>3. /\ Append(Tail(s), e) \in Seq(T) /\ Len(Append(Tail(s), e)) = n
      /\ \A i \in 1 .. n : Append(Tail(s), e)[i] = IF i <= n - 1 THEN Tail(s)[i] ELSE e
  BY <1>2
<1>4. ASSUME NEW y \in 1 .. n
      PROVE  Append(Tail(s), e)[y] = IF y = n THEN e ELSE s[y + 1]
  BY <1>2, <1>3
<1>5. Append(Tail(s), e) \in [1 .. n -> T]
  BY <1>3, LenProperties
<1> QED
  BY <1>4, <1>5 DEF MovesUp

LEMMA RowsMoveUp ==
  ASSUME RowsInv, NEW from \in [1 .. Height -> RowType],
         \A y \in 1 .. Height : from[y].cells = rows[y].cells,
         NEW row \in RowType, NEW shown, RowOK(table, row.cells, shown),
         rows' = Append(Tail(from), row), typed' = Append(Tail(typed), shown),
         table' = table, x' \in 0 .. Columns
  PROVE  RowsInv'
<1>1. Height \in Nat \ {0} /\ shown \in Seq(TypedType)
  BY ScrollbackAssumption DEF RowOK
<1>a. typed \in [1 .. Height -> Seq(TypedType)]
  BY DEF RowsInv
<1>b. MovesUp(rows', Height, RowType, from, row)
  BY <1>1, MovedUp
<1>c. MovesUp(typed', Height, Seq(TypedType), typed, shown)
  BY <1>1, <1>a, MovedUp
<1>2. /\ rows' \in [1 .. Height -> RowType]
      /\ \A y \in 1 .. Height : rows'[y] = IF y = Height THEN row ELSE from[y + 1]
  BY <1>b DEF MovesUp
<1>3. /\ typed' \in [1 .. Height -> Seq(TypedType)]
      /\ \A y \in 1 .. Height : typed'[y] = IF y = Height THEN shown ELSE typed[y + 1]
  BY <1>c DEF MovesUp
<1>4. ASSUME NEW y \in 1 .. Height PROVE RowOK(table', rows'[y].cells, typed'[y])
  <2>1. CASE y = Height
    BY <1>2, <1>3, <2>1
  <2>2. CASE y # Height
    <3>1. y + 1 \in 1 .. Height
      BY <1>1, <2>2
    <3>2. RowOK(table, rows[y + 1].cells, typed[y + 1])
      BY <3>1 DEF RowsInv
    <3> QED
      BY <1>2, <1>3, <2>2, <3>1, <3>2
  <2> QED
    BY <2>1, <2>2
<1> QED
  BY <1>2, <1>3, <1>4 DEF RowsInv

LEMMA BottomRow ==
  /\ Bottom \in 1 .. Height /\ Codes \subseteq Nat /\ Marks \subseteq Nat /\ Columns \in Nat \ {0}
  /\ RowsInv => /\ RowOK(table, rows[Bottom].cells, typed[Bottom])
                /\ rows[Bottom].wrapped \in BOOLEAN /\ TableOK(table) /\ Extends(table, table)
BY ScrollbackAssumption DEF Bottom, RowsInv, RowType, Extends

LEMMA PutKeepsRows ==
  ASSUME RowsInv, NEW c \in Codes, NEW f \in Pens, Put(c, f)
  PROVE  RowsInv'
<1> DEFINE cells == Grown(rows[Bottom].cells, x + 1, FreshCell)
           shown == Grown(typed[Bottom], x + 1, TypedSpace(Default))
           e == [seq |-> <<c>>, format |-> f]
           newCells == [cells EXCEPT ![x + 1] = Cell(c, f)]
           newShown == [shown EXCEPT ![x + 1] = e]
<1>1. /\ rows' = [rows EXCEPT ![Bottom].cells = newCells]
      /\ typed' = [typed EXCEPT ![Bottom] = newShown]
      /\ x' = x + 1 /\ table' = table /\ x < Columns
  BY DEF Put
<1>2. x + 1 \in 0 .. Columns /\ x + 1 >= 1 /\ x + 1 \in Nat
  BY <1>1, BottomRow DEF RowsInv
<1>3. RowOK(table, cells, shown) /\ Len(cells) >= x + 1
  BY <1>2, BottomRow, RowGrown
<1>4. x + 1 \in 1 .. Len(cells)
  <2>1. Len(cells) \in Nat
    BY <1>3 DEF RowOK
  <2> QED
    BY <1>2, <1>3, <2>1
<1>5. /\ Cell(c, f) \in CellType /\ e \in TypedType /\ Known(table, Cell(c, f))
      /\ Shown(table, Cell(c, f)) = e
  BY BottomRow, Cells
<1> HIDE DEF cells, shown, e
<1>6. RowOK(table, newCells, newShown)
  BY <1>3, <1>4, <1>5, RowSet
<1> HIDE DEF newCells, newShown
<1>7. rows' = [rows EXCEPT ![Bottom] = [cells |-> newCells, wrapped |-> rows[Bottom].wrapped]]
  <2>1. rows[Bottom] \in RowType
    BY BottomRow DEF RowsInv
  <2>2. [rows[Bottom] EXCEPT !.cells = newCells]
          = [cells |-> newCells, wrapped |-> rows[Bottom].wrapped]
    BY <2>1 DEF RowType
  <2> QED
    BY <1>1, <2>2
<1> QED
  BY <1>1, <1>2, <1>6, <1>7, BottomRow, OneRowChanges

LEMMA ClearKeepsRows ==
  ASSUME RowsInv, NEW f \in Pens, ClearToBeginOfLine(f)
  PROVE  RowsInv'
<1> DEFINE last == IF x = Columns THEN Columns ELSE x + 1
           shrinks == f = Default /\ last = Columns
           cells == Grown(rows[Bottom].cells, last, FreshCell)
           shown == Grown(typed[Bottom], last, TypedSpace(Default))
           cleared == [i \in DOMAIN cells |-> IF i <= last THEN PlaceHolder(f) ELSE cells[i]]
           spaces == [i \in DOMAIN shown |-> IF i <= last THEN TypedSpace(f) ELSE shown[i]]
           newCells == IF shrinks THEN <<>> ELSE cleared
           newShown == IF shrinks THEN <<>> ELSE spaces
<1>1. /\ rows' = [rows EXCEPT ![Bottom] = [cells |-> newCells, wrapped |-> FALSE]]
      /\ typed' = [typed EXCEPT ![Bottom] = newShown]
      /\ x' = x /\ table' = table
  BY DEF ClearToBeginOfLine
<1>2. last \in 0 .. Columns /\ last \in Nat
  BY BottomRow DEF RowsInv
<1> HIDE DEF last
<1>3. RowOK(table, cells, shown)
  BY <1>2, BottomRow, RowGrown
<1> HIDE DEF cells, shown
<1>4. RowOK(table, cleared, spaces)
  BY <1>2, <1>3, RowCleared
<1> HIDE DEF cleared, spaces, shrinks
<1>5. RowOK(table, newCells, newShown)
  BY <1>4, RowEmpty
<1> HIDE DEF newCells, newShown
<1>6. x' \in 0 .. Columns
  BY <1>1 DEF RowsInv
<1> QED
  BY <1>1, <1>5, <1>6, BottomRow, OneRowChanges

LEMMA WrapKeepsRows ==
  ASSUME RowsInv, NEW c \in Codes, NEW f \in Pens, NEW failed, PutWrapping(c, f, failed)
  PROVE  RowsInv'
<1> DEFINE from == [rows EXCEPT ![Bottom].wrapped = TRUE]
           row == [cells |-> <<Cell(c, f)>>, wrapped |-> FALSE]
           shown == <<[seq |-> <<c>>, format |-> f]>>
<1>1. /\ rows' = Append(Tail(from), row) /\ typed' = Append(Tail(typed), shown)
      /\ table' = table /\ x' = 1
  BY DEF PutWrapping
<1>2. RowOK(table, row.cells, shown)
  BY BottomRow, RowOne
<1>3. row \in RowType
  BY <1>2 DEF RowOK, RowType
<1>4. from \in [1 .. Height -> RowType] /\ \A y \in 1 .. Height : from[y].cells = rows[y].cells
  BY BottomRow DEF RowsInv, RowType
<1>5. x' \in 0 .. Columns
  BY <1>1, BottomRow
<1> HIDE DEF from, row, shown
<1> QED
  BY <1>1, <1>2, <1>3, <1>4, <1>5, RowsMoveUp

LEMMA NextLineKeepsRows ==
  ASSUME RowsInv, NEW failed, NextLine(failed)
  PROVE  RowsInv'
<1>1. /\ rows' = Append(Tail(rows), EmptyRow) /\ typed' = Append(Tail(typed), <<>>)
      /\ table' = table /\ x' = 0
  BY DEF NextLine, Feeds
<1>2. EmptyRow \in RowType /\ EmptyRow.cells = <<>>
  BY DEF EmptyRow, RowType
<1>3. RowOK(table, EmptyRow.cells, <<>>)
  BY <1>2, RowEmpty
<1>4. rows \in [1 .. Height -> RowType] /\ \A y \in 1 .. Height : rows[y].cells = rows[y].cells
  BY DEF RowsInv
<1>5. x' \in 0 .. Columns
  BY <1>1, BottomRow
<1> QED
  BY <1>1, <1>2, <1>3, <1>4, <1>5, RowsMoveUp

MarkJoined(t, u, c, s) ==
    /\ TableOK(u) /\ Extends(u, t)
    /\ c \in CellType /\ Known(u, c) /\ s \in TypedType /\ Shown(u, c) = s

LEMMA MarkJoins ==
  ASSUME NEW t, TableOK(t), NEW cell \in CellType, Known(t, cell),
         NEW s \in TypedType, Shown(t, cell) = s,
         NEW m \in Nat, cell.ext => Len(Lookup(t, cell.code)) < 3
  PROVE  LET old == IF cell.ext THEN Lookup(t, cell.code) ELSE <<cell.code>>
             seq == Append(old, m)
         IN  MarkJoined(t, Inserted(t, seq), [cell EXCEPT !.ext = TRUE, !.code = Slot(t, seq)],
                        [s EXCEPT !.seq = Append(@, m)])
<1> DEFINE old == IF cell.ext THEN Lookup(t, cell.code) ELSE <<cell.code>>
           seq == Append(old, m)
           u == Inserted(t, seq)
           slot == Slot(t, seq)
           c == [cell EXCEPT !.ext = TRUE, !.code = slot]
           e == [s EXCEPT !.seq = Append(@, m)]
<1>1. s = [seq |-> old, format |-> cell.format]
  BY DEF Shown
<1>2. old \in Seq(Nat) /\ (Len(old) = 1 \/ Len(old) = 2)
  <2>1. CASE cell.ext
    <3>1. cell.code \in DOMAIN t /\ old = t[cell.code] /\ Len(old) < 3
      BY <2>1 DEF Known, Lookup
    <3>2. old \in Seq(Nat) /\ Len(old) \in {2, 3}
      BY <3>1 DEF TableOK
    <3> HIDE DEF old
    <3>3. Len(old) = 2 \/ Len(old) = 3
      BY <3>2
    <3> QED
      BY <3>1, <3>2, <3>3
  <2>2. CASE ~cell.ext
    BY <2>2 DEF CellType
  <2> QED
    BY <2>1, <2>2
<1> HIDE DEF old
<1>3. seq \in Seq(Nat) /\ Len(seq) = Len(old) + 1
  BY <1>2
<1> HIDE DEF seq
<1>4. Len(seq) = 2 \/ Len(seq) = 3
  <2>1. CASE Len(old) = 1
    BY <1>3, <2>1
  <2>2. CASE Len(old) = 2
    BY <1>3, <2>2
  <2> QED
    BY <1>2, <2>1, <2>2
<1>5. /\ TableOK(u) /\ Extends(u, t)
      /\ slot \in DOMAIN u /\ u[slot] = seq /\ slot \in Nat
  BY <1>3, <1>4, InsertedIs DEF Extends
<1> HIDE DEF slot, u
<1>6. c \in CellType /\ c.code = slot /\ c.ext /\ c.format = cell.format
  <2>1. cell \in [code : Nat, ext : BOOLEAN, real : BOOLEAN, format : Pens]
    BY DEF CellType
  <2>2. c.code = slot /\ c.format = cell.format
    BY <2>1
  <2>3. c.ext
    BY <2>1
  <2>4. c \in CellType
    BY <1>5, <2>1 DEF CellType
  <2> QED
    BY <2>2, <2>3, <2>4
<1>7. e = [seq |-> seq, format |-> cell.format]
  <2>1. s.seq = old
    BY <1>1
  <2>2. e = [s EXCEPT !.seq = seq]
    BY <2>1 DEF seq
  <2> HIDE DEF e
  <2> QED
    BY <1>1, <2>2
<1>8. cell.real \in BOOLEAN /\ cell.format \in Pens
  BY DEF CellType
<1> HIDE DEF c, e
<1>9. c \in CellType /\ e \in TypedType /\ Known(u, c) /\ Shown(u, c) = e
  <2>1. e \in TypedType
    BY <1>3, <1>7, <1>8 DEF TypedType
  <2>2. Known(u, c)
    BY <1>5, <1>6 DEF Known
  <2>3. Lookup(u, slot) = seq
    BY <1>5 DEF Lookup
  <2>4. Shown(u, c) = [seq |-> seq, format |-> cell.format]
    BY <1>6, <2>3 DEF Shown
  <2> QED
    BY <1>6, <1>7, <2>1, <2>2, <2>4
<1> QED
  BY <1>5, <1>9 DEF MarkJoined, c, e, u, slot, seq, old

(* A mark joins a cell: the sequence it gets is new in the table or was    *)
(* there before, and no other cell changes what it shows.                  *)
LEMMA CombineKeepsRows ==
  ASSUME RowsInv, NEW m \in Marks, Combine(m)
  PROVE  RowsInv' /\ Extends(table', table)
<1>1. PICK y \in CombineRows :
        LET i == Max(RealBefore(y))
            cell == rows[y].cells[i]
            seq == Append(IF cell.ext THEN Lookup(table, cell.code) ELSE <<cell.code>>, m) IN
        /\ TakesMark(cell)
        /\ table' = Inserted(table, seq)
        /\ rows' = [rows EXCEPT ![y].cells[i] = [@ EXCEPT !.ext = TRUE, !.code = Slot(table, seq)]]
        /\ typed' = [typed EXCEPT ![y][i].seq = Append(@, m)]
        /\ UNCHANGED x /\ KeepsHistory
  BY DEF Combine
<1> DEFINE i == Max(RealBefore(y))
           cells == rows[y].cells
           shown == typed[y]
           cell == cells[i]
           old == IF cell.ext THEN Lookup(table, cell.code) ELSE <<cell.code>>
           seq == Append(old, m)
           slot == Slot(table, seq)
           c == [cell EXCEPT !.ext = TRUE, !.code = slot]
           e == [shown[i] EXCEPT !.seq = Append(@, m)]
<1>2. y \in 1 .. Height /\ RealBefore(y) # {} /\ RowOK(table, cells, shown)
  BY DEF CombineRows, RowsInv
<1>3. i \in 1 .. Len(cells)
  <2>1. BeforeCursor(y) \subseteq 1 .. Len(cells)
    <3>1. CASE y = Bottom
      <4>1. {x, Len(cells)} \subseteq Nat /\ {x, Len(cells)} # {}
        BY <1>2 DEF RowsInv, RowOK
      <4>2. Min({x, Len(cells)}) \in Nat /\ Min({x, Len(cells)}) <= Len(cells)
        BY <4>1, LeastIs
      <4>3. BeforeCursor(y) = 1 .. Min({x, Len(cells)}) /\ Len(cells) \in Nat
        BY <1>2, <3>1 DEF BeforeCursor, RowOK
      <4> QED
        BY <4>2, <4>3
    <3>2. CASE y # Bottom
      BY <1>2, <3>2 DEF BeforeCursor, RowOK
    <3> QED
      BY <3>1, <3>2
  <2>2. RealBefore(y) \subseteq 1 .. Len(cells) /\ Len(cells) \in Nat
    BY <2>1, <1>2 DEF RealBefore, RowOK
  <2>3. Max(RealBefore(y)) \in RealBefore(y)
    BY <1>2, <2>2, GreatestIs
  <2> QED
    BY <2>2, <2>3
<1>4. /\ TakesMark(cell) /\ table' = Inserted(table, seq)
      /\ rows' = [rows EXCEPT ![y].cells[i] = [@ EXCEPT !.ext = TRUE, !.code = slot]]
      /\ typed' = [typed EXCEPT ![y][i].seq = Append(@, m)]
      /\ x' = x
  BY <1>1
<1> HIDE DEF i
<1>5. cell \in CellType /\ shown[i] \in TypedType /\ Known(table, cell) /\ Shown(table, cell) = shown[i]
  BY <1>2, <1>3 DEF RowOK
<1>6. TableOK(table) /\ m \in Nat /\ (cell.ext => Len(Lookup(table, cell.code)) < 3)
  BY <1>4, BottomRow DEF TakesMark
<1> HIDE DEF old, c, e, cell
<1>7. MarkJoined(table, table', c, e)
  BY <1>4, <1>5, <1>6, MarkJoins DEF old, seq, slot, c, e
<1>11. TableOK(table') /\ Extends(table', table)
  BY <1>7 DEF MarkJoined
<1>14. c \in CellType /\ e \in TypedType /\ Known(table', c) /\ Shown(table', c) = e
  BY <1>7 DEF MarkJoined
<1>15. RowOK(table', cells, shown)
  BY <1>2, <1>11, RowExtends
<1> HIDE DEF seq, slot
<1>16. rows' = [rows EXCEPT ![y] = [cells |-> [cells EXCEPT ![i] = c], wrapped |-> rows[y].wrapped]]
  <2>1. rows[y] \in RowType
    BY <1>2 DEF RowsInv
  <2>2. [rows[y] EXCEPT !.cells = [cells EXCEPT ![i] = c]]
          = [cells |-> [cells EXCEPT ![i] = c], wrapped |-> rows[y].wrapped]
    BY <2>1 DEF RowType
  <2>3. rows' = [rows EXCEPT ![y] = [rows[y] EXCEPT !.cells = [cells EXCEPT ![i] = c]]]
    BY <1>4 DEF c, cell
  <2> QED
    BY <2>2, <2>3
<1>17. typed' = [typed EXCEPT ![y] = [shown EXCEPT ![i] = e]]
  BY <1>4 DEF e
<1>18. rows[y].wrapped \in BOOLEAN /\ x' \in 0 .. Columns
  BY <1>2, <1>4 DEF RowsInv, RowType
<1>19. RowOK(table', [cells EXCEPT ![i] = c], [shown EXCEPT ![i] = e])
  BY <1>3, <1>14, <1>15, RowSet
<1> QED
  BY <1>2, <1>11, <1>16, <1>17, <1>18, <1>19, OneRowChanges

LEMMA SameRows ==
  ASSUME RowsInv, UNCHANGED <<rows, x, table, typed>>
  PROVE  RowsInv'
BY DEF RowsInv

LEMMA RowsStart ==
  ASSUME Init
  PROVE  RowsInv
<1>1. TableOK(table)
  BY FS_EmptySet DEF Init, EmptyTable, TableOK
<1>2. \A y \in 1 .. Height : rows[y] = EmptyRow /\ typed[y] = <<>>
  BY DEF Init
<1>3. EmptyRow \in RowType /\ EmptyRow.cells = <<>> /\ 0 \in 0 .. Columns
  BY ScrollbackAssumption DEF EmptyRow, RowType
<1>4. rows \in [1 .. Height -> RowType] /\ typed \in [1 .. Height -> Seq(TypedType)] /\ x = 0
  BY <1>3 DEF Init
<1> QED
  BY <1>1, <1>2, <1>3, <1>4, RowEmpty DEF RowsInv

LEMMA RowsKept ==
  ASSUME RowsInv, [Next]_vars
  PROVE  RowsInv'
<1>1. CASE \E c \in Codes, f \in Pens : Put(c, f)
  BY <1>1, PutKeepsRows
<1>2. CASE \E c \in Codes, f \in Pens, failed \in FailingWrites : PutWrapping(c, f, failed)
  BY <1>2, WrapKeepsRows
<1>3. CASE \E m \in Marks : Combine(m)
  BY <1>3, CombineKeepsRows
<1>4. CASE CarriageReturn
  <2>1. x' = 0 /\ UNCHANGED <<rows, typed, table>> /\ 0 \in 0 .. Columns
    BY <1>4, ScrollbackAssumption DEF CarriageReturn
  <2> QED
    BY <2>1 DEF RowsInv
<1>5. CASE \E failed \in FailingWrites : NextLine(failed)
  BY <1>5, NextLineKeepsRows
<1>6. CASE \E f \in Pens : ClearToBeginOfLine(f)
  BY <1>6, ClearKeepsRows
<1>7. CASE \E line \in 0 .. GetLines(history) - 1, flushed \in BOOLEAN : ReadLine(line, flushed)
  BY <1>7, SameRows DEF ReadLine, KeepsRows
<1>8. CASE SetHistoryNone \/ SetHistoryFile \/ \E n \in Sizes : SetHistoryCompact(n)
  BY <1>8, SameRows DEF SetHistoryNone, SetHistoryFile, SetHistoryCompact, KeepsRows
<1>9. CASE ClearHistory
  BY <1>9, SameRows DEF ClearHistory, KeepsRows
<1>10. CASE UNCHANGED vars
  BY <1>10, SameRows DEF vars
<1> QED
  BY <1>1, <1>2, <1>3, <1>4, <1>5, <1>6, <1>7, <1>8, <1>9, <1>10 DEF Next

LEMMA RowsSay ==
  ASSUME RowsInv
  PROVE  RowsShowTyped
<1> SUFFICES ASSUME NEW y \in 1 .. Height
             PROVE  [i \in DOMAIN rows[y].cells |-> Shown(table, rows[y].cells[i])] = typed[y]
  BY DEF RowsShowTyped
<1>1. RowOK(table, rows[y].cells, typed[y])
  BY DEF RowsInv
<1>2. /\ DOMAIN rows[y].cells = 1 .. Len(rows[y].cells) /\ typed[y] \in Seq(TypedType)
      /\ Len(typed[y]) = Len(rows[y].cells)
      /\ \A i \in 1 .. Len(rows[y].cells) : Shown(table, rows[y].cells[i]) = typed[y][i]
  BY <1>1 DEF RowOK
<1>3. typed[y] = [i \in 1 .. Len(rows[y].cells) |-> typed[y][i]]
  BY <1>2
<1> QED
  BY <1>2, <1>3

(* Every cell shows what was written to it with the marks that joined it,  *)
(* whatever the hashes of the sequences: createExtendedChar never takes a  *)
(* slot that holds another sequence, and a slot in use never changes.      *)
THEOREM RowsAlwaysShowTyped == Spec => []RowsShowTyped
<1>1. Init => RowsInv
  BY RowsStart
<1>2. RowsInv /\ [Next]_vars => RowsInv'
  BY RowsKept
<1>3. RowsInv => RowsShowTyped
  BY RowsSay
<1> QED
  BY <1>1, <1>2, <1>3, PTL DEF Spec

-----------------------------------------------------------------------------
(* The history file.  What is in the files is sound even after writes that *)
(* failed: a line ends where the next starts, and inside the cells; a map  *)
(* is as long as its file.                                                 *)
FileType(T) == {f \in [data : Seq(T), map : Int, balance : Int] :
                   f.map = NotMapped \/ f.map = Len(f.data)}
ScrollType == [index : FileType(Nat), cells : FileType(CellType), flags : FileType(BOOLEAN)]
Ordered(index, end) ==
    /\ \A i \in 1 .. Len(index) : index[i] <= end
    /\ \A i, j \in 1 .. Len(index) : i <= j => index[i] <= index[j]
Scrolls == {h \in ScrollType : Ordered(h.index.data, Len(h.cells.data))}

(* Where a line starts, and what it is, if every read stays inside         *)
Start(h, line) == IF line = 0 THEN 0 ELSE h.index.data[line]
FlagOf(h, line) == line < Len(h.flags.data) /\ h.flags.data[line + 1]
LineOf(h, line) ==
    [cells   |-> [i \in 1 .. Start(h, line + 1) - Start(h, line) |->
                     h.cells.data[Start(h, line) + i]],
     wrapped |-> FlagOf(h, line)]

(* The files agree: what they do unless a write has failed                 *)
Whole(h) ==
    /\ Len(h.flags.data) = GetLines(h)
    /\ Len(h.cells.data) = Start(h, GetLines(h))

Inside(f, T, n, loc) ==
    f \in FileType(T) /\ n \in Nat /\ loc \in Nat /\ loc + n <= Len(f.data)
CopiesData(f, n, loc) == Copied(f, n, loc) = [i \in 1 .. n |-> f.data[loc + i]]

LEMMA CopiedIs ==
  ASSUME NEW f, NEW T, NEW n, NEW loc, Inside(f, T, n, loc)
  PROVE  CopiesData(f, n, loc)
<1>0. f \in FileType(T) /\ n \in Nat /\ loc \in Nat /\ loc + n <= Len(f.data)
  BY DEF Inside
<1> DEFINE end == IF f.map = NotMapped THEN Len(f.data) ELSE f.map
<1>1. end = Len(f.data) /\ Len(f.data) \in Nat
  BY <1>0 DEF FileType
<1> HIDE DEF end
<1>2. \A i \in 1 .. n : loc + i <= end
  BY <1>0, <1>1
<1>3. Copied(f, n, loc) = [i \in 1 .. n |-> IF loc + i <= end THEN f.data[loc + i] ELSE Garbage]
  BY DEF Copied, end
<1> QED
  BY <1>2, <1>3 DEF CopiesData

LEMMA ScrollFields ==
  ASSUME NEW h \in Scrolls
  PROVE  /\ h.index \in FileType(Nat) /\ h.cells \in FileType(CellType) /\ h.flags \in FileType(BOOLEAN)
         /\ h.index.data \in Seq(Nat) /\ h.cells.data \in Seq(CellType) /\ h.flags.data \in Seq(BOOLEAN)
         /\ GetLines(h) \in Nat /\ GetLines(h) = Len(h.index.data)
         /\ Ordered(h.index.data, Len(h.cells.data))
         /\ h = [index |-> h.index, cells |-> h.cells, flags |-> h.flags]
<1>1. h.index \in FileType(Nat) /\ h.cells \in FileType(CellType) /\ h.flags \in FileType(BOOLEAN)
      /\ h = [index |-> h.index, cells |-> h.cells, flags |-> h.flags]
      /\ Ordered(h.index.data, Len(h.cells.data))
  BY DEF Scrolls, ScrollType
<1>2. h.index.data \in Seq(Nat) /\ h.cells.data \in Seq(CellType) /\ h.flags.data \in Seq(BOOLEAN)
  BY <1>1 DEF FileType
<1> QED
  BY <1>1, <1>2 DEF GetLines

LEMMA StartsAscend ==
  ASSUME NEW h \in Scrolls, NEW line \in 0 .. GetLines(h) - 1
  PROVE  /\ line \in Nat /\ line + 1 \in 1 .. Len(h.index.data)
         /\ Start(h, line) \in Nat /\ Start(h, line + 1) \in Nat
         /\ Start(h, line) <= Start(h, line + 1) /\ Start(h, line + 1) <= Len(h.cells.data)
<1>1. h.index.data \in Seq(Nat) /\ GetLines(h) = Len(h.index.data) /\ GetLines(h) \in Nat
      /\ Ordered(h.index.data, Len(h.cells.data))
  BY ScrollFields
<1>2. line \in Nat /\ line + 1 \in 1 .. Len(h.index.data) /\ line + 1 # 0
  BY <1>1
<1>3. Start(h, line + 1) = h.index.data[line + 1] /\ h.index.data[line + 1] \in Nat
      /\ h.index.data[line + 1] <= Len(h.cells.data)
  BY <1>1, <1>2 DEF Start, Ordered
<1>4. Start(h, line) \in Nat /\ Start(h, line) <= h.index.data[line + 1]
  <2>1. CASE line = 0
    BY <1>3, <2>1 DEF Start
  <2>2. CASE line # 0
    <3>1. line \in 1 .. Len(h.index.data) /\ line <= line + 1
      BY <1>1, <1>2, <2>2
    <3> QED
      BY <1>1, <1>2, <2>2, <3>1 DEF Start, Ordered
  <2> QED
    BY <2>1, <2>2
<1> QED
  BY <1>2, <1>3, <1>4

LEMMA StartOfLineIs ==
  ASSUME NEW h \in Scrolls, NEW line \in 0 .. GetLines(h)
  PROVE  StartOfLine(h, line) = Start(h, line)
<1>1. h.index \in FileType(Nat) /\ h.index.data \in Seq(Nat) /\ GetLines(h) = Len(h.index.data)
      /\ GetLines(h) \in Nat /\ line \in Nat
  BY ScrollFields
<1>2. CASE line = 0
  BY <1>2 DEF StartOfLine, Start
<1>3. CASE line # 0
  <2>1. line - 1 \in Nat /\ 1 \in Nat /\ (line - 1) + 1 <= Len(h.index.data) /\ ~(line <= 0)
        /\ (line - 1) + 1 = line
    BY <1>1, <1>3
  <2>2. CopiesData(h.index, 1, line - 1)
    <3>1. Inside(h.index, Nat, 1, line - 1)
      BY <1>1, <2>1 DEF Inside
    <3> QED
      BY <3>1, CopiedIs
  <2>3. Copied(h.index, 1, line - 1)[1] = h.index.data[line]
    BY <2>1, <2>2 DEF CopiesData
  <2> QED
    BY <1>1, <1>3, <2>1, <2>3 DEF StartOfLine, Start
<1> QED
  BY <1>2, <1>3

LEMMA LineAtIs ==
  ASSUME NEW h \in Scrolls, NEW line \in 0 .. GetLines(h) - 1
  PROVE  /\ LineAt(h, line) = LineOf(h, line)
         /\ LineAt(h, line).cells \in Seq(CellType) /\ LineAt(h, line).wrapped \in BOOLEAN
         /\ LineLen(h, line) >= 0 /\ ValidGet(h.cells, LineLen(h, line), StartOfLine(h, line))
<1> DEFINE a == Start(h, line)
           n == Start(h, line + 1) - Start(h, line)
<1>1. a \in Nat /\ n \in Nat /\ a + n <= Len(h.cells.data) /\ line \in Nat
  BY StartsAscend
<1>2. h.cells \in FileType(CellType) /\ h.flags \in FileType(BOOLEAN)
      /\ h.cells.data \in Seq(CellType) /\ h.flags.data \in Seq(BOOLEAN) /\ GetLines(h) \in Nat
  BY ScrollFields
<1>3. StartOfLine(h, line) = a /\ LineLen(h, line) = n
  <2>1. line \in 0 .. GetLines(h) /\ line + 1 \in 0 .. GetLines(h)
    BY <1>2
  <2> QED
    BY <2>1, StartOfLineIs DEF LineLen
<1> HIDE DEF a, n
<1>4. Copied(h.cells, n, a) = [i \in 1 .. n |-> h.cells.data[a + i]]
  <2>1. Inside(h.cells, CellType, n, a)
    BY <1>1, <1>2 DEF Inside
  <2>2. CopiesData(h.cells, n, a)
    BY <2>1, CopiedIs
  <2> QED
    BY <2>2 DEF CopiesData
<1>5. IsWrappedLine(h, line) = FlagOf(h, line)
  <2>1. FlagsGiven(h, line) <=> line < Len(h.flags.data)
    BY <1>1, <1>2 DEF FlagsGiven, ValidGet
  <2>2. ASSUME line < Len(h.flags.data) PROVE Copied(h.flags, 1, line)[1] = h.flags.data[line + 1]
    <3>1. line + 1 <= Len(h.flags.data) /\ 1 \in Nat
      BY <1>1, <1>2, <2>2
    <3>2. CopiesData(h.flags, 1, line)
      <4>1. Inside(h.flags, BOOLEAN, 1, line)
        BY <1>1, <1>2, <3>1 DEF Inside
      <4> QED
        BY <4>1, CopiedIs
    <3> QED
      BY <3>2 DEF CopiesData
  <2> QED
    BY <2>1, <2>2 DEF IsWrappedLine, FlagOf
<1>6. LineAt(h, line) = [cells |-> Copied(h.cells, n, a), wrapped |-> IsWrappedLine(h, line)]
  BY <1>3 DEF LineAt
<1>7. LineAt(h, line) = LineOf(h, line)
  BY <1>4, <1>5, <1>6 DEF LineOf, a, n
<1>8. [i \in 1 .. n |-> h.cells.data[a + i]] \in [1 .. n -> CellType]
  <2>1. \A i \in 1 .. n : a + i \in 1 .. Len(h.cells.data)
    BY <1>1, <1>2
  <2> QED
    BY <1>2, <2>1
<1>9. LineAt(h, line).cells \in Seq(CellType)
  <2>1. LineAt(h, line).cells = [i \in 1 .. n |-> h.cells.data[a + i]]
    BY <1>4, <1>6
  <2>2. [i \in 1 .. n |-> h.cells.data[a + i]] \in Seq(CellType)
    BY <1>1, <1>8
  <2> QED
    BY <2>1, <2>2
<1>10. LineAt(h, line).wrapped \in BOOLEAN
  BY <1>6 DEF IsWrappedLine
<1>11. n >= 0 /\ ValidGet(h.cells, n, a)
  BY <1>1 DEF ValidGet
<1> QED
  BY <1>3, <1>7, <1>9, <1>10, <1>11

LEMMA FileFields ==
  ASSUME NEW T, NEW f \in FileType(T)
  PROVE  /\ f.data \in Seq(T) /\ f.balance \in Int /\ (f.map = NotMapped \/ f.map = Len(f.data))
         /\ f = [data |-> f.data, map |-> f.map, balance |-> f.balance]
BY DEF FileType

Adds(f, T, items) == f \in FileType(T) /\ items \in Seq(T)
IsAdded(g, T, f, items, written) ==
    g \in FileType(T) /\ g.data = IF written THEN f.data \o items ELSE f.data

LEMMA AddedIs ==
  ASSUME NEW f, NEW T, NEW items, Adds(f, T, items), NEW written \in BOOLEAN
  PROVE  IsAdded(Added(f, items, written), T, f, items, written)
<1>0. f \in FileType(T) /\ items \in Seq(T)
  BY DEF Adds
<1>1. f.data \in Seq(T) /\ f.balance \in Int
  BY <1>0, FileFields
<1> DEFINE data == IF written THEN f.data \o items ELSE f.data
           balance == LessOf(f.balance + 1, IntMax)
<1>2. Added(f, items, written) = [data |-> data, map |-> NotMapped, balance |-> balance]
  BY DEF Added
<1>3. data \in Seq(T)
  BY <1>0, <1>1
<1>4. balance \in Int /\ NotMapped \in Int
  BY <1>1, HistoryFileAssumption DEF LessOf, NotMapped
<1> HIDE DEF data, balance
<1>5. Added(f, items, written) \in FileType(T) /\ Added(f, items, written).data = data
  BY <1>2, <1>3, <1>4 DEF FileType
<1> QED
  BY <1>5 DEF data, IsAdded

LEMMA GotIs ==
  ASSUME NEW T, NEW f \in FileType(T), NEW flushed \in BOOLEAN
  PROVE  Got(f, flushed) \in FileType(T) /\ Got(f, flushed).data = f.data
<1>1. /\ f.data \in Seq(T) /\ f.balance \in Int /\ (f.map = NotMapped \/ f.map = Len(f.data))
      /\ f = [data |-> f.data, map |-> f.map, balance |-> f.balance]
  BY FileFields
<1> DEFINE balance == MoreOf(f.balance - 1, IntMin)
<1>2. balance \in Int /\ f.map \in Int /\ Len(f.data) \in Int
  BY <1>1, HistoryFileAssumption DEF MoreOf, NotMapped
<1>3. \/ Got(f, flushed) = [f EXCEPT !.balance = balance]
      \/ Got(f, flushed) = [f EXCEPT !.balance = balance, !.map = Len(f.data)]
      \/ Got(f, flushed) = [f EXCEPT !.balance = 0]
  BY DEF Got
<1> HIDE DEF balance
<1>4. \/ Got(f, flushed) = [data |-> f.data, map |-> f.map, balance |-> balance]
      \/ Got(f, flushed) = [data |-> f.data, map |-> Len(f.data), balance |-> balance]
      \/ Got(f, flushed) = [data |-> f.data, map |-> f.map, balance |-> 0]
  BY <1>1, <1>3
<1> QED
  BY <1>1, <1>2, <1>4 DEF FileType

LEMMA NewScrollIs ==
  NewScroll \in Scrolls /\ Whole(NewScroll) /\ GetLines(NewScroll) = 0
<1>1. \A T : NewFile \in FileType(T)
  BY DEF NewFile, FileType, NotMapped
<1>2. NewScroll = [index |-> NewFile, cells |-> NewFile, flags |-> NewFile]
  BY DEF NewScroll, Files
<1>3. NewScroll.index.data = <<>> /\ NewScroll.cells.data = <<>> /\ NewScroll.flags.data = <<>>
  BY <1>2 DEF NewFile
<1>4. NewScroll \in ScrollType
  BY <1>1, <1>2 DEF ScrollType
<1>5. Ordered(NewScroll.index.data, Len(NewScroll.cells.data))
  BY <1>3 DEF Ordered
<1> QED
  BY <1>3, <1>4, <1>5 DEF Scrolls, Whole, GetLines, Start

(* Reading changes the maps and the balances, never what is stored.        *)
SameData(u, h) ==
    u.index.data = h.index.data /\ u.cells.data = h.cells.data /\ u.flags.data = h.flags.data

LEMMA LineReadIs ==
  ASSUME NEW h \in Scrolls, NEW line, NEW flushed \in BOOLEAN
  PROVE  LineRead(h, line, flushed) \in Scrolls /\ SameData(LineRead(h, line, flushed), h)
<1> DEFINE u == LineRead(h, line, flushed)
<1>1. h.index \in FileType(Nat) /\ h.cells \in FileType(CellType) /\ h.flags \in FileType(BOOLEAN)
      /\ Ordered(h.index.data, Len(h.cells.data))
  BY ScrollFields
<1>2. u.index \in FileType(Nat) /\ u.index.data = h.index.data
  <2>1. Got(h.index, flushed) \in FileType(Nat) /\ Got(h.index, flushed).data = h.index.data
    BY <1>1, GotIs
  <2>2. /\ Got(Got(h.index, flushed), flushed) \in FileType(Nat)
        /\ Got(Got(h.index, flushed), flushed).data = h.index.data
    BY <2>1, GotIs
  <2>3. /\ Got(Got(Got(h.index, flushed), flushed), flushed) \in FileType(Nat)
        /\ Got(Got(Got(h.index, flushed), flushed), flushed).data = h.index.data
    BY <2>2, GotIs
  <2> QED
    BY <2>1, <2>3 DEF LineRead
<1>3. u.cells \in FileType(CellType) /\ u.cells.data = h.cells.data
  BY <1>1, GotIs DEF LineRead
<1>4. u.flags \in FileType(BOOLEAN) /\ u.flags.data = h.flags.data
  BY <1>1, GotIs DEF LineRead
<1>5. u = [index |-> u.index, cells |-> u.cells, flags |-> u.flags]
  BY DEF LineRead
<1> HIDE DEF u
<1>6. u \in ScrollType
  BY <1>2, <1>3, <1>4, <1>5 DEF ScrollType
<1>7. u \in Scrolls /\ SameData(u, h)
  BY <1>1, <1>2, <1>3, <1>4, <1>6 DEF Scrolls, SameData
<1> QED
  BY <1>7 DEF u

LEMMA SameDataSame ==
  ASSUME NEW h, NEW u, SameData(u, h)
  PROVE  GetLines(u) = GetLines(h) /\ Whole(u) = Whole(h) /\ \A line : LineOf(u, line) = LineOf(h, line)
BY DEF SameData, GetLines, Whole, LineOf, Start, FlagOf

LEMMA OrderedGrows ==
  ASSUME NEW s \in Seq(Nat), NEW n \in Nat, NEW m \in Nat, n <= m, Ordered(s, n)
  PROVE  Ordered(s, m) /\ Ordered(s \o <<m>>, m)
<1>1. /\ Len(s) \in Nat /\ \A i \in 1 .. Len(s) : s[i] \in Nat /\ s[i] <= n
      /\ \A i, j \in 1 .. Len(s) : i <= j => s[i] <= s[j]
  BY DEF Ordered
<1>2. \A i \in 1 .. Len(s) : s[i] <= m
  BY <1>1
<1>3. /\ Len(s \o <<m>>) = Len(s) + 1
      /\ \A i \in 1 .. Len(s) : (s \o <<m>>)[i] = s[i]
      /\ (s \o <<m>>)[Len(s) + 1] = m
  OBVIOUS
<1> DEFINE t == s \o <<m>>
<1>4. /\ Len(t) = Len(s) + 1 /\ \A i \in 1 .. Len(s) : t[i] = s[i]
      /\ t[Len(s) + 1] = m
  BY <1>3
<1> HIDE DEF t
<1>5. ASSUME NEW i \in 1 .. Len(t) PROVE t[i] <= m
  BY <1>1, <1>2, <1>4
<1>6. ASSUME NEW i \in 1 .. Len(t), NEW j \in 1 .. Len(t), i <= j PROVE t[i] <= t[j]
  <2>1. CASE j = Len(s) + 1
    BY <1>4, <1>5, <2>1
  <2>2. CASE j # Len(s) + 1
    <3>1. i \in 1 .. Len(s) /\ j \in 1 .. Len(s)
      BY <1>1, <1>4, <1>6, <2>2
    <3> QED
      BY <1>1, <1>4, <1>6, <3>1
  <2> QED
    BY <2>1, <2>2
<1>7. Ordered(t, m) /\ Ordered(s, m)
  BY <1>1, <1>2, <1>5, <1>6 DEF Ordered
<1> QED
  BY <1>7 DEF t

LineAdded(u, h, cells, wrapped, failed) ==
    /\ u \in Scrolls
    /\ u.cells.data = IF "cells" \notin failed THEN h.cells.data \o cells ELSE h.cells.data
    /\ u.index.data = IF "index" \notin failed THEN h.index.data \o <<Len(u.cells.data)>>
                      ELSE h.index.data
    /\ u.flags.data = IF "flags" \notin failed THEN h.flags.data \o <<wrapped>>
                      ELSE h.flags.data

(* A write that fails leaves the files apart, but in order.                *)
LEMMA WithLineIs ==
  ASSUME NEW h \in Scrolls, NEW cells \in Seq(CellType), NEW wrapped \in BOOLEAN, NEW failed
  PROVE  LineAdded(WithLine(h, cells, wrapped, failed), h, cells, wrapped, failed)
<1> DEFINE u == WithLine(h, cells, wrapped, failed)
           end == EndOfCells(h, cells, failed)
<1>1. /\ h.index \in FileType(Nat) /\ h.cells \in FileType(CellType) /\ h.flags \in FileType(BOOLEAN)
      /\ h.index.data \in Seq(Nat) /\ h.cells.data \in Seq(CellType) /\ h.flags.data \in Seq(BOOLEAN)
      /\ Ordered(h.index.data, Len(h.cells.data))
  BY ScrollFields
<1>2. u = [cells |-> Added(h.cells, cells, "cells" \notin failed),
           index |-> Added(h.index, <<end>>, "index" \notin failed),
           flags |-> Added(h.flags, <<wrapped>>, "flags" \notin failed)]
  BY DEF WithLine
<1> HIDE DEF u
<1>3. /\ u.cells \in FileType(CellType)
      /\ u.cells.data = IF "cells" \notin failed THEN h.cells.data \o cells ELSE h.cells.data
  <2>1. Adds(h.cells, CellType, cells) /\ ("cells" \notin failed) \in BOOLEAN
    BY <1>1 DEF Adds
  <2>2. IsAdded(u.cells, CellType, h.cells, cells, "cells" \notin failed)
    BY <1>2, <2>1, AddedIs
  <2> QED
    BY <2>2 DEF IsAdded
<1>4. end = Len(u.cells.data) /\ end \in Nat /\ Len(h.cells.data) <= end
  <2>1. CASE "cells" \in failed
    BY <1>1, <1>3, <2>1 DEF EndOfCells
  <2>2. CASE "cells" \notin failed
    BY <1>1, <1>3, <2>2 DEF EndOfCells
  <2> QED
    BY <2>1, <2>2
<1> HIDE DEF end
<1>5. /\ u.index \in FileType(Nat)
      /\ u.index.data = IF "index" \notin failed THEN h.index.data \o <<end>> ELSE h.index.data
  <2>1. Adds(h.index, Nat, <<end>>) /\ ("index" \notin failed) \in BOOLEAN
    BY <1>1, <1>4 DEF Adds
  <2>2. IsAdded(u.index, Nat, h.index, <<end>>, "index" \notin failed)
    BY <1>2, <2>1, AddedIs
  <2> QED
    BY <2>2 DEF IsAdded
<1>6. /\ u.flags \in FileType(BOOLEAN)
      /\ u.flags.data = IF "flags" \notin failed THEN h.flags.data \o <<wrapped>> ELSE h.flags.data
  <2>1. Adds(h.flags, BOOLEAN, <<wrapped>>) /\ ("flags" \notin failed) \in BOOLEAN
    BY <1>1 DEF Adds
  <2>2. IsAdded(u.flags, BOOLEAN, h.flags, <<wrapped>>, "flags" \notin failed)
    BY <1>2, <2>1, AddedIs
  <2> QED
    BY <2>2 DEF IsAdded
<1>7. Ordered(u.index.data, end)
  <2>1. Len(h.cells.data) \in Nat
    BY <1>1
  <2>2. Ordered(h.index.data, end) /\ Ordered(h.index.data \o <<end>>, end)
    BY <1>1, <1>4, <2>1, OrderedGrows
  <2> QED
    BY <1>5, <2>2
<1>8. u = [index |-> u.index, cells |-> u.cells, flags |-> u.flags]
  BY <1>2
<1>9. u \in ScrollType
  BY <1>3, <1>5, <1>6, <1>8 DEF ScrollType
<1>10. u \in Scrolls
  BY <1>4, <1>7, <1>9 DEF Scrolls
<1> QED
  BY <1>3, <1>4, <1>5, <1>6, <1>10 DEF LineAdded, u

(* Two sequences one after the other.                                      *)
Both(s, t, T) == s \in Seq(T) /\ t \in Seq(T)
Joined(r, s, t) ==
    /\ Len(s) \in Nat /\ Len(t) \in Nat /\ Len(r) = Len(s) + Len(t)
    /\ \A i \in 1 .. Len(s) : r[i] = s[i]
    /\ \A i \in 1 .. Len(t) : r[Len(s) + i] = t[i]

LEMMA JoinIs ==
  ASSUME NEW s, NEW t, NEW T, Both(s, t, T)
  PROVE  Joined(s \o t, s, t)
BY DEF Both, Joined

Gets(s, e, T) == s \in Seq(T) /\ e \in T
Appended(r, s, e) == r = [i \in 1 .. Len(s) + 1 |-> IF i <= Len(s) THEN s[i] ELSE e]

LEMMA AppendIs ==
  ASSUME NEW s, NEW e, NEW T, Gets(s, e, T)
  PROVE  Appended(Append(s, e), s, e)
<1>1. s \in Seq(T) /\ e \in T /\ Len(s) \in Nat
  BY DEF Gets
<1> DEFINE r == Append(s, e)
<1>2. /\ r \in Seq(T) /\ Len(r) = Len(s) + 1
      /\ \A i \in 1 .. Len(s) + 1 : r[i] = IF i <= Len(s) THEN s[i] ELSE e
  BY <1>1
<1> HIDE DEF r
<1>3. r = [i \in 1 .. Len(r) |-> r[i]]
  BY <1>2
<1>4. r = [i \in 1 .. Len(s) + 1 |-> IF i <= Len(s) THEN s[i] ELSE e]
  BY <1>2, <1>3
<1> QED
  BY <1>4 DEF Appended, r

(* A line that no write failed for is stored after the others.             *)
LineType == [cells : Seq(CellType), wrapped : BOOLEAN]
FileLines(h) == [i \in 1 .. GetLines(h) |-> LineOf(h, i - 1)]
Stores(u, lines) == u \in Scrolls /\ Whole(u) /\ FileLines(u) = lines

LEMMA FileLinesAre ==
  ASSUME NEW h \in Scrolls
  PROVE  /\ FileLines(h) \in Seq(LineType) /\ Len(FileLines(h)) = GetLines(h)
         /\ FileLines(h) = [i \in 1 .. GetLines(h) |-> LineAt(h, i - 1)]
<1>1. GetLines(h) \in Nat
  BY ScrollFields
<1>2. ASSUME NEW i \in 1 .. GetLines(h)
      PROVE  LineAt(h, i - 1) = LineOf(h, i - 1) /\ LineOf(h, i - 1) \in LineType
  <2>1. i - 1 \in 0 .. GetLines(h) - 1
    BY <1>1
  <2>2. LineAt(h, i - 1) = LineOf(h, i - 1)
        /\ LineAt(h, i - 1).cells \in Seq(CellType) /\ LineAt(h, i - 1).wrapped \in BOOLEAN
    BY <2>1, LineAtIs
  <2>3. LineAt(h, i - 1) = [cells |-> LineAt(h, i - 1).cells, wrapped |-> LineAt(h, i - 1).wrapped]
    BY DEF LineAt
  <2> QED
    BY <2>2, <2>3 DEF LineType
<1>3. FileLines(h) \in [1 .. GetLines(h) -> LineType]
  BY <1>2 DEF FileLines
<1>4. FileLines(h) \in Seq(LineType) /\ Len(FileLines(h)) = GetLines(h)
  BY <1>1, <1>3
<1> QED
  BY <1>2, <1>4 DEF FileLines

LEMMA LineStored ==
  ASSUME NEW h \in Scrolls, Whole(h), NEW cells \in Seq(CellType), NEW wrapped \in BOOLEAN
  PROVE  Stores(WithLine(h, cells, wrapped, {}),
                Append(FileLines(h), [cells |-> cells, wrapped |-> wrapped]))
<1> DEFINE u == WithLine(h, cells, wrapped, {})
           n == GetLines(h)
           old == h.cells.data
           index == h.index.data
           flags == h.flags.data
<1>1. /\ u \in Scrolls /\ u.cells.data = old \o cells
      /\ u.index.data = index \o <<Len(u.cells.data)>>
      /\ u.flags.data = flags \o <<wrapped>>
  <2>1. LineAdded(u, h, cells, wrapped, {})
    BY WithLineIs
  <2> QED
    BY <2>1 DEF LineAdded
<1>2. /\ index \in Seq(Nat) /\ old \in Seq(CellType) /\ flags \in Seq(BOOLEAN)
      /\ n \in Nat /\ n = Len(index) /\ Len(flags) = n /\ Len(old) = Start(h, n)
  BY ScrollFields DEF Whole
<1> HIDE DEF u, n, old, index, flags
<1>3. /\ Len(u.cells.data) = Len(old) + Len(cells) /\ Len(old) \in Nat /\ Len(cells) \in Nat
      /\ \A i \in 1 .. Len(old) : u.cells.data[i] = old[i]
      /\ \A i \in 1 .. Len(cells) : u.cells.data[Len(old) + i] = cells[i]
  <2>1. Both(old, cells, CellType)
    BY <1>2 DEF Both
  <2>2. Joined(u.cells.data, old, cells)
    BY <1>1, <2>1, JoinIs
  <2> QED
    BY <2>2 DEF Joined
<1>4. /\ GetLines(u) = n + 1
      /\ \A i \in 1 .. n : u.index.data[i] = index[i]
      /\ u.index.data[n + 1] = Len(u.cells.data)
  BY <1>1, <1>2, <1>3 DEF GetLines
<1>5. /\ Len(u.flags.data) = n + 1
      /\ \A i \in 1 .. n : u.flags.data[i] = flags[i]
      /\ u.flags.data[n + 1] = wrapped
  <2>1. Both(flags, <<wrapped>>, BOOLEAN)
    BY <1>2 DEF Both
  <2>2. Joined(u.flags.data, flags, <<wrapped>>)
    BY <1>1, <2>1, JoinIs
  <2>3. Len(<<wrapped>>) = 1 /\ <<wrapped>>[1] = wrapped /\ 1 \in 1 .. 1
    OBVIOUS
  <2> QED
    BY <1>2, <2>2, <2>3 DEF Joined
<1>6. \A line \in 0 .. n : Start(u, line) = Start(h, line)
  BY <1>2, <1>4 DEF Start, index
<1>7. Start(u, n + 1) = Len(u.cells.data) /\ Start(u, n) = Len(old)
  BY <1>2, <1>4, <1>6 DEF Start
<1>8. Whole(u)
  BY <1>4, <1>5, <1>7 DEF Whole
<1>9. ASSUME NEW line \in 0 .. n - 1 PROVE LineOf(u, line) = LineOf(h, line)
  <2>1. /\ line \in Nat /\ line + 1 \in 1 .. Len(index)
        /\ Start(h, line) \in Nat /\ Start(h, line + 1) \in Nat
        /\ Start(h, line) <= Start(h, line + 1) /\ Start(h, line + 1) <= Len(old)
    BY StartsAscend DEF n, old, index
  <2>0. line \in 0 .. n /\ line + 1 \in 0 .. n
    BY <1>2, <2>1
  <2>2. Start(u, line) = Start(h, line) /\ Start(u, line + 1) = Start(h, line + 1)
    BY <1>6, <2>0
  <2>3. FlagOf(u, line) = FlagOf(h, line)
    <3>0. line < Len(flags) /\ line + 1 \in 1 .. Len(flags)
      BY <1>2, <2>1
    <3>1. line < Len(u.flags.data) /\ line < Len(flags)
          /\ u.flags.data[line + 1] = flags[line + 1]
      BY <1>2, <1>5, <3>0
    <3> QED
      BY <3>1 DEF FlagOf, flags
  <2>4. \A i \in 1 .. Start(h, line + 1) - Start(h, line) :
           u.cells.data[Start(h, line) + i] = old[Start(h, line) + i]
    <3>1. \A i \in 1 .. Start(h, line + 1) - Start(h, line) : Start(h, line) + i \in 1 .. Len(old)
      BY <1>3, <2>1
    <3> QED
      BY <1>3, <3>1
  <2> QED
    BY <2>2, <2>3, <2>4 DEF LineOf, old
<1>10. LineOf(u, n) = [cells |-> cells, wrapped |-> wrapped]
  <2>1. Start(u, n + 1) - Start(u, n) = Len(cells)
    BY <1>3, <1>7
  <2>2. [i \in 1 .. Len(cells) |-> u.cells.data[Len(old) + i]] = cells
    BY <1>3
  <2>3. FlagOf(u, n) = wrapped
    BY <1>2, <1>5 DEF FlagOf
  <2> QED
    BY <1>7, <2>1, <2>2, <2>3 DEF LineOf
<1>11. FileLines(u) = Append(FileLines(h), [cells |-> cells, wrapped |-> wrapped])
  <2> DEFINE new == [cells |-> cells, wrapped |-> wrapped]
  <2>1. FileLines(h) \in Seq(LineType) /\ Len(FileLines(h)) = n
        /\ \A i \in 1 .. n : FileLines(h)[i] = LineOf(h, i - 1)
    BY FileLinesAre DEF FileLines, n
  <2>2. FileLines(u) = [i \in 1 .. n + 1 |-> LineOf(u, i - 1)]
    BY <1>4 DEF FileLines
  <2>3. \A i \in 1 .. n + 1 : LineOf(u, i - 1) = IF i <= n THEN FileLines(h)[i] ELSE new
    <3> SUFFICES ASSUME NEW i \in 1 .. n + 1
                 PROVE  LineOf(u, i - 1) = IF i <= n THEN FileLines(h)[i] ELSE new
      OBVIOUS
    <3>1. CASE i <= n
      <4>1. i \in 1 .. n /\ i - 1 \in 0 .. n - 1
        BY <1>2, <3>1
      <4> QED
        BY <1>9, <2>1, <3>1, <4>1
    <3>2. CASE ~(i <= n)
      <4>1. i = n + 1 /\ i - 1 = n
        BY <1>2, <3>2
      <4> QED
        BY <1>10, <3>2, <4>1
    <3> QED
      BY <3>1, <3>2
  <2> HIDE DEF new
  <2> DEFINE s == FileLines(h)
  <2>4. Append(s, new) = [i \in 1 .. n + 1 |-> IF i <= n THEN s[i] ELSE new]
    <3>1. Gets(s, new, LineType) /\ Len(s) = n
      BY <2>1 DEF Gets, new, LineType
    <3> HIDE DEF s
    <3>2. Append(s, new) = [i \in 1 .. Len(s) + 1 |-> IF i <= Len(s) THEN s[i] ELSE new]
      BY <3>1, AppendIs DEF Appended
    <3> QED
      BY <3>1, <3>2
  <2>5. FileLines(u) = Append(FileLines(h), new)
    BY <2>2, <2>3, <2>4
  <2> QED
    BY <2>5 DEF new
<1> QED
  BY <1>1, <1>8, <1>11 DEF Stores, u

(* A scroll made of lines stores these lines.                              *)
LEMMA ScrollOfIs ==
  ASSUME NEW lines \in Seq(LineType)
  PROVE  Stores(ScrollOf(lines), lines)
<1> DEFINE n == Len(lines)
           upTo[i \in 0 .. n] ==
             IF i = 0 THEN NewScroll
             ELSE WithLine(upTo[i - 1], lines[i].cells, lines[i].wrapped, {})
           g == [i \in 1 .. n |-> [h \in Scrolls |-> WithLine(h, lines[i].cells, lines[i].wrapped, {})]]
<1>1. n \in Nat /\ \A i \in 1 .. n : lines[i].cells \in Seq(CellType) /\ lines[i].wrapped \in BOOLEAN
                                     /\ lines[i] = [cells |-> lines[i].cells, wrapped |-> lines[i].wrapped]
  <2>1. \A line \in LineType : line.cells \in Seq(CellType) /\ line.wrapped \in BOOLEAN
                               /\ line = [cells |-> line.cells, wrapped |-> line.wrapped]
    BY DEF LineType
  <2>2. n \in Nat /\ \A i \in 1 .. n : lines[i] \in LineType
    OBVIOUS
  <2> QED
    BY <2>1, <2>2
<1>2. \A h \in Scrolls, i \in 1 .. n : WithLine(h, lines[i].cells, lines[i].wrapped, {}) \in Scrolls
  <2> SUFFICES ASSUME NEW h \in Scrolls, NEW i \in 1 .. n
               PROVE  WithLine(h, lines[i].cells, lines[i].wrapped, {}) \in Scrolls
    OBVIOUS
  <2>1. LineAdded(WithLine(h, lines[i].cells, lines[i].wrapped, {}), h, lines[i].cells, lines[i].wrapped, {})
    BY <1>1, WithLineIs
  <2> QED
    BY <2>1 DEF LineAdded
<1>3. g \in [1 .. n -> [Scrolls -> Scrolls]]
  BY <1>2
<1>4. Steps(n, Scrolls, NewScroll, g)
  BY <1>1, <1>3, NewScrollIs DEF Steps
<1>5. PICK f : Follows(f, n, Scrolls, NewScroll, g)
  <2> HIDE DEF n, g
  <2> QED
    BY <1>4, Recursion
<1>6. f = [i \in 0 .. n |-> IF i = 0 THEN NewScroll
                           ELSE WithLine(f[i - 1], lines[i].cells, lines[i].wrapped, {})]
  <2>1. f \in [0 .. n -> Scrolls] /\ f[0] = NewScroll /\ \A i \in 1 .. n : f[i] = g[i][f[i - 1]]
    BY <1>5 DEF Follows
  <2>2. ASSUME NEW i \in 1 .. n
        PROVE  f[i] = WithLine(f[i - 1], lines[i].cells, lines[i].wrapped, {})
    <3>1. i - 1 \in 0 .. n
      BY <1>1
    <3>2. f[i - 1] \in Scrolls /\ f[i] = g[i][f[i - 1]]
      BY <2>1, <3>1
    <3> QED
      BY <3>2
  <2>3. \A i \in 0 .. n : f[i] = IF i = 0 THEN NewScroll
                                ELSE WithLine(f[i - 1], lines[i].cells, lines[i].wrapped, {})
    BY <1>1, <2>1, <2>2
  <2> QED
    BY <2>1, <2>3
<1>7. upTo = [i \in 0 .. n |-> IF i = 0 THEN NewScroll
                              ELSE WithLine(upTo[i - 1], lines[i].cells, lines[i].wrapped, {})]
  BY <1>6
<1>8. ScrollOf(lines) = upTo[n]
  BY DEF ScrollOf
<1> HIDE DEF upTo, g
<1> DEFINE S == {i \in Nat : i <= n => Stores(upTo[i], [j \in 1 .. i |-> lines[j]])}
<1>9. 0 \in S
  <2>1. upTo[0] = NewScroll
    BY <1>1, <1>7
  <2>2. FileLines(NewScroll) = [j \in 1 .. 0 |-> lines[j]]
    BY NewScrollIs DEF FileLines
  <2> QED
    BY <2>1, <2>2, NewScrollIs DEF Stores
<1>10. ASSUME NEW i \in Nat, i \in S PROVE i + 1 \in S
  <2> SUFFICES ASSUME i + 1 <= n PROVE Stores(upTo[i + 1], [j \in 1 .. i + 1 |-> lines[j]])
    OBVIOUS
  <2> DEFINE h == upTo[i]
             first == [j \in 1 .. i |-> lines[j]]
             line == lines[i + 1]
  <2>1. i <= n /\ i + 1 \in 1 .. n /\ i + 1 \in 0 .. n /\ i + 1 # 0 /\ (i + 1) - 1 = i
    BY <1>1
  <2>2. Stores(h, first)
    BY <1>10, <2>1
  <2>3. upTo[i + 1] = WithLine(h, line.cells, line.wrapped, {})
    BY <1>7, <2>1
  <2>4. line.cells \in Seq(CellType) /\ line.wrapped \in BOOLEAN
        /\ line = [cells |-> line.cells, wrapped |-> line.wrapped]
    BY <1>1, <2>1
  <2> HIDE DEF h, line
  <2>5. h \in Scrolls /\ Whole(h) /\ FileLines(h) = first
    BY <2>2 DEF Stores
  <2>6. Stores(upTo[i + 1], Append(first, line))
    BY <2>3, <2>4, <2>5, LineStored
  <2>7. Append(first, line) = [j \in 1 .. i + 1 |-> lines[j]]
    <3>1. first \in Seq(LineType) /\ line \in LineType /\ Len(first) = i
      <4>1. first \in [1 .. i -> LineType]
        BY <2>1
      <4> QED
        BY <2>1, <4>1 DEF line
    <3>2. Appended(Append(first, line), first, line)
      BY <3>1, AppendIs DEF Gets
    <3>3. Append(first, line) = [j \in 1 .. i + 1 |-> IF j <= i THEN first[j] ELSE line]
      BY <3>1, <3>2 DEF Appended
    <3>4. \A j \in 1 .. i + 1 : (IF j <= i THEN first[j] ELSE line) = lines[j]
      BY DEF line
    <3> QED
      BY <3>3, <3>4
  <2> QED
    BY <2>6, <2>7
<1> HIDE DEF S
<1>11. n \in S
  BY <1>1, <1>9, <1>10, Successively
<1>12. [j \in 1 .. n |-> lines[j]] = lines
  OBVIOUS
<1> QED
  BY <1>1, <1>8, <1>11, <1>12 DEF S

-----------------------------------------------------------------------------
(* The blocks of a compact history.  live names the parts of lines in each *)
(* block; a block counts its own.                                          *)
BlockType == [id : Nat, used : Nat, count : Nat]
LiveType == [Nat -> SUBSET (Nat \X Nat)]
Exists(blocks, id) == \E i \in 1 .. Len(blocks) : blocks[i].id = id
Counts(block, live) ==
    block.count = Cardinality(live[block.id]) /\ block.count > 0 /\ block.used <= BlockLength
Counted(blocks, live) ==
    /\ blocks \in Seq(BlockType) /\ live \in LiveType
    /\ \A id \in Nat : IsFiniteSet(live[id])
    /\ \A i, j \in 1 .. Len(blocks) : blocks[i].id = blocks[j].id => i = j
    /\ \A i \in 1 .. Len(blocks) : Counts(blocks[i], live)
    /\ \A id \in Nat : live[id] # {} => Exists(blocks, id)

(* There is an address that no block has: fewer are in use than there are. *)
LEMMA FreshIs ==
  ASSUME NEW blocks \in Seq(BlockType)
  PROVE  FreshId(blocks) \in Nat /\ ~Exists(blocks, FreshId(blocks))
<1> DEFINE n == Len(blocks)
           ids == {blocks[i].id : i \in DOMAIN blocks}
           T == (0 .. n) \ ids
<1>1. n \in Nat /\ DOMAIN blocks = 1 .. n
  OBVIOUS
<1>2. T # {}
  <2> SUFFICES ASSUME T = {} PROVE FALSE
    OBVIOUS
  <2>1. \A k \in 0 .. n : \E i \in 1 .. n : blocks[i].id = k
    BY <1>1
  <2> DEFINE f == [k \in 0 .. n |-> CHOOSE i \in 1 .. n : blocks[i].id = k]
  <2>2. \A k \in 0 .. n : f[k] \in 1 .. n /\ blocks[f[k]].id = k
    BY <2>1
  <2>3. f \in [0 .. n -> 1 .. n]
    BY <2>2
  <2>4. IsFiniteSet(0 .. n) /\ IsFiniteSet(1 .. n) /\ Cardinality(1 .. n) < Cardinality(0 .. n)
    <3> HIDE DEF n
    <3>1. 0 \in Int /\ 1 \in Int /\ n \in Int /\ n >= 0
      BY <1>1
    <3>2. IsFiniteSet(0 .. n) /\ Cardinality(0 .. n) = n - 0 + 1
      BY <3>1, FS_Interval
    <3>3. IsFiniteSet(1 .. n) /\ Cardinality(1 .. n) = IF 1 > n THEN 0 ELSE n - 1 + 1
      BY <3>1, FS_Interval
    <3> QED
      BY <3>1, <3>2, <3>3
  <2> HIDE DEF f, n
  <2>5. PICK k \in 0 .. n, m \in 0 .. n : k # m /\ f[k] = f[m]
    <3> DEFINE A == 0 .. n
               B == 1 .. n
    <3>1. IsFiniteSet(A) /\ IsFiniteSet(B) /\ Cardinality(B) < Cardinality(A) /\ f \in [A -> B]
      BY <2>3, <2>4
    <3> HIDE DEF A, B
    <3>2. \E k, m \in A : k # m /\ f[k] = f[m]
      BY <3>1, FS_PigeonHole
    <3> QED
      BY <3>2 DEF A
  <2> QED
    BY <2>2, <2>5
<1>3. T \subseteq Nat
  BY <1>1
<1>4. FreshId(blocks) \in T
  <2>1. FreshId(blocks) = Min(T)
    BY DEF FreshId
  <2> HIDE DEF T
  <2> QED
    BY <1>2, <1>3, <2>1, LeastIs
<1> QED
  BY <1>1, <1>3, <1>4 DEF Exists

LEMMA RemovedIs ==
  ASSUME NEW s, NEW T, s \in Seq(T), NEW i \in 1 .. Len(s)
  PROVE  /\ RemoveAt(s, i) \in Seq(T) /\ Len(RemoveAt(s, i)) = Len(s) - 1
         /\ \A j \in 1 .. Len(s) - 1 : RemoveAt(s, i)[j] = IF j < i THEN s[j] ELSE s[j + 1]
<1> DEFINE a == SubSeq(s, 1, i - 1)
           b == SubSeq(s, i + 1, Len(s))
<1>0. Len(s) \in Nat /\ i \in Int /\ i >= 1 /\ i <= Len(s) /\ i - 1 \in Int /\ i + 1 \in Int
      /\ 1 \in Int /\ Len(s) \in Int
  OBVIOUS
<1>1. a \in Seq(T) /\ Len(a) = i - 1 /\ \A j \in 1 .. i - 1 : a[j] = s[j]
  <2>1. \A j \in 1 .. i - 1 : s[j] \in T
    BY <1>0
  <2>2. /\ a \in Seq(T) /\ Len(a) = (IF 1 <= i - 1 THEN (i - 1) - 1 + 1 ELSE 0)
        /\ \A j \in 1 .. (i - 1) - 1 + 1 : a[j] = s[1 + j - 1]
    <3>1. 1 \in Int /\ i - 1 \in Int
      BY <1>0
    <3> QED
      BY <2>1, <3>1, SubSeqProperties
  <2> HIDE DEF a
  <2> QED
    BY <1>0, <2>2
<1>2. b \in Seq(T) /\ Len(b) = Len(s) - i /\ \A j \in 1 .. Len(s) - i : b[j] = s[i + j]
  <2>1. \A j \in i + 1 .. Len(s) : s[j] \in T
    BY <1>0
  <2>2. /\ b \in Seq(T) /\ Len(b) = (IF i + 1 <= Len(s) THEN Len(s) - (i + 1) + 1 ELSE 0)
        /\ \A j \in 1 .. Len(s) - (i + 1) + 1 : b[j] = s[(i + 1) + j - 1]
    <3>1. i + 1 \in Int /\ Len(s) \in Int
      BY <1>0
    <3> QED
      BY <2>1, <3>1, SubSeqProperties
  <2> HIDE DEF b
  <2>3. b \in Seq(T) /\ Len(b) = Len(s) - i
    <3>1. i + 1 <= Len(s) => Len(s) - (i + 1) + 1 = Len(s) - i
      BY <1>0
    <3>2. ~(i + 1 <= Len(s)) => Len(s) - i = 0
      BY <1>0
    <3> QED
      BY <2>2, <3>1, <3>2
  <2>4. ASSUME NEW j \in 1 .. Len(s) - i
        PROVE  b[j] = s[i + j]
    <3>1. j \in 1 .. Len(s) - (i + 1) + 1 /\ (i + 1) + j - 1 = i + j
      BY <1>0
    <3> QED
      BY <2>2, <3>1
  <2> QED
    BY <2>3, <2>4
<1> HIDE DEF a, b
<1>3. Both(a, b, T)
  BY <1>1, <1>2 DEF Both
<1>4. Joined(a \o b, a, b)
  BY <1>3, JoinIs
<1>5. RemoveAt(s, i) = a \o b
  BY DEF RemoveAt, a, b
<1> DEFINE r == a \o b
<1>6. r \in Seq(T) /\ Len(r) = Len(s) - 1
  BY <1>0, <1>1, <1>2, <1>4 DEF Joined
<1>7. /\ \A j \in 1 .. i - 1 : r[j] = s[j]
      /\ \A j \in 1 .. Len(s) - i : r[(i - 1) + j] = s[i + j]
  BY <1>0, <1>1, <1>2, <1>4 DEF Joined
<1> HIDE DEF r
<1>8. ASSUME NEW j \in 1 .. Len(s) - 1 PROVE r[j] = IF j < i THEN s[j] ELSE s[j + 1]
  <2>1. CASE j < i
    <3>1. j \in 1 .. i - 1
      BY <1>0, <2>1
    <3> QED
      BY <1>7, <2>1, <3>1
  <2>2. CASE ~(j < i)
    <3> DEFINE m == j - (i - 1)
    <3>1. m \in 1 .. Len(s) - i /\ (i - 1) + m = j /\ i + m = j + 1
      BY <1>0, <2>2
    <3> QED
      BY <1>7, <2>2, <3>1
  <2> QED
    BY <2>1, <2>2
<1> QED
  BY <1>5, <1>6, <1>8 DEF r

Grows(live, id, p) == [live EXCEPT ![id] = @ \cup {p}]
Shrinks(live, id, p) == [live EXCEPT ![id] = @ \ {p}]

LEMMA AllocatedIs ==
  ASSUME NEW blocks, NEW live, Counted(blocks, live), NEW n \in Nat, n <= BlockLength,
         NEW p \in Nat \X Nat, \A id \in Nat : p \notin live[id]
  PROVE  LET new == Allocated(blocks, n)
         IN  Last(new).id \in Nat /\ Counted(new, Grows(live, Last(new).id, p))
<1> DEFINE new == Allocated(blocks, n)
           last == Len(blocks)
<1>0. /\ blocks \in Seq(BlockType) /\ live \in LiveType /\ last \in Nat
      /\ \A id \in Nat : IsFiniteSet(live[id])
      /\ \A i, j \in 1 .. last : blocks[i].id = blocks[j].id => i = j
      /\ \A i \in 1 .. last : blocks[i] \in BlockType /\ Counts(blocks[i], live)
      /\ \A id \in Nat : live[id] # {} => Exists(blocks, id)
  BY DEF Counted
<1>a. \A b \in BlockType : b.id \in Nat /\ b.used \in Nat /\ b.count \in Nat
                           /\ b = [id |-> b.id, used |-> b.used, count |-> b.count]
  BY DEF BlockType
<1>b. ASSUME NEW id \in Nat
      PROVE  LET u == Grows(live, id, p)
             IN  /\ u \in LiveType /\ u[id] = live[id] \cup {p}
                 /\ \A k \in Nat : k # id => u[k] = live[k]
                 /\ \A k \in Nat : IsFiniteSet(u[k])
                 /\ Cardinality(u[id]) = Cardinality(live[id]) + 1
  <2> DEFINE u == Grows(live, id, p)
  <2>1. /\ u \in LiveType /\ u[id] = live[id] \cup {p}
        /\ \A k \in Nat : k # id => u[k] = live[k]
    BY <1>0 DEF Grows, LiveType
  <2>2. IsFiniteSet(live[id] \cup {p}) /\ Cardinality(live[id] \cup {p}) = Cardinality(live[id]) + 1
    BY <1>0, FS_AddElement
  <2> HIDE DEF u
  <2>3. \A k \in Nat : IsFiniteSet(u[k])
    BY <1>0, <2>1, <2>2
  <2> QED
    BY <2>1, <2>2, <2>3 DEF u
<1>c. BlockLength \in Nat
  BY CompactHistoryAssumption
<1>1. CASE NeedsBlock(blocks, n)
  <2> DEFINE id == FreshId(blocks)
             b == [id |-> id, used |-> n, count |-> 1]
             u == Grows(live, id, p)
  <2>1. id \in Nat /\ ~Exists(blocks, id)
    BY <1>0, FreshIs
  <2>2. new = Append(blocks, b) /\ b \in BlockType
    BY <1>1, <2>1 DEF Allocated, BlockType
  <2> HIDE DEF id
  <2>3. /\ b.id = id /\ b.used = n /\ b.count = 1
    OBVIOUS
  <2> HIDE DEF b, new
  <2>4. /\ new \in Seq(BlockType) /\ Len(new) = last + 1 /\ new[last + 1] = b
        /\ \A i \in 1 .. last : new[i] = blocks[i]
    BY <1>0, <2>2
  <2>5. Last(new) = b /\ Last(new).id = id
    BY <2>3, <2>4 DEF Last
  <2>6. /\ u \in LiveType /\ u[id] = live[id] \cup {p}
        /\ \A k \in Nat : k # id => u[k] = live[k]
        /\ \A k \in Nat : IsFiniteSet(u[k])
        /\ Cardinality(u[id]) = Cardinality(live[id]) + 1
    BY <1>b, <2>1
  <2>7. live[id] = {} /\ Cardinality(live[id]) = 0
    BY <1>0, <2>1, FS_EmptySet
  <2> HIDE DEF u
  <2>8. Counts(b, u)
    BY <1>c, <2>3, <2>6, <2>7 DEF Counts
  <2>9. \A i \in 1 .. last : blocks[i].id \in Nat /\ blocks[i].id # id
    BY <1>0, <1>a, <2>1 DEF Exists
  <2>10. ASSUME NEW i \in 1 .. Len(new) PROVE Counts(new[i], u)
    <3>1. CASE i = last + 1
      BY <2>4, <2>8, <3>1
    <3>2. CASE i # last + 1
      <4>1. i \in 1 .. last
        BY <1>0, <2>4, <3>2
      <4>2. blocks[i].id \in Nat /\ blocks[i].id # id
        BY <2>9, <4>1
      <4>3. u[blocks[i].id] = live[blocks[i].id]
        BY <2>6, <4>2
      <4>4. new[i] = blocks[i] /\ Counts(blocks[i], live)
        BY <1>0, <2>4, <4>1
      <4> QED
        BY <4>3, <4>4 DEF Counts
    <3> QED
      BY <3>1, <3>2
  <2>11. ASSUME NEW i \in 1 .. Len(new), NEW j \in 1 .. Len(new), new[i].id = new[j].id
         PROVE  i = j
    <3>0. i \in 1 .. last \/ i = last + 1
      BY <1>0, <2>4
    <3>00. j \in 1 .. last \/ j = last + 1
      BY <1>0, <2>4
    <3>1. CASE i = last + 1 \/ j = last + 1
      BY <2>3, <2>4, <2>9, <2>11, <3>0, <3>00, <3>1
    <3>2. CASE i # last + 1 /\ j # last + 1
      <4>1. i \in 1 .. last /\ j \in 1 .. last
        BY <1>0, <2>4, <3>2
      <4> QED
        BY <1>0, <2>4, <2>11, <4>1
    <3> QED
      BY <3>1, <3>2
  <2>12. ASSUME NEW k \in Nat, u[k] # {} PROVE Exists(new, k)
    <3>1. CASE k = id
      <4>1. last + 1 \in 1 .. Len(new) /\ new[last + 1].id = k
        BY <1>0, <2>3, <2>4, <3>1
      <4> QED
        BY <4>1 DEF Exists
    <3>2. CASE k # id
      <4>1. Exists(blocks, k)
        BY <1>0, <2>6, <2>12, <3>2
      <4>2. PICK i \in 1 .. last : blocks[i].id = k
        BY <4>1 DEF Exists
      <4>3. i \in 1 .. Len(new) /\ new[i].id = k
        BY <1>0, <2>4, <4>2
      <4> QED
        BY <4>3 DEF Exists
    <3> QED
      BY <3>1, <3>2
  <2>13. Counted(new, u)
    BY <2>4, <2>6, <2>10, <2>11, <2>12 DEF Counted
  <2> QED
    BY <2>1, <2>5, <2>13 DEF u, new
<1>2. CASE ~NeedsBlock(blocks, n)
  <2> DEFINE old == blocks[last]
             used == old.used + n
             count == old.count + 1
             b == [old EXCEPT !.used = used, !.count = count]
             id == old.id
             u == Grows(live, id, p)
  <2>1. last \in 1 .. last /\ BlockLength - old.used >= n
    <3>1. blocks # <<>> /\ ~(BlockLength - Last(blocks).used < n)
      BY <1>2 DEF NeedsBlock
    <3>2. last \in 1 .. last
      BY <1>0, <3>1
    <3>3. old.used \in Nat /\ Last(blocks) = old
      BY <1>0, <1>a, <3>2 DEF Last
    <3> QED
      BY <1>c, <3>1, <3>2, <3>3
  <2>2. old \in BlockType /\ id \in Nat /\ old.used \in Nat /\ old.count \in Nat
        /\ old = [id |-> id, used |-> old.used, count |-> old.count]
        /\ Counts(old, live)
    BY <1>0, <1>a, <2>1
  <2>3. new = [blocks EXCEPT ![last] = b]
    <3>1. Allocated(blocks, n)
            = [blocks EXCEPT ![Len(blocks)].used = @ + n, ![Len(blocks)].count = @ + 1]
      BY <1>2 DEF Allocated
    <3> QED
      BY <3>1
  <2> HIDE DEF old, id
  <2>4. used \in Nat /\ count \in Nat
    BY <2>2
  <2> HIDE DEF used, count
  <2>5. b \in BlockType /\ b.id = id /\ b.used = used /\ b.count = count
    BY <2>2, <2>4 DEF BlockType, id
  <2> HIDE DEF b, new
  <2>6. /\ new \in Seq(BlockType) /\ Len(new) = last /\ new[last] = b
        /\ \A i \in 1 .. last : i # last => new[i] = blocks[i]
    BY <1>0, <2>1, <2>3, <2>5
  <2>7. Last(new) = b /\ Last(new).id = id
    BY <2>5, <2>6 DEF Last
  <2>8. /\ u \in LiveType /\ u[id] = live[id] \cup {p}
        /\ \A k \in Nat : k # id => u[k] = live[k]
        /\ \A k \in Nat : IsFiniteSet(u[k])
        /\ Cardinality(u[id]) = Cardinality(live[id]) + 1
    BY <1>b, <2>2
  <2> HIDE DEF u
  <2>9. Counts(b, u)
    <3>1. old.count = Cardinality(live[id]) /\ old.count > 0
      BY <2>2 DEF Counts, id
    <3>2. b.used <= BlockLength
      BY <1>c, <2>1, <2>2, <2>5 DEF used
    <3>3. b.count = Cardinality(u[b.id]) /\ b.count > 0
      BY <2>2, <2>5, <2>8, <3>1 DEF count
    <3> QED
      BY <3>2, <3>3 DEF Counts
  <2>10. \A i \in 1 .. last : new[i].id = blocks[i].id /\ blocks[i].id \in Nat
    BY <1>0, <1>a, <2>5, <2>6 DEF id, old
  <2>11. ASSUME NEW i \in 1 .. last PROVE Counts(new[i], u)
    <3>1. CASE i = last
      BY <2>6, <2>9, <3>1
    <3>2. CASE i # last
      <4>1. new[i] = blocks[i] /\ blocks[i].id # id /\ Counts(blocks[i], live)
        BY <1>0, <2>1, <2>6, <3>2 DEF id, old
      <4>2. u[blocks[i].id] = live[blocks[i].id]
        BY <2>8, <2>10, <4>1
      <4> QED
        BY <4>1, <4>2 DEF Counts
    <3> QED
      BY <3>1, <3>2
  <2>12. \A i, j \in 1 .. last : new[i].id = new[j].id => i = j
    BY <1>0, <2>10
  <2>13. ASSUME NEW k \in Nat, u[k] # {} PROVE Exists(new, k)
    <3>1. Exists(blocks, k)
      <4>1. CASE k = id
        BY <2>1, <4>1 DEF Exists, id, old
      <4>2. CASE k # id
        BY <1>0, <2>8, <2>13, <4>2
      <4> QED
        BY <4>1, <4>2
    <3> QED
      BY <2>6, <2>10, <3>1 DEF Exists
  <2>14. Counted(new, u)
    BY <2>6, <2>8, <2>11, <2>12, <2>13 DEF Counted
  <2> QED
    BY <2>2, <2>7, <2>14 DEF u, new
<1> QED
  BY <1>1, <1>2

LEMMA DeallocatedIs ==
  ASSUME NEW blocks, NEW live, Counted(blocks, live), NEW id \in Nat, NEW p \in live[id]
  PROVE  Counted(Deallocated(blocks, id), Shrinks(live, id, p))
<1> DEFINE new == Deallocated(blocks, id)
           n == Len(blocks)
           i == CHOOSE j \in DOMAIN blocks : blocks[j].id = id
           u == Shrinks(live, id, p)
<1>0. /\ blocks \in Seq(BlockType) /\ live \in LiveType /\ n \in Nat
      /\ \A k \in Nat : IsFiniteSet(live[k])
      /\ \A j, k \in 1 .. n : blocks[j].id = blocks[k].id => j = k
      /\ \A j \in 1 .. n : blocks[j] \in BlockType /\ Counts(blocks[j], live)
      /\ \A k \in Nat : live[k] # {} => Exists(blocks, k)
  BY DEF Counted
<1>a. \A b \in BlockType : b.id \in Nat /\ b.used \in Nat /\ b.count \in Nat
  BY DEF BlockType
<1>1. i \in 1 .. n /\ blocks[i].id = id
  <2>1. Exists(blocks, id)
    BY <1>0
  <2>2. \E j \in DOMAIN blocks : blocks[j].id = id
    BY <1>0, <2>1 DEF Exists
  <2>3. DOMAIN blocks = 1 .. n
    BY <1>0
  <2> QED
    BY <2>2, <2>3
<1>2. /\ u \in LiveType /\ u[id] = live[id] \ {p}
      /\ \A k \in Nat : k # id => u[k] = live[k]
  BY <1>0 DEF Shrinks, LiveType
<1>3. IsFiniteSet(live[id] \ {p}) /\ Cardinality(live[id] \ {p}) = Cardinality(live[id]) - 1
  BY <1>0, FS_RemoveElement
<1>4. Cardinality(live[id]) \in Nat
  BY <1>0, FS_CardinalityType
<1>5. new = IF blocks[i].count = 1 THEN RemoveAt(blocks, i) ELSE [blocks EXCEPT ![i].count = @ - 1]
  BY DEF Deallocated
<1>6. blocks[i].count = Cardinality(live[id]) /\ blocks[i].used <= BlockLength /\ blocks[i] \in BlockType
  BY <1>0, <1>1 DEF Counts
<1> HIDE DEF i, u, n, new
<1>7. \A k \in Nat : IsFiniteSet(u[k])
  BY <1>0, <1>2, <1>3
<1>8. \A j \in 1 .. n : j # i => blocks[j].id \in Nat /\ blocks[j].id # id
  BY <1>0, <1>a, <1>1
<1>9. ASSUME NEW j \in 1 .. n, j # i PROVE Counts(blocks[j], u)
  <2>1. u[blocks[j].id] = live[blocks[j].id] /\ Counts(blocks[j], live)
    <3>1. blocks[j].id \in Nat /\ blocks[j].id # id /\ Counts(blocks[j], live)
      BY <1>0, <1>8, <1>9
    <3> QED
      BY <1>2, <3>1
  <2> QED
    BY <2>1 DEF Counts
<1>10. CASE blocks[i].count = 1
  <2>1. new = RemoveAt(blocks, i)
    BY <1>5, <1>10
  <2>2. /\ new \in Seq(BlockType) /\ Len(new) = n - 1
        /\ \A j \in 1 .. n - 1 : new[j] = IF j < i THEN blocks[j] ELSE blocks[j + 1]
    BY <1>0, <1>1, <2>1, RemovedIs DEF n
  <2> DEFINE old(j) == IF j < i THEN j ELSE j + 1
  <2>3. \A j \in 1 .. n - 1 : old(j) \in 1 .. n /\ old(j) # i /\ new[j] = blocks[old(j)]
    BY <1>0, <1>1, <2>2
  <2>4. \A j, k \in 1 .. n - 1 : old(j) = old(k) => j = k
    BY <1>0, <1>1
  <2>5. \A j \in 1 .. n : j # i => \E k \in 1 .. n - 1 : old(k) = j
    <3> SUFFICES ASSUME NEW j \in 1 .. n, j # i PROVE \E k \in 1 .. n - 1 : old(k) = j
      OBVIOUS
    <3>1. CASE j < i
      <4>1. j \in 1 .. n - 1 /\ old(j) = j
        BY <1>0, <1>1, <3>1
      <4> QED
        BY <4>1
    <3>2. CASE ~(j < i)
      <4>1. j - 1 \in 1 .. n - 1 /\ old(j - 1) = j
        BY <1>0, <1>1, <3>2
      <4> QED
        BY <4>1
    <3> QED
      BY <3>1, <3>2
  <2> HIDE DEF old
  <2>6. u[id] = {}
    <3>1. Cardinality(u[id]) = 0
      BY <1>2, <1>3, <1>4, <1>6, <1>10
    <3> QED
      BY <1>7, <3>1, FS_EmptySet
  <2>7. ASSUME NEW j \in 1 .. Len(new)
        PROVE  Counts(new[j], u)
    <3>1. j \in 1 .. n - 1
      BY <2>2
    <3>2. new[j] = blocks[old(j)] /\ old(j) \in 1 .. n /\ old(j) # i
      BY <2>2, <2>3, <3>1
    <3> QED
      BY <1>9, <3>2
  <2>8. ASSUME NEW j \in 1 .. Len(new), NEW k \in 1 .. Len(new), new[j].id = new[k].id
        PROVE  j = k
    <3>1. j \in 1 .. n - 1 /\ k \in 1 .. n - 1
      BY <2>2
    <3>2. /\ old(j) \in 1 .. n /\ new[j] = blocks[old(j)]
          /\ old(k) \in 1 .. n /\ new[k] = blocks[old(k)]
      BY <2>3, <3>1
    <3>3. old(j) = old(k)
      BY <1>0, <2>8, <3>2
    <3> QED
      BY <2>4, <3>1, <3>3
  <2>9. ASSUME NEW k \in Nat, u[k] # {} PROVE Exists(new, k)
    <3>1. k # id /\ Exists(blocks, k)
      BY <1>0, <1>2, <2>6, <2>9
    <3>2. PICK j \in 1 .. n : blocks[j].id = k /\ j # i
      BY <1>1, <3>1 DEF Exists, n
    <3>3. PICK m \in 1 .. n - 1 : old(m) = j
      BY <2>5, <3>2
    <3>4. m \in 1 .. Len(new) /\ new[m].id = k
      BY <2>2, <2>3, <3>2, <3>3
    <3> QED
      BY <3>4 DEF Exists
  <2> QED
    BY <1>2, <1>7, <2>2, <2>7, <2>8, <2>9 DEF Counted, new, u
<1>11. CASE blocks[i].count # 1
  <2> DEFINE count == blocks[i].count - 1
             b == [blocks[i] EXCEPT !.count = count]
  <2>1. count \in Nat /\ count > 0 /\ count = Cardinality(u[id])
    <3>1. blocks[i].count \in Nat /\ blocks[i].count > 0
      BY <1>0, <1>a, <1>1, <1>6 DEF Counts
    <3> QED
      BY <1>2, <1>3, <1>6, <1>11, <3>1
  <2>2. new = [blocks EXCEPT ![i] = b]
    BY <1>5, <1>11
  <2> HIDE DEF count
  <2>3. b \in BlockType /\ b.id = id /\ b.used = blocks[i].used /\ b.count = count
    BY <1>1, <1>6, <2>1 DEF BlockType
  <2> HIDE DEF b
  <2>4. /\ new \in Seq(BlockType) /\ Len(new) = n /\ new[i] = b
        /\ \A j \in 1 .. n : j # i => new[j] = blocks[j]
    BY <1>0, <1>1, <2>2, <2>3 DEF n
  <2>5. Counts(b, u)
    BY <1>6, <2>1, <2>3 DEF Counts
  <2>6. \A j \in 1 .. n : Counts(new[j], u)
    BY <1>9, <2>4, <2>5
  <2>7. \A j \in 1 .. n : new[j].id = blocks[j].id
    BY <1>1, <2>3, <2>4
  <2>8. \A j, k \in 1 .. n : new[j].id = new[k].id => j = k
    BY <1>0, <2>7
  <2>9. ASSUME NEW k \in Nat, u[k] # {} PROVE Exists(new, k)
    <3>1. Exists(blocks, k)
      BY <1>0, <1>2, <2>9
    <3> QED
      BY <2>4, <2>7, <3>1 DEF Exists, n
  <2> QED
    BY <1>2, <1>7, <2>4, <2>6, <2>8, <2>9 DEF Counted, new, u
<1> QED
  BY <1>10, <1>11

(* The parts of the lines that are stored.                                 *)
PartsType == {parts \in Seq(Nat) : Len(parts) = 1 \/ Len(parts) = 3}
FormatType == [format : Pens, ext : BOOLEAN, real : BOOLEAN]
FormatsType == UNION {[S -> FormatType] : S \in SUBSET Nat}
StoredLine == [parts : PartsType, formats : FormatsType, text : Seq(Nat), wrapped : BOOLEAN]
CompactLines ==
    {line \in StoredLine : /\ DOMAIN line.formats \subseteq 1 .. Len(line.text)
                           /\ line.text # <<>> => 1 \in DOMAIN line.formats}
Live(lines) == [id \in Nat |-> LivePartsIn(lines, id)]
IsPart(q, i, parts, id) == \E k \in 1 .. 3 : q = <<i, k>> /\ k \in DOMAIN parts /\ parts[k] = id

LEMMA CompactFields ==
  ASSUME NEW line \in CompactLines
  PROVE  /\ line.parts \in Seq(Nat) /\ (Len(line.parts) = 1 \/ Len(line.parts) = 3)
         /\ DOMAIN line.parts \subseteq 1 .. 3
         /\ line.text \in Seq(Nat) /\ line.wrapped \in BOOLEAN
         /\ DOMAIN line.formats \subseteq 1 .. Len(line.text)
         /\ line.text # <<>> => 1 \in DOMAIN line.formats
         /\ \A s \in DOMAIN line.formats : line.formats[s] \in FormatType
<1>1. line \in StoredLine /\ DOMAIN line.formats \subseteq 1 .. Len(line.text)
      /\ (line.text # <<>> => 1 \in DOMAIN line.formats)
  BY DEF CompactLines
<1>2. line.parts \in PartsType /\ line.formats \in FormatsType /\ line.text \in Seq(Nat)
      /\ line.wrapped \in BOOLEAN
  BY <1>1 DEF StoredLine
<1>3. line.parts \in Seq(Nat) /\ (Len(line.parts) = 1 \/ Len(line.parts) = 3)
  BY <1>2 DEF PartsType
<1>4. DOMAIN line.parts \subseteq 1 .. 3
  BY <1>3
<1>5. \A s \in DOMAIN line.formats : line.formats[s] \in FormatType
  BY <1>2 DEF FormatsType
<1> QED
  BY <1>1, <1>2, <1>3, <1>4, <1>5

LEMMA LiveIs ==
  ASSUME NEW lines \in Seq(CompactLines)
  PROVE  /\ Live(lines) \in LiveType
         /\ \A id \in Nat : /\ IsFiniteSet(Live(lines)[id])
                            /\ \A q : q \in Live(lines)[id] <=>
                                        \E i \in 1 .. Len(lines) : IsPart(q, i, lines[i].parts, id)
<1>1. Len(lines) \in Nat /\ DOMAIN lines = 1 .. Len(lines)
  OBVIOUS
<1>2. ASSUME NEW id \in Nat
      PROVE  LivePartsIn(lines, id) \subseteq (1 .. Len(lines)) \X (1 .. 3)
  BY <1>1 DEF LivePartsIn
<1>3. IsFiniteSet((1 .. Len(lines)) \X (1 .. 3))
  <2> DEFINE A == 1 .. Len(lines)
             B == 1 .. 3
  <2>1. IsFiniteSet(A) /\ IsFiniteSet(B)
    <3> DEFINE n == Len(lines)
    <3>1. n \in Int /\ 1 \in Int /\ 3 \in Int
      BY <1>1
    <3> HIDE DEF n
    <3> QED
      BY <3>1, FS_Interval DEF n
  <2> HIDE DEF A, B
  <2>2. IsFiniteSet(A \X B)
    BY <2>1, FS_Product
  <2> QED
    BY <2>2 DEF A, B
<1>4. ASSUME NEW id \in Nat PROVE IsFiniteSet(LivePartsIn(lines, id))
  <2> DEFINE A == (1 .. Len(lines)) \X (1 .. 3)
             B == LivePartsIn(lines, id)
  <2>1. IsFiniteSet(A) /\ B \in SUBSET A
    BY <1>2, <1>3
  <2> HIDE DEF A, B
  <2>2. IsFiniteSet(B)
    BY <2>1, FS_Subset
  <2> QED
    BY <2>2 DEF B
<1>5. Live(lines) \in LiveType
  <2>1. \A id \in Nat : LivePartsIn(lines, id) \in SUBSET (Nat \X Nat)
    BY <1>1 DEF LivePartsIn
  <2> QED
    BY <2>1 DEF Live, LiveType
<1>6. ASSUME NEW id \in Nat, NEW q
      PROVE  q \in LivePartsIn(lines, id) <=> \E i \in 1 .. Len(lines) : IsPart(q, i, lines[i].parts, id)
  <2>1. ASSUME q \in LivePartsIn(lines, id)
        PROVE  \E i \in 1 .. Len(lines) : IsPart(q, i, lines[i].parts, id)
    <3>1. /\ q \in (1 .. Len(lines)) \X (1 .. 3)
          /\ q[2] \in DOMAIN lines[q[1]].parts /\ lines[q[1]].parts[q[2]] = id
      BY <1>1, <2>1 DEF LivePartsIn
    <3>2. q[1] \in 1 .. Len(lines) /\ q[2] \in 1 .. 3 /\ q = <<q[1], q[2]>>
      BY <3>1
    <3> QED
      BY <3>1, <3>2 DEF IsPart
  <2>2. ASSUME NEW i \in 1 .. Len(lines), IsPart(q, i, lines[i].parts, id)
        PROVE  q \in LivePartsIn(lines, id)
    <3>1. PICK k \in 1 .. 3 : q = <<i, k>> /\ k \in DOMAIN lines[i].parts /\ lines[i].parts[k] = id
      BY <2>2 DEF IsPart
    <3>2. q \in (DOMAIN lines) \X (1 .. 3) /\ q[1] = i /\ q[2] = k
      BY <1>1, <3>1
    <3> QED
      BY <3>1, <3>2 DEF LivePartsIn
  <2> QED
    BY <2>1, <2>2
<1> QED
  BY <1>4, <1>5, <1>6 DEF Live

LEMMA LiveAppended ==
  ASSUME NEW lines \in Seq(CompactLines), NEW line \in CompactLines, NEW id \in Nat, NEW q
  PROVE  q \in Live(Append(lines, line))[id]
           <=> q \in Live(lines)[id] \/ IsPart(q, Len(lines) + 1, line.parts, id)
<1> DEFINE new == Append(lines, line)
           n == Len(lines)
<1>1. /\ new \in Seq(CompactLines) /\ Len(new) = n + 1 /\ n \in Nat
      /\ \A i \in 1 .. n : new[i] = lines[i]
      /\ new[n + 1] = line
  OBVIOUS
<1> HIDE DEF new
<1>2. q \in Live(new)[id] <=> \E i \in 1 .. n + 1 : IsPart(q, i, new[i].parts, id)
  BY <1>1, LiveIs
<1>3. q \in Live(lines)[id] <=> \E i \in 1 .. n : IsPart(q, i, lines[i].parts, id)
  BY LiveIs
<1> HIDE DEF n
<1>4. (\E i \in 1 .. n + 1 : IsPart(q, i, new[i].parts, id))
        <=> (\E i \in 1 .. n : IsPart(q, i, lines[i].parts, id)) \/ IsPart(q, n + 1, line.parts, id)
  <2>1. \A i \in 1 .. n + 1 : i \in 1 .. n \/ i = n + 1
    BY <1>1
  <2>2. 1 .. n \subseteq 1 .. n + 1 /\ n + 1 \in 1 .. n + 1
    BY <1>1
  <2> QED
    BY <1>1, <2>1, <2>2
<1> QED
  BY <1>2, <1>3, <1>4 DEF new, n

(* No part of the line that is to be stored is in use yet.                 *)
LEMMA NextIsNew ==
  ASSUME NEW lines \in Seq(CompactLines), NEW id \in Nat, NEW k
  PROVE  <<Len(lines) + 1, k>> \notin Live(lines)[id]
<1> SUFFICES ASSUME <<Len(lines) + 1, k>> \in Live(lines)[id] PROVE FALSE
  OBVIOUS
<1>1. PICK i \in 1 .. Len(lines) : IsPart(<<Len(lines) + 1, k>>, i, lines[i].parts, id)
  BY LiveIs
<1>2. Len(lines) + 1 = i
  BY <1>1 DEF IsPart
<1> QED
  BY <1>2

HasGrown(u, live, a, p) ==
    u \in LiveType /\ \A id \in Nat : \A q : q \in u[id] <=> q \in live[id] \/ (id = a /\ q = p)

LEMMA GrowsIs ==
  ASSUME NEW live \in LiveType, NEW a \in Nat, NEW p \in Nat \X Nat
  PROVE  HasGrown(Grows(live, a, p), live, a, p)
BY DEF Grows, LiveType, HasGrown

LEMMA SameLive ==
  ASSUME NEW live \in LiveType, NEW u \in LiveType, \A id \in Nat : \A q : q \in live[id] <=> q \in u[id]
  PROVE  live = u
<1>1. \A id \in Nat : live[id] = u[id]
  OBVIOUS
<1> QED
  BY <1>1 DEF LiveType

LEMMA OnePartLives ==
  ASSUME NEW lines \in Seq(CompactLines), NEW line \in CompactLines, NEW a \in Nat, line.parts = <<a>>
  PROVE  Live(Append(lines, line)) = Grows(Live(lines), a, <<Len(lines) + 1, 1>>)
<1> DEFINE n == Len(lines) + 1
           p == <<n, 1>>
<1>1. p \in Nat \X Nat /\ Append(lines, line) \in Seq(CompactLines)
  OBVIOUS
<1>2. Live(lines) \in LiveType /\ Live(Append(lines, line)) \in LiveType
  BY <1>1, LiveIs
<1>3. \A id \in Nat : \A q : IsPart(q, n, <<a>>, id) <=> id = a /\ q = <<n, 1>>
  <2>1. \A k \in 1 .. 3 : k \in DOMAIN <<a>> <=> k = 1
    OBVIOUS
  <2>2. <<a>>[1] = a /\ 1 \in 1 .. 3
    OBVIOUS
  <2> QED
    BY <2>1, <2>2 DEF IsPart
<1>5. HasGrown(Grows(Live(lines), a, p), Live(lines), a, p)
  <2> HIDE DEF p
  <2> QED
    BY <1>1, <1>2, GrowsIs
<1>4. ASSUME NEW id \in Nat, NEW q
      PROVE  q \in Live(Append(lines, line))[id] <=> q \in Grows(Live(lines), a, p)[id]
  <2>1. q \in Live(Append(lines, line))[id] <=> q \in Live(lines)[id] \/ IsPart(q, n, <<a>>, id)
    BY LiveAppended
  <2>2. q \in Grows(Live(lines), a, p)[id] <=> q \in Live(lines)[id] \/ (id = a /\ q = p)
    BY <1>5 DEF HasGrown
  <2> QED
    BY <1>3, <2>1, <2>2
<1> QED
  BY <1>2, <1>4, <1>5, SameLive DEF HasGrown

LEMMA ThreePartsLive ==
  ASSUME NEW lines \in Seq(CompactLines), NEW line \in CompactLines,
         NEW a \in Nat, NEW b \in Nat, NEW c \in Nat, line.parts = <<a, b, c>>
  PROVE  LET n == Len(lines) + 1
         IN  Live(Append(lines, line))
               = Grows(Grows(Grows(Live(lines), c, <<n, 3>>), b, <<n, 2>>), a, <<n, 1>>)
<1> DEFINE n == Len(lines) + 1
           u == Grows(Live(lines), c, <<n, 3>>)
           v == Grows(u, b, <<n, 2>>)
           w == Grows(v, a, <<n, 1>>)
<1>1. /\ <<n, 1>> \in Nat \X Nat /\ <<n, 2>> \in Nat \X Nat /\ <<n, 3>> \in Nat \X Nat
      /\ Append(lines, line) \in Seq(CompactLines)
  OBVIOUS
<1>2. Live(lines) \in LiveType /\ Live(Append(lines, line)) \in LiveType
  BY <1>1, LiveIs
<1> HIDE DEF n, u, v, w
<1>3. \A id \in Nat : \A q : IsPart(q, n, <<a, b, c>>, id)
                           <=> (id = a /\ q = <<n, 1>>) \/ (id = b /\ q = <<n, 2>>) \/ (id = c /\ q = <<n, 3>>)
  <2>1. DOMAIN <<a, b, c>> = 1 .. 3 /\ \A k \in 1 .. 3 : k = 1 \/ k = 2 \/ k = 3
    OBVIOUS
  <2>2. <<a, b, c>>[1] = a /\ <<a, b, c>>[2] = b /\ <<a, b, c>>[3] = c
        /\ 1 \in 1 .. 3 /\ 2 \in 1 .. 3 /\ 3 \in 1 .. 3
    OBVIOUS
  <2> QED
    BY <2>1, <2>2 DEF IsPart
<1>4. u \in LiveType /\ \A id \in Nat : \A q : q \in u[id] <=> q \in Live(lines)[id] \/ (id = c /\ q = <<n, 3>>)
  <2> DEFINE p == <<n, 3>>
  <2>1. p \in Nat \X Nat /\ Live(lines) \in LiveType
    BY <1>1, <1>2
  <2>3. u = Grows(Live(lines), c, p)
    BY DEF u
  <2> HIDE DEF p
  <2>2. HasGrown(u, Live(lines), c, p)
    BY <2>1, <2>3, GrowsIs
  <2> QED
    BY <2>2 DEF HasGrown, p
<1>5. v \in LiveType /\ \A id \in Nat : \A q : q \in v[id] <=> q \in u[id] \/ (id = b /\ q = <<n, 2>>)
  <2> DEFINE p == <<n, 2>>
  <2>1. p \in Nat \X Nat /\ u \in LiveType
    BY <1>1, <1>4
  <2>3. v = Grows(u, b, p)
    BY DEF v
  <2> HIDE DEF p
  <2>2. HasGrown(v, u, b, p)
    BY <2>1, <2>3, GrowsIs
  <2> QED
    BY <2>2 DEF HasGrown, p
<1>6. w \in LiveType /\ \A id \in Nat : \A q : q \in w[id] <=> q \in v[id] \/ (id = a /\ q = <<n, 1>>)
  <2> DEFINE p == <<n, 1>>
  <2>1. p \in Nat \X Nat /\ v \in LiveType
    BY <1>1, <1>5
  <2>3. w = Grows(v, a, p)
    BY DEF w
  <2> HIDE DEF p
  <2>2. HasGrown(w, v, a, p)
    BY <2>1, <2>3, GrowsIs
  <2> QED
    BY <2>2 DEF HasGrown, p
<1>7. ASSUME NEW id \in Nat, NEW q
      PROVE  q \in Live(Append(lines, line))[id] <=> q \in w[id]
  <2>1. q \in Live(Append(lines, line))[id] <=> q \in Live(lines)[id] \/ IsPart(q, n, <<a, b, c>>, id)
    BY LiveAppended DEF n
  <2> QED
    BY <1>3, <1>4, <1>5, <1>6, <2>1
<1>8. Live(Append(lines, line)) = w
  BY <1>2, <1>6, <1>7, SameLive
<1> QED
  BY <1>8 DEF w, v, u, n

LEMMA TimesIs ==
  ASSUME NEW a \in Nat, NEW b \in Nat, NEW c \in Nat, b <= c
  PROVE  a * b \in Nat /\ a * b <= a * c
<1> DEFINE S == {n \in Nat : n * b \in Nat /\ n * c \in Nat /\ n * b <= n * c}
<1>1. 0 \in S
  OBVIOUS
<1>2. ASSUME NEW n \in Nat, n \in S PROVE n + 1 \in S
  <2>1. (n + 1) * b = n * b + b /\ (n + 1) * c = n * c + c
    OBVIOUS
  <2> DEFINE nb == n * b
             nc == n * c
  <2>2. nb \in Nat /\ nc \in Nat /\ nb <= nc
    BY <1>2
  <2> HIDE DEF nb, nc
  <2>3. nb + b \in Nat /\ nc + c \in Nat /\ nb + b <= nc + c
    BY <2>2
  <2> QED
    BY <2>1, <2>3 DEF nb, nc
<1> HIDE DEF S
<1>3. a \in S
  BY <1>1, <1>2, Successively
<1> QED
  BY <1>3 DEF S

LEMMA RunsAreFew ==
  ASSUME NEW cells \in Seq(CellType)
  PROVE  /\ RunStarts(cells) \subseteq 1 .. Len(cells) /\ IsFiniteSet(RunStarts(cells))
         /\ Cardinality(RunStarts(cells)) \in Nat /\ Cardinality(RunStarts(cells)) <= Len(cells)
         /\ cells # <<>> => 1 \in RunStarts(cells)
<1>1. RunStarts(cells) \subseteq 1 .. Len(cells) /\ (cells # <<>> => 1 \in RunStarts(cells))
  BY DEF RunStarts
<1> DEFINE n == Len(cells)
           A == 1 .. n
           B == RunStarts(cells)
<1>2. IsFiniteSet(A) /\ Cardinality(A) = n
  <2>1. n \in Nat /\ n \in Int /\ 1 \in Int
    OBVIOUS
  <2> HIDE DEF n
  <2>2. IsFiniteSet(1 .. n) /\ Cardinality(1 .. n) = IF 1 > n THEN 0 ELSE n - 1 + 1
    BY <2>1, FS_Interval
  <2> QED
    BY <2>1, <2>2
<1>3. B \in SUBSET A
  BY <1>1
<1> HIDE DEF A, B
<1>4. IsFiniteSet(B) /\ Cardinality(B) <= Cardinality(A)
  BY <1>2, <1>3, FS_Subset
<1>5. Cardinality(B) \in Nat
  BY <1>4, FS_CardinalityType
<1> QED
  BY <1>1, <1>2, <1>4, <1>5 DEF B

LEMMA PartsFit ==
  ASSUME NEW cells \in Seq(CellType), Len(cells) <= Columns
  PROVE  /\ LineSize \in Nat /\ LineSize <= BlockLength
         /\ FormatSize * Cardinality(RunStarts(cells)) \in Nat
         /\ FormatSize * Cardinality(RunStarts(cells)) <= BlockLength
         /\ CodeSize * Len(cells) \in Nat /\ CodeSize * Len(cells) <= BlockLength
<1> DEFINE k == Cardinality(RunStarts(cells))
           n == Len(cells)
<1>1. k \in Nat /\ n \in Nat /\ k <= Columns /\ n <= Columns /\ Columns \in Nat
  BY RunsAreFew, ScrollbackAssumption
<1>2. /\ LineSize \in Nat /\ FormatSize \in Nat /\ CodeSize \in Nat /\ BlockLength \in Nat
      /\ LineSize <= BlockLength
  BY CompactHistoryAssumption
<1> HIDE DEF k, n
<1> DEFINE fk == FormatSize * k
           fc == FormatSize * Columns
           cn == CodeSize * n
           cc == CodeSize * Columns
<1>3. fk \in Nat /\ fk <= fc /\ cn \in Nat /\ cn <= cc
  BY <1>1, <1>2, TimesIs
<1>4. fc \in Nat /\ cc \in Nat
  BY <1>1, <1>2, TimesIs
<1>5. fc <= BlockLength /\ cc <= BlockLength
  BY ScrollbackAssumption
<1> HIDE DEF fk, fc, cn, cc
<1>6. fk <= BlockLength /\ cn <= BlockLength
  BY <1>2, <1>3, <1>4, <1>5
<1> QED
  BY <1>2, <1>3, <1>6 DEF fk, cn, k, n

(* A line is allocated from the blocks: each part counts where it is.      *)
LEMMA NewLineCounted ==
  ASSUME NEW lines \in Seq(CompactLines), NEW blocks, Counted(blocks, Live(lines)),
         NEW cells \in Seq(CellType), Len(cells) <= Columns
  PROVE  /\ NewLineIn(blocks, cells).line.parts \in PartsType
         /\ \A line \in CompactLines : line.parts = NewLineIn(blocks, cells).line.parts =>
              Counted(NewLineIn(blocks, cells).blocks, Live(Append(lines, line)))
<1> DEFINE new == NewLineIn(blocks, cells)
           own == Allocated(blocks, LineSize)
           f == FormatSize * Cardinality(RunStarts(cells))
           t == CodeSize * Len(cells)
           withFormats == Allocated(own, f)
           withText == Allocated(withFormats, t)
           n == Len(lines) + 1
           p == IF cells = <<>> THEN <<n, 1>> ELSE <<n, 3>>
           c == Last(own).id
           u == Grows(Live(lines), c, p)
<1>0. /\ LineSize \in Nat /\ LineSize <= BlockLength
      /\ f \in Nat /\ f <= BlockLength /\ t \in Nat /\ t <= BlockLength
  BY PartsFit
<1>1. p \in Nat \X Nat /\ \A id \in Nat : p \notin Live(lines)[id]
  <2>1. \A id \in Nat, k \in {1, 3} : <<n, k>> \notin Live(lines)[id]
    BY NextIsNew
  <2> QED
    BY <2>1
<1>2. c \in Nat /\ Counted(own, u)
  <2> HIDE DEF p
  <2>1. Last(own).id \in Nat /\ Counted(own, Grows(Live(lines), Last(own).id, p))
    BY <1>0, <1>1, AllocatedIs
  <2> QED
    BY <2>1
<1>3. /\ new.blocks = IF cells = <<>> THEN own ELSE withText
      /\ new.line.parts = IF cells = <<>> THEN <<c>>
                          ELSE <<Last(withText).id, Last(withFormats).id, c>>
  BY DEF NewLineIn
<1> HIDE DEF new, f, t, own
<1>4. CASE cells = <<>>
  <2>1. new.line.parts = <<c>> /\ new.blocks = own /\ p = <<n, 1>>
    BY <1>3, <1>4
  <2> HIDE DEF c
  <2>2. <<c>> \in PartsType
    BY <1>2 DEF PartsType
  <2>3. ASSUME NEW line \in CompactLines, line.parts = new.line.parts
        PROVE  Counted(new.blocks, Live(Append(lines, line)))
    <3>1. Live(Append(lines, line)) = Grows(Live(lines), c, <<n, 1>>)
      BY <1>2, <2>1, <2>3, OnePartLives
    <3> QED
      BY <1>2, <2>1, <3>1
  <2> QED
    BY <2>1, <2>2, <2>3 DEF new
<1>5. CASE cells # <<>>
  <2>0. p = <<n, 3>>
    BY <1>5
  <2> DEFINE b == Last(withFormats).id
             p2 == <<n, 2>>
             v == Grows(u, b, p2)
             a == Last(withText).id
             p1 == <<n, 1>>
             w == Grows(v, a, p1)
  <2>1. new.line.parts = <<a, b, c>> /\ new.blocks = withText
    BY <1>3, <1>5
  <2> HIDE DEF c
  <2>2. p2 \in Nat \X Nat /\ p1 \in Nat \X Nat /\ p1 # p2 /\ p1 # p /\ p2 # p
    BY <2>0
  <2>3. \A id \in Nat : p1 \notin Live(lines)[id] /\ p2 \notin Live(lines)[id]
    BY NextIsNew
  <2> HIDE DEF n, p, p1, p2, u
  <2>4. Live(lines) \in LiveType
    BY LiveIs
  <2>5. HasGrown(u, Live(lines), c, p)
    BY <1>1, <1>2, <2>4, GrowsIs DEF u
  <2>6. \A id \in Nat : p2 \notin u[id] /\ p1 \notin u[id]
    BY <2>2, <2>3, <2>5 DEF HasGrown
  <2>7. b \in Nat /\ Counted(withFormats, v)
    <3>1. Last(withFormats).id \in Nat /\ Counted(withFormats, Grows(u, Last(withFormats).id, p2))
      BY <1>0, <1>2, <2>2, <2>6, AllocatedIs
    <3> QED
      BY <3>1
  <2> HIDE DEF withFormats, b, v
  <2>8. HasGrown(v, u, b, p2)
    <3>1. u \in LiveType
      BY <2>5 DEF HasGrown
    <3> QED
      BY <2>2, <2>7, <3>1, GrowsIs DEF v
  <2>9. \A id \in Nat : p1 \notin v[id]
    BY <2>2, <2>6, <2>8 DEF HasGrown
  <2>10. a \in Nat /\ Counted(withText, w)
    <3>1. Last(withText).id \in Nat /\ Counted(withText, Grows(v, Last(withText).id, p1))
      BY <1>0, <2>2, <2>7, <2>9, AllocatedIs
    <3> QED
      BY <3>1
  <2> HIDE DEF a, w, withText
  <2>11. <<a, b, c>> \in PartsType
    <3>1. <<a, b, c>> \in Seq(Nat) /\ Len(<<a, b, c>>) = 3
      BY <1>2, <2>7, <2>10
    <3> QED
      BY <3>1 DEF PartsType
  <2>12. ASSUME NEW line \in CompactLines, line.parts = new.line.parts
         PROVE  Counted(new.blocks, Live(Append(lines, line)))
    <3>1. Live(Append(lines, line))
            = Grows(Grows(Grows(Live(lines), c, <<n, 3>>), b, <<n, 2>>), a, <<n, 1>>)
      BY <1>2, <2>1, <2>7, <2>10, <2>12, ThreePartsLive DEF n
    <3>2. Live(Append(lines, line)) = w
      BY <2>0, <3>1 DEF w, v, u, p1, p2
    <3> QED
      BY <2>1, <2>10, <3>2
  <2> QED
    BY <2>1, <2>11, <2>12 DEF new
<1> QED
  BY <1>4, <1>5

(* The first line is dropped: its parts are given back, and the lines that *)
(* are left count one less.                                                *)
HasShrunk(u, live, a, p) ==
    u \in LiveType /\ \A id \in Nat : \A q : q \in u[id] <=> q \in live[id] /\ ~(id = a /\ q = p)

LEMMA ShrinksIs ==
  ASSUME NEW live \in LiveType, NEW a \in Nat, NEW p
  PROVE  HasShrunk(Shrinks(live, a, p), live, a, p)
BY DEF Shrinks, LiveType, HasShrunk

LEMMA CountedAs ==
  ASSUME NEW blocks, NEW live, Counted(blocks, live), NEW u \in LiveType,
         \A id \in Nat : IsFiniteSet(u[id]) /\ Cardinality(u[id]) = Cardinality(live[id])
  PROVE  Counted(blocks, u)
<1>1. \A id \in Nat : IsFiniteSet(live[id])
  BY DEF Counted
<1>2. \A id \in Nat : u[id] # {} => live[id] # {}
  BY <1>1, FS_EmptySet
<1>3. \A i \in 1 .. Len(blocks) : blocks[i].id \in Nat
  <2>1. blocks \in Seq(BlockType) /\ \A b \in BlockType : b.id \in Nat
    BY DEF Counted, BlockType
  <2> QED
    BY <2>1
<1>4. \A i \in 1 .. Len(blocks) : Counts(blocks[i], u)
  BY <1>3 DEF Counted, Counts
<1> QED
  BY <1>1, <1>2, <1>4 DEF Counted

From(lines, first, id, q) == \E i \in first .. Len(lines) : IsPart(q, i, lines[i].parts, id)

LEMMA FirstReleased ==
  ASSUME NEW lines \in Seq(CompactLines), lines # <<>>, NEW blocks, Counted(blocks, Live(lines))
  PROVE  \E u \in LiveType : /\ Counted(Released(blocks, Head(lines).parts), u)
                             /\ \A id \in Nat : \A q : q \in u[id] <=> From(lines, 2, id, q)
<1> DEFINE parts == Head(lines).parts
           n == Len(lines)
<1>1. n \in Nat /\ n >= 1 /\ 1 \in 1 .. n /\ lines[1] \in CompactLines /\ parts = lines[1].parts
  OBVIOUS
<1>2. parts \in Seq(Nat) /\ (Len(parts) = 1 \/ Len(parts) = 3)
  BY <1>1, CompactFields
<1> HIDE DEF parts
<1>p. DOMAIN parts = 1 .. Len(parts) /\ \A k \in 1 .. Len(parts) : parts[k] \in Nat
  BY <1>2
<1>3. Live(lines) \in LiveType
      /\ \A id \in Nat : \A q : q \in Live(lines)[id] <=> From(lines, 1, id, q)
  BY LiveIs DEF From
<1>4. ASSUME NEW id \in Nat, NEW q
      PROVE  From(lines, 1, id, q) <=> From(lines, 2, id, q) \/ IsPart(q, 1, parts, id)
  <2>1. \A i \in 1 .. n : i = 1 \/ i \in 2 .. n
    BY <1>1
  <2>2. 2 .. n \subseteq 1 .. n
    BY <1>1
  <2> QED
    BY <1>1, <2>1, <2>2 DEF From
<1>5. ASSUME NEW id \in Nat, NEW k, From(lines, 2, id, <<1, k>>) PROVE FALSE
  <2>1. PICK i \in 2 .. n : IsPart(<<1, k>>, i, lines[i].parts, id)
    BY <1>5 DEF From
  <2>2. i = 1
    BY <2>1 DEF IsPart
  <2> QED
    BY <1>1, <2>2
<1>6. CASE Len(parts) = 1
  <2> DEFINE a == parts[1]
             p == <<1, 1>>
             u == Shrinks(Live(lines), a, p)
  <2>1. a \in Nat /\ DOMAIN parts = 1 .. 1
    BY <1>p, <1>6
  <2>2. \A id \in Nat : \A q : IsPart(q, 1, parts, id) <=> id = a /\ q = p
    BY <2>1 DEF IsPart
  <2>3. p \in Live(lines)[a]
    BY <1>3, <1>4, <2>1, <2>2
  <2>4. Released(blocks, parts) = Deallocated(blocks, a)
    BY <1>6 DEF Released
  <2>5. \A id \in Nat : ~From(lines, 2, id, p)
    BY <1>5
  <2> HIDE DEF a, p
  <2>6. Counted(Released(blocks, parts), u)
    BY <2>1, <2>3, <2>4, DeallocatedIs
  <2>7. HasShrunk(u, Live(lines), a, p)
    BY <1>3, <2>1, ShrinksIs
  <2> HIDE DEF u
  <2>8. u \in LiveType /\ \A id \in Nat : \A q : q \in u[id] <=> From(lines, 2, id, q)
    BY <1>3, <1>4, <2>2, <2>5, <2>7 DEF HasShrunk
  <2> QED
    BY <2>6, <2>8 DEF parts
<1>7. CASE Len(parts) = 3
  <2> DEFINE a == parts[1]
             b == parts[2]
             c == parts[3]
             p1 == <<1, 1>>
             p2 == <<1, 2>>
             p3 == <<1, 3>>
             u == Shrinks(Live(lines), a, p1)
             v == Shrinks(u, b, p2)
             w == Shrinks(v, c, p3)
  <2>1. a \in Nat /\ b \in Nat /\ c \in Nat /\ DOMAIN parts = 1 .. 3
    BY <1>p, <1>7
  <2>2. \A id \in Nat : \A q : IsPart(q, 1, parts, id)
                             <=> (id = a /\ q = p1) \/ (id = b /\ q = p2) \/ (id = c /\ q = p3)
    <3>1. 1 .. 3 = {1, 2, 3}
      OBVIOUS
    <3> QED
      BY <2>1, <3>1 DEF IsPart
  <2>3. p1 # p2 /\ p1 # p3 /\ p2 # p3
    OBVIOUS
  <2>4. Released(blocks, parts) = Deallocated(Deallocated(Deallocated(blocks, a), b), c)
    BY <1>7 DEF Released
  <2>5. \A id \in Nat : ~From(lines, 2, id, p1) /\ ~From(lines, 2, id, p2) /\ ~From(lines, 2, id, p3)
    BY <1>5
  <2> HIDE DEF a, b, c, p1, p2, p3, u, v, w
  <2>6. p1 \in Live(lines)[a] /\ p2 \in Live(lines)[b] /\ p3 \in Live(lines)[c]
    BY <1>3, <1>4, <2>1, <2>2
  <2>7. HasShrunk(u, Live(lines), a, p1)
    BY <1>3, <2>1, ShrinksIs DEF u
  <2>8. HasShrunk(v, u, b, p2)
    <3>1. u \in LiveType
      BY <2>7 DEF HasShrunk
    <3> QED
      BY <2>1, <3>1, ShrinksIs DEF v
  <2>9. HasShrunk(w, v, c, p3)
    <3>1. v \in LiveType
      BY <2>8 DEF HasShrunk
    <3> QED
      BY <2>1, <3>1, ShrinksIs DEF w
  <2>10. p2 \in u[b] /\ p3 \in v[c]
    BY <2>1, <2>3, <2>6, <2>7, <2>8 DEF HasShrunk
  <2>11. Counted(Deallocated(blocks, a), u)
    BY <2>1, <2>6, DeallocatedIs DEF u
  <2>12. Counted(Deallocated(Deallocated(blocks, a), b), v)
    BY <2>1, <2>10, <2>11, DeallocatedIs DEF v
  <2>13. Counted(Released(blocks, parts), w)
    BY <2>1, <2>4, <2>10, <2>12, DeallocatedIs DEF w
  <2>14. w \in LiveType /\ \A id \in Nat : \A q : q \in w[id] <=> From(lines, 2, id, q)
    <3>1. w \in LiveType
      BY <2>9 DEF HasShrunk
    <3>2. ASSUME NEW id \in Nat, NEW q PROVE q \in w[id] <=> From(lines, 2, id, q)
      <4>1. q \in w[id] <=> /\ q \in Live(lines)[id] /\ ~(id = a /\ q = p1)
                            /\ ~(id = b /\ q = p2) /\ ~(id = c /\ q = p3)
        BY <2>7, <2>8, <2>9 DEF HasShrunk
      <4>2. q \in Live(lines)[id] <=> From(lines, 2, id, q) \/ IsPart(q, 1, parts, id)
        BY <1>3, <1>4
      <4> QED
        BY <2>2, <2>5, <4>1, <4>2
    <3> QED
      BY <3>1, <3>2
  <2> QED
    BY <2>13, <2>14 DEF parts
<1> QED
  BY <1>2, <1>6, <1>7

LEMMA DropCounted ==
  ASSUME NEW lines \in Seq(CompactLines), lines # <<>>, NEW blocks, Counted(blocks, Live(lines))
  PROVE  Counted(Released(blocks, Head(lines).parts), Live(Tail(lines)))
<1>1. PICK u \in LiveType : /\ Counted(Released(blocks, Head(lines).parts), u)
                            /\ \A id \in Nat : \A q : q \in u[id] <=> From(lines, 2, id, q)
  BY FirstReleased
<1> DEFINE rest == Tail(lines)
           v == Live(rest)
           n == Len(lines)
<1>2. /\ n \in Nat /\ n >= 1 /\ rest \in Seq(CompactLines) /\ Len(rest) = n - 1
      /\ \A i \in 1 .. n - 1 : rest[i] = lines[i + 1]
  <2>1. rest \in Seq(CompactLines) /\ Len(rest) = n - 1 /\ \A i \in 1 .. Len(rest) : rest[i] = lines[i + 1]
    BY HeadTailProperties
  <2>2. n \in Nat /\ n >= 1
    OBVIOUS
  <2> QED
    BY <2>1, <2>2
<1> HIDE DEF rest, n
<1>3. v \in LiveType
      /\ \A id \in Nat : /\ IsFiniteSet(v[id])
                         /\ \A q : q \in v[id] <=> \E i \in 1 .. n - 1 : IsPart(q, i, lines[i + 1].parts, id)
  BY <1>2, LiveIs
<1> HIDE DEF v
<1>4. ASSUME NEW id \in Nat PROVE Cardinality(v[id]) = Cardinality(u[id])
  <2> DEFINE f == [q \in v[id] |-> <<q[1] + 1, q[2]>>]
  <2>1. ASSUME NEW q \in v[id]
        PROVE  q[1] \in Int /\ q = <<q[1], q[2]>> /\ f[q] \in u[id]
    <3>1. PICK i \in 1 .. n - 1 : IsPart(q, i, lines[i + 1].parts, id)
      BY <1>3, <2>1
    <3>2. PICK k \in 1 .. 3 : q = <<i, k>> /\ k \in DOMAIN lines[i + 1].parts
                              /\ lines[i + 1].parts[k] = id
      BY <3>1 DEF IsPart
    <3>3. f[q] = <<i + 1, k>> /\ i + 1 \in 2 .. n /\ q[1] = i /\ q[2] = k
      BY <1>2, <3>2
    <3>4. From(lines, 2, id, f[q])
      <4>1. IsPart(f[q], i + 1, lines[i + 1].parts, id)
        BY <3>2, <3>3 DEF IsPart
      <4> QED
        BY <3>3, <4>1 DEF From, n
    <3> QED
      BY <1>1, <3>2, <3>3, <3>4
  <2>2. ASSUME NEW r \in u[id] PROVE \E q \in v[id] : f[q] = r
    <3>1. From(lines, 2, id, r)
      BY <1>1, <2>2
    <3>2. PICK i \in 2 .. n : IsPart(r, i, lines[i].parts, id)
      BY <3>1 DEF From, n
    <3>3. PICK k \in 1 .. 3 : r = <<i, k>> /\ k \in DOMAIN lines[i].parts /\ lines[i].parts[k] = id
      BY <3>2 DEF IsPart
    <3>4. i - 1 \in 1 .. n - 1 /\ (i - 1) + 1 = i
      BY <1>2
    <3>5. IsPart(<<i - 1, k>>, i - 1, lines[(i - 1) + 1].parts, id)
      BY <3>3, <3>4 DEF IsPart
    <3>6. <<i - 1, k>> \in v[id]
      BY <1>3, <3>4, <3>5
    <3>7. f[<<i - 1, k>>] = r
      BY <3>3, <3>4, <3>6
    <3> QED
      BY <3>6, <3>7
  <2>3. \A q, r \in v[id] : f[q] = f[r] => q = r
    <3> SUFFICES ASSUME NEW q \in v[id], NEW r \in v[id], f[q] = f[r] PROVE q = r
      OBVIOUS
    <3>1. <<q[1] + 1, q[2]>> = <<r[1] + 1, r[2]>>
      OBVIOUS
    <3>2. q[1] + 1 = r[1] + 1 /\ q[2] = r[2]
      BY <3>1
    <3>3. q[1] \in Int /\ r[1] \in Int /\ q = <<q[1], q[2]>> /\ r = <<r[1], r[2]>>
      BY <2>1
    <3> QED
      BY <3>2, <3>3
  <2>4. f \in [v[id] -> u[id]]
    BY <2>1
  <2> HIDE DEF f
  <2>5. f \in Injection(v[id], u[id])
    BY <2>3, <2>4 DEF Injection, IsInjective
  <2>6. f \in Surjection(v[id], u[id])
    BY <2>2, <2>4 DEF Surjection
  <2>7. ExistsBijection(v[id], u[id])
    BY <2>5, <2>6 DEF ExistsBijection, Bijection
  <2>8. IsFiniteSet(v[id])
    BY <1>3
  <2> QED
    BY <2>7, <2>8, FS_Bijection
<1>5. Counted(Released(blocks, Head(lines).parts), v)
  BY <1>1, <1>3, <1>4, CountedAs
<1> QED
  BY <1>5 DEF v, rest

(* What is read of a compact line: in each run the format of its first     *)
(* cell, which the cells of the run share.                                 *)
RunOf(line, i) == Max({s \in DOMAIN line.formats : s <= i})

LEMMA RunIs ==
  ASSUME NEW D, D \subseteq Nat, 1 \in D, NEW i \in Nat, i >= 1
  PROVE  LET m == Max({s \in D : s <= i})
         IN  m \in D /\ m <= i /\ \A s \in D : s <= i => s <= m
<1> DEFINE T == {s \in D : s <= i}
<1>1. T \subseteq Nat /\ T # {} /\ \A y \in T : y <= i
  OBVIOUS
<1> HIDE DEF T
<1>2. Max(T) \in T /\ \A y \in T : y <= Max(T)
  BY <1>1, GreatestIs
<1> QED
  BY <1>2 DEF T

LEMMA CompactReads ==
  ASSUME NEW line \in CompactLines
  PROVE  /\ CompactLineAt(line).cells \in Seq(CellType) /\ CompactLineAt(line).wrapped = line.wrapped
         /\ CompactLineAt(line) = [cells |-> CompactLineAt(line).cells, wrapped |-> line.wrapped]
         /\ Len(CompactLineAt(line).cells) = Len(line.text)
         /\ \A i \in 1 .. Len(line.text) :
              /\ CompactLineAt(line).cells[i].code = line.text[i]
              /\ CompactLineAt(line).cells[i].ext = line.formats[RunOf(line, i)].ext
              /\ CompactLineAt(line).cells[i].format = line.formats[RunOf(line, i)].format
<1> DEFINE n == Len(line.text)
           f(i) == line.formats[RunOf(line, i)]
           e(i) == [code |-> line.text[i], ext |-> f(i).ext, real |-> f(i).real, format |-> f(i).format]
           cells == [i \in 1 .. n |-> e(i)]
<1>1. /\ line.text \in Seq(Nat) /\ DOMAIN line.formats \subseteq 1 .. n
      /\ line.text # <<>> => 1 \in DOMAIN line.formats
      /\ \A s \in DOMAIN line.formats : line.formats[s] \in FormatType
  BY CompactFields
<1>2. n \in Nat /\ DOMAIN line.text = 1 .. n /\ \A i \in 1 .. n : line.text[i] \in Nat
  BY <1>1
<1>3. ASSUME NEW i \in 1 .. n PROVE e(i) \in CellType
  <2>1. DOMAIN line.formats \subseteq Nat /\ 1 \in DOMAIN line.formats /\ i \in Nat /\ i >= 1
    BY <1>1, <1>2
  <2>2. RunOf(line, i) \in DOMAIN line.formats
    BY <2>1, RunIs DEF RunOf
  <2>3. f(i) \in FormatType
    BY <1>1, <2>2
  <2> HIDE DEF f
  <2>4. f(i).ext \in BOOLEAN /\ f(i).real \in BOOLEAN /\ f(i).format \in Pens
    BY <2>3 DEF FormatType
  <2> QED
    BY <1>2, <2>4 DEF CellType
<1>4. CompactLineAt(line) = [cells |-> cells, wrapped |-> line.wrapped]
  BY <1>2 DEF CompactLineAt, RunOf
<1>5. cells \in [1 .. n -> CellType]
  BY <1>3
<1>6. cells \in Seq(CellType) /\ Len(cells) = n
  BY <1>2, <1>5
<1>7. ASSUME NEW i \in 1 .. n
      PROVE  cells[i].code = line.text[i] /\ cells[i].ext = f(i).ext /\ cells[i].format = f(i).format
  <2>1. cells[i] = e(i)
    OBVIOUS
  <2> HIDE DEF f, cells
  <2> QED
    BY <2>1
<1> HIDE DEF cells, f
<1>8. CompactLineAt(line).cells = cells /\ CompactLineAt(line).wrapped = line.wrapped
  BY <1>4
<1> QED
  BY <1>4, <1>6, <1>7, <1>8 DEF f

(* The cells of a run look like its first one.                             *)
LEMMA RunLooksAlike ==
  ASSUME NEW cells \in Seq(CellType), NEW i \in 1 .. Len(cells),
         NEW m \in RunStarts(cells), m <= i, \A s \in RunStarts(cells) : s <= i => s <= m
  PROVE  cells[m].format = cells[i].format /\ cells[m].ext = cells[i].ext
<1> DEFINE Alike(j) == cells[m].format = cells[j].format /\ cells[m].ext = cells[j].ext
           S == {d \in Nat : m + d <= i => Alike(m + d)}
<1>1. m \in 1 .. Len(cells) /\ Len(cells) \in Nat /\ m \in Nat /\ i \in Nat
  BY RunsAreFew
<1>2. 0 \in S
  BY <1>1
<1>3. ASSUME NEW d \in Nat, d \in S PROVE d + 1 \in S
  <2> SUFFICES ASSUME m + (d + 1) <= i PROVE Alike(m + (d + 1))
    OBVIOUS
  <2> DEFINE j == m + (d + 1)
  <2>1. m + d <= i /\ j - 1 = m + d /\ j \in 1 .. Len(cells) /\ j # 1 /\ ~(j <= m)
    BY <1>1
  <2>2. Alike(j - 1)
    BY <1>3, <2>1
  <2> HIDE DEF j
  <2>3. j \notin RunStarts(cells)
    BY <2>1 DEF j
  <2>4. SameFormat(cells[j], cells[j - 1])
    <3>1. DOMAIN cells = 1 .. Len(cells)
      OBVIOUS
    <3> QED
      BY <2>1, <2>3, <3>1 DEF RunStarts
  <2>5. Alike(j)
    BY <2>2, <2>4 DEF SameFormat
  <2> QED
    BY <2>5 DEF j
<1> HIDE DEF S
<1>4. i - m \in S
  <2>1. i - m \in Nat
    BY <1>1
  <2> QED
    BY <1>2, <1>3, <2>1, Successively
<1>5. Alike(m + (i - m)) /\ m + (i - m) = i
  BY <1>1, <1>4 DEF S
<1> QED
  BY <1>5

ShowsAs(line, cells, wrapped) ==
    \A t : ShownLine(t, CompactLineAt(line)) = ShownLine(t, [cells |-> cells, wrapped |-> wrapped])
AddsCode(line, cells) ==
    \A t : (\A i \in 1 .. Len(cells) : Known(t, cells[i]))
             => \A i \in 1 .. Len(CompactLineAt(line).cells) : Known(t, CompactLineAt(line).cells[i])

LEMMA NewLineSound ==
  ASSUME NEW blocks, NEW cells \in Seq(CellType), NEW wrapped \in BOOLEAN,
         NewLineIn(blocks, cells).line.parts \in PartsType
  PROVE  LET line == [NewLineIn(blocks, cells).line EXCEPT !.wrapped = wrapped]
         IN  /\ line \in CompactLines /\ line.parts = NewLineIn(blocks, cells).line.parts
             /\ ShowsAs(line, cells, wrapped) /\ AddsCode(line, cells)
<1> DEFINE new == NewLineIn(blocks, cells).line
           line == [new EXCEPT !.wrapped = wrapped]
           text == [i \in DOMAIN cells |-> cells[i].code]
           n == Len(cells)
<1>1. /\ new = [parts |-> new.parts, formats |-> Formats(cells), text |-> text, wrapped |-> FALSE]
      /\ new.parts \in PartsType
  BY DEF NewLineIn
<1>2. n \in Nat /\ DOMAIN cells = 1 .. n /\ \A i \in 1 .. n : cells[i] \in CellType
  OBVIOUS
<1>3. text \in [1 .. n -> Nat] /\ \A i \in 1 .. n : text[i] = cells[i].code
  BY <1>2 DEF CellType
<1>4. text \in Seq(Nat) /\ Len(text) = n
  BY <1>2, <1>3
<1>5. RunStarts(cells) \subseteq 1 .. n /\ (cells # <<>> => 1 \in RunStarts(cells))
  BY RunsAreFew
<1>6. /\ DOMAIN Formats(cells) = RunStarts(cells)
      /\ \A s \in RunStarts(cells) :
           /\ Formats(cells)[s] \in FormatType
           /\ Formats(cells)[s].format = cells[s].format /\ Formats(cells)[s].ext = cells[s].ext
  BY <1>2, <1>5 DEF Formats, FormatType, CellType
<1>7. Formats(cells) \in FormatsType
  <2>1. Formats(cells) \in [RunStarts(cells) -> FormatType]
    BY <1>6 DEF Formats
  <2>2. RunStarts(cells) \in SUBSET Nat
    BY <1>5
  <2> QED
    BY <2>1, <2>2 DEF FormatsType
<1> HIDE DEF new, text
<1>8. line = [parts |-> new.parts, formats |-> Formats(cells), text |-> text, wrapped |-> wrapped]
  BY <1>1
<1> HIDE DEF line
<1>9. line.parts = new.parts /\ line.formats = Formats(cells) /\ line.text = text /\ line.wrapped = wrapped
  BY <1>8
<1>10. line \in CompactLines
  <2>1. line \in StoredLine
    BY <1>1, <1>4, <1>7, <1>8 DEF StoredLine
  <2>2. line.text # <<>> => cells # <<>>
    BY <1>4, <1>9
  <2> QED
    BY <1>4, <1>5, <1>6, <1>9, <2>1, <2>2 DEF CompactLines
<1> DEFINE at == CompactLineAt(line)
<1>11. /\ at.cells \in Seq(CellType) /\ Len(at.cells) = n
       /\ at = [cells |-> at.cells, wrapped |-> wrapped]
       /\ \A i \in 1 .. n : /\ at.cells[i].code = text[i]
                            /\ at.cells[i].ext = Formats(cells)[RunOf(line, i)].ext
                            /\ at.cells[i].format = Formats(cells)[RunOf(line, i)].format
  BY <1>4, <1>9, <1>10, CompactReads
<1> HIDE DEF at
<1>12. ASSUME NEW i \in 1 .. n
       PROVE  at.cells[i].code = cells[i].code /\ at.cells[i].ext = cells[i].ext
              /\ at.cells[i].format = cells[i].format
  <2> DEFINE m == RunOf(line, i)
  <2>1. RunStarts(cells) \subseteq Nat /\ 1 \in RunStarts(cells) /\ i \in Nat /\ i >= 1
    BY <1>2, <1>5
  <2>2. m \in RunStarts(cells) /\ m <= i /\ \A s \in RunStarts(cells) : s <= i => s <= m
    <3>1. m = Max({s \in RunStarts(cells) : s <= i})
      BY <1>6, <1>9 DEF RunOf
    <3> QED
      BY <2>1, <3>1, RunIs
  <2> HIDE DEF m
  <2>3. cells[m].format = cells[i].format /\ cells[m].ext = cells[i].ext
    BY <2>2, RunLooksAlike
  <2>4. /\ at.cells[i].code = text[i] /\ at.cells[i].ext = Formats(cells)[m].ext
        /\ at.cells[i].format = Formats(cells)[m].format
    BY <1>11 DEF m
  <2> QED
    BY <1>3, <1>6, <2>2, <2>3, <2>4
<1>13. ShowsAs(line, cells, wrapped)
  <2> SUFFICES ASSUME NEW t
               PROVE  ShownLine(t, at) = ShownLine(t, [cells |-> cells, wrapped |-> wrapped])
    BY DEF ShowsAs, at
  <2>1. \A i \in 1 .. n : Shown(t, at.cells[i]) = Shown(t, cells[i])
    BY <1>12 DEF Shown
  <2>2. DOMAIN at.cells = 1 .. n
    BY <1>11
  <2>3. ShownLine(t, at) = [cells |-> [i \in 1 .. n |-> Shown(t, at.cells[i])], wrapped |-> wrapped]
    <3>1. at.wrapped = wrapped
      BY <1>11
    <3> QED
      BY <2>2, <3>1 DEF ShownLine
  <2>4. ShownLine(t, [cells |-> cells, wrapped |-> wrapped])
          = [cells |-> [i \in 1 .. n |-> Shown(t, cells[i])], wrapped |-> wrapped]
    BY <1>2 DEF ShownLine
  <2> QED
    BY <2>1, <2>3, <2>4
<1>14. AddsCode(line, cells)
  BY <1>11, <1>12 DEF AddsCode, at, Known
<1> QED
  BY <1>9, <1>10, <1>13, <1>14 DEF line, new

-----------------------------------------------------------------------------
(* The compact history as a whole.                                         *)
CompactType == [lines : Seq(CompactLines), blocks : Seq(BlockType), max : Nat]
Compacts == {h \in CompactType : Counted(h.blocks, Live(h.lines))}

LEMMA HistoryFields ==
  ASSUME NEW h \in Compacts
  PROVE  /\ h.lines \in Seq(CompactLines) /\ h.blocks \in Seq(BlockType) /\ h.max \in Nat
         /\ Counted(h.blocks, Live(h.lines))
         /\ h = [lines |-> h.lines, blocks |-> h.blocks, max |-> h.max]
BY DEF Compacts, CompactType

LEMMA HistoryIs ==
  ASSUME NEW lines \in Seq(CompactLines), NEW blocks, NEW max \in Nat, Counted(blocks, Live(lines))
  PROVE  [lines |-> lines, blocks |-> blocks, max |-> max] \in Compacts
BY DEF Compacts, CompactType, Counted

LEMMA NewCompactIs ==
  ASSUME NEW max \in Nat
  PROVE  NewCompact(max) \in Compacts
<1>1. <<>> \in Seq(CompactLines)
  OBVIOUS
<1>2. Live(<<>>) \in LiveType /\ \A id \in Nat : IsFiniteSet(Live(<<>>)[id]) /\ Live(<<>>)[id] = {}
  <2> DEFINE lines == <<>>
  <2>1. lines \in Seq(CompactLines) /\ Len(lines) = 0
    OBVIOUS
  <2>2. 1 .. 0 = {}
    OBVIOUS
  <2> HIDE DEF lines
  <2>3. Live(lines) \in LiveType
        /\ \A id \in Nat : /\ IsFiniteSet(Live(lines)[id])
                           /\ \A q : q \in Live(lines)[id] <=>
                                       \E i \in 1 .. 0 : IsPart(q, i, lines[i].parts, id)
    BY <2>1, LiveIs
  <2>4. \A id \in Nat : Live(lines)[id] = {}
    BY <2>2, <2>3
  <2> QED
    BY <2>3, <2>4 DEF lines
<1>3. Counted(<<>>, Live(<<>>))
  BY <1>2 DEF Counted
<1> QED
  BY <1>1, <1>3, HistoryIs DEF NewCompact

LEMMA FreedFirstIs ==
  ASSUME NEW h \in Compacts, h.lines # <<>>
  PROVE  /\ FreedFirst(h) \in Compacts
         /\ FreedFirst(h).lines = Tail(h.lines) /\ FreedFirst(h).max = h.max
<1> DEFINE lines == Tail(h.lines)
           blocks == Released(h.blocks, Head(h.lines).parts)
<1>1. /\ h.lines \in Seq(CompactLines) /\ h.max \in Nat /\ Counted(h.blocks, Live(h.lines))
      /\ h = [lines |-> h.lines, blocks |-> h.blocks, max |-> h.max]
  BY HistoryFields
<1>2. lines \in Seq(CompactLines)
  BY <1>1, HeadTailProperties
<1>3. Counted(blocks, Live(lines))
  BY <1>1, DropCounted
<1>4. FreedFirst(h) = [h EXCEPT !.lines = lines, !.blocks = blocks]
  BY DEF FreedFirst
<1> HIDE DEF lines, blocks
<1>5. FreedFirst(h) = [lines |-> lines, blocks |-> blocks, max |-> h.max]
  BY <1>1, <1>4
<1>6. FreedFirst(h) \in Compacts
  BY <1>1, <1>2, <1>3, <1>5, HistoryIs
<1> QED
  BY <1>5, <1>6 DEF lines

LEMMA AppendTail ==
  ASSUME NEW T, NEW s \in Seq(T), s # <<>>, NEW e \in T
  PROVE  Tail(Append(s, e)) = Append(Tail(s), e) /\ Head(Append(s, e)) = Head(s)
<1> DEFINE n == Len(s)
           a == Append(s, e)
           l == Tail(a)
           r == Append(Tail(s), e)
<1>1. n \in Nat /\ n >= 1
  OBVIOUS
<1>2. /\ a \in Seq(T) /\ Len(a) = n + 1 /\ a # <<>>
      /\ \A i \in 1 .. n : a[i] = s[i]
      /\ a[n + 1] = e
  OBVIOUS
<1>3. Tail(s) \in Seq(T) /\ Len(Tail(s)) = n - 1 /\ \A i \in 1 .. n - 1 : Tail(s)[i] = s[i + 1]
  <2>1. Tail(s) \in Seq(T) /\ Len(Tail(s)) = n - 1 /\ \A i \in 1 .. Len(Tail(s)) : Tail(s)[i] = s[i + 1]
    BY HeadTailProperties
  <2> QED
    BY <2>1
<1>4. Head(a) = Head(s)
  BY <1>1, <1>2
<1> HIDE DEF a
<1>5. l \in Seq(T) /\ Len(l) = n /\ \A i \in 1 .. n : l[i] = a[i + 1]
  <2>1. l \in Seq(T) /\ Len(l) = (n + 1) - 1 /\ \A i \in 1 .. Len(l) : l[i] = a[i + 1]
    BY <1>2, HeadTailProperties
  <2>2. (n + 1) - 1 = n
    BY <1>1
  <2> QED
    BY <2>1, <2>2
<1> DEFINE t == Tail(s)
<1> HIDE DEF t, l, n
<1>6. /\ r \in Seq(T) /\ Len(r) = n
      /\ \A i \in 1 .. n : r[i] = IF i <= n - 1 THEN t[i] ELSE e
  <2>1. t \in Seq(T) /\ Len(t) = n - 1 /\ n \in Nat
    BY <1>1, <1>3 DEF t
  <2>2. /\ Append(t, e) \in Seq(T) /\ Len(Append(t, e)) = n
        /\ \A i \in 1 .. n : Append(t, e)[i] = IF i <= n - 1 THEN t[i] ELSE e
    BY <2>1
  <2> QED
    BY <2>2 DEF t
<1> HIDE DEF r
<1>7. ASSUME NEW i \in 1 .. n PROVE l[i] = r[i]
  <2>1. CASE i = n
    BY <1>1, <1>2, <1>5, <1>6, <2>1
  <2>2. CASE i # n
    <3>1. i <= n - 1 /\ i \in 1 .. n - 1 /\ i + 1 \in 1 .. n
      BY <1>1, <2>2
    <3> QED
      BY <1>2, <1>3, <1>5, <1>6, <3>1 DEF t
  <2> QED
    BY <2>1, <2>2
<1>8. l = [i \in 1 .. n |-> l[i]] /\ r = [i \in 1 .. n |-> r[i]]
  BY <1>5, <1>6
<1>9. l = r
  BY <1>7, <1>8
<1> QED
  BY <1>4, <1>9 DEF a, l, r, t

LineAddedTo(u, h, line) ==
    /\ u \in Compacts /\ u.max = h.max
    /\ u.lines = Append(IF Full(h) THEN Tail(h.lines) ELSE h.lines, line)

LEMMA WithCompactLineIs ==
  ASSUME NEW h \in Compacts, NEW cells \in Seq(CellType), Len(cells) <= Columns, NEW wrapped \in BOOLEAN
  PROVE  \E line \in CompactLines :
            /\ LineAddedTo(WithCompactLine(h, cells, wrapped), h, line)
            /\ ShowsAs(line, cells, wrapped) /\ AddsCode(line, cells)
<1> DEFINE new == NewLineIn(h.blocks, cells)
           line == [new.line EXCEPT !.wrapped = wrapped]
           blocks == new.blocks
           old == h.lines
           u == WithCompactLine(h, cells, wrapped)
<1>1. /\ old \in Seq(CompactLines) /\ h.max \in Nat /\ Counted(h.blocks, Live(old))
      /\ h = [lines |-> old, blocks |-> h.blocks, max |-> h.max]
  BY HistoryFields
<1>2. /\ new.line.parts \in PartsType
      /\ \A l \in CompactLines : l.parts = new.line.parts => Counted(blocks, Live(Append(old, l)))
  BY <1>1, NewLineCounted
<1>3. /\ line \in CompactLines /\ line.parts = new.line.parts
      /\ ShowsAs(line, cells, wrapped) /\ AddsCode(line, cells)
  BY <1>2, NewLineSound
<1>4. u = LET h1 == [h EXCEPT !.blocks = blocks]
              h2 == IF Full(h) THEN FreedFirst(h1) ELSE h1
          IN  [h2 EXCEPT !.lines = Append(@, line)]
  BY DEF WithCompactLine
<1>5. Counted(blocks, Live(Append(old, line)))
  BY <1>2, <1>3
<1> HIDE DEF line, blocks, old, u
<1>6. CASE Full(h)
  <2> DEFINE lines == Tail(old)
             freed == Released(blocks, Head(old).parts)
             h1 == [h EXCEPT !.blocks = blocks]
  <2>1. h1 = [lines |-> old, blocks |-> blocks, max |-> h.max]
    BY <1>1
  <2> HIDE DEF h1
  <2>2. FreedFirst(h1) = [lines |-> lines, blocks |-> freed, max |-> h.max]
    <3>1. FreedFirst(h1) = [h1 EXCEPT !.lines = Tail(h1.lines), !.blocks = Released(h1.blocks, Head(h1.lines).parts)]
      BY DEF FreedFirst
    <3>2. FreedFirst(h1) = [h1 EXCEPT !.lines = lines, !.blocks = freed]
      BY <2>1, <3>1
    <3> HIDE DEF lines, freed
    <3> QED
      BY <2>1, <3>2
  <2>3. old # <<>>
    <3>1. Len(old) > h.max
      BY <1>6 DEF Full, old
    <3> QED
      BY <1>1, <3>1
  <2>4. lines \in Seq(CompactLines) /\ Append(old, line) \in Seq(CompactLines)
        /\ Append(old, line) # <<>> /\ Append(lines, line) \in Seq(CompactLines)
    <3>1. lines \in Seq(CompactLines)
      BY <1>1, <2>3, HeadTailProperties
    <3>2. old \in Seq(CompactLines) /\ line \in CompactLines
      BY <1>1, <1>3
    <3> HIDE DEF lines, old
    <3>3. Append(old, line) \in Seq(CompactLines)
      BY <3>2
    <3>5. Len(Append(old, line)) = Len(old) + 1 /\ Len(old) \in Nat
      BY <3>2
    <3>6. Append(old, line) # <<>>
      BY <3>3, <3>5
    <3>4. Append(lines, line) \in Seq(CompactLines)
      BY <3>1, <3>2
    <3> QED
      BY <3>1, <3>3, <3>4, <3>6 DEF old
  <2>5. Tail(Append(old, line)) = Append(lines, line) /\ Head(Append(old, line)) = Head(old)
    BY <1>1, <1>3, <2>3, AppendTail
  <2>6. Counted(freed, Live(Append(lines, line)))
    <3> DEFINE all == Append(old, line)
    <3>1. all \in Seq(CompactLines) /\ all # <<>> /\ Counted(blocks, Live(all))
      BY <1>5, <2>4
    <3> HIDE DEF all
    <3>2. Counted(Released(blocks, Head(all).parts), Live(Tail(all)))
      BY <3>1, DropCounted
    <3> QED
      BY <2>5, <3>2 DEF all
  <2> HIDE DEF lines, freed
  <2>7. u = [lines |-> Append(lines, line), blocks |-> freed, max |-> h.max]
    <3>1. u = [FreedFirst(h1) EXCEPT !.lines = Append(@, line)]
      BY <1>4, <1>6 DEF h1
    <3> DEFINE g == FreedFirst(h1)
               added == Append(lines, line)
    <3>2. g = [lines |-> lines, blocks |-> freed, max |-> h.max] /\ u = [g EXCEPT !.lines = Append(g.lines, line)]
      BY <2>2, <3>1
    <3> HIDE DEF g
    <3>3. u = [g EXCEPT !.lines = added]
      BY <3>2
    <3> HIDE DEF added
    <3>4. u = [lines |-> added, blocks |-> freed, max |-> h.max]
      BY <3>2, <3>3
    <3> QED
      BY <3>4 DEF added
  <2>8. u \in Compacts /\ u.max = h.max /\ u.lines = Append(lines, line)
    BY <1>1, <2>4, <2>6, <2>7, HistoryIs
  <2>9. LineAddedTo(u, h, line)
    BY <1>6, <2>8 DEF LineAddedTo, lines, old
  <2> QED
    BY <1>3, <2>9 DEF u
<1>7. CASE ~Full(h)
  <2>1. u = [[h EXCEPT !.blocks = blocks] EXCEPT !.lines = Append(@, line)]
    BY <1>4, <1>7
  <2>2. [h EXCEPT !.blocks = blocks] = [lines |-> old, blocks |-> blocks, max |-> h.max]
    BY <1>1
  <2>3. u = [lines |-> Append(old, line), blocks |-> blocks, max |-> h.max]
    <3> DEFINE h1 == [h EXCEPT !.blocks = blocks]
    <3>1. u = [h1 EXCEPT !.lines = Append(h1.lines, line)]
      BY <2>1
    <3>2. h1 = [lines |-> old, blocks |-> blocks, max |-> h.max]
      BY <2>2
    <3> HIDE DEF h1
    <3>3. h1.lines = old
      BY <3>2
    <3>4. u = [h1 EXCEPT !.lines = Append(old, line)]
      BY <3>1, <3>3
    <3> QED
      BY <3>2, <3>4
  <2>4. Append(old, line) \in Seq(CompactLines)
    BY <1>1, <1>3
  <2>5. u \in Compacts /\ u.max = h.max /\ u.lines = Append(old, line)
    BY <1>1, <1>5, <2>3, <2>4, HistoryIs
  <2>6. LineAddedTo(u, h, line)
    BY <1>7, <2>5 DEF LineAddedTo, old
  <2> QED
    BY <1>3, <2>6 DEF u
<1> QED
  BY <1>6, <1>7

(* The lines without the first n of them.                                  *)
Without(lines, n) == [i \in 1 .. Len(lines) - n |-> lines[i + n]]
Excess(h, max) == IF Len(h.lines) > max THEN Len(h.lines) - max ELSE 0

LEMMA TrimmedIs ==
  ASSUME NEW h \in Compacts, NEW max \in Nat
  PROVE  /\ Trimmed(h, max) \in Compacts /\ Trimmed(h, max).max = max
         /\ Excess(h, max) \in 0 .. Len(h.lines)
         /\ Trimmed(h, max).lines = Without(h.lines, Excess(h, max))
         /\ Len(Trimmed(h, max).lines) <= max
<1> DEFINE n == Excess(h, max)
           lines == h.lines
           after[i \in 0 .. n] == IF i = 0 THEN h ELSE FreedFirst(after[i - 1])
           g == [i \in 1 .. n |-> [k \in Compacts |-> IF k.lines # <<>> THEN FreedFirst(k) ELSE k]]
<1>1. lines \in Seq(CompactLines) /\ Len(lines) \in Nat
  BY HistoryFields
<1>2. n \in Nat /\ n <= Len(lines) /\ Len(lines) - n <= max
  BY <1>1 DEF Excess
<1>3. g \in [1 .. n -> [Compacts -> Compacts]]
  BY FreedFirstIs
<1>4. Steps(n, Compacts, h, g)
  BY <1>2, <1>3 DEF Steps
<1>5. PICK f : Follows(f, n, Compacts, h, g)
  <2> HIDE DEF n, g
  <2> QED
    BY <1>4, Recursion
<1>6. /\ f \in [0 .. n -> Compacts] /\ f[0] = h
      /\ \A i \in 1 .. n : f[i] = g[i][f[i - 1]]
  BY <1>5 DEF Follows
<1>7. ASSUME NEW i \in 1 .. n
      PROVE  f[i] = IF f[i - 1].lines # <<>> THEN FreedFirst(f[i - 1]) ELSE f[i - 1]
  <2>1. i - 1 \in 0 .. n
    BY <1>2
  <2>2. f[i - 1] \in Compacts /\ f[i] = g[i][f[i - 1]]
    BY <1>6, <2>1
  <2> QED
    BY <2>2
<1>8. after = after
  OBVIOUS
<1> HIDE DEF g, after, n, lines
<1> DEFINE Rest(i) == /\ f[i] \in Compacts /\ f[i].lines = Without(lines, i)
                      /\ (i # 0 => f[i] = FreedFirst(f[i - 1]))
           S == {i \in Nat : i <= n => Rest(i)}
<1>9. 0 \in S
  <2>1. Without(lines, 0) = lines
    <3>1. Len(lines) - 0 = Len(lines)
      BY <1>1
    <3>2. \A i \in 1 .. Len(lines) : lines[i + 0] = lines[i]
      OBVIOUS
    <3>3. lines = [i \in 1 .. Len(lines) |-> lines[i]]
      BY <1>1
    <3> QED
      BY <3>1, <3>2, <3>3 DEF Without
  <2> QED
    BY <1>6, <2>1 DEF lines
<1>10. ASSUME NEW i \in Nat, i \in S PROVE i + 1 \in S
  <2> SUFFICES ASSUME i + 1 <= n PROVE Rest(i + 1)
    OBVIOUS
  <2>1. i <= n /\ i + 1 \in 1 .. n /\ (i + 1) - 1 = i /\ i + 1 # 0 /\ i < Len(lines)
    BY <1>1, <1>2
  <2>2. f[i] \in Compacts /\ f[i].lines = Without(lines, i)
    BY <1>10, <2>1
  <2> DEFINE k == f[i]
             m == Len(lines) - i
  <2>3. m \in Nat /\ m >= 1 /\ Len(lines) - (i + 1) = m - 1
    BY <1>1, <2>1
  <2>4. k.lines \in Seq(CompactLines) /\ k.lines = [j \in 1 .. m |-> lines[j + i]]
    BY <2>2, HistoryFields DEF Without
  <2>5. k.lines # <<>> /\ Len(k.lines) = m
    <3> DEFINE s == k.lines
    <3>1. s \in Seq(CompactLines) /\ s = [j \in 1 .. m |-> lines[j + i]] /\ m \in Nat /\ m >= 1
      BY <2>3, <2>4
    <3> HIDE DEF s, m
    <3>2. Len(s) = m
      BY <3>1
    <3>3. s # <<>>
      BY <3>1, <3>2
    <3> QED
      BY <3>2, <3>3 DEF s
  <2>6. f[i + 1] = FreedFirst(k)
    BY <1>7, <2>1, <2>5
  <2>7. FreedFirst(k) \in Compacts /\ FreedFirst(k).lines = Tail(k.lines)
    BY <2>2, <2>5, FreedFirstIs
  <2> HIDE DEF k, m
  <2>8. Tail(k.lines) = Without(lines, i + 1)
    <3> DEFINE s == k.lines
               t == Tail(s)
    <3>1. t \in Seq(CompactLines) /\ Len(t) = m - 1 /\ \A j \in 1 .. m - 1 : t[j] = s[j + 1]
      <4>1. t \in Seq(CompactLines) /\ Len(t) = m - 1 /\ \A j \in 1 .. Len(t) : t[j] = s[j + 1]
        BY <2>4, <2>5, HeadTailProperties
      <4> QED
        BY <4>1
    <3>2. \A j \in 1 .. m - 1 : s[j + 1] = lines[j + (i + 1)]
      <4> SUFFICES ASSUME NEW j \in 1 .. m - 1 PROVE s[j + 1] = lines[j + (i + 1)]
        OBVIOUS
      <4>1. j + 1 \in 1 .. m /\ (j + 1) + i = j + (i + 1)
        BY <2>3
      <4> QED
        BY <2>4, <4>1
    <3> HIDE DEF s, t
    <3>3. t = [j \in 1 .. m - 1 |-> t[j]]
      BY <3>1
    <3>4. t = [j \in 1 .. m - 1 |-> lines[j + (i + 1)]]
      BY <3>1, <3>2, <3>3
    <3> QED
      BY <2>3, <3>4 DEF Without, t, s
  <2> QED
    BY <2>1, <2>6, <2>7, <2>8 DEF k
<1> HIDE DEF S
<1>11. Nat \subseteq S
  BY <1>9, <1>10, Successively
<1>12. \A i \in 0 .. n : Rest(i)
  BY <1>2, <1>11 DEF S
<1>13. f = [i \in 0 .. n |-> IF i = 0 THEN h ELSE FreedFirst(f[i - 1])]
  <2>1. \A i \in 0 .. n : f[i] = IF i = 0 THEN h ELSE FreedFirst(f[i - 1])
    BY <1>6, <1>12
  <2> QED
    BY <1>6, <2>1
<1>14. after = [i \in 0 .. n |-> IF i = 0 THEN h ELSE FreedFirst(after[i - 1])]
  BY <1>13 DEF after
<1> DEFINE T == {i \in Nat : i <= n => after[i] = f[i]}
<1>15. 0 \in T
  BY <1>2, <1>6, <1>14
<1>16. ASSUME NEW i \in Nat, i \in T PROVE i + 1 \in T
  <2> SUFFICES ASSUME i + 1 <= n PROVE after[i + 1] = f[i + 1]
    OBVIOUS
  <2>1. i <= n /\ i + 1 \in 0 .. n /\ (i + 1) - 1 = i /\ i + 1 # 0
    BY <1>2
  <2>2. after[i + 1] = FreedFirst(after[i])
    BY <1>14, <2>1
  <2>3. f[i + 1] = FreedFirst(f[i])
    BY <1>12, <2>1
  <2> QED
    BY <1>16, <2>1, <2>2, <2>3
<1> HIDE DEF T
<1>17. after[n] = f[n]
  <2>1. n \in T
    BY <1>2, <1>15, <1>16, Successively
  <2> QED
    BY <1>2, <2>1 DEF T
<1> DEFINE k == f[n]
           u == Trimmed(h, max)
<1>18. u = [k EXCEPT !.max = max]
  BY <1>17 DEF Trimmed, after, n, Excess
<1>19. k \in Compacts /\ k.lines = Without(lines, n)
  <2>1. n \in 0 .. n
    BY <1>2
  <2> QED
    BY <1>12, <2>1
<1> HIDE DEF k, u
<1>20. /\ k.lines \in Seq(CompactLines) /\ Counted(k.blocks, Live(k.lines))
       /\ k = [lines |-> k.lines, blocks |-> k.blocks, max |-> k.max]
  BY <1>19, HistoryFields
<1>21. u = [lines |-> k.lines, blocks |-> k.blocks, max |-> max]
  BY <1>18, <1>20
<1>22. u \in Compacts
  BY <1>20, <1>21, HistoryIs
<1>23. u.max = max /\ u.lines = Without(lines, n)
  BY <1>19, <1>21
<1>24. Len(u.lines) <= max
  <2>1. u.lines = [i \in 1 .. Len(lines) - n |-> lines[i + n]] /\ Len(lines) - n \in Nat
    BY <1>1, <1>2, <1>23 DEF Without
  <2>2. Len(u.lines) = Len(lines) - n
    BY <2>1
  <2> QED
    BY <1>2, <2>2
<1> QED
  BY <1>1, <1>2, <1>22, <1>23, <1>24 DEF u, n, lines

-----------------------------------------------------------------------------
(* The history, whatever its kind.                                         *)
LinesOf(k, h) ==
    CASE k = None -> <<>>
      [] k = File -> [i \in 1 .. GetLines(h) |-> LineAt(h, i - 1)]
      [] k = Compact -> [i \in DOMAIN h.lines |-> CompactLineAt(h.lines[i])]
KnownLine(t, line) == \A j \in 1 .. Len(line.cells) : Known(t, line.cells[j])
KnownLines(t, lines) == \A i \in 1 .. Len(lines) : KnownLine(t, lines[i])
HistoryOK(k, h, d, t) ==
    /\ k \in {None, File, Compact} /\ d \in BOOLEAN
    /\ k = File => h \in Scrolls /\ (~d => Whole(h))
    /\ k = Compact => h \in Compacts /\ Len(h.lines) <= h.max + 1
    /\ d => k = File
    /\ ~d => KnownLines(t, LinesOf(k, h))
HistoryInv == HistoryOK(kind, history, damaged, table) /\ type \in Sizes \cup {0}

LEMMA LinesByKind ==
  ASSUME NEW h
  PROVE  /\ LinesOf(None, h) = <<>>
         /\ h \in Scrolls => LinesOf(File, h) = FileLines(h) /\ LinesOf(File, h) \in Seq(LineType)
         /\ h \in Compacts => /\ LinesOf(Compact, h) \in Seq(LineType)
                              /\ Len(LinesOf(Compact, h)) = Len(h.lines)
                              /\ \A i \in 1 .. Len(h.lines) :
                                    LinesOf(Compact, h)[i] = CompactLineAt(h.lines[i])
<1>1. LinesOf(None, h) = <<>>
  BY DEF LinesOf, None, File, Compact
<1>2. ASSUME h \in Scrolls
      PROVE  LinesOf(File, h) = FileLines(h) /\ LinesOf(File, h) \in Seq(LineType)
  <2>1. LinesOf(File, h) = [i \in 1 .. GetLines(h) |-> LineAt(h, i - 1)]
    BY DEF LinesOf, None, File, Compact
  <2> QED
    BY <1>2, <2>1, FileLinesAre
<1>3. ASSUME h \in Compacts
      PROVE  /\ LinesOf(Compact, h) \in Seq(LineType)
             /\ Len(LinesOf(Compact, h)) = Len(h.lines)
             /\ \A i \in 1 .. Len(h.lines) : LinesOf(Compact, h)[i] = CompactLineAt(h.lines[i])
  <2> DEFINE n == Len(h.lines)
             s == LinesOf(Compact, h)
  <2>1. s = [i \in DOMAIN h.lines |-> CompactLineAt(h.lines[i])]
    BY DEF LinesOf, None, File, Compact
  <2>2. h.lines \in Seq(CompactLines) /\ n \in Nat /\ DOMAIN h.lines = 1 .. n
    BY <1>3, HistoryFields
  <2>3. \A line \in CompactLines : CompactLineAt(line) \in LineType
    <3> SUFFICES ASSUME NEW line \in CompactLines PROVE CompactLineAt(line) \in LineType
      OBVIOUS
    <3>1. /\ CompactLineAt(line).cells \in Seq(CellType)
          /\ CompactLineAt(line) = [cells |-> CompactLineAt(line).cells, wrapped |-> line.wrapped]
      BY CompactReads
    <3>2. line.wrapped \in BOOLEAN
      BY CompactFields
    <3> QED
      BY <3>1, <3>2 DEF LineType
  <2>4. \A i \in 1 .. n : h.lines[i] \in CompactLines
    BY <2>2
  <2> HIDE DEF s, n
  <2>5. s = [i \in 1 .. n |-> CompactLineAt(h.lines[i])]
    BY <2>1, <2>2
  <2>6. s \in [1 .. n -> LineType]
    BY <2>3, <2>4, <2>5
  <2>7. s \in Seq(LineType) /\ Len(s) = n
    BY <2>2, <2>6
  <2> QED
    BY <2>5, <2>7 DEF s, n
<1> QED
  BY <1>1, <1>2, <1>3

LEMMA LinesTyped ==
  ASSUME NEW k, NEW h, NEW d, NEW t, HistoryOK(k, h, d, t)
  PROVE  LinesOf(k, h) \in Seq(LineType)
<1>1. CASE k = None
  <2>1. <<>> \in Seq(LineType)
    OBVIOUS
  <2> QED
    BY <1>1, <2>1, LinesByKind
<1>2. CASE k = File
  BY <1>2, LinesByKind DEF HistoryOK
<1>3. CASE k = Compact
  BY <1>3, LinesByKind DEF HistoryOK
<1> QED
  BY <1>1, <1>2, <1>3 DEF HistoryOK

LEMMA LinesSame ==
  Lines = LinesOf(kind, history)
BY DEF Lines, LinesOf

(* What a history needs to know of its lines is kept when a line is added  *)
(* or the first are dropped.                                               *)
LEMMA KnownAppended ==
  ASSUME NEW t, NEW s \in Seq(LineType), KnownLines(t, s), NEW line \in LineType, KnownLine(t, line)
  PROVE  KnownLines(t, Append(s, line))
<1>1. Gets(s, line, LineType)
  BY DEF Gets
<1>2. Append(s, line) = [i \in 1 .. Len(s) + 1 |-> IF i <= Len(s) THEN s[i] ELSE line]
  BY <1>1, AppendIs DEF Appended
<1>3. Append(s, line) \in Seq(LineType) /\ Len(Append(s, line)) = Len(s) + 1 /\ Len(s) \in Nat
  OBVIOUS
<1>4. \A i \in 1 .. Len(s) + 1 : i <= Len(s) => i \in 1 .. Len(s)
  BY <1>3
<1> QED
  BY <1>2, <1>3, <1>4 DEF KnownLines

LEMMA KnownTail ==
  ASSUME NEW t, NEW s \in Seq(LineType), KnownLines(t, s), s # <<>>
  PROVE  KnownLines(t, Tail(s))
<1>1. Tail(s) \in Seq(LineType) /\ Len(Tail(s)) = Len(s) - 1
      /\ \A i \in 1 .. Len(Tail(s)) : Tail(s)[i] = s[i + 1]
  BY HeadTailProperties
<1>2. Len(s) \in Nat /\ \A i \in 1 .. Len(s) - 1 : i + 1 \in 1 .. Len(s)
  OBVIOUS
<1> QED
  BY <1>1, <1>2 DEF KnownLines

(* addHistLine, for each kind of history.                                  *)
WithRecordedIn(k, h, line, failed) ==
    CASE k = None -> h
      [] k = File -> WithLine(h, line.cells, line.wrapped, failed)
      [] k = Compact -> WithCompactLine(h, line.cells, line.wrapped)
Recorded(k, u, h, line, t) ==
    \E new \in LineType :
        /\ ShownLine(t, new) = ShownLine(t, line)
        /\ LinesOf(k, u) = IF k = None THEN <<>>
                           ELSE Append(IF k = Compact /\ Full(h) THEN Tail(LinesOf(k, h)) ELSE LinesOf(k, h), new)

LEMMA RecordedFile ==
  ASSUME NEW h, NEW d, NEW t, HistoryOK(File, h, d, t),
         NEW line \in LineType, KnownLine(t, line), NEW failed
  PROVE  LET u == WithLine(h, line.cells, line.wrapped, failed)
         IN  /\ HistoryOK(File, u, d \/ failed # {}, t)
             /\ ~(d \/ failed # {}) => LinesOf(File, u) = Append(LinesOf(File, h), line)
<1> DEFINE u == WithLine(h, line.cells, line.wrapped, failed)
<1>1. h \in Scrolls /\ (~d => Whole(h)) /\ d \in BOOLEAN /\ (~d => KnownLines(t, LinesOf(File, h)))
  BY DEF HistoryOK
<1>2. line.cells \in Seq(CellType) /\ line.wrapped \in BOOLEAN
      /\ line = [cells |-> line.cells, wrapped |-> line.wrapped]
  BY DEF LineType
<1>3. u \in Scrolls
  <2>1. LineAdded(u, h, line.cells, line.wrapped, failed)
    BY <1>1, <1>2, WithLineIs
  <2> QED
    BY <2>1 DEF LineAdded
<1>4. ASSUME ~(d \/ failed # {})
      PROVE  /\ Whole(u) /\ LinesOf(File, u) = Append(LinesOf(File, h), line)
             /\ KnownLines(t, LinesOf(File, u))
  <2>1. ~d /\ failed = {}
    BY <1>4
  <2>2. Stores(u, Append(FileLines(h), line))
    BY <1>1, <1>2, <2>1, LineStored
  <2>3. LinesOf(File, u) = Append(LinesOf(File, h), line) /\ LinesOf(File, h) \in Seq(LineType)
    BY <1>1, <1>3, <2>2, LinesByKind DEF Stores
  <2>4. KnownLines(t, LinesOf(File, u))
    BY <1>1, <2>1, <2>3, KnownAppended
  <2> QED
    BY <2>2, <2>3, <2>4 DEF Stores
<1> HIDE DEF u
<1>5. HistoryOK(File, u, d \/ failed # {}, t)
  <2> DEFINE e == d \/ failed # {}
  <2>1. e \in BOOLEAN /\ File \in {None, File, Compact} /\ File # Compact
    BY DEF File, None, Compact
  <2>2. ~e => Whole(u) /\ KnownLines(t, LinesOf(File, u))
    BY <1>4
  <2> HIDE DEF e
  <2>3. HistoryOK(File, u, e, t)
    BY <1>3, <2>1, <2>2 DEF HistoryOK
  <2> QED
    BY <2>3 DEF e
<1> QED
  BY <1>4, <1>5 DEF u

(* The lines of a compact history follow the stored ones.                  *)
Read(lines) == [i \in DOMAIN lines |-> CompactLineAt(lines[i])]

LEMMA ReadIs ==
  ASSUME NEW lines \in Seq(CompactLines)
  PROVE  /\ Read(lines) \in Seq(LineType) /\ Len(Read(lines)) = Len(lines)
         /\ Read(lines) = [i \in 1 .. Len(lines) |-> CompactLineAt(lines[i])]
<1> DEFINE n == Len(lines)
<1>1. \A line \in CompactLines : CompactLineAt(line) \in LineType
  <2> SUFFICES ASSUME NEW line \in CompactLines PROVE CompactLineAt(line) \in LineType
    OBVIOUS
  <2>1. /\ CompactLineAt(line).cells \in Seq(CellType)
        /\ CompactLineAt(line) = [cells |-> CompactLineAt(line).cells, wrapped |-> line.wrapped]
    BY CompactReads
  <2>2. line.wrapped \in BOOLEAN
    BY CompactFields
  <2> QED
    BY <2>1, <2>2 DEF LineType
<1>2. n \in Nat /\ DOMAIN lines = 1 .. n /\ \A i \in 1 .. n : lines[i] \in CompactLines
  OBVIOUS
<1> HIDE DEF n
<1>3. Read(lines) = [i \in 1 .. n |-> CompactLineAt(lines[i])]
  BY <1>2 DEF Read
<1>4. Read(lines) \in [1 .. n -> LineType]
  BY <1>1, <1>2, <1>3
<1>5. Read(lines) \in Seq(LineType) /\ Len(Read(lines)) = n
  BY <1>2, <1>4
<1> QED
  BY <1>3, <1>5 DEF n

LEMMA ReadAppended ==
  ASSUME NEW lines \in Seq(CompactLines), NEW line \in CompactLines
  PROVE  Read(Append(lines, line)) = Append(Read(lines), CompactLineAt(line))
<1> DEFINE n == Len(lines)
           s == Append(lines, line)
           r == Read(lines)
           e == CompactLineAt(line)
<1>1. n \in Nat /\ s \in Seq(CompactLines) /\ Len(s) = n + 1
  OBVIOUS
<1>2. Gets(lines, line, CompactLines)
  BY DEF Gets
<1>3. s = [i \in 1 .. n + 1 |-> IF i <= n THEN lines[i] ELSE line]
  BY <1>2, AppendIs DEF Appended
<1>4. Read(s) = [i \in 1 .. Len(s) |-> CompactLineAt(s[i])]
  BY <1>1, ReadIs
<1>5. r \in Seq(LineType) /\ Len(r) = n /\ r = [i \in 1 .. n |-> CompactLineAt(lines[i])]
  BY ReadIs
<1>6. e \in LineType
  <2>1. /\ e.cells \in Seq(CellType) /\ e = [cells |-> e.cells, wrapped |-> line.wrapped]
    BY CompactReads
  <2>2. line.wrapped \in BOOLEAN
    BY CompactFields
  <2> HIDE DEF e
  <2> QED
    BY <2>1, <2>2 DEF LineType
<1>7. Gets(r, e, LineType)
  BY <1>5, <1>6 DEF Gets
<1>8. Append(r, e) = [i \in 1 .. Len(r) + 1 |-> IF i <= Len(r) THEN r[i] ELSE e]
  BY <1>7, AppendIs DEF Appended
<1>9. \A i \in 1 .. n + 1 : (i <= n => i \in 1 .. n /\ s[i] = lines[i]) /\ (~(i <= n) => s[i] = line)
  BY <1>1, <1>3
<1>10. e = CompactLineAt(line)
  OBVIOUS
<1> HIDE DEF n, s, r, e
<1>11. \A i \in 1 .. n + 1 : CompactLineAt(s[i]) = IF i <= n THEN r[i] ELSE e
  BY <1>5, <1>9, <1>10
<1> QED
  BY <1>1, <1>4, <1>5, <1>8, <1>11 DEF s, r, e

LEMMA TailIs ==
  ASSUME NEW T, NEW s \in Seq(T), s # <<>>
  PROVE  /\ Tail(s) \in Seq(T) /\ Len(Tail(s)) = Len(s) - 1
         /\ Tail(s) = [i \in 1 .. Len(s) - 1 |-> s[i + 1]]
<1>1. Tail(s) \in Seq(T) /\ Len(Tail(s)) = Len(s) - 1
      /\ \A i \in 1 .. Len(Tail(s)) : Tail(s)[i] = s[i + 1]
  BY HeadTailProperties
<1> DEFINE n == Len(s) - 1
           r == Tail(s)
<1>2. n \in Nat
  OBVIOUS
<1> HIDE DEF n, r
<1>3. r \in Seq(T) /\ Len(r) = n /\ \A i \in 1 .. n : r[i] = s[i + 1]
  BY <1>1 DEF n, r
<1>4. r \in [1 .. n -> T]
  BY <1>2, <1>3
<1>5. r = [i \in 1 .. n |-> s[i + 1]]
  BY <1>3, <1>4
<1> QED
  BY <1>3, <1>5 DEF n, r

LEMMA ReadTail ==
  ASSUME NEW lines \in Seq(CompactLines), lines # <<>>
  PROVE  Read(Tail(lines)) = Tail(Read(lines)) /\ Read(lines) # <<>>
<1> DEFINE n == Len(lines)
           s == Tail(lines)
           r == Read(lines)
<1>1. n \in Nat /\ n >= 1
  OBVIOUS
<1>2. s \in Seq(CompactLines) /\ Len(s) = n - 1 /\ s = [i \in 1 .. n - 1 |-> lines[i + 1]]
  BY TailIs
<1>3. Read(s) = [i \in 1 .. n - 1 |-> CompactLineAt(s[i])]
  BY <1>2, ReadIs
<1>4. r \in Seq(LineType) /\ Len(r) = n /\ r = [i \in 1 .. n |-> CompactLineAt(lines[i])]
  BY ReadIs
<1> HIDE DEF n, s, r
<1>5. r # <<>>
  BY <1>1, <1>4
<1>6. Tail(r) = [i \in 1 .. n - 1 |-> r[i + 1]]
  BY <1>4, <1>5, TailIs
<1>7. \A i \in 1 .. n - 1 : i + 1 \in 1 .. n
  BY <1>1
<1>8. \A i \in 1 .. n - 1 : CompactLineAt(s[i]) = r[i + 1]
  BY <1>2, <1>4, <1>7
<1> QED
  BY <1>3, <1>5, <1>6, <1>8 DEF s, r

LEMMA ReadLines ==
  ASSUME NEW h
  PROVE  LinesOf(Compact, h) = Read(h.lines)
BY DEF LinesOf, Read, None, File, Compact

LEMMA RecordedCompact ==
  ASSUME NEW h, NEW d, NEW t, HistoryOK(Compact, h, d, t),
         NEW line \in LineType, Len(line.cells) <= Columns, KnownLine(t, line)
  PROVE  LET u == WithCompactLine(h, line.cells, line.wrapped)
         IN  /\ HistoryOK(Compact, u, FALSE, t) /\ u.max = h.max
             /\ Recorded(Compact, u, h, line, t)
<1> DEFINE u == WithCompactLine(h, line.cells, line.wrapped)
           old == LinesOf(Compact, h)
           kept == IF Full(h) THEN Tail(old) ELSE old
           keptLines == IF Full(h) THEN Tail(h.lines) ELSE h.lines
<1>1. h \in Compacts /\ Len(h.lines) <= h.max + 1 /\ ~d /\ KnownLines(t, old)
  BY DEF HistoryOK, File, Compact, None
<1>2. line.cells \in Seq(CellType) /\ line.wrapped \in BOOLEAN
      /\ line = [cells |-> line.cells, wrapped |-> line.wrapped]
  BY DEF LineType
<1>3. PICK stored \in CompactLines :
        /\ LineAddedTo(u, h, stored)
        /\ ShowsAs(stored, line.cells, line.wrapped) /\ AddsCode(stored, line.cells)
  BY <1>1, <1>2, WithCompactLineIs
<1> DEFINE new == CompactLineAt(stored)
<1>4. /\ h.lines \in Seq(CompactLines) /\ h.max \in Nat /\ Len(h.lines) \in Nat
      /\ Full(h) => h.lines # <<>>
  BY <1>1, HistoryFields DEF Full
<1>5. u \in Compacts /\ u.max = h.max /\ u.lines = Append(keptLines, stored)
  BY <1>3 DEF LineAddedTo
<1>6. keptLines \in Seq(CompactLines) /\ Len(keptLines) <= h.max
      /\ (Full(h) => Read(keptLines) = Tail(Read(h.lines))) /\ (~Full(h) => Read(keptLines) = Read(h.lines))
  <2>1. CASE Full(h)
    <3>1. /\ Tail(h.lines) \in Seq(CompactLines) /\ Len(Tail(h.lines)) = Len(h.lines) - 1
          /\ Read(Tail(h.lines)) = Tail(Read(h.lines))
      BY <1>4, <2>1, TailIs, ReadTail
    <3> QED
      BY <1>1, <1>4, <2>1, <3>1
  <2>2. CASE ~Full(h)
    BY <1>4, <2>2 DEF Full
  <2> QED
    BY <2>1, <2>2
<1>7. old = Read(h.lines) /\ LinesOf(Compact, u) = Read(u.lines)
  BY ReadLines
<1>8. LinesOf(Compact, u) = Append(kept, new)
  <2>1. Read(keptLines) = kept
    BY <1>6, <1>7
  <2> HIDE DEF u, keptLines, kept, new, old
  <2>2. Read(Append(keptLines, stored)) = Append(Read(keptLines), new)
    BY <1>6, ReadAppended DEF new
  <2> QED
    BY <1>5, <1>7, <2>1, <2>2
<1>9. new \in LineType
  <2>1. /\ new.cells \in Seq(CellType) /\ new = [cells |-> new.cells, wrapped |-> stored.wrapped]
    BY CompactReads
  <2>2. stored.wrapped \in BOOLEAN
    BY CompactFields
  <2> HIDE DEF new
  <2> QED
    BY <2>1, <2>2 DEF LineType
<1>10. ShownLine(t, new) = ShownLine(t, line)
  BY <1>2, <1>3 DEF ShowsAs
<1>11. KnownLine(t, new)
  BY <1>3 DEF AddsCode, KnownLine
<1>12. old \in Seq(LineType) /\ Len(old) = Len(h.lines)
  BY <1>1, LinesByKind
<1>13. kept \in Seq(LineType) /\ KnownLines(t, kept)
  <2>1. CASE Full(h)
    <3>1. old # <<>>
      BY <1>4, <1>12, <2>1 DEF Full
    <3> HIDE DEF old
    <3>2. Tail(old) \in Seq(LineType) /\ KnownLines(t, Tail(old))
      BY <1>1, <1>12, <3>1, TailIs, KnownTail
    <3> QED
      BY <2>1, <3>2
  <2>2. CASE ~Full(h)
    BY <1>1, <1>12, <2>2
  <2> QED
    BY <2>1, <2>2
<1> HIDE DEF u, old, kept, keptLines, new
<1>14. KnownLines(t, LinesOf(Compact, u))
  BY <1>8, <1>9, <1>11, <1>13, KnownAppended
<1>15. Len(u.lines) <= u.max + 1
  <2>1. Len(Append(keptLines, stored)) = Len(keptLines) + 1 /\ Len(keptLines) \in Nat
    BY <1>6
  <2> QED
    BY <1>4, <1>5, <1>6, <2>1
<1>16. HistoryOK(Compact, u, FALSE, t)
  BY <1>5, <1>14, <1>15 DEF HistoryOK, File, Compact, None
<1>17. Recorded(Compact, u, h, line, t)
  <2>1. LinesOf(Compact, u) = Append(IF Full(h) THEN Tail(LinesOf(Compact, h)) ELSE LinesOf(Compact, h), new)
    BY <1>8 DEF kept, old
  <2>2. Compact # None
    BY DEF Compact, None
  <2> QED
    BY <1>9, <1>10, <2>1, <2>2 DEF Recorded
<1> QED
  BY <1>5, <1>16, <1>17 DEF u

LEMMA RecordedNone ==
  ASSUME NEW h, NEW d, NEW t, HistoryOK(None, h, d, t)
  PROVE  HistoryOK(None, h, FALSE, t) /\ LinesOf(None, h) = <<>>
BY LinesByKind DEF HistoryOK, File, Compact, None

(* addHistLine of the line that leaves the screen, for every kind.         *)
LEMMA RecordedIs ==
  ASSUME NEW k, NEW h, NEW d, NEW t, HistoryOK(k, h, d, t),
         NEW line \in LineType, Len(line.cells) <= Columns, KnownLine(t, line),
         NEW failed, k # File => failed = {}
  PROVE  LET u == WithRecordedIn(k, h, line, failed)
             e == d \/ failed # {}
         IN  /\ HistoryOK(k, u, e, t)
             /\ k = Compact => u.max = h.max
             /\ ~e => Recorded(k, u, h, line, t)
<1> DEFINE u == WithRecordedIn(k, h, line, failed)
           e == d \/ failed # {}
<1>1. CASE k = None
  <2>1. u = h /\ e = d /\ k # Compact /\ k # File /\ d = FALSE
    BY <1>1 DEF WithRecordedIn, HistoryOK, None, File, Compact
  <2>2. LinesOf(None, h) = <<>>
    BY LinesByKind
  <2>3. Recorded(k, u, h, line, t)
    BY <1>1, <2>1, <2>2 DEF Recorded
  <2> QED
    BY <2>1, <2>3
<1>2. CASE k = File
  <2>1. u = WithLine(h, line.cells, line.wrapped, failed)
    BY <1>2 DEF WithRecordedIn, None, File, Compact
  <2> DEFINE w == WithLine(h, line.cells, line.wrapped, failed)
  <2>5. HistoryOK(File, h, d, t)
    BY <1>2
  <2>6. /\ HistoryOK(File, w, d \/ failed # {}, t)
        /\ ~(d \/ failed # {}) => LinesOf(File, w) = Append(LinesOf(File, h), line)
    BY <2>5, RecordedFile
  <2>2. /\ HistoryOK(File, u, e, t)
        /\ ~e => LinesOf(File, u) = Append(LinesOf(File, h), line)
    BY <2>1, <2>6
  <2>3. File # Compact /\ File # None
    BY DEF None, File, Compact
  <2> HIDE DEF u, e
  <2>4. ~e => Recorded(k, u, h, line, t)
    BY <1>2, <2>2, <2>3 DEF Recorded
  <2> QED
    BY <1>2, <2>2, <2>3, <2>4 DEF u, e
<1>3. CASE k = Compact
  <2>1. u = WithCompactLine(h, line.cells, line.wrapped)
    BY <1>3 DEF WithRecordedIn, None, File, Compact
  <2>2. e = FALSE
    BY <1>3 DEF HistoryOK, None, File, Compact
  <2>3. HistoryOK(Compact, u, FALSE, t) /\ u.max = h.max /\ Recorded(Compact, u, h, line, t)
    BY <1>3, <2>1, RecordedCompact
  <2> HIDE DEF u, e
  <2> QED
    BY <1>3, <2>2, <2>3 DEF u, e
<1> QED
  BY <1>1, <1>2, <1>3 DEF HistoryOK

LEMMA TopRow ==
  ASSUME RowsInv
  PROVE  /\ rows[1] \in LineType /\ Len(rows[1].cells) <= Columns /\ KnownLine(table, rows[1])
         /\ ShownLine(table, rows[1]) = [cells |-> typed[1], wrapped |-> rows[1].wrapped]
<1>1. 1 \in 1 .. Height
  BY ScrollbackAssumption
<1>2. RowOK(table, rows[1].cells, typed[1]) /\ rows[1] \in LineType
  BY <1>1 DEF RowsInv, RowType, LineType
<1>3. [i \in DOMAIN rows[1].cells |-> Shown(table, rows[1].cells[i])] = typed[1]
  BY <1>1, RowsSay DEF RowsShowTyped
<1> QED
  BY <1>2, <1>3 DEF RowOK, KnownLine, ShownLine

LEMMA TopRowLeaves ==
  ASSUME RowsInv, HistoryInv, NEW failed \in FailingWrites
  PROVE  LET u == WithRecorded(rows[1], failed)
             e == damaged \/ failed # {}
         IN  /\ HistoryOK(kind, u, e, table)
             /\ kind = Compact => u.max = history.max
             /\ ~e => Recorded(kind, u, history, rows[1], table)
<1>1. WithRecorded(rows[1], failed) = WithRecordedIn(kind, history, rows[1], failed)
  BY DEF WithRecorded, WithRecordedIn
<1>2. kind # File => failed = {}
  BY DEF FailingWrites
<1>3. HistoryOK(kind, history, damaged, table)
  BY DEF HistoryInv
<1> QED
  BY <1>1, <1>2, <1>3, TopRow, RecordedIs

LEMMA HistoryExtends ==
  ASSUME NEW k, NEW h, NEW d, NEW t, HistoryOK(k, h, d, t), NEW u, Extends(u, t)
  PROVE  HistoryOK(k, h, d, u)
<1>1. KnownLines(t, LinesOf(k, h)) => KnownLines(u, LinesOf(k, h))
  BY DEF KnownLines, KnownLine, Known, Extends
<1> QED
  BY <1>1 DEF HistoryOK

LEMMA HistoryBecomes ==
  ASSUME HistoryOK(kind', history', damaged', table'), type' \in Sizes \cup {0}
  PROVE  HistoryInv'
BY DEF HistoryInv

LEMMA HistoryStays ==
  ASSUME HistoryInv, UNCHANGED <<table, kind, type, history, damaged>>
  PROVE  HistoryInv'
BY DEF HistoryInv

(* A row that leaves the screen, with or without a mark on the bottom row. *)
LEMMA LineLeaves ==
  ASSUME RowsInv, HistoryInv, NEW failed \in FailingWrites,
         history' = WithRecorded(rows[1], failed), damaged' = (damaged \/ failed # {}),
         table' = table, kind' = kind, type' = type
  PROVE  HistoryInv'
<1>1. HistoryOK(kind, history', damaged', table)
  BY TopRowLeaves
<1>2. type \in Sizes \cup {0}
  BY DEF HistoryInv
<1> QED
  BY <1>1, <1>2, HistoryBecomes

LEMMA MarkedTop ==
  ASSUME RowsInv
  PROVE  [rows EXCEPT ![Bottom].wrapped = TRUE][1] = rows[1]
<1>1. Bottom # 1 /\ 1 \in 1 .. Height
  BY ScrollbackAssumption DEF Bottom
<1> QED
  BY <1>1 DEF RowsInv

(* A history of another size or kind.                                      *)
LEMMA NoneIs ==
  ASSUME NEW t, NEW h
  PROVE  HistoryOK(None, h, FALSE, t) /\ LinesOf(None, h) = <<>>
<1>1. LinesOf(None, h) = <<>>
  BY LinesByKind
<1>2. KnownLines(t, <<>>)
  BY DEF KnownLines
<1> QED
  BY <1>1, <1>2 DEF HistoryOK, None, File, Compact

LEMMA CompactIs ==
  ASSUME NEW t, NEW max \in Nat
  PROVE  HistoryOK(Compact, NewCompact(max), FALSE, t) /\ LinesOf(Compact, NewCompact(max)) = <<>>
<1> DEFINE h == NewCompact(max)
<1>1. h \in Compacts /\ h.lines = <<>> /\ h.max = max
  BY NewCompactIs DEF NewCompact
<1>2. LinesOf(Compact, h) = <<>>
  <2>1. LinesOf(Compact, h) = Read(<<>>)
    BY <1>1, ReadLines
  <2>2. <<>> \in Seq(CompactLines)
    OBVIOUS
  <2>3. Read(<<>>) \in Seq(LineType) /\ Len(Read(<<>>)) = Len(<<>>)
    BY <2>2, ReadIs
  <2>4. Len(<<>>) = 0
    OBVIOUS
  <2>5. Read(<<>>) = <<>>
    BY <2>3, <2>4
  <2> QED
    BY <2>1, <2>5
<1>3. KnownLines(t, <<>>) /\ Len(<<>>) = 0
  BY DEF KnownLines
<1> HIDE DEF h
<1>4. Len(h.lines) <= h.max + 1
  BY <1>1, <1>3
<1>5. HistoryOK(Compact, h, FALSE, t)
  BY <1>1, <1>2, <1>3, <1>4 DEF HistoryOK, None, File, Compact
<1> QED
  BY <1>2, <1>5 DEF h

LEMMA FileIs ==
  ASSUME NEW t, NEW lines \in Seq(LineType), NEW d \in BOOLEAN, ~d => KnownLines(t, lines)
  PROVE  HistoryOK(File, ScrollOf(lines), d, t) /\ LinesOf(File, ScrollOf(lines)) = lines
<1>1. Stores(ScrollOf(lines), lines)
  BY ScrollOfIs
<1>2. ScrollOf(lines) \in Scrolls /\ Whole(ScrollOf(lines)) /\ LinesOf(File, ScrollOf(lines)) = lines
  BY <1>1, LinesByKind DEF Stores
<1> QED
  BY <1>2 DEF HistoryOK, None, File, Compact

(* A file that was read, whatever was mapped for it.                       *)
LEMMA FileRead ==
  ASSUME NEW h, NEW d, NEW t, HistoryOK(File, h, d, t), NEW line, NEW flushed \in BOOLEAN
  PROVE  /\ HistoryOK(File, LineRead(h, line, flushed), d, t)
         /\ LinesOf(File, LineRead(h, line, flushed)) = LinesOf(File, h)
<1> DEFINE u == LineRead(h, line, flushed)
<1>1. h \in Scrolls /\ (~d => Whole(h)) /\ d \in BOOLEAN /\ (~d => KnownLines(t, LinesOf(File, h)))
  BY DEF HistoryOK
<1>2. u \in Scrolls /\ SameData(u, h)
  BY <1>1, LineReadIs
<1> HIDE DEF u
<1>3. GetLines(u) = GetLines(h) /\ Whole(u) = Whole(h) /\ \A y : LineOf(u, y) = LineOf(h, y)
  BY <1>2, SameDataSame
<1>4. FileLines(u) = FileLines(h)
  BY <1>3 DEF FileLines
<1>5. LinesOf(File, u) = LinesOf(File, h)
  BY <1>1, <1>2, <1>4, LinesByKind
<1>6. HistoryOK(File, u, d, t)
  BY <1>1, <1>2, <1>3, <1>5 DEF HistoryOK, None, File, Compact
<1> QED
  BY <1>5, <1>6 DEF u

LEMMA TrimmedLines ==
  ASSUME NEW h, NEW d, NEW t, HistoryOK(Compact, h, d, t), NEW max \in Nat
  PROVE  /\ HistoryOK(Compact, Trimmed(h, max), FALSE, t) /\ Trimmed(h, max).max = max
         /\ LinesOf(Compact, Trimmed(h, max)) = Without(LinesOf(Compact, h), Excess(h, max))
         /\ Excess(h, max) \in 0 .. Len(LinesOf(Compact, h))
<1> DEFINE u == Trimmed(h, max)
           old == LinesOf(Compact, h)
           e == Excess(h, max)
<1>1. h \in Compacts /\ ~d /\ KnownLines(t, old)
  BY DEF HistoryOK, File, Compact, None
<1>2. u \in Compacts /\ u.max = max /\ e \in 0 .. Len(h.lines) /\ u.lines = Without(h.lines, e)
      /\ Len(u.lines) <= max
  BY <1>1, TrimmedIs
<1>3. h.lines \in Seq(CompactLines)
  BY <1>1, HistoryFields
<1>4. old \in Seq(LineType) /\ Len(old) = Len(h.lines)
      /\ old = [i \in 1 .. Len(h.lines) |-> CompactLineAt(h.lines[i])]
  BY <1>3, ReadIs, ReadLines
<1> DEFINE n == Len(h.lines)
<1>5. n \in Nat
  BY <1>3
<1>6. u.lines \in Seq(CompactLines) /\ u.lines = [i \in 1 .. n - e |-> h.lines[i + e]]
  BY <1>2, HistoryFields DEF Without
<1>7. LinesOf(Compact, u) = [i \in 1 .. Len(u.lines) |-> CompactLineAt(u.lines[i])]
  BY <1>6, ReadIs, ReadLines
<1> HIDE DEF u, old, e, n
<1>8. e \in 0 .. n /\ Len(old) = n /\ old = [i \in 1 .. n |-> CompactLineAt(h.lines[i])]
  BY <1>2, <1>4 DEF n
<1>9. Len(u.lines) = n - e
  <2>1. n - e \in Nat
    BY <1>5, <1>8
  <2> QED
    BY <1>6, <2>1
<1>10. \A i \in 1 .. n - e : i + e \in 1 .. n /\ CompactLineAt(u.lines[i]) = old[i + e]
  <2>1. \A i \in 1 .. n - e : i + e \in 1 .. n
    BY <1>5, <1>8
  <2> QED
    BY <1>6, <1>8, <2>1
<1>11. LinesOf(Compact, u) = [i \in 1 .. n - e |-> old[i + e]]
  BY <1>7, <1>9, <1>10
<1>12. LinesOf(Compact, u) = Without(old, e)
  BY <1>8, <1>11 DEF Without
<1>13. KnownLines(t, LinesOf(Compact, u))
  <2>1. Len(LinesOf(Compact, u)) = n - e
    <3>1. n - e \in Nat
      BY <1>5, <1>8
    <3> QED
      BY <1>11, <3>1
  <2>2. \A i \in 1 .. n : KnownLine(t, old[i])
    BY <1>1, <1>8 DEF KnownLines
  <2> QED
    BY <1>10, <1>11, <2>1, <2>2 DEF KnownLines
<1>14. Len(u.lines) <= u.max + 1
  BY <1>2, <1>5, <1>8, <1>9
<1>15. HistoryOK(Compact, u, FALSE, t)
  BY <1>2, <1>13, <1>14 DEF HistoryOK, File, Compact, None
<1> QED
  BY <1>2, <1>8, <1>12, <1>15 DEF u, old, e

LEMMA HistoryStart ==
  ASSUME Init
  PROVE  HistoryInv
<1>1. kind = None /\ type = 0 /\ damaged = FALSE
  BY DEF Init
<1>2. HistoryOK(None, history, FALSE, table)
  BY NoneIs
<1> QED
  BY <1>1, <1>2 DEF HistoryInv

LEMMA SetNoneKeeps ==
  ASSUME HistoryInv, CreatedNone, KeepsRows
  PROVE  HistoryInv'
<1>1. kind' = None /\ type' = 0 /\ damaged' = FALSE
  BY DEF CreatedNone
<1>2. HistoryOK(None, history', FALSE, table')
  BY NoneIs
<1> QED
  BY <1>1, <1>2, HistoryBecomes

LEMMA SetFileKeeps ==
  ASSUME HistoryInv, SetHistoryFile
  PROVE  /\ HistoryInv' /\ kind' = File /\ damaged' = damaged
         /\ ~damaged => LinesOf(File, history') = LinesOf(kind, history)
<1>1. kind' = File /\ type' = 0 /\ history' = ScrollOf(Lines) /\ damaged' = damaged /\ table' = table
  BY DEF SetHistoryFile, CreatedFile, KeepsRows
<1>2. HistoryOK(kind, history, damaged, table)
  BY DEF HistoryInv
<1>3. Lines \in Seq(LineType) /\ damaged \in BOOLEAN /\ (~damaged => KnownLines(table, Lines))
  BY <1>2, LinesSame, LinesTyped DEF HistoryOK
<1>4. HistoryOK(File, ScrollOf(Lines), damaged, table) /\ LinesOf(File, ScrollOf(Lines)) = Lines
  BY <1>3, FileIs
<1> QED
  BY <1>1, <1>4, LinesSame, HistoryBecomes

LEMMA SizesAreNat ==
  Sizes \cup {0} \subseteq Nat
BY ScrollbackAssumption

LEMMA CreateCompactKeeps ==
  ASSUME HistoryInv, NEW n \in Sizes \cup {0}, CreatedCompact(n), KeepsRows
  PROVE  HistoryInv'
<1>1. kind' = Compact /\ type' = n /\ history' = NewCompact(n) /\ damaged' = FALSE /\ table' = table
  BY DEF CreatedCompact, KeepsRows
<1>2. HistoryOK(Compact, NewCompact(n), FALSE, table)
  BY CompactIs, SizesAreNat
<1> QED
  BY <1>1, <1>2, HistoryBecomes

LEMMA SetCompactKeeps ==
  ASSUME HistoryInv, NEW n \in Sizes, SetHistoryCompact(n)
  PROVE  HistoryInv'
<1>1. CASE kind = Compact
  <2>1. history' = Trimmed(history, n) /\ kind' = kind /\ type' = type /\ damaged' = damaged /\ table' = table
    BY <1>1 DEF SetHistoryCompact, KeepsRows
  <2>2. HistoryOK(Compact, history, damaged, table) /\ type \in Sizes \cup {0}
    BY <1>1 DEF HistoryInv
  <2>3. HistoryOK(Compact, Trimmed(history, n), FALSE, table)
    BY <2>2, TrimmedLines, SizesAreNat
  <2>4. damaged = FALSE
    BY <2>2 DEF HistoryOK, File, Compact, None
  <2> QED
    BY <1>1, <2>1, <2>2, <2>3, <2>4, HistoryBecomes
<1>2. CASE kind # Compact
  <2>1. CreatedCompact(n) /\ KeepsRows
    BY <1>2 DEF SetHistoryCompact
  <2> QED
    BY <2>1, CreateCompactKeeps
<1> QED
  BY <1>1, <1>2

LEMMA ClearKeeps ==
  ASSUME HistoryInv, ClearHistory
  PROVE  HistoryInv'
<1>1. KeepsRows
  BY DEF ClearHistory
<1>2. CASE kind = None /\ CreatedNone
  BY <1>1, <1>2, SetNoneKeeps
<1>3. CASE kind = File /\ CreatedFile(<<>>) /\ damaged' = FALSE
  <2>1. kind' = File /\ type' = 0 /\ history' = ScrollOf(<<>>) /\ damaged' = FALSE /\ table' = table
    BY <1>1, <1>3 DEF CreatedFile, KeepsRows
  <2>2. <<>> \in Seq(LineType) /\ KnownLines(table, <<>>)
    BY DEF KnownLines
  <2>3. HistoryOK(File, ScrollOf(<<>>), FALSE, table)
    BY <2>2, FileIs
  <2> QED
    BY <2>1, <2>3, HistoryBecomes
<1>4. CASE kind = Compact /\ CreatedCompact(type)
  BY <1>1, <1>4, CreateCompactKeeps DEF HistoryInv
<1> QED
  BY <1>2, <1>3, <1>4 DEF ClearHistory

LEMMA ReadKeeps ==
  ASSUME HistoryInv, NEW line, NEW flushed \in BOOLEAN, ReadLine(line, flushed)
  PROVE  HistoryInv' /\ LinesOf(kind', history') = LinesOf(kind, history)
<1>1. /\ kind = File /\ history' = LineRead(history, line, flushed)
      /\ kind' = kind /\ type' = type /\ damaged' = damaged /\ table' = table
  BY DEF ReadLine, KeepsRows
<1>2. HistoryOK(File, history, damaged, table) /\ type \in Sizes \cup {0}
  BY <1>1 DEF HistoryInv
<1>3. /\ HistoryOK(File, LineRead(history, line, flushed), damaged, table)
      /\ LinesOf(File, LineRead(history, line, flushed)) = LinesOf(File, history)
  BY <1>2, FileRead
<1> QED
  BY <1>1, <1>2, <1>3, HistoryBecomes

LEMMA HistoryKept ==
  ASSUME RowsInv, HistoryInv, [Next]_vars
  PROVE  HistoryInv'
<1>1. ASSUME NEW c \in Codes, NEW f \in Pens, Put(c, f)
      PROVE  HistoryInv'
  BY <1>1, HistoryStays DEF Put, KeepsHistory
<1>2. ASSUME NEW c \in Codes, NEW f \in Pens, NEW failed \in FailingWrites, PutWrapping(c, f, failed)
      PROVE  HistoryInv'
  <2>1. history' = WithRecorded(rows[1], failed)
    BY <1>2, MarkedTop DEF PutWrapping
  <2> QED
    BY <1>2, <2>1, LineLeaves DEF PutWrapping
<1>3. ASSUME NEW m \in Marks, Combine(m)
      PROVE  HistoryInv'
  <2>1. KeepsHistory
    BY <1>3 DEF Combine
  <2>2. Extends(table', table)
    BY <1>3, CombineKeepsRows
  <2>3. HistoryOK(kind, history, damaged, table') /\ type \in Sizes \cup {0}
    BY <2>2, HistoryExtends DEF HistoryInv
  <2> QED
    BY <2>1, <2>3, HistoryBecomes DEF KeepsHistory
<1>4. CASE CarriageReturn
  BY <1>4, HistoryStays DEF CarriageReturn, KeepsHistory
<1>5. ASSUME NEW failed \in FailingWrites, NextLine(failed)
      PROVE  HistoryInv'
  BY <1>5, LineLeaves DEF NextLine, Feeds
<1>6. ASSUME NEW f \in Pens, ClearToBeginOfLine(f)
      PROVE  HistoryInv'
  <2>1. UNCHANGED <<table, kind, type, history, damaged>>
    BY <1>6 DEF ClearToBeginOfLine, KeepsHistory
  <2> QED
    BY <2>1, HistoryStays
<1>7. ASSUME NEW line, NEW flushed \in BOOLEAN, ReadLine(line, flushed)
      PROVE  HistoryInv'
  BY <1>7, ReadKeeps
<1>8. CASE SetHistoryNone
  BY <1>8, SetNoneKeeps DEF SetHistoryNone
<1>9. CASE SetHistoryFile
  BY <1>9, SetFileKeeps
<1>10. ASSUME NEW n \in Sizes, SetHistoryCompact(n)
       PROVE  HistoryInv'
  BY <1>10, SetCompactKeeps
<1>11. CASE ClearHistory
  BY <1>11, ClearKeeps
<1>12. CASE UNCHANGED vars
  BY <1>12, HistoryStays DEF vars
<1> QED
  BY <1>1, <1>2, <1>3, <1>4, <1>5, <1>6, <1>7, <1>8, <1>9, <1>10, <1>11, <1>12 DEF Next

LEMMA TypesSay ==
  ASSUME RowsInv, HistoryInv
  PROVE  TypeOK
<1>1. HistoryOK(kind, history, damaged, table) /\ type \in Sizes \cup {0}
  BY DEF HistoryInv
<1>2. kind \in {None, File, Compact} /\ damaged \in BOOLEAN
  BY <1>1 DEF HistoryOK
<1>3. Lines \in Seq(LineType)
  BY <1>1, LinesSame, LinesTyped
<1>4. \A i \in DOMAIN Lines : Lines[i].cells \in Seq(CellType)
  <2>1. \A line \in LineType : line.cells \in Seq(CellType)
    BY DEF LineType
  <2>2. \A i \in DOMAIN Lines : Lines[i] \in LineType
    BY <1>3
  <2> QED
    BY <2>1, <2>2
<1>5. \A y \in 1 .. Height : Len(rows[y].cells) <= Columns
  BY DEF RowsInv, RowOK
<1>6. \A h \in DOMAIN table : h \in Nat /\ table[h] \in Seq(Nat) /\ Len(table[h]) \in {2, 3}
  BY DEF RowsInv, TableOK
<1> QED
  BY <1>1, <1>2, <1>4, <1>5, <1>6 DEF RowsInv, RowType, TypeOK

LEMMA BlocksSay ==
  ASSUME HistoryInv
  PROVE  BlocksAccounted
<1> SUFFICES ASSUME kind = Compact PROVE Accounted(history)
  BY DEF BlocksAccounted
<1> DEFINE lines == history.lines
           blocks == history.blocks
           live == Live(lines)
<1>1. history \in Compacts
  BY DEF HistoryInv, HistoryOK
<1>2. lines \in Seq(CompactLines) /\ blocks \in Seq(BlockType) /\ Counted(blocks, live)
  BY <1>1, HistoryFields
<1>3. DOMAIN blocks = 1 .. Len(blocks) /\ DOMAIN lines = 1 .. Len(lines)
      /\ (\A i \in 1 .. Len(blocks) : blocks[i].id \in Nat)
      /\ \A i \in 1 .. Len(lines) : lines[i] \in CompactLines
  <2>1. \A block \in BlockType : block.id \in Nat
    BY DEF BlockType
  <2>2. \A i \in 1 .. Len(blocks) : blocks[i] \in BlockType
    BY <1>2
  <2>3. DOMAIN blocks = 1 .. Len(blocks) /\ DOMAIN lines = 1 .. Len(lines)
        /\ \A i \in 1 .. Len(lines) : lines[i] \in CompactLines
    BY <1>2
  <2> QED
    BY <2>1, <2>2, <2>3
<1>4. \A id \in Nat : live[id] = LivePartsIn(lines, id)
  BY DEF Live
<1> HIDE DEF live
<1>5. \A i, j \in DOMAIN blocks : blocks[i].id = blocks[j].id => i = j
  BY <1>2, <1>3 DEF Counted
<1>6. \A i \in DOMAIN blocks : /\ blocks[i].count = Cardinality(LivePartsIn(lines, blocks[i].id))
                               /\ blocks[i].count > 0 /\ blocks[i].used <= BlockLength
  BY <1>2, <1>3, <1>4 DEF Counted, Counts
<1>7. ASSUME NEW i \in DOMAIN lines, NEW k \in DOMAIN lines[i].parts
      PROVE  \E j \in DOMAIN blocks : blocks[j].id = lines[i].parts[k]
  <2> DEFINE id == lines[i].parts[k]
  <2>1. lines[i].parts \in Seq(Nat) /\ DOMAIN lines[i].parts \subseteq 1 .. 3 /\ i \in 1 .. Len(lines)
    BY <1>3, CompactFields
  <2>2. id \in Nat /\ k \in 1 .. 3
    BY <2>1
  <2>3. IsPart(<<i, k>>, i, lines[i].parts, id)
    BY <2>2 DEF IsPart
  <2> HIDE DEF id
  <2>4. <<i, k>> \in live[id]
    BY <1>2, <2>1, <2>2, <2>3, LiveIs DEF live
  <2>5. Exists(blocks, id)
    BY <1>2, <2>2, <2>4 DEF Counted
  <2> QED
    BY <1>3, <2>5 DEF Exists, id
<1> QED
  BY <1>5, <1>6, <1>7 DEF Accounted

LEMMA ReadsSay ==
  ASSUME HistoryInv
  PROVE  ReadsInside
<1> SUFFICES ASSUME kind = File
             PROVE  /\ \A f \in Files : history[f].map \in {NotMapped, Len(history[f].data)}
                    /\ GetsValid(history)
  BY DEF ReadsInside
<1>1. history \in Scrolls
  BY DEF HistoryInv, HistoryOK
<1>2. /\ history["index"] \in FileType(Nat) /\ history["cells"] \in FileType(CellType)
      /\ history["flags"] \in FileType(BOOLEAN)
  BY <1>1, ScrollFields
<1>3. \A f \in Files : history[f].map \in {NotMapped, Len(history[f].data)}
  BY <1>2 DEF Files, FileType
<1>4. GetsValid(history)
  BY <1>1, LineAtIs DEF GetsValid
<1> QED
  BY <1>3, <1>4

(* Whatever is written, recorded, read, trimmed or copied, for screens and *)
(* blocks of any size: the blocks of a compact history count exactly the   *)
(* parts that live in them, and a history file is read inside the file and *)
(* the map of it, after any failed writes.                                 *)
THEOREM StorageSound == Spec => []StorageInv
<1> DEFINE IInv == RowsInv /\ HistoryInv
<1>1. Init => IInv
  BY RowsStart, HistoryStart
<1>2. IInv /\ [Next]_vars => IInv'
  BY RowsKept, HistoryKept
<1>3. IInv => StorageInv
  BY TypesSay, BlocksSay, ReadsSay DEF StorageInv
<1> QED
  BY <1>1, <1>2, <1>3, PTL DEF Spec

-----------------------------------------------------------------------------
(* What a reader is shown of the history, and how much it holds.           *)
ShownLines(t, lines) == [i \in DOMAIN lines |-> ShownLine(t, lines[i])]
Held(k, h, d, t) == IF d THEN <<>> ELSE ShownLines(t, LinesOf(k, h))
Room(k, h) == CASE k = None -> 0 [] k = File -> -1 [] k = Compact -> h.max + 1
Page == [cells |-> typed[1], wrapped |-> rows[1].wrapped]
ShownOnes(t) == {ShownLine(t, line) : line \in LineType}

LEMMA ShownIs ==
  ASSUME NEW t, NEW lines \in Seq(LineType)
  PROVE  /\ ShownLines(t, lines) \in Seq(ShownOnes(t)) /\ Len(ShownLines(t, lines)) = Len(lines)
         /\ ShownLines(t, lines) = [i \in 1 .. Len(lines) |-> ShownLine(t, lines[i])]
<1> DEFINE n == Len(lines)
<1>1. n \in Nat /\ DOMAIN lines = 1 .. n /\ \A i \in 1 .. n : lines[i] \in LineType
  OBVIOUS
<1>2. \A line \in LineType : ShownLine(t, line) \in ShownOnes(t)
  BY DEF ShownOnes
<1> HIDE DEF n
<1>3. ShownLines(t, lines) = [i \in 1 .. n |-> ShownLine(t, lines[i])]
  BY <1>1 DEF ShownLines
<1>4. ShownLines(t, lines) \in [1 .. n -> ShownOnes(t)]
  BY <1>1, <1>2, <1>3
<1>5. ShownLines(t, lines) \in Seq(ShownOnes(t)) /\ Len(ShownLines(t, lines)) = n
  BY <1>1, <1>4
<1> QED
  BY <1>3, <1>5 DEF n

LEMMA ShownAppended ==
  ASSUME NEW t, NEW lines \in Seq(LineType), NEW line \in LineType
  PROVE  ShownLines(t, Append(lines, line)) = Append(ShownLines(t, lines), ShownLine(t, line))
<1> DEFINE n == Len(lines)
           s == Append(lines, line)
           r == ShownLines(t, lines)
           e == ShownLine(t, line)
<1>1. n \in Nat /\ s \in Seq(LineType) /\ Len(s) = n + 1
  OBVIOUS
<1>2. Gets(lines, line, LineType)
  BY DEF Gets
<1>3. s = [i \in 1 .. n + 1 |-> IF i <= n THEN lines[i] ELSE line]
  BY <1>2, AppendIs DEF Appended
<1>4. ShownLines(t, s) = [i \in 1 .. Len(s) |-> ShownLine(t, s[i])]
  BY <1>1, ShownIs
<1>5. r \in Seq(ShownOnes(t)) /\ Len(r) = n /\ r = [i \in 1 .. n |-> ShownLine(t, lines[i])]
  BY ShownIs
<1>6. e \in ShownOnes(t) /\ e = ShownLine(t, line)
  BY DEF ShownOnes
<1>7. Gets(r, e, ShownOnes(t))
  BY <1>5, <1>6 DEF Gets
<1>8. Append(r, e) = [i \in 1 .. Len(r) + 1 |-> IF i <= Len(r) THEN r[i] ELSE e]
  BY <1>7, AppendIs DEF Appended
<1>9. \A i \in 1 .. n + 1 : (i <= n => i \in 1 .. n /\ s[i] = lines[i]) /\ (~(i <= n) => s[i] = line)
  BY <1>1, <1>3
<1> HIDE DEF n, s, r, e
<1>10. \A i \in 1 .. n + 1 : ShownLine(t, s[i]) = IF i <= n THEN r[i] ELSE e
  BY <1>5, <1>6, <1>9
<1> QED
  BY <1>1, <1>4, <1>5, <1>8, <1>10 DEF s, r, e

LEMMA ShownWithout ==
  ASSUME NEW t, NEW lines \in Seq(LineType), NEW e \in 0 .. Len(lines)
  PROVE  ShownLines(t, Without(lines, e)) = Without(ShownLines(t, lines), e)
<1> DEFINE n == Len(lines)
           w == Without(lines, e)
           r == ShownLines(t, lines)
<1>1. n \in Nat /\ n - e \in Nat /\ \A i \in 1 .. n : lines[i] \in LineType
  OBVIOUS
<1>2. r \in Seq(ShownOnes(t)) /\ Len(r) = n /\ r = [i \in 1 .. n |-> ShownLine(t, lines[i])]
  BY ShownIs
<1>3. w = [i \in 1 .. n - e |-> lines[i + e]]
  BY DEF Without
<1>4. e \in 0 .. n
  OBVIOUS
<1> HIDE DEF n, w, r
<1>5. \A i \in 1 .. n - e : i + e \in 1 .. n
  BY <1>1, <1>4
<1>6. DOMAIN w = 1 .. n - e
  BY <1>3
<1>7. ShownLines(t, w) = [i \in 1 .. n - e |-> ShownLine(t, w[i])]
  BY <1>6 DEF ShownLines
<1>8. \A i \in 1 .. n - e : ShownLine(t, w[i]) = r[i + e]
  BY <1>2, <1>3, <1>5
<1>9. Without(r, e) = [i \in 1 .. n - e |-> r[i + e]]
  BY <1>2 DEF Without
<1> QED
  BY <1>7, <1>8, <1>9 DEF w, r

LEMMA ShownExtends ==
  ASSUME NEW t, NEW lines, KnownLines(t, lines), lines \in Seq(LineType), NEW u, Extends(u, t)
  PROVE  ShownLines(u, lines) = ShownLines(t, lines)
<1>1. ASSUME NEW line \in LineType, KnownLine(t, line)
      PROVE  ShownLine(u, line) = ShownLine(t, line)
  <2>1. DOMAIN line.cells = 1 .. Len(line.cells)
    BY DEF LineType
  <2>2. \A i \in 1 .. Len(line.cells) : Shown(u, line.cells[i]) = Shown(t, line.cells[i])
    BY <1>1 DEF KnownLine, Known, Extends, Shown, Lookup
  <2> QED
    BY <2>1, <2>2 DEF ShownLine
<1>2. DOMAIN lines = 1 .. Len(lines) /\ \A i \in 1 .. Len(lines) : lines[i] \in LineType
  OBVIOUS
<1>3. \A i \in DOMAIN lines : ShownLine(u, lines[i]) = ShownLine(t, lines[i])
  BY <1>1, <1>2 DEF KnownLines
<1> QED
  BY <1>3 DEF ShownLines

LEMMA LastAll ==
  ASSUME NEW s, NEW n, n = -1 \/ n >= Len(s)
  PROVE  Store!LastOf(s, n) = s
BY DEF Store!LastOf, Store!Unlimited

LEMMA LastWithout ==
  ASSUME NEW T, NEW s \in Seq(T), NEW e \in 0 .. Len(s)
  PROVE  Without(s, e) = Store!LastOf(s, Len(s) - e)
<1> DEFINE n == Len(s)
<1>1. n \in Nat /\ e \in Nat /\ e <= n /\ s = [i \in 1 .. n |-> s[i]]
  OBVIOUS
<1>2. CASE e = 0
  <2>1. Store!LastOf(s, n - e) = s
    BY <1>1, <1>2, LastAll
  <2>2. Without(s, e) = [i \in 1 .. n |-> s[i]]
    BY <1>1, <1>2 DEF Without
  <2> QED
    BY <1>1, <2>1, <2>2
<1>3. CASE e # 0
  <2>1. ~(n - e = -1 \/ n - e >= n) /\ n - (n - e) + 1 = e + 1
    BY <1>1, <1>3
  <2>2. Store!LastOf(s, n - e) = SubSeq(s, e + 1, n)
    BY <2>1 DEF Store!LastOf, Store!Unlimited
  <2>3. SubSeq(s, e + 1, n) = [i \in 1 .. n - e |-> s[i + e]]
    BY <1>1
  <2> QED
    BY <2>2, <2>3 DEF Without
<1> QED
  BY <1>2, <1>3

LEMMA LastButFirst ==
  ASSUME NEW T, NEW s \in Seq(T), NEW n \in Nat, Len(s) = n + 1
  PROVE  Store!LastOf(s, n) = Tail(s)
<1>1. 1 \in 0 .. Len(s) /\ Len(s) - 1 = n /\ s # <<>>
  OBVIOUS
<1>2. Without(s, 1) = Store!LastOf(s, n)
  BY <1>1, LastWithout
<1>3. Tail(s) = [i \in 1 .. Len(s) - 1 |-> s[i + 1]]
  BY <1>1, TailIs
<1> QED
  BY <1>2, <1>3 DEF Without

(* The steps of the store, in the terms of the history.                    *)
LEMMA HeldSame ==
  /\ (IF damaged THEN <<>> ELSE [i \in DOMAIN Lines |-> ShownLine(table, Lines[i])])
       = Held(kind, history, damaged, table)
  /\ (CASE kind = None -> 0 [] kind = File -> -1 [] kind = Compact -> history.max + 1)
       = Room(kind, history)
<1>1. Lines = LinesOf(kind, history)
  BY LinesSame
<1> QED
  BY <1>1 DEF Held, ShownLines, Room

(* What the steps do to the page.                                          *)
LEMMA OnePlaceEdited ==
  ASSUME NEW y \in 1 .. Height,
         \A z \in (1 .. Height) \ {y} : typed'[z] = typed[z] /\ rows'[z].wrapped = rows[z].wrapped
  PROVE  Store!Edited
BY DEF Store!Edited, Store!SamePlaces

LEMMA SamePage ==
  ASSUME UNCHANGED <<rows, typed>>
  PROVE  Store!Edited
<1>1. 1 \in 1 .. Height
  BY ScrollbackAssumption
<1> QED
  BY <1>1, OnePlaceEdited

LEMMA OneRowEdited ==
  ASSUME RowsInv, NEW y \in 1 .. Height, NEW row, NEW shown,
         rows' = [rows EXCEPT ![y] = row], typed' = [typed EXCEPT ![y] = shown]
  PROVE  Store!Edited
<1>1. \A z \in (1 .. Height) \ {y} : typed'[z] = typed[z] /\ rows'[z] = rows[z]
  BY DEF RowsInv
<1> QED
  BY <1>1, OnePlaceEdited

LEMMA PageMovesUp ==
  ASSUME RowsInv, NEW from \in [1 .. Height -> RowType],
         \A z \in 1 .. Height : from[z].wrapped = rows[z].wrapped \/ (z = Height /\ from[z].wrapped),
         NEW row \in RowType, NEW shown \in Seq(TypedType),
         rows' = Append(Tail(from), row), typed' = Append(Tail(typed), shown)
  PROVE  Store!MovedUp
<1>1. Height \in Nat \ {0} /\ typed \in [1 .. Height -> Seq(TypedType)]
  BY ScrollbackAssumption DEF RowsInv
<1>2. MovesUp(rows', Height, RowType, from, row)
  BY <1>1, MovedUp
<1>3. MovesUp(typed', Height, Seq(TypedType), typed, shown)
  BY <1>1, MovedUp
<1>4. ASSUME NEW y \in 1 .. Height, y + 1 \in 1 .. Height
      PROVE  /\ typed'[y] = typed[y + 1]
             /\ \/ rows'[y].wrapped = rows[y + 1].wrapped
                \/ y + 2 \notin 1 .. Height /\ rows'[y].wrapped
  <2>1. y # Height
    BY <1>1, <1>4
  <2>2. typed'[y] = typed[y + 1] /\ rows'[y] = from[y + 1]
    BY <1>2, <1>3, <2>1 DEF MovesUp
  <2>3. y + 1 = Height => y + 2 \notin 1 .. Height
    BY <1>1
  <2> QED
    BY <1>4, <2>2, <2>3
<1> QED
  BY <1>4 DEF Store!MovedUp, Store!SamePlaces

LEMMA PutEdits ==
  ASSUME RowsInv, NEW c \in Codes, NEW f \in Pens, Put(c, f)
  PROVE  Store!Edited
<1>1. Bottom \in 1 .. Height /\ rows \in [1 .. Height -> RowType]
  BY BottomRow DEF RowsInv
<1>2. ASSUME NEW z \in (1 .. Height) \ {Bottom}
      PROVE  typed'[z] = typed[z] /\ rows'[z] = rows[z]
  BY <1>1, <1>2 DEF Put, RowsInv
<1> QED
  BY <1>1, <1>2, OnePlaceEdited

LEMMA ClearEdits ==
  ASSUME RowsInv, NEW f \in Pens, ClearToBeginOfLine(f)
  PROVE  Store!Edited
<1>1. Bottom \in 1 .. Height
  BY BottomRow
<1>2. ASSUME NEW z \in (1 .. Height) \ {Bottom}
      PROVE  typed'[z] = typed[z] /\ rows'[z] = rows[z]
  BY <1>1, <1>2 DEF ClearToBeginOfLine, RowsInv
<1> QED
  BY <1>1, <1>2, OnePlaceEdited

LEMMA CombineEdits ==
  ASSUME RowsInv, NEW m \in Marks, Combine(m)
  PROVE  Store!Edited
<1>1. PICK y \in CombineRows :
        \E i, cell, e :
          /\ rows' = [rows EXCEPT ![y].cells[i] = cell]
          /\ typed' = [typed EXCEPT ![y][i] = e]
  <2>1. PICK y \in CombineRows :
          LET i == Max(RealBefore(y))
              cell == rows[y].cells[i]
              seq == Append(IF cell.ext THEN Lookup(table, cell.code) ELSE <<cell.code>>, m) IN
          /\ rows' = [rows EXCEPT ![y].cells[i] = [@ EXCEPT !.ext = TRUE, !.code = Slot(table, seq)]]
          /\ typed' = [typed EXCEPT ![y][i].seq = Append(@, m)]
    BY DEF Combine
  <2> DEFINE i == Max(RealBefore(y))
             cell == rows[y].cells[i]
             seq == Append(IF cell.ext THEN Lookup(table, cell.code) ELSE <<cell.code>>, m)
             c == [cell EXCEPT !.ext = TRUE, !.code = Slot(table, seq)]
             e == [typed[y][i] EXCEPT !.seq = Append(@, m)]
  <2>2. rows' = [rows EXCEPT ![y].cells[i] = c] /\ typed' = [typed EXCEPT ![y][i] = e]
    BY <2>1
  <2> HIDE DEF i, c, e
  <2> QED
    BY <2>2
<1>2. y \in 1 .. Height
  BY DEF CombineRows
<1>3. ASSUME NEW z \in (1 .. Height) \ {y}
      PROVE  typed'[z] = typed[z] /\ rows'[z] = rows[z]
  BY <1>1, <1>2, <1>3 DEF RowsInv
<1> QED
  BY <1>2, <1>3, OnePlaceEdited

LEMMA WrapMovesUp ==
  ASSUME RowsInv, NEW c \in Codes, NEW f \in Pens, NEW failed, PutWrapping(c, f, failed)
  PROVE  Store!MovedUp
<1> DEFINE from == [rows EXCEPT ![Bottom].wrapped = TRUE]
           row == [cells |-> <<Cell(c, f)>>, wrapped |-> FALSE]
           shown == <<[seq |-> <<c>>, format |-> f]>>
<1>1. rows' = Append(Tail(from), row) /\ typed' = Append(Tail(typed), shown)
  BY DEF PutWrapping
<1>2. row \in RowType /\ shown \in Seq(TypedType)
  BY BottomRow, RowOne DEF RowOK, RowType
<1>3. from \in [1 .. Height -> RowType]
  BY BottomRow DEF RowsInv, RowType
<1>4. \A z \in 1 .. Height : from[z].wrapped = rows[z].wrapped \/ (z = Height /\ from[z].wrapped)
  BY BottomRow DEF RowsInv, RowType, Bottom
<1> HIDE DEF from, row, shown
<1> QED
  BY <1>1, <1>2, <1>3, <1>4, PageMovesUp

LEMMA NextLineMovesUp ==
  ASSUME RowsInv, NEW failed, NextLine(failed)
  PROVE  Store!MovedUp
<1>1. rows' = Append(Tail(rows), EmptyRow) /\ typed' = Append(Tail(typed), <<>>)
  BY DEF NextLine, Feeds
<1>2. EmptyRow \in RowType /\ <<>> \in Seq(TypedType)
  BY DEF EmptyRow, RowType
<1>3. rows \in [1 .. Height -> RowType] /\ \A z \in 1 .. Height : rows[z].wrapped = rows[z].wrapped
  BY DEF RowsInv
<1> QED
  BY <1>1, <1>2, <1>3, PageMovesUp

LEMMA Writes ==
  ASSUME Store!Edited,
         Held(kind', history', damaged', table') = Held(kind, history, damaged, table),
         Room(kind', history') = Room(kind, history), damaged' = damaged
  PROVE  Store!Next
BY HeldSame DEF Store!Next, Store!Write, Held, ShownLines, Room, Lines, LinesOf, Store!vars

LEMMA Records ==
  ASSUME Store!MovedUp,
         Held(kind', history', damaged', table')
           = Store!LastOf(Append(Held(kind, history, damaged, table), Page), Room(kind, history)),
         Room(kind', history') = Room(kind, history), damaged' = damaged
  PROVE  Store!Next
<1>1. 1 \in 1 .. Height
  BY ScrollbackAssumption
<1>2. [y \in 1 .. Height |-> [cells |-> typed[y], wrapped |-> rows[y].wrapped]][1] = Page
  BY <1>1 DEF Page
<1>3. Store!Stores(Page)
  BY HeldSame DEF Store!Stores, Held, ShownLines, Room, Lines, LinesOf
<1> QED
  BY <1>2, <1>3 DEF Store!Next, Store!Record

LEMMA Resizes ==
  ASSUME Store!IsTail(Held(kind', history', damaged', table'), Held(kind, history, damaged, table)),
         Room(kind', history') = -1 =>
           Held(kind', history', damaged', table') = Held(kind, history, damaged, table),
         ~damaged', UNCHANGED <<rows, typed>>
  PROVE  Store!Next
BY HeldSame DEF Store!Next, Store!Resize, Held, ShownLines, Room, Lines, LinesOf, Store!Unlimited

LEMMA Clears ==
  ASSUME Held(kind', history', damaged', table') = <<>>, ~damaged',
         UNCHANGED <<rows, typed>>
  PROVE  Store!Next
BY HeldSame DEF Store!Next, Store!Clear, Held, ShownLines, Room, Lines, LinesOf

LEMMA Breaks ==
  ASSUME Store!MovedUp, Room(kind, history) = -1, damaged', Room(kind', history') = Room(kind, history)
  PROVE  Store!Next
BY HeldSame DEF Store!Next, Store!Break, Held, ShownLines, Room, Lines, LinesOf, Store!Unlimited

LEMMA StaysBroken ==
  ASSUME damaged, damaged', Store!Edited
  PROVE  Store!Next
BY DEF Store!Next, Store!Broken

(* The top row is recorded as the page shows it.                           *)
LEMMA LeavesPage ==
  ASSUME RowsInv, HistoryInv, Store!MovedUp, NEW failed \in FailingWrites,
         history' = WithRecorded(rows[1], failed), damaged' = (damaged \/ failed # {}),
         table' = table, kind' = kind
  PROVE  Store!Next
<1> DEFINE s == LinesOf(kind, history)
           shown == ShownLines(table, s)
           row == rows[1]
<1>1. /\ HistoryOK(kind, history', damaged', table)
      /\ kind = Compact => history'.max = history.max
      /\ ~damaged' => Recorded(kind, history', history, row, table)
  BY TopRowLeaves
<1>2. HistoryOK(kind, history, damaged, table)
  BY DEF HistoryInv
<1>3. Room(kind', history') = Room(kind, history)
  BY <1>1, <1>2 DEF Room, HistoryOK
<1>4. CASE damaged'
  <2>1. kind = File
    BY <1>1, <1>4 DEF HistoryOK
  <2>2. Room(kind, history) = -1
    BY <2>1 DEF Room, None, File, Compact
  <2> QED
    BY <1>3, <1>4, <2>2, Breaks
<1>5. CASE ~damaged'
  <2>1. damaged' = damaged /\ ~damaged
    BY <1>1, <1>2, <1>5 DEF HistoryOK
  <2>2. PICK new \in LineType :
          /\ ShownLine(table, new) = ShownLine(table, row)
          /\ LinesOf(kind, history') = IF kind = None THEN <<>>
               ELSE Append(IF kind = Compact /\ Full(history) THEN Tail(s) ELSE s, new)
    BY <1>1, <1>5 DEF Recorded
  <2>3. ShownLine(table, new) = Page
    BY <2>2, TopRow DEF Page
  <2>4. s \in Seq(LineType)
    BY <1>2, LinesTyped
  <2>5. /\ Held(kind, history, damaged, table) = shown
        /\ Held(kind', history', damaged', table') = ShownLines(table, LinesOf(kind, history'))
    BY <2>1 DEF Held
  <2>6. shown \in Seq(ShownOnes(table)) /\ Len(shown) = Len(s) /\ Page \in ShownOnes(table)
    BY <2>3, <2>4, ShownIs DEF ShownOnes
  <2> DEFINE full == Append(shown, Page)
  <2> HIDE DEF s, shown
  <2>7. full \in Seq(ShownOnes(table)) /\ Len(full) = Len(s) + 1 /\ Len(s) \in Nat
    BY <2>4, <2>6
  <2>8. \A t \in Seq(LineType) : ShownLines(table, Append(t, new)) = Append(ShownLines(table, t), Page)
    BY <2>3, ShownAppended
  <2> HIDE DEF full
  <2>9. ShownLines(table, LinesOf(kind, history')) = Store!LastOf(full, Room(kind, history))
    <3>1. CASE kind = None
      <4>1. Room(kind, history) = 0 /\ s = <<>> /\ LinesOf(kind, history') = <<>>
        BY <2>2, <3>1, LinesByKind DEF Room, None, File, Compact, s
      <4>2. Len(full) = 0 + 1
        BY <2>7, <4>1
      <4>3. Store!LastOf(full, 0) = Tail(full)
        BY <2>7, <4>2, LastButFirst
      <4>4. full = <<Page>> /\ Tail(full) = <<>>
        <5>1. <<>> \in Seq(LineType)
          OBVIOUS
        <5>2. shown = <<>>
          BY <2>6, <4>1
        <5> QED
          BY <5>2 DEF full
      <4>5. ShownLines(table, <<>>) = <<>>
        BY DEF ShownLines
      <4> QED
        BY <4>1, <4>3, <4>4, <4>5
    <3>2. CASE kind = File
      <4>1. Room(kind, history) = -1 /\ LinesOf(kind, history') = Append(s, new)
        BY <2>2, <3>2 DEF Room, None, File, Compact
      <4>2. Store!LastOf(full, -1) = full
        BY LastAll
      <4> QED
        BY <2>4, <2>8, <4>1, <4>2 DEF full, shown
    <3>3. CASE kind = Compact
      <4> DEFINE n == Len(s)
                 max == history.max
      <4>1. /\ Room(kind, history) = max + 1
            /\ LinesOf(kind, history') = Append(IF Full(history) THEN Tail(s) ELSE s, new)
        BY <2>2, <3>3 DEF Room, None, File, Compact
      <4>2. history \in Compacts /\ Len(history.lines) <= max + 1
        BY <1>2, <3>3 DEF HistoryOK
      <4>3. max \in Nat /\ n = Len(history.lines) /\ n \in Nat
        BY <2>7, <3>3, <4>2, HistoryFields, LinesByKind DEF s
      <4>4. CASE Full(history)
        <5>1. n = max + 1 /\ s # <<>>
          BY <4>2, <4>3, <4>4, <2>4 DEF Full
        <5>2. Store!LastOf(full, n) = Tail(full)
          BY <2>7, LastButFirst
        <5>3. shown # <<>>
          BY <2>6, <5>1, <4>3
        <5>4. Tail(full) = Append(Tail(shown), Page)
          BY <2>6, <5>3, AppendTail DEF full
        <5>5. Tail(s) \in Seq(LineType)
          BY <2>4, <5>1, TailIs
        <5>6. ShownLines(table, Tail(s)) = Tail(shown)
          <6>1. 1 \in 0 .. Len(s)
            BY <5>1, <4>3
          <6>2. Tail(s) = Without(s, 1) /\ Tail(shown) = Without(shown, 1)
            BY <2>4, <2>6, <5>1, <5>3, TailIs DEF Without
          <6> QED
            BY <2>4, <6>1, <6>2, ShownWithout DEF shown
        <5> HIDE DEF n, max
        <5> QED
          BY <2>8, <4>1, <4>4, <5>1, <5>2, <5>4, <5>5, <5>6
      <4>5. CASE ~Full(history)
        <5>1. n <= max
          BY <4>3, <4>5 DEF Full
        <5>2. max + 1 >= Len(full)
          BY <2>7, <4>3, <5>1
        <5>3. Store!LastOf(full, max + 1) = full
          BY <5>2, LastAll
        <5> QED
          BY <2>4, <2>8, <4>1, <4>5, <5>3 DEF full, shown
      <4> QED
        BY <4>4, <4>5
    <3> QED
      BY <1>2, <3>1, <3>2, <3>3 DEF HistoryOK
  <2> QED
    BY <1>3, <2>1, <2>5, <2>9, Records DEF full
<1> QED
  BY <1>4, <1>5

LEMMA CreatedClears ==
  ASSUME CreatedNone \/ (\E n \in Sizes \cup {0} : CreatedCompact(n))
         \/ (CreatedFile(<<>>) /\ damaged' = FALSE),
         UNCHANGED <<rows, typed>>
  PROVE  Store!Next
<1>1. damaged' = FALSE
  BY DEF CreatedNone, CreatedCompact
<1>2. LinesOf(kind', history') = <<>>
  <2>1. CASE CreatedNone
    BY <2>1, LinesByKind DEF CreatedNone
  <2>2. ASSUME NEW n \in Sizes \cup {0}, CreatedCompact(n)
        PROVE  LinesOf(kind', history') = <<>>
    BY <2>2, CompactIs, SizesAreNat DEF CreatedCompact
  <2>3. CASE CreatedFile(<<>>)
    <3>1. <<>> \in Seq(LineType) /\ TRUE \in BOOLEAN
      OBVIOUS
    <3>2. LinesOf(File, ScrollOf(<<>>)) = <<>>
      BY <3>1, FileIs
    <3> QED
      BY <2>3, <3>2 DEF CreatedFile
  <2> QED
    BY <2>1, <2>2, <2>3
<1>3. ShownLines(table', <<>>) = <<>>
  BY DEF ShownLines
<1>4. Held(kind', history', damaged', table') = <<>>
  BY <1>1, <1>2, <1>3 DEF Held
<1> QED
  BY <1>1, <1>4, Clears

LEMMA ShortensAsStore ==
  ASSUME HistoryInv, NEW n \in Sizes, kind = Compact, history' = Trimmed(history, n),
         UNCHANGED <<kind, type, damaged>>, table' = table, UNCHANGED <<rows, typed>>
  PROVE  Store!Next
<1> DEFINE s == LinesOf(Compact, history)
           e == Excess(history, n)
           shown == ShownLines(table, s)
<1>1. HistoryOK(Compact, history, damaged, table) /\ n \in Nat
  BY SizesAreNat DEF HistoryInv
<1>2. ~damaged /\ s \in Seq(LineType)
  BY <1>1, LinesTyped DEF HistoryOK, None, File, Compact
<1>3. Trimmed(history, n).max = n /\ LinesOf(Compact, Trimmed(history, n)) = Without(s, e)
      /\ e \in 0 .. Len(s)
  BY <1>1, TrimmedLines
<1>4. Held(kind, history, damaged, table) = shown
  BY <1>2 DEF Held
<1>5. Held(kind', history', damaged', table') = ShownLines(table, Without(s, e))
  BY <1>2, <1>3 DEF Held
<1>6. shown \in Seq(ShownOnes(table)) /\ Len(shown) = Len(s)
  BY <1>2, ShownIs
<1> HIDE DEF s, e
<1>7. ShownLines(table, Without(s, e)) = Without(shown, e)
  BY <1>2, <1>3, ShownWithout
<1> HIDE DEF shown
<1>8. Without(shown, e) = Store!LastOf(shown, Len(shown) - e)
  BY <1>3, <1>6, LastWithout
<1>9. Len(shown) - e \in 0 .. Len(shown)
  BY <1>3, <1>6
<1>10. Store!IsTail(Held(kind', history', damaged', table'), Held(kind, history, damaged, table))
  BY <1>4, <1>5, <1>7, <1>8, <1>9 DEF Store!IsTail
<1>11. Room(kind', history') # -1
  <2>1. Room(kind', history') = n + 1
    BY <1>3 DEF Room, None, File, Compact
  <2> QED
    BY <1>1, <2>1
<1> QED
  BY <1>2, <1>10, <1>11, Resizes

LEMMA CopiesAsStore ==
  ASSUME HistoryInv, SetHistoryFile
  PROVE  Store!Next
<1>1. kind' = File /\ damaged' = damaged /\ (~damaged => LinesOf(File, history') = LinesOf(kind, history))
  BY SetFileKeeps
<1>2. table' = table /\ UNCHANGED <<rows, typed>>
  BY DEF SetHistoryFile, KeepsRows
<1>3. CASE damaged
  BY <1>1, <1>2, <1>3, SamePage, StaysBroken
<1>4. CASE ~damaged
  <2> DEFINE r == Held(kind', history', damaged', table')
             s == Held(kind, history, damaged, table)
  <2>1. r = s
    BY <1>1, <1>2, <1>4 DEF Held
  <2>2. s = ShownLines(table, LinesOf(kind, history))
    BY <1>4 DEF Held
  <2>3. LinesOf(kind, history) \in Seq(LineType)
    BY LinesTyped DEF HistoryInv
  <2> HIDE DEF r, s
  <2>4. s \in Seq(ShownOnes(table))
    BY <2>2, <2>3, ShownIs
  <2>5. Len(s) \in 0 .. Len(s)
    BY <2>4
  <2>6. s = Store!LastOf(s, Len(s))
    BY <2>4, LastAll
  <2>7. Store!IsTail(r, s)
    BY <2>1, <2>5, <2>6 DEF Store!IsTail
  <2> QED
    BY <1>1, <1>2, <1>4, <2>1, <2>7, Resizes DEF r, s
<1> QED
  BY <1>3, <1>4

LEMMA StoreSteps ==
  ASSUME RowsInv, HistoryInv, [Next]_vars
  PROVE  Store!Next
<1>1. ASSUME NEW c \in Codes, NEW f \in Pens, Put(c, f)
      PROVE  Store!Next
  BY <1>1, PutEdits, Writes DEF Put, KeepsHistory
<1>2. ASSUME NEW c \in Codes, NEW f \in Pens, NEW failed \in FailingWrites, PutWrapping(c, f, failed)
      PROVE  Store!Next
  <2>1. history' = WithRecorded(rows[1], failed)
    BY <1>2, MarkedTop DEF PutWrapping
  <2> QED
    BY <1>2, <2>1, WrapMovesUp, LeavesPage DEF PutWrapping
<1>3. ASSUME NEW m \in Marks, Combine(m)
      PROVE  Store!Next
  <2>1. UNCHANGED <<kind, type, history, damaged>>
    BY <1>3 DEF Combine, KeepsHistory
  <2>2. Extends(table', table)
    BY <1>3, CombineKeepsRows
  <2>3. HistoryOK(kind, history, damaged, table)
    BY DEF HistoryInv
  <2>4. LinesOf(kind, history) \in Seq(LineType)
    BY <2>3, LinesTyped
  <2>5. ~damaged => ShownLines(table', LinesOf(kind, history)) = ShownLines(table, LinesOf(kind, history))
    BY <2>2, <2>3, <2>4, ShownExtends DEF HistoryOK
  <2>6. Held(kind, history, damaged, table') = Held(kind, history, damaged, table)
    BY <2>5 DEF Held
  <2> QED
    BY <1>3, <2>1, <2>6, CombineEdits, Writes
<1>4. CASE CarriageReturn
  BY <1>4, SamePage, Writes DEF CarriageReturn, KeepsHistory
<1>5. ASSUME NEW failed \in FailingWrites, NextLine(failed)
      PROVE  Store!Next
  BY <1>5, NextLineMovesUp, LeavesPage DEF NextLine, Feeds
<1>6. ASSUME NEW f \in Pens, ClearToBeginOfLine(f)
      PROVE  Store!Next
  <2>1. UNCHANGED <<table, kind, type, history, damaged>>
    BY <1>6 DEF ClearToBeginOfLine, KeepsHistory
  <2> QED
    BY <1>6, <2>1, ClearEdits, Writes
<1>7. ASSUME NEW line, NEW flushed \in BOOLEAN, ReadLine(line, flushed)
      PROVE  Store!Next
  <2>1. LinesOf(kind', history') = LinesOf(kind, history)
    BY <1>7, ReadKeeps
  <2>2. kind = File /\ UNCHANGED <<kind, damaged, table, rows, typed>>
    BY <1>7 DEF ReadLine, KeepsRows
  <2>3. Held(kind', history', damaged', table') = Held(kind, history, damaged, table)
    BY <2>1, <2>2 DEF Held
  <2>4. Room(kind', history') = Room(kind, history)
    BY <2>2 DEF Room, None, File, Compact
  <2> QED
    BY <2>2, <2>3, <2>4, SamePage, Writes
<1>8. CASE SetHistoryNone
  BY <1>8, CreatedClears DEF SetHistoryNone, KeepsRows
<1>9. CASE SetHistoryFile
  BY <1>9, CopiesAsStore
<1>10. ASSUME NEW n \in Sizes, SetHistoryCompact(n)
       PROVE  Store!Next
  <2>1. CASE kind = Compact
    BY <1>10, <2>1, ShortensAsStore DEF SetHistoryCompact, KeepsRows
  <2>2. CASE kind # Compact
    BY <1>10, <2>2, CreatedClears DEF SetHistoryCompact, KeepsRows
  <2> QED
    BY <2>1, <2>2
<1>11. CASE ClearHistory
  <2>1. type \in Sizes \cup {0}
    BY DEF HistoryInv
  <2> QED
    BY <1>11, <2>1, CreatedClears DEF ClearHistory, KeepsRows
<1>12. CASE UNCHANGED vars
  BY <1>12, SamePage, Writes DEF vars
<1> QED
  BY <1>1, <1>2, <1>3, <1>4, <1>5, <1>6, <1>7, <1>8, <1>9, <1>10, <1>11, <1>12 DEF Next

(* Whatever the sizes and whatever is written, a history of every kind, in *)
(* every change between kinds, holds what left the screen, in order and as *)
(* it looked there, and loses only lines from its front.                   *)
THEOREM KeepsTheLines == Spec => ImplementsLineStore
<1>1. Init => Store!Init
  <2> SUFFICES ASSUME Init PROVE Store!Init
    OBVIOUS
  <2>1. kind = None /\ damaged = FALSE
    BY DEF Init
  <2>2. LinesOf(kind, history) = <<>> /\ ShownLines(table, <<>>) = <<>>
    BY <2>1, LinesByKind DEF ShownLines
  <2>3. Held(kind, history, damaged, table) = <<>> /\ Room(kind, history) = 0
    BY <2>1, <2>2 DEF Held, Room, None, File, Compact
  <2> QED
    BY <2>1, <2>3, HeldSame DEF Store!Init
<1>2. Init => RowsInv /\ HistoryInv
  BY RowsStart, HistoryStart
<1>3. RowsInv /\ HistoryInv /\ [Next]_vars => (RowsInv /\ HistoryInv)' /\ [Store!Next]_(Store!vars)
  BY RowsKept, HistoryKept, StoreSteps
<1> QED
  BY <1>1, <1>2, <1>3, PTL DEF Spec, ImplementsLineStore, Store!Spec
=============================================================================
