---------------------------- MODULE TokenizerProofs ----------------------------
(***************************************************************************)
(* Proofs about Tokenizer, for any alphabet, any length of the buffer, any *)
(* number and size of the arguments, and characters in any order.          *)
(***************************************************************************)
EXTENDS Tokenizer, SequenceTheorems, WellFoundedInduction, TLAPS

-----------------------------------------------------------------------------
(* Numbers.  A set of naturals has a least element, so a set that holds 0  *)
(* and the successors of its elements holds every natural: the induction   *)
(* of all the proofs below.                                                *)
LEMMA LeastExists ==
  ASSUME NEW T, T \subseteq Nat, T # {}
  PROVE  \E k \in T : \A y \in T : k <= y
<1> DEFINE R == OpToRel(<, Nat)
<1>1. IsWellFoundedOn(R, Nat)
  BY NatLessThanWellFounded
<1>2. \A k, y \in Nat : <<y, k>> \in R <=> y < k
  BY DEF OpToRel
<1> HIDE DEF R
<1>3. \E k \in T : \A y \in T : ~(<<y, k>> \in R)
  BY <1>1, WFMin
<1>4. PICK k \in T : \A y \in T : ~(y < k)
  BY <1>2, <1>3
<1>5. \A y \in T : k <= y
  BY <1>4
<1> QED
  BY <1>5

LEMMA Successively ==
  ASSUME NEW S, 0 \in S, \A n \in Nat : n \in S => n + 1 \in S
  PROVE  Nat \subseteq S
<1> SUFFICES ASSUME Nat \ S # {} PROVE FALSE
  OBVIOUS
<1>1. PICK k \in Nat \ S : \A y \in Nat \ S : k <= y
  BY LeastExists
<1>2. k # 0 /\ k - 1 \in Nat /\ ~(k <= k - 1) /\ k = (k - 1) + 1
  BY <1>1
<1> QED
  BY <1>1, <1>2

LEMMA LeastIs ==
  ASSUME NEW T, T \subseteq Nat, T # {}
  PROVE  Min(T) \in T /\ \A y \in T : Min(T) <= y
BY LeastExists DEF Min

(* A function on an interval is defined by its first value and its steps.  *)
Steps(n, T, b, g) == n \in Nat /\ b \in T /\ g \in [1 .. n -> [T -> T]]
Follows(f, n, T, b, g) ==
    f \in [0 .. n -> T] /\ f[0] = b /\ \A i \in 1 .. n : f[i] = g[i][f[i - 1]]

LEMMA Recursion ==
  ASSUME NEW n, NEW T, NEW b, NEW g, Steps(n, T, b, g)
  PROVE  \E f : Follows(f, n, T, b, g)
<1>s. n \in Nat /\ b \in T /\ g \in [1 .. n -> [T -> T]]
  BY DEF Steps
<1> DEFINE Upto(k) == \E f \in [0 .. k -> T] :
                        f[0] = b /\ \A i \in 1 .. k : f[i] = g[i][f[i - 1]]
           S == {k \in Nat : k <= n => Upto(k)}
<1>1. 0 \in S
  <2> DEFINE f == [i \in 0 .. 0 |-> b]
  <2>1. f \in [0 .. 0 -> T] /\ f[0] = b /\ \A i \in 1 .. 0 : f[i] = g[i][f[i - 1]]
    BY <1>s
  <2> QED
    BY <1>s, <2>1
<1>2. ASSUME NEW k \in Nat, k \in S PROVE k + 1 \in S
  <2> SUFFICES ASSUME k + 1 <= n PROVE Upto(k + 1)
    BY <1>s
  <2>1. PICK f \in [0 .. k -> T] : f[0] = b /\ \A i \in 1 .. k : f[i] = g[i][f[i - 1]]
    BY <1>s, <1>2
  <2> DEFINE h == [i \in 0 .. k + 1 |-> IF i = k + 1 THEN g[k + 1][f[k]] ELSE f[i]]
  <2>2. g[k + 1][f[k]] \in T
    BY <1>s
  <2>3. h \in [0 .. k + 1 -> T]
    BY <2>2
  <2>4. ASSUME NEW i \in 1 .. k + 1 PROVE h[i] = g[i][h[i - 1]]
    <3>1. CASE i = k + 1
      <4>1. i - 1 = k /\ k \in 0 .. k + 1 /\ k # k + 1
        BY <3>1
      <4>2. h[i - 1] = f[k] /\ h[i] = g[k + 1][f[k]]
        BY <3>1, <4>1
      <4> QED
        BY <3>1, <4>2
    <3>2. CASE i \in 1 .. k
      BY <2>1, <3>2
    <3> QED
      BY <3>1, <3>2
  <2>5. h[0] = b
    BY <2>1
  <2> QED
    BY <2>3, <2>4, <2>5
<1> HIDE DEF S
<1>3. n \in S
  BY <1>s, <1>1, <1>2, Successively
<1> QED
  BY <1>s, <1>3 DEF S, Follows

(* A function whose value at a point depends only on the values after it.  *)
Backwards(n, T, g) ==
    /\ n \in Nat /\ T # {} /\ g \in [0 .. n -> [[0 .. n -> T] -> T]]
    /\ \A i \in 0 .. n : \A f, h \in [0 .. n -> T] :
         (\A j \in i + 1 .. n : f[j] = h[j]) => g[i][f] = g[i][h]
Solves(f, n, T, g) == f \in [0 .. n -> T] /\ \A i \in 0 .. n : f[i] = g[i][f]

LEMMA BackwardRecursion ==
  ASSUME NEW n, NEW T, NEW g, Backwards(n, T, g)
  PROVE  \E f : Solves(f, n, T, g)
<1>s. /\ n \in Nat /\ T # {} /\ g \in [0 .. n -> [[0 .. n -> T] -> T]]
      /\ \A i \in 0 .. n : \A f, h \in [0 .. n -> T] :
           (\A j \in i + 1 .. n : f[j] = h[j]) => g[i][f] = g[i][h]
  BY DEF Backwards
<1> DEFINE From(k) == \E f \in [0 .. n -> T] : \A i \in 0 .. n : i > n - k => f[i] = g[i][f]
           S == {k \in Nat : k <= n + 1 => From(k)}
<1>1. 0 \in S
  <2>1. PICK e \in T : TRUE
    BY <1>s
  <2>2. [i \in 0 .. n |-> e] \in [0 .. n -> T]
    OBVIOUS
  <2>3. From(0)
    <3>1. \A i \in 0 .. n : ~(i > n - 0)
      BY <1>s
    <3> QED
      BY <2>2, <3>1
  <2> QED
    BY <2>3
<1>2. ASSUME NEW k \in Nat, k \in S PROVE k + 1 \in S
  <2> SUFFICES ASSUME k + 1 <= n + 1 PROVE From(k + 1)
    OBVIOUS
  <2>1. PICK f \in [0 .. n -> T] : \A i \in 0 .. n : i > n - k => f[i] = g[i][f]
    BY <1>s, <1>2
  <2> DEFINE m == n - k
             h == [f EXCEPT ![m] = g[m][f]]
  <2>2. m \in 0 .. n /\ g[m][f] \in T
    BY <1>s
  <2>3. h \in [0 .. n -> T] /\ h[m] = g[m][f] /\ \A i \in 0 .. n : i # m => h[i] = f[i]
    BY <2>1, <2>2
  <2> HIDE DEF h
  <2>4. ASSUME NEW i \in 0 .. n, i > n - (k + 1) PROVE h[i] = g[i][h]
    <3>1. i >= m
      BY <1>s, <2>4
    <3>2. \A j \in i + 1 .. n : j \in 0 .. n /\ j # m
      BY <1>s, <2>2, <3>1
    <3>3. g[i][h] = g[i][f]
      BY <1>s, <2>1, <2>3, <3>2
    <3>4. CASE i = m
      BY <2>3, <3>3, <3>4
    <3>5. CASE i # m
      <4>1. i > n - k
        BY <1>s, <3>1, <3>5
      <4> QED
        BY <2>1, <2>3, <3>3, <3>5, <4>1
    <3> QED
      BY <3>4, <3>5
  <2> QED
    BY <2>3, <2>4
<1> HIDE DEF S
<1>3. n + 1 \in S
  <2>1. Nat \subseteq S
    BY <1>1, <1>2, Successively
  <2> QED
    BY <1>s, <2>1
<1>4. PICK f \in [0 .. n -> T] : \A i \in 0 .. n : i > n - (n + 1) => f[i] = g[i][f]
  BY <1>s, <1>3 DEF S
<1>5. \A i \in 0 .. n : i > n - (n + 1)
  BY <1>s
<1> QED
  BY <1>4, <1>5 DEF Solves

-----------------------------------------------------------------------------
(* The rules: the first whose condition holds is taken.                    *)
Met(rules, i) == rules[i][1]
Takes(rules, i) ==
    /\ i \in 1 .. Len(rules) /\ Met(rules, i) /\ \A j \in 1 .. i - 1 : ~Met(rules, j)

LEMMA FirstIs ==
  ASSUME NEW rules, Len(rules) \in Nat, NEW i, Takes(rules, i)
  PROVE  FirstRule(rules) = rules[i][2]
<1> DEFINE I == {k \in 1 .. Len(rules) : Met(rules, k)}
<1>1. i \in I /\ I \subseteq Nat
  BY DEF Takes
<1>2. \A j \in I : ~(j < i)
  BY DEF Takes
<1>3. Min(I) \in I /\ \A j \in I : Min(I) <= j
  BY <1>1, LeastIs
<1>4. Min(I) = i
  BY <1>1, <1>2, <1>3
<1>5. SelectInSeq(rules, LAMBDA r : r[1]) = Min(I)
  BY <1>1 DEF SelectInSeq, Met
<1> QED
  BY <1>4, <1>5 DEF FirstRule

LEMMA OneTaken ==
  ASSUME NEW rules, Len(rules) \in Nat \ {0}, Met(rules, Len(rules))
  PROVE  \E i : Takes(rules, i)
<1> DEFINE I == {k \in 1 .. Len(rules) : Met(rules, k)}
<1>1. I \subseteq Nat /\ I # {}
  OBVIOUS
<1>2. Min(I) \in I /\ \A j \in I : Min(I) <= j
  BY <1>1, LeastIs
<1>3. \A j \in 1 .. Min(I) - 1 : j \notin I
  BY <1>2
<1>4. Takes(rules, Min(I))
  BY <1>2, <1>3 DEF Takes
<1> QED
  BY <1>4

LEMMA RulesAre ==
  ASSUME NEW p, NEW s, NEW cc
  PROVE  LET r == Rules(p, s, cc)
         IN  /\ Len(r) = 20 /\ Met(r, 20)
             /\ r[1][2] = "wait" /\ r[2][2] = "introducer" /\ r[3][2] = "wait"
             /\ r[4][2] = "attribute" /\ r[5][2] = "wait" /\ r[6][2] = "wait"
             /\ r[7][2] = "wait" /\ r[8][2] = "chr" /\ r[9][2] = "wait"
             /\ r[10][2] = "esc" /\ r[11][2] = "cs" /\ r[12][2] = "de"
             /\ r[13][2] = "pn" /\ r[14][2] = "resize" /\ r[15][2] = "pe"
             /\ r[16][2] = "sp" /\ r[17][2] = "psp" /\ r[18][2] = "digit"
             /\ r[19][2] = "argument" /\ r[20][2] = "each"
BY DEF Rules, Met

LEMMA RuleConditions ==
  ASSUME NEW p, NEW s, NEW cc
  PROVE  LET r == Rules(p, s, cc)
         IN  /\ Met(r, 1) <=> p = 1 /\ s[0] = "ESC"
             /\ Met(r, 2) <=> p = 1 /\ s[0] = "CSI8"
             /\ Met(r, 3) <=> p = 2 /\ s[1] \in GRP
             /\ Met(r, 4) <=> Xpe(p, s) /\ Ends(cc)
             /\ Met(r, 5) <=> Xpe(p, s)
             /\ Met(r, 6) <=> \E c \in {"?", ">", "!", "SP"} : p = 3 /\ s[2] = c
             /\ Met(r, 7) <=> p = 4 /\ s[3] = "SP"
             /\ Met(r, 8) <=> p = 1 /\ cc \notin CTL
             /\ Met(r, 9) <=> p >= 2 /\ s[0] = "ESC" /\ s[1] = "P"
             /\ Met(r, 10) <=> p = 2 /\ s[0] = "ESC"
             /\ Met(r, 11) <=> p = 3 /\ s[1] \in SCS
             /\ Met(r, 12) <=> p = 3 /\ s[1] = "#"
             /\ Met(r, 13) <=> p >= 3 /\ s[2] \notin {"?", "!", ">"} /\ cc \in CPN
             /\ Met(r, 14) <=> p >= 3 /\ s[2] \notin {"?", "!", ">"} /\ cc \in CPS
             /\ Met(r, 15) <=> p >= 3 /\ s[2] = "!"
             /\ Met(r, 16) <=> p >= 4 /\ s[2] = "SP"
             /\ Met(r, 17) <=> p >= 5 /\ s[3] = "SP"
             /\ Met(r, 18) <=> p >= 3 /\ cc \in DIG
             /\ Met(r, 19) <=> p >= 3 /\ cc = ";"
BY DEF Rules, Met

LEMMA VT52RulesAre ==
  ASSUME NEW p, NEW s
  PROVE  LET r == VT52Rules(p, s)
         IN  /\ Len(r) = 5 /\ Met(r, 5)
             /\ r[1][2] = "wait" /\ r[2][2] = "chr" /\ r[3][2] = "wait"
             /\ r[4][2] = "vt52" /\ r[5][2] = "vt52yx"
             /\ Met(r, 1) <=> p = 1 /\ s[0] = "ESC"
             /\ Met(r, 2) <=> p = 1 /\ s[0] \notin Wide
             /\ Met(r, 3) <=> p \in {2, 3} /\ s[1] = "Y"
             /\ Met(r, 4) <=> p < 4
BY DEF VT52Rules, Met

RuleNames == {"wait", "introducer", "attribute", "chr", "esc", "cs", "de", "pn", "resize", "pe",
              "sp", "psp", "digit", "argument", "each", "vt52", "vt52yx"}

LEMMA RuleNamed ==
  ASSUME NEW p, NEW s, NEW cc, NEW mode
  PROVE  LET rule == FirstRule(IF mode THEN Rules(p, s, cc) ELSE VT52Rules(p, s))
         IN  rule \in RuleNames /\ (rule = "digit" => cc \in DIG)
<1>1. CASE mode
  <2> DEFINE r == Rules(p, s, cc)
  <2>1. /\ Len(r) = 20 /\ Met(r, 20)
        /\ \A i \in 1 .. 20 : r[i][2] \in RuleNames /\ (r[i][2] = "digit" => i = 18)
    BY RulesAre DEF RuleNames
  <2>2. Met(r, 18) => cc \in DIG
    BY RuleConditions
  <2> HIDE DEF r
  <2>6. Len(r) \in Nat \ {0} /\ Len(r) \in Nat /\ Met(r, Len(r))
    BY <2>1
  <2>3. PICK i : Takes(r, i)
    BY <2>6, OneTaken
  <2>4. FirstRule(r) = r[i][2] /\ i \in 1 .. 20 /\ Met(r, i)
    BY <2>1, <2>6, <2>3, FirstIs DEF Takes
  <2>5. FirstRule(r) \in RuleNames /\ (FirstRule(r) = "digit" => cc \in DIG)
    BY <2>1, <2>2, <2>4
  <2> QED
    BY <1>1, <2>5 DEF r
<1>2. CASE ~mode
  <2> DEFINE r == VT52Rules(p, s)
  <2>1. /\ Len(r) = 5 /\ Met(r, 5)
        /\ \A i \in 1 .. 5 : r[i][2] \in RuleNames /\ r[i][2] # "digit"
    BY VT52RulesAre DEF RuleNames
  <2> HIDE DEF r
  <2>6. Len(r) \in Nat \ {0} /\ Len(r) \in Nat /\ Met(r, Len(r))
    BY <2>1
  <2>3. PICK i : Takes(r, i)
    BY <2>6, OneTaken
  <2>4. FirstRule(r) = r[i][2] /\ i \in 1 .. 5
    BY <2>1, <2>6, <2>3, FirstIs DEF Takes
  <2>5. FirstRule(r) \in RuleNames /\ FirstRule(r) # "digit"
    BY <2>1, <2>4
  <2> QED
    BY <1>2, <2>5 DEF r
<1> QED
  BY <1>1, <1>2

-----------------------------------------------------------------------------
(* What a character makes of processToken.                                 *)
LEMMA AnsiIsBoolean ==
  ASSUME NEW calls, Len(calls) \in Nat, NEW mode \in BOOLEAN
  PROVE  AnsiAfter(calls, mode) \in BOOLEAN
<1> DEFINE n == Len(calls)
           after[i \in 0 .. n] == IF i = 0 THEN mode ELSE SwitchesTo(calls[i], after[i - 1])
           g == [i \in 1 .. n |-> [a \in BOOLEAN |-> SwitchesTo(calls[i], a)]]
<1>0. \A i, a : a \in BOOLEAN => SwitchesTo(calls[i], a) \in BOOLEAN
  BY DEF SwitchesTo
<1>1. n \in Nat /\ g \in [1 .. n -> [BOOLEAN -> BOOLEAN]]
  BY <1>0
<1>2. \E f : Follows(f, n, BOOLEAN, mode, g)
  BY <1>1, Recursion DEF Steps
<1>3. PICK f : f = [i \in 0 .. n |-> IF i = 0 THEN mode ELSE SwitchesTo(calls[i], f[i - 1])]
  <2>1. PICK f \in [0 .. n -> BOOLEAN] : f[0] = mode /\ \A i \in 1 .. n : f[i] = g[i][f[i - 1]]
    BY <1>2 DEF Follows
  <2>2. ASSUME NEW i \in 1 .. n PROVE f[i] = SwitchesTo(calls[i], f[i - 1])
    <3>0. i - 1 \in 0 .. n
      BY <1>1
    <3>1. f[i - 1] \in BOOLEAN
      BY <2>1, <3>0
    <3>2. g[i] = [a \in BOOLEAN |-> SwitchesTo(calls[i], a)]
      OBVIOUS
    <3> HIDE DEF g
    <3>3. f[i] = g[i][f[i - 1]]
      BY <2>1
    <3> QED
      BY <3>1, <3>2, <3>3
  <2>3. \A i \in 0 .. n : f[i] = IF i = 0 THEN mode ELSE SwitchesTo(calls[i], f[i - 1])
    BY <1>1, <2>1, <2>2
  <2> QED
    BY <2>1, <2>3
<1>4. after = [i \in 0 .. n |-> IF i = 0 THEN mode ELSE SwitchesTo(calls[i], after[i - 1])]
  BY <1>3
<1> HIDE DEF after
<1> DEFINE S == {i \in Nat : i <= n => after[i] \in BOOLEAN}
<1>5. 0 \in S /\ \A i \in Nat : i \in S => i + 1 \in S
  <2>1. 0 \in S
    BY <1>1, <1>4
  <2>2. ASSUME NEW i \in Nat, i \in S PROVE i + 1 \in S
    <3> SUFFICES ASSUME i + 1 <= n PROVE after[i + 1] \in BOOLEAN
      OBVIOUS
    <3>1. i + 1 \in 0 .. n /\ i + 1 # 0 /\ (i + 1) - 1 = i
      BY <1>1
    <3>2. after[i + 1] = SwitchesTo(calls[i + 1], after[i])
      BY <1>4, <3>1
    <3>3. after[i] \in BOOLEAN
      BY <1>1, <2>2
    <3> QED
      BY <1>0, <3>2, <3>3
  <2> QED
    BY <2>1, <2>2
<1>6. n \in S
  <2> HIDE DEF S
  <2> QED
    BY <1>1, <1>5, Successively
<1>7. after[n] \in BOOLEAN
  BY <1>1, <1>6
<1> QED
  BY <1>7 DEF after, AnsiAfter

(* The list of arguments, handled one by one: where the loop stands at i   *)
(* it has the rest of what it says.                                        *)
Colour(cc, i, n, space) ==
    cc = "m" /\ argc - i >= n /\ argv[i] \in ExtendedColours /\ argv[i + 1] = space
EachFrom(cc, s, f, i) ==
    IF i > argc THEN <<>>
    ELSE IF s[2] = "?" THEN <<Token("pr", cc, <<argv[i]>>)>> \o f[i + 1]
    ELSE IF s[2] = ">" THEN <<Token("pg", cc, <<argv[i]>>)>> \o f[i + 1]
    ELSE IF Colour(cc, i, 4, 2)
      THEN <<Token("rgb", cc, <<argv[i], argv[i + 2], argv[i + 3], argv[i + 4]>>)>> \o f[i + 5]
    ELSE IF Colour(cc, i, 2, 5)
      THEN <<Token("indexed", cc, <<argv[i], argv[i + 2]>>)>> \o f[i + 3]
    ELSE <<Token("ps", cc, <<argv[i]>>)>> \o f[i + 1]
Said == UNION {{Token(kind, cc, a) : kind \in {"pr", "pg", "rgb", "indexed", "ps"}, a \in Seq(Nat)}
                 : cc \in Char}
IsSaid(f, cc, s) ==
    f \in [0 .. MaxArgs -> Seq(Said)] /\ \A i \in 0 .. MaxArgs : f[i] = EachFrom(cc, s, f, i)

LEMMA EachSays ==
  ASSUME TypeOK, NEW cc \in Char, NEW s
  PROVE  \E f : IsSaid(f, cc, s) /\ EachArgument(cc, s) = f[0]
<1> DEFINE T == Seq(Said)
           F == [0 .. MaxArgs -> T]
           g == [i \in 0 .. MaxArgs |-> [f \in F |-> EachFrom(cc, s, f, i)]]
<1>1. /\ MaxArgs \in Nat /\ argc \in Nat /\ argc + 1 <= MaxArgs
      /\ \A i \in 0 .. MaxArgs - 1 : argv[i] \in Nat
  BY TokenizerAssumption DEF TypeOK, ArgumentLimit
<1>2. ASSUME NEW kind \in {"pr", "pg", "rgb", "indexed", "ps"}, NEW a \in Seq(Nat), NEW r \in T
      PROVE  <<Token(kind, cc, a)>> \o r \in T
  <2>1. Token(kind, cc, a) \in Said
    BY DEF Said
  <2> HIDE DEF T
  <2>2. <<Token(kind, cc, a)>> \in Seq(Said)
    BY <2>1
  <2> QED
    BY <2>2 DEF T
<1>3. ASSUME NEW i \in 0 .. MaxArgs, i <= argc
      PROVE  /\ i + 1 \in 0 .. MaxArgs /\ i \in 0 .. MaxArgs - 1
             /\ Colour(cc, i, 4, 2) => i + 5 \in 0 .. MaxArgs /\ i + 2 \in 0 .. MaxArgs - 1
                                       /\ i + 3 \in 0 .. MaxArgs - 1 /\ i + 4 \in 0 .. MaxArgs - 1
             /\ Colour(cc, i, 2, 5) => i + 3 \in 0 .. MaxArgs /\ i + 2 \in 0 .. MaxArgs - 1
  BY <1>1, <1>3 DEF Colour
<1>4. ASSUME NEW i \in 0 .. MaxArgs, NEW f \in F
      PROVE  EachFrom(cc, s, f, i) \in T
  <2>1. CASE i > argc
    <3>1. <<>> \in T
      OBVIOUS
    <3> QED
      BY <2>1, <3>1 DEF EachFrom
  <2>2. CASE ~(i > argc)
    <3>1. i <= argc
      BY <1>1, <2>2
    <3>2. /\ f[i + 1] \in T /\ <<argv[i]>> \in Seq(Nat)
          /\ Colour(cc, i, 4, 2) => /\ f[i + 5] \in T
                                    /\ <<argv[i], argv[i + 2], argv[i + 3], argv[i + 4]>> \in Seq(Nat)
          /\ Colour(cc, i, 2, 5) => f[i + 3] \in T /\ <<argv[i], argv[i + 2]>> \in Seq(Nat)
      <4> HIDE DEF T
      <4> QED
        BY <1>1, <1>3, <3>1
    <3> HIDE DEF T, F
    <3> QED
      BY <1>2, <2>2, <3>2 DEF EachFrom
  <2> QED
    BY <2>1, <2>2
<1>5. ASSUME NEW i \in 0 .. MaxArgs, NEW f, NEW h, \A j \in i + 1 .. MaxArgs : f[j] = h[j]
      PROVE  EachFrom(cc, s, f, i) = EachFrom(cc, s, h, i)
  <2>1. CASE i > argc
    BY <2>1 DEF EachFrom
  <2>2. CASE ~(i > argc)
    <3>1. i <= argc
      BY <1>1, <2>2
    <3>2. /\ f[i + 1] = h[i + 1]
          /\ Colour(cc, i, 4, 2) => f[i + 5] = h[i + 5]
          /\ Colour(cc, i, 2, 5) => f[i + 3] = h[i + 3]
      BY <1>1, <1>3, <1>5, <3>1
    <3> QED
      BY <2>2, <3>2 DEF EachFrom
  <2> QED
    BY <2>1, <2>2
<1>6. Backwards(MaxArgs, T, g)
  <2>1. g \in [0 .. MaxArgs -> [F -> T]]
    <3> HIDE DEF T, F
    <3> QED
      BY <1>4
  <2>2. ASSUME NEW i \in 0 .. MaxArgs, NEW f \in F, NEW h \in F, \A j \in i + 1 .. MaxArgs : f[j] = h[j]
        PROVE  g[i][f] = g[i][h]
    <3> HIDE DEF T, F
    <3>1. g[i][f] = EachFrom(cc, s, f, i) /\ g[i][h] = EachFrom(cc, s, h, i)
      OBVIOUS
    <3> QED
      BY <1>5, <2>2, <3>1
  <2>3. T # {}
    <3>1. <<>> \in T
      OBVIOUS
    <3> QED
      BY <3>1
  <2> HIDE DEF g, T
  <2> QED
    BY <1>1, <2>1, <2>2, <2>3 DEF Backwards
<1>7. PICK f : Solves(f, MaxArgs, T, g)
  <2> HIDE DEF g, T
  <2> QED
    BY <1>6, BackwardRecursion
<1>8. f \in F /\ \A i \in 0 .. MaxArgs : f[i] = EachFrom(cc, s, f, i)
  <2>1. f \in F /\ \A i \in 0 .. MaxArgs : f[i] = g[i][f]
    <3> HIDE DEF g, T
    <3> QED
      BY <1>7 DEF Solves
  <2> HIDE DEF F
  <2>2. \A i \in 0 .. MaxArgs : g[i][f] = EachFrom(cc, s, f, i)
    BY <2>1
  <2> QED
    BY <2>1, <2>2
<1> DEFINE from[i \in 0 .. MaxArgs] ==
        IF i > argc THEN <<>>
        ELSE IF s[2] = "?" THEN <<Token("pr", cc, <<argv[i]>>)>> \o from[i + 1]
        ELSE IF s[2] = ">" THEN <<Token("pg", cc, <<argv[i]>>)>> \o from[i + 1]
        ELSE IF Colour(cc, i, 4, 2)
          THEN <<Token("rgb", cc, <<argv[i], argv[i + 2], argv[i + 3], argv[i + 4]>>)>> \o from[i + 5]
        ELSE IF Colour(cc, i, 2, 5)
          THEN <<Token("indexed", cc, <<argv[i], argv[i + 2]>>)>> \o from[i + 3]
        ELSE <<Token("ps", cc, <<argv[i]>>)>> \o from[i + 1]
<1>9. f = [i \in 0 .. MaxArgs |-> EachFrom(cc, s, f, i)]
  BY <1>8
<1>10. from = [i \in 0 .. MaxArgs |-> EachFrom(cc, s, from, i)]
  BY <1>9 DEF EachFrom
<1> HIDE DEF from, F, T, g
<1>11. \A i \in 0 .. MaxArgs : from[i] = EachFrom(cc, s, from, i)
  BY <1>10
<1> DEFINE S == {k \in Nat : \A i \in 0 .. MaxArgs : i > MaxArgs - k => from[i] = f[i]}
<1>12. 0 \in S
  BY <1>1
<1>13. ASSUME NEW k \in Nat, k \in S PROVE k + 1 \in S
  <2> SUFFICES ASSUME NEW i \in 0 .. MaxArgs, i > MaxArgs - (k + 1) PROVE from[i] = f[i]
    OBVIOUS
  <2>1. \A j \in i + 1 .. MaxArgs : j \in 0 .. MaxArgs /\ j > MaxArgs - k
    BY <1>1
  <2>2. \A j \in i + 1 .. MaxArgs : from[j] = f[j]
    BY <1>13, <2>1
  <2>3. EachFrom(cc, s, from, i) = EachFrom(cc, s, f, i)
    BY <1>5, <2>2
  <2> QED
    BY <1>8, <1>11, <2>3
<1>14. MaxArgs + 1 \in S
  <2> HIDE DEF S
  <2>1. Nat \subseteq S
    BY <1>12, <1>13, Successively
  <2> QED
    BY <1>1, <2>1
<1>15. \A i \in 0 .. MaxArgs : from[i] = f[i]
  BY <1>1, <1>14
<1>16. EachArgument(cc, s) = from[0]
  BY DEF EachArgument, from, Colour
<1>17. 0 \in 0 .. MaxArgs
  BY <1>1
<1> QED
  BY <1>8, <1>15, <1>16, <1>17 DEF IsSaid, F, T

LEMMA CallsAreMany ==
  ASSUME TypeOK, NEW rule \in RuleNames \ {"introducer", "wait", "digit", "argument"},
         NEW p, NEW s, NEW cc \in Char
  PROVE  Len(Calls(rule, p, s, cc)) \in Nat
<1>1. CASE rule = "attribute"
  <2>1. Calls(rule, p, s, cc) = Attribute(p, s)
    BY <1>1 DEF Calls
  <2>2. Attribute(p, s) = <<>> \/ \E t : Attribute(p, s) = <<t>>
    BY DEF Attribute
  <2> QED
    BY <2>1, <2>2
<1>2. CASE rule = "each"
  <2>1. Calls(rule, p, s, cc) = EachArgument(cc, s)
    BY <1>2 DEF Calls
  <2>2. PICK f : IsSaid(f, cc, s) /\ EachArgument(cc, s) = f[0]
    BY EachSays
  <2>3. f[0] \in Seq(Said)
    BY <2>2, TokenizerAssumption DEF IsSaid
  <2> QED
    BY <2>1, <2>2, <2>3
<1>3. CASE rule \notin {"attribute", "each"}
  <2>1. \E t : Calls(rule, p, s, cc) = <<t>>
    BY <1>3 DEF Calls, RuleNames
  <2> QED
    BY <2>1
<1> QED
  BY <1>1, <1>2, <1>3

-----------------------------------------------------------------------------
LEMMA ForgetsArguments ==
  ASSUME TypeOK, ForgetArguments
  PROVE  /\ argc' \in 0 .. MaxArgs - 1
         /\ argv' \in [0 .. MaxArgs - 1 -> 0 .. ArgumentLimit \cup {Garbage}]
         /\ ArgumentsWritten'
<1>1. MaxArgs \in Nat /\ MaxArgs >= 3 /\ ArgumentLimit \in Nat
  BY TokenizerAssumption DEF ArgumentLimit
<1>2. argc' = 0 /\ argv' = [argv EXCEPT ![0] = 0, ![1] = 0]
  BY DEF ForgetArguments
<1> HIDE DEF ArgumentLimit
<1>3. argv' \in [0 .. MaxArgs - 1 -> 0 .. ArgumentLimit \cup {Garbage}] /\ argv'[0] = 0 /\ argv'[1] = 0
  BY <1>1, <1>2 DEF TypeOK
<1>4. \A i \in 0 .. argc' : argv'[i] = 0
  BY <1>2, <1>3
<1> QED
  BY <1>1, <1>2, <1>3, <1>4 DEF ArgumentsWritten

LEMMA AddsDigit ==
  ASSUME TypeOK, ArgumentsWritten, NEW d \in 0 .. 9, AddDigit(d)
  PROVE  /\ argc' \in 0 .. MaxArgs - 1
         /\ argv' \in [0 .. MaxArgs - 1 -> 0 .. ArgumentLimit \cup {Garbage}]
         /\ ArgumentsWritten'
<1>1. MaxArgs \in Nat /\ MaxArgs >= 3 /\ MaxArgument \in Nat /\ ArgumentLimit = 10 * MaxArgument - 1
      /\ ArgumentLimit \in Nat /\ Garbage \in Nat
  BY TokenizerAssumption DEF ArgumentLimit
<1>2. argc' = argc /\ argc \in 0 .. MaxArgs - 1
  BY DEF AddDigit, TypeOK
<1>3. CASE argv[argc] < MaxArgument
  <2> DEFINE v == 10 * argv[argc] + d
  <2>1. argv' = [argv EXCEPT ![argc] = v]
    BY <1>3 DEF AddDigit
  <2>2. v \in 0 .. ArgumentLimit
    <3>1. argv[argc] \in 0 .. ArgumentLimit \cup {Garbage}
      BY <1>2 DEF TypeOK
    <3>2. argv[argc] \in Nat
      BY <1>1, <3>1
    <3> QED
      BY <1>1, <1>3, <3>2
  <2> HIDE DEF v
  <2>3. argv' \in [0 .. MaxArgs - 1 -> 0 .. ArgumentLimit \cup {Garbage}]
    BY <2>1, <2>2 DEF TypeOK
  <2>4. \A i \in 0 .. MaxArgs - 1 : argv'[i] = IF i = argc THEN v ELSE argv[i]
    BY <2>1 DEF TypeOK
  <2>5. v <= ArgumentLimit /\ \A i \in 0 .. argc : i \in 0 .. MaxArgs - 1
    BY <1>1, <1>2, <2>2
  <2>6. \A i \in 0 .. argc' : argv'[i] <= ArgumentLimit
    BY <1>2, <2>4, <2>5 DEF ArgumentsWritten
  <2>7. argv'[1] <= ArgumentLimit /\ (argc' = 0 => argv'[1] = 0)
    BY <1>1, <1>2, <2>4, <2>5 DEF ArgumentsWritten
  <2> QED
    BY <1>2, <2>3, <2>6, <2>7 DEF ArgumentsWritten
<1>4. CASE ~(argv[argc] < MaxArgument)
  <2>1. argv' = argv
    BY <1>4 DEF AddDigit
  <2> QED
    BY <1>2, <2>1 DEF TypeOK, ArgumentsWritten
<1> QED
  BY <1>3, <1>4

LEMMA AddsArgument ==
  ASSUME TypeOK, ArgumentsWritten, AddArgument
  PROVE  /\ argc' \in 0 .. MaxArgs - 1
         /\ argv' \in [0 .. MaxArgs - 1 -> 0 .. ArgumentLimit \cup {Garbage}]
         /\ ArgumentsWritten'
<1>1. MaxArgs \in Nat /\ MaxArgs >= 3 /\ ArgumentLimit \in Nat /\ argc \in 0 .. MaxArgs - 1
  BY TokenizerAssumption DEF ArgumentLimit, TypeOK
<1>2. {argc + 1, MaxArgs - 1} \subseteq Nat /\ {argc + 1, MaxArgs - 1} # {}
  BY <1>1
<1>3. argc' \in {argc + 1, MaxArgs - 1} /\ argc' <= argc + 1 /\ argc' <= MaxArgs - 1
  BY <1>2, LeastIs DEF AddArgument
<1>4. argc' \in 0 .. MaxArgs - 1 /\ argc' >= 1
  BY <1>1, <1>3
<1>5. argv' = [argv EXCEPT ![argc'] = 0]
  BY DEF AddArgument
<1>6. argv' \in [0 .. MaxArgs - 1 -> 0 .. ArgumentLimit \cup {Garbage}]
  BY <1>1, <1>4, <1>5 DEF TypeOK
<1>7. \A i \in 0 .. MaxArgs - 1 : argv'[i] = IF i = argc' THEN 0 ELSE argv[i]
  BY <1>5 DEF TypeOK
<1>8. ASSUME NEW i \in 0 .. argc' PROVE argv'[i] <= ArgumentLimit
  <2>1. i \in 0 .. MaxArgs - 1 /\ (i = argc' \/ i \in 0 .. argc)
    BY <1>1, <1>3, <1>4
  <2> QED
    BY <1>1, <1>7, <2>1 DEF ArgumentsWritten
<1>9. argv'[1] <= ArgumentLimit
  BY <1>1, <1>7 DEF ArgumentsWritten
<1> QED
  BY <1>4, <1>6, <1>8, <1>9 DEF ArgumentsWritten

LEMMA NextPosIs ==
  ASSUME TypeOK
  PROVE  /\ NextPos \in 1 .. MaxTokenLength - 1
         /\ NextPos = IF tokenBufferPos = MaxTokenLength - 1 THEN tokenBufferPos ELSE tokenBufferPos + 1
<1>1. MaxTokenLength \in Nat /\ MaxTokenLength >= 6 /\ tokenBufferPos \in 0 .. MaxTokenLength - 1
  BY TokenizerAssumption DEF TypeOK
<1>2. {tokenBufferPos + 1, MaxTokenLength - 1} \subseteq Nat
      /\ {tokenBufferPos + 1, MaxTokenLength - 1} # {}
  BY <1>1
<1>3. NextPos \in {tokenBufferPos + 1, MaxTokenLength - 1}
      /\ NextPos <= tokenBufferPos + 1 /\ NextPos <= MaxTokenLength - 1
  BY <1>2, LeastIs DEF NextPos
<1> QED
  BY <1>1, <1>3

LEMMA DigitsAre ==
  ASSUME NEW c \in DIG
  PROVE  DigitValue[c] \in 0 .. 9
BY DEF DIG, DigitValue

LEMMA SaysMode ==
  ASSUME TypeOK, NEW calls, Len(calls) \in Nat, Say(calls)
  PROVE  ansi' \in BOOLEAN
BY AnsiIsBoolean DEF Say, TypeOK

LEMMA ScanKeeps ==
  ASSUME TokenInv, NEW cc \in Char, Scan(cc)
  PROVE  TokenInv'
<1> DEFINE s == [tokenBuffer EXCEPT ![tokenBufferPos] = cc]
           p == NextPos
           rule == FirstRule(IF ansi THEN Rules(p, s, cc) ELSE VT52Rules(p, s))
           limits == 0 .. ArgumentLimit \cup {Garbage}
<1>1. TypeOK /\ ArgumentsWritten
  BY DEF TokenInv
<1>2. MaxTokenLength \in Nat /\ MaxTokenLength >= 6 /\ {"ESC", "["} \subseteq Char
  BY TokenizerAssumption
<1>3. s \in [0 .. MaxTokenLength - 1 -> Char \cup {NoChar}] /\ p \in 0 .. MaxTokenLength - 1
  BY <1>1, <1>2, NextPosIs DEF TypeOK
<1>4. rule \in RuleNames /\ (rule = "digit" => cc \in DIG)
  BY RuleNamed
<1>5. Len(<<>>) = 0 /\ Len(<<>>) \in Nat
  OBVIOUS
<1> HIDE DEF s, p
<1>6. CASE rule = "introducer"
  <2>1. /\ tokenBuffer' = [s EXCEPT ![0] = "ESC", ![1] = "["] /\ tokenBufferPos' = 2
        /\ Say(<<>>) /\ argv' = argv /\ argc' = argc
    BY <1>6 DEF Scan, s, p
  <2>2. tokenBuffer' \in [0 .. MaxTokenLength - 1 -> Char \cup {NoChar}]
    BY <1>2, <1>3, <2>1
  <2>3. tokenBufferPos' \in 0 .. MaxTokenLength - 1 /\ ansi' \in BOOLEAN
    BY <1>1, <1>2, <1>5, <2>1, SaysMode
  <2> QED
    BY <1>1, <2>1, <2>2, <2>3 DEF TokenInv, TypeOK, ArgumentsWritten
<1>7. CASE rule \in {"wait", "digit", "argument"}
  <2>1. /\ tokenBuffer' = s /\ tokenBufferPos' = p /\ Say(<<>>)
        /\ \/ rule = "digit"    /\ AddDigit(DigitValue[cc])
           \/ rule = "argument" /\ AddArgument
           \/ rule = "wait"     /\ UNCHANGED <<argv, argc>>
    BY <1>7 DEF Scan, s, p
  <2>2. ansi' \in BOOLEAN
    BY <1>1, <1>5, <2>1, SaysMode
  <2>3. argc' \in 0 .. MaxArgs - 1 /\ argv' \in [0 .. MaxArgs - 1 -> limits] /\ ArgumentsWritten'
    <3>1. CASE rule = "digit" /\ AddDigit(DigitValue[cc])
      BY <1>1, <1>4, <3>1, DigitsAre, AddsDigit
    <3>2. CASE rule = "argument" /\ AddArgument
      BY <1>1, <3>2, AddsArgument
    <3>3. CASE rule = "wait" /\ UNCHANGED <<argv, argc>>
      BY <1>1, <3>3 DEF TypeOK, ArgumentsWritten
    <3> QED
      BY <2>1, <3>1, <3>2, <3>3
  <2> QED
    BY <1>3, <2>1, <2>2, <2>3 DEF TokenInv, TypeOK
<1>8. CASE rule \notin {"introducer", "wait", "digit", "argument"}
  <2>1. tokenBuffer' = s /\ Say(Calls(rule, p, s, cc)) /\ ResetTokenizer
    BY <1>8 DEF Scan, s, p
  <2>2. ansi' \in BOOLEAN
    <3>1. Len(Calls(rule, p, s, cc)) \in Nat
      BY <1>1, <1>4, <1>8, CallsAreMany
    <3> QED
      BY <1>1, <2>1, <3>1, SaysMode
  <2>3. argc' \in 0 .. MaxArgs - 1 /\ argv' \in [0 .. MaxArgs - 1 -> limits] /\ ArgumentsWritten'
        /\ tokenBufferPos' = 0
    BY <1>1, <2>1, ForgetsArguments DEF ResetTokenizer
  <2> QED
    BY <1>2, <1>3, <2>1, <2>2, <2>3 DEF TokenInv, TypeOK
<1> QED
  BY <1>6, <1>7, <1>8

LEMMA ControlKeeps ==
  ASSUME TokenInv, NEW cc \in Char, Control(cc)
  PROVE  TokenInv'
<1>1. TypeOK /\ ArgumentsWritten
  BY DEF TokenInv
<1>2. MaxTokenLength \in Nat /\ MaxTokenLength >= 6
  BY TokenizerAssumption
<1>3. Len(<<>>) \in Nat /\ Len(<<Token("ctl", cc, <<>>)>>) \in Nat
  OBVIOUS
<1>4. ASSUME Say(<<>>) \/ Say(<<Token("ctl", cc, <<>>)>>) PROVE ansi' \in BOOLEAN
  BY <1>1, <1>3, <1>4, SaysMode
<1>5. CASE Xpe(tokenBufferPos, tokenBuffer)
  <2>1. Say(<<>>) /\ UNCHANGED <<tokenBuffer, tokenBufferPos, argv, argc>>
    BY <1>5 DEF Control
  <2> QED
    BY <1>1, <1>4, <2>1 DEF TokenInv, TypeOK, ArgumentsWritten
<1>6. CASE ~Xpe(tokenBufferPos, tokenBuffer) /\ cc = "ESC"
  <2>1. tokenBuffer' = [tokenBuffer EXCEPT ![0] = cc] /\ tokenBufferPos' = 1 /\ ForgetArguments /\ Say(<<>>)
    BY <1>6 DEF Control
  <2>2. tokenBuffer' \in [0 .. MaxTokenLength - 1 -> Char \cup {NoChar}]
        /\ tokenBufferPos' \in 0 .. MaxTokenLength - 1
    BY <1>1, <1>2, <2>1 DEF TypeOK
  <2> QED
    BY <1>1, <1>4, <2>1, <2>2, ForgetsArguments DEF TokenInv, TypeOK
<1>7. CASE ~Xpe(tokenBufferPos, tokenBuffer) /\ cc # "ESC"
  <2>1. /\ Say(<<Token("ctl", cc, <<>>)>>) /\ tokenBuffer' = tokenBuffer
        /\ ResetTokenizer \/ UNCHANGED <<tokenBufferPos, argv, argc>>
    BY <1>7 DEF Control
  <2>2. CASE ResetTokenizer
    <3>1. tokenBufferPos' \in 0 .. MaxTokenLength - 1
      BY <1>2, <2>2 DEF ResetTokenizer
    <3> QED
      BY <1>1, <1>4, <2>1, <2>2, <3>1, ForgetsArguments DEF TokenInv, TypeOK, ResetTokenizer
  <2>3. CASE UNCHANGED <<tokenBufferPos, argv, argc>>
    BY <1>1, <1>4, <2>1, <2>3 DEF TokenInv, TypeOK, ArgumentsWritten
  <2> QED
    BY <2>1, <2>2, <2>3
<1> QED
  BY <1>5, <1>6, <1>7

LEMMA TokenStep ==
  ASSUME TokenInv, [Next]_vars
  PROVE  TokenInv'
<1>1. CASE UNCHANGED vars
  BY <1>1 DEF vars, TokenInv, TypeOK, ArgumentsWritten
<1>2. ASSUME NEW cc \in Char, ReceiveChar(cc)
      PROVE  TokenInv'
  <2>1. CASE cc = "DEL" /\ Say(<<>>) /\ UNCHANGED <<tokenBuffer, tokenBufferPos, argv, argc>>
    <3>1. TypeOK /\ Len(<<>>) \in Nat
      BY DEF TokenInv
    <3>2. ansi' \in BOOLEAN
      BY <2>1, <3>1, SaysMode
    <3> QED
      BY <2>1, <3>2 DEF TokenInv, TypeOK, ArgumentsWritten
  <2> QED
    BY <1>2, <2>1, ControlKeeps, ScanKeeps DEF ReceiveChar
<1> QED
  BY <1>1, <1>2 DEF Next

(* The first state of the scanner.                                         *)
LEMMA FirstIsSound ==
  ASSUME Init
  PROVE  TokenInv
<1>1. MaxTokenLength \in Nat /\ MaxTokenLength >= 6 /\ MaxArgs \in Nat /\ MaxArgs >= 3
      /\ ArgumentLimit \in Nat
  BY TokenizerAssumption DEF ArgumentLimit
<1> HIDE DEF ArgumentLimit
<1>2. argv \in [0 .. MaxArgs - 1 -> 0 .. ArgumentLimit \cup {Garbage}] /\ argv[0] = 0 /\ argv[1] = 0
  BY <1>1 DEF Init
<1>3. tokenBuffer \in [0 .. MaxTokenLength - 1 -> Char \cup {NoChar}]
  BY DEF Init
<1>4. argc = 0 /\ tokenBufferPos = 0 /\ ansi \in BOOLEAN
  BY DEF Init
<1> QED
  BY <1>1, <1>2, <1>3, <1>4 DEF TokenInv, TypeOK, ArgumentsWritten

(* Whatever characters come in whatever order: the scanner stays in its    *)
(* buffer and its arguments, and handles a sequence only with arguments    *)
(* that were written while it was scanned, of a bounded size (receiveChar, *)
(* addDigit, addArgument, resetTokenizer).                                 *)
THEOREM ArgumentsAreWritten == Spec => []TokenInv
<1>1. Init => TokenInv
  BY FirstIsSound
<1>2. TokenInv /\ [Next]_vars => TokenInv'
  BY TokenStep
<1> QED
  BY <1>1, <1>2, PTL DEF Spec

-----------------------------------------------------------------------------
(* The scanner and the parser with named states.  What a character makes   *)
(* of MODE_Ansi, and the numbers and tokens of the two, are the same.      *)
LEMMA SameMode ==
  ASSUME NEW calls, NEW mode
  PROVE  Parser!AnsiAfter(calls, mode) = AnsiAfter(calls, mode)
BY DEF Parser!AnsiAfter, AnsiAfter, Parser!SwitchesTo, SwitchesTo

LEMMA SameNumber ==
  ASSUME NEW digits
  PROVE  Parser!Number(digits) = Number(digits)
BY DEF Parser!Number, Number, Parser!DigitValue, DigitValue

LEMMA SameTokens ==
  ASSUME NEW kind, NEW code, NEW arguments
  PROVE  Parser!Token(kind, code, arguments) = Token(kind, code, arguments)
BY DEF Parser!Token, Token, Parser!Texts, Texts, Parser!LowByte, LowByte

LEMMA SameClasses ==
  /\ Parser!CTL = CTL /\ Parser!CPN = CPN /\ Parser!CPS = CPS /\ Parser!SCS = SCS
  /\ Parser!DIG = DIG /\ Parser!DigitValue = DigitValue /\ Parser!Wide = Wide
BY DEF Parser!Wide, Wide, Parser!CTL, CTL, Parser!CPN, CPN, Parser!CPS, CPS, Parser!SCS, SCS,
       Parser!DIG, DIG, DigitValue, Parser!DigitValue

LEMMA SameSay ==
  ASSUME NEW calls, Say(calls)
  PROVE  Parser!Say(calls)
BY SameMode DEF Say, Parser!Say

LEMMA NothingSwitches ==
  ASSUME NEW mode
  PROVE  AnsiAfter(<<>>, mode) = mode
<1> DEFINE after[i \in 0 .. Len(<<>>)] == IF i = 0 THEN mode ELSE SwitchesTo(<<>>[i], after[i - 1])
           f == [i \in 0 .. 0 |-> mode]
<1>1. f = [i \in 0 .. Len(<<>>) |-> IF i = 0 THEN mode ELSE SwitchesTo(<<>>[i], f[i - 1])]
  OBVIOUS
<1> HIDE DEF f
<1>2. after = [i \in 0 .. Len(<<>>) |-> IF i = 0 THEN mode ELSE SwitchesTo(<<>>[i], after[i - 1])]
  BY <1>1
<1> HIDE DEF after
<1>3. after[Len(<<>>)] = mode
  BY <1>2
<1> QED
  BY <1>3 DEF AnsiAfter, after

LEMMA OneSwitches ==
  ASSUME NEW token, NEW mode
  PROVE  AnsiAfter(<<token>>, mode) = SwitchesTo(token, mode)
<1> DEFINE c == <<token>>
<1>0. Len(c) = 1 /\ c[1] = token
  OBVIOUS
<1> HIDE DEF c
<1> DEFINE after[i \in 0 .. Len(c)] == IF i = 0 THEN mode ELSE SwitchesTo(c[i], after[i - 1])
           f == [i \in 0 .. 1 |-> IF i = 0 THEN mode ELSE SwitchesTo(token, mode)]
<1>1. f = [i \in 0 .. Len(c) |-> IF i = 0 THEN mode ELSE SwitchesTo(c[i], f[i - 1])]
  <2>1. f[0] = mode
    OBVIOUS
  <2>2. ASSUME NEW i \in 0 .. 1 PROVE f[i] = IF i = 0 THEN mode ELSE SwitchesTo(c[i], f[i - 1])
    <3>1. CASE i = 0
      BY <3>1
    <3>2. CASE i = 1
      BY <1>0, <2>1, <3>2
    <3> QED
      BY <3>1, <3>2
  <2> QED
    BY <1>0, <2>2
<1> HIDE DEF f
<1>2. after = [i \in 0 .. Len(c) |-> IF i = 0 THEN mode ELSE SwitchesTo(c[i], after[i - 1])]
  BY <1>1
<1> HIDE DEF after
<1>3. after[0] = mode
  BY <1>0, <1>2
<1>4. after[1] = SwitchesTo(c[1], after[1 - 1])
  BY <1>0, <1>2
<1>5. after[Len(c)] = SwitchesTo(token, mode)
  BY <1>0, <1>3, <1>4
<1> QED
  BY <1>5 DEF AnsiAfter, after, c

LEMMA ModeStays ==
  /\ Say(<<>>) => ansi' = ansi
  /\ \A cc : Say(<<Token("ctl", cc, <<>>)>>) => ansi' = ansi
<1>1. \A cc : SwitchesTo(Token("ctl", cc, <<>>), ansi) = ansi
  BY DEF SwitchesTo, Token
<1> QED
  BY <1>1, NothingSwitches, OneSwitches DEF Say

(* What the buffer holds of the sequence that is being scanned, and that   *)
(* nothing but a list has arguments.                                       *)
Thirds == {"?", ">", "!", "SP"}
BegunAt(p, s, mode) ==
    /\ p >= 1 => s[0] = "ESC"
    /\ ~mode /\ p >= 2 => s[1] = "Y" /\ p <= 3
    /\ mode /\ p >= 2 => s[1] \in GRP \cup {"P"}
    /\ mode /\ p >= 3 /\ s[1] \in SCS \cup {"#"} => s[2] \in Thirds
NoneYet(p, s, mode, n, a) == StateAt(p, s, mode) \notin Lists => n = 0 /\ a[0] = 0
BegunInv ==
    /\ BegunAt(tokenBufferPos, tokenBuffer, ansi)
    /\ NoneYet(tokenBufferPos, tokenBuffer, ansi, argc, argv)

ListOf(c) == CASE c = "?"  -> "private" [] c = ">"  -> "second"
               [] c = "!"  -> "bang"    [] c = "SP" -> "space"
               [] OTHER -> "list"

LEMMA StatesAre ==
  ASSUME NEW p \in Nat, NEW s, NEW mode \in BOOLEAN
  PROVE  /\ p = 0 => StateAt(p, s, mode) = "ground"
         /\ p = 1 => StateAt(p, s, mode) = "escape"
         /\ p = 2 /\ ~mode => StateAt(p, s, mode) = "row"
         /\ p >= 3 /\ ~mode => StateAt(p, s, mode) = "column"
         /\ mode /\ Xpe(p, s) => StateAt(p, s, mode) = "osc"
         /\ mode /\ p >= 2 /\ s[1] = "P" => StateAt(p, s, mode) = "dcs"
         /\ mode /\ p = 2 /\ s[1] = "[" => StateAt(p, s, mode) = "csi"
         /\ mode /\ p = 2 /\ s[1] \notin {"]", "P", "["} => StateAt(p, s, mode) = "designate"
         /\ mode /\ p >= 3 /\ s[1] \notin {"]", "P"} => StateAt(p, s, mode) = ListOf(s[2])
<1>1. p \in {0, 1, 2} \/ p >= 3
  OBVIOUS
<1> QED
  BY <1>1 DEF StateAt, Xpe, ListOf

LEMMA ListsAre ==
  /\ \A c : ListOf(c) \in Lists
  /\ \A st \in Lists : st \notin {"ground", "escape", "row", "column", "osc", "dcs", "csi", "designate"}
BY DEF ListOf, Lists

LEMMA Enters ==
  ASSUME NEW st, StateAt(tokenBufferPos', tokenBuffer', ansi') = st, st \notin {"designate", "column"},
         st \in Lists => tokenBufferPos' = 3,
         ~Xpe(tokenBufferPos', tokenBuffer') \/ tokenBufferPos' = 2, argc' = 0, argv'[0] = 0
  PROVE  Parser!Enter(st)
<1>1. FourthAt(tokenBufferPos', tokenBuffer', ansi') = "fresh"
  BY DEF FourthAt
<1>2. ParametersIn(argc', argv') = <<0>>
  <2>1. [i \in 1 .. 0 + 1 |-> argv'[i - 1]] = <<0>>
    OBVIOUS
  <2> QED
    BY <2>1 DEF ParametersIn
<1>3. TextAt(tokenBufferPos', tokenBuffer') = <<>>
  <2>1. [i \in 1 .. 2 - 2 |-> tokenBuffer'[i + 1]] = <<>>
    OBVIOUS
  <2> QED
    BY <2>1 DEF TextAt
<1>4. MarksAt(tokenBufferPos', tokenBuffer', ansi') = <<>>
  BY DEF MarksAt
<1> QED
  BY <1>1, <1>2, <1>3, <1>4 DEF Parser!Enter

LEMMA Forgotten ==
  ASSUME TypeOK, ForgetArguments
  PROVE  argc' = 0 /\ argv'[0] = 0
<1>1. MaxArgs \in Nat /\ MaxArgs >= 3
  BY TokenizerAssumption
<1>2. 0 \in 0 .. MaxArgs - 1 /\ argv' = [argv EXCEPT ![0] = 0, ![1] = 0] /\ argc' = 0
  BY <1>1 DEF ForgetArguments
<1> QED
  BY <1>2 DEF TypeOK

LEMMA Finishes ==
  ASSUME TypeOK, NEW calls, Say(calls), ansi' \in BOOLEAN, ResetTokenizer
  PROVE  Parser!Finish(calls) /\ BegunInv'
<1>1. tokenBufferPos' = 0 /\ argc' = 0 /\ argv'[0] = 0
  BY Forgotten DEF ResetTokenizer
<1>2. StateAt(tokenBufferPos', tokenBuffer', ansi') = "ground"
  BY <1>1 DEF StateAt
<1>3. ~Xpe(tokenBufferPos', tokenBuffer')
  BY <1>1 DEF Xpe
<1>4. Parser!Enter("ground")
  <2>1. "ground" \notin {"designate", "column"} /\ "ground" \notin Lists
    BY DEF Lists
  <2> QED
    BY <1>1, <1>2, <1>3, <2>1, Enters
<1>5. BegunInv'
  BY <1>1 DEF BegunInv, BegunAt, NoneYet
<1> QED
  BY <1>4, <1>5, SameSay DEF Parser!Finish

LEMMA UnreadStays ==
  ASSUME UNCHANGED <<tokenBuffer, tokenBufferPos, argv, argc>>, ansi' = ansi
  PROVE  UNCHANGED Parser!unread /\ (BegunInv => BegunInv')
BY DEF Parser!unread, BegunInv

LEMMA InTextState ==
  ASSUME TypeOK, BegunInv
  PROVE  Xpe(tokenBufferPos, tokenBuffer) <=>
           StateAt(tokenBufferPos, tokenBuffer, ansi) = "osc"
<1>1. tokenBufferPos \in Nat /\ ansi \in BOOLEAN
  BY TokenizerAssumption DEF TypeOK
<1>2. Xpe(tokenBufferPos, tokenBuffer) => ansi
  BY DEF BegunInv, BegunAt, Xpe
<1>3. StateAt(tokenBufferPos, tokenBuffer, ansi) = "osc" => Xpe(tokenBufferPos, tokenBuffer)
  <2>1. tokenBufferPos \in {0, 1, 2} \/ tokenBufferPos >= 3
    BY <1>1
  <2>2. ListOf(tokenBuffer[2]) # "osc"
    BY ListsAre
  <2> QED
    BY <1>1, <2>1, <2>2, StatesAre DEF Xpe
<1> QED
  BY <1>1, <1>2, <1>3, StatesAre

(* Controls.                                                               *)
LEMMA ControlParsed ==
  ASSUME TokenInv, BegunInv, NEW cc \in Char, Control(cc), TokenInv'
  PROVE  Parser!PReceive(cc) /\ BegunInv'
<1>1. TypeOK /\ ansi' \in BOOLEAN /\ cc \in CTL /\ Parser!CTL = CTL
  BY SameClasses DEF TokenInv, TypeOK, Control
<1>2. CASE Xpe(tokenBufferPos, tokenBuffer)
  <2>1. Say(<<>>) /\ UNCHANGED <<tokenBuffer, tokenBufferPos, argv, argc>> /\ cc \notin {"BEL", "ESC"}
    BY <1>2 DEF Control, Ends
  <2>2. UNCHANGED Parser!unread /\ BegunInv'
    BY <2>1, ModeStays, UnreadStays
  <2>3. StateAt(tokenBufferPos, tokenBuffer, ansi) = "osc"
    BY <1>1, <1>2, InTextState
  <2>4. cc \in {"CAN", "LF"}
    BY <1>1, <2>1 DEF CTL
  <2>5. Parser!Osc(cc)
    BY <2>1, <2>2, <2>3, <2>4, SameSay DEF Parser!Osc
  <2> QED
    BY <2>2, <2>5 DEF Parser!PReceive
<1>3. CASE ~Xpe(tokenBufferPos, tokenBuffer)
  <2>0. StateAt(tokenBufferPos, tokenBuffer, ansi) # "osc"
    BY <1>1, <1>3, InTextState
  <2>1. CASE cc = "ESC"
    <3>1. /\ tokenBuffer' = [tokenBuffer EXCEPT ![0] = "ESC"] /\ tokenBufferPos' = 1
          /\ ForgetArguments /\ Say(<<>>)
      BY <1>3, <2>1 DEF Control
    <3>2. argc' = 0 /\ argv'[0] = 0
      BY <1>1, <3>1, Forgotten
    <3>3. StateAt(tokenBufferPos', tokenBuffer', ansi') = "escape"
      BY <3>1 DEF StateAt
    <3>4. ~Xpe(tokenBufferPos', tokenBuffer')
      BY <3>1 DEF Xpe
    <3>5. Parser!Enter("escape")
      <4>1. "escape" \notin {"designate", "column"} /\ "escape" \notin Lists
        BY DEF Lists
      <4> QED
        BY <3>2, <3>3, <3>4, <4>1, Enters
    <3>6. Parser!Control(cc)
      BY <1>1, <2>0, <2>1, <3>1, <3>5, SameSay DEF Parser!Control, Parser!Go
    <3>7. tokenBuffer'[0] = "ESC"
      <4>1. 0 \in 0 .. MaxTokenLength - 1
        BY TokenizerAssumption
      <4> QED
        BY <1>1, <3>1, <4>1 DEF TypeOK
    <3>8. BegunInv'
      BY <3>1, <3>2, <3>7 DEF BegunInv, BegunAt, NoneYet
    <3> QED
      BY <3>6, <3>8 DEF Parser!PReceive
  <2>2. CASE cc = "CAN"
    <3>1. Say(<<Token("ctl", cc, <<>>)>>) /\ ResetTokenizer
      BY <1>3, <2>2 DEF Control, Cancels
    <3>2. Parser!Finish(<<Token("ctl", cc, <<>>)>>) /\ BegunInv'
      BY <1>1, <3>1, Finishes
    <3>3. Parser!Control(cc)
      BY <1>1, <2>0, <2>2, <3>2, SameTokens DEF Parser!Control
    <3> QED
      BY <3>2, <3>3 DEF Parser!PReceive
  <2>3. CASE cc \notin {"ESC", "CAN"}
    <3>1. Say(<<Token("ctl", cc, <<>>)>>) /\ UNCHANGED <<tokenBuffer, tokenBufferPos, argv, argc>>
      BY <1>3, <2>3 DEF Control, Cancels
    <3>2. UNCHANGED Parser!unread /\ BegunInv'
      BY <3>1, ModeStays, UnreadStays
    <3>3. Parser!Control(cc)
      BY <1>1, <2>0, <2>3, <3>1, <3>2, SameTokens, SameSay DEF Parser!Control
    <3> QED
      BY <3>2, <3>3 DEF Parser!PReceive
  <2> QED
    BY <2>1, <2>2, <2>3
<1> QED
  BY <1>2, <1>3

LEMMA DeleteParsed ==
  ASSUME TokenInv, BegunInv, NEW cc \in Char, cc = "DEL", Say(<<>>),
         UNCHANGED <<tokenBuffer, tokenBufferPos, argv, argc>>
  PROVE  Parser!PReceive(cc) /\ BegunInv'
<1>1. UNCHANGED Parser!unread /\ BegunInv' /\ Parser!Say(<<>>)
  BY ModeStays, UnreadStays, SameSay
<1>2. CASE StateAt(tokenBufferPos, tokenBuffer, ansi) = "osc"
  <2>1. Parser!Osc(cc)
    BY <1>1, <1>2 DEF Parser!Osc
  <2> QED
    BY <1>1, <2>1 DEF Parser!PReceive
<1>3. CASE StateAt(tokenBufferPos, tokenBuffer, ansi) # "osc"
  BY <1>1, <1>3 DEF Parser!PReceive
<1> QED
  BY <1>2, <1>3

(* Which rule is the first to hold, by what is in the buffer.              *)
RuleFacts(r, p, s, cc) ==
    /\ Len(r) = 20 /\ Met(r, 20)
    /\ r[1][2] = "wait" /\ r[2][2] = "introducer" /\ r[3][2] = "wait"
    /\ r[4][2] = "attribute" /\ r[5][2] = "wait" /\ r[6][2] = "wait"
    /\ r[7][2] = "wait" /\ r[8][2] = "chr" /\ r[9][2] = "wait"
    /\ r[10][2] = "esc" /\ r[11][2] = "cs" /\ r[12][2] = "de"
    /\ r[13][2] = "pn" /\ r[14][2] = "resize" /\ r[15][2] = "pe"
    /\ r[16][2] = "sp" /\ r[17][2] = "psp" /\ r[18][2] = "digit"
    /\ r[19][2] = "argument" /\ r[20][2] = "each"
    /\ Met(r, 1) <=> p = 1 /\ s[0] = "ESC"
    /\ Met(r, 2) <=> p = 1 /\ s[0] = "CSI8"
    /\ Met(r, 3) <=> p = 2 /\ s[1] \in GRP
    /\ Met(r, 4) <=> Xpe(p, s) /\ Ends(cc)
    /\ Met(r, 5) <=> Xpe(p, s)
    /\ Met(r, 6) <=> p = 3 /\ s[2] \in Thirds
    /\ Met(r, 7) <=> p = 4 /\ s[3] = "SP"
    /\ Met(r, 8) <=> p = 1 /\ cc \notin CTL
    /\ Met(r, 9) <=> p >= 2 /\ s[0] = "ESC" /\ s[1] = "P"
    /\ Met(r, 10) <=> p = 2 /\ s[0] = "ESC"
    /\ Met(r, 11) <=> p = 3 /\ s[1] \in SCS
    /\ Met(r, 12) <=> p = 3 /\ s[1] = "#"
    /\ Met(r, 13) <=> p >= 3 /\ s[2] \notin {"?", "!", ">"} /\ cc \in CPN
    /\ Met(r, 14) <=> p >= 3 /\ s[2] \notin {"?", "!", ">"} /\ cc \in CPS
    /\ Met(r, 15) <=> p >= 3 /\ s[2] = "!"
    /\ Met(r, 16) <=> p >= 4 /\ s[2] = "SP"
    /\ Met(r, 17) <=> p >= 5 /\ s[3] = "SP"
    /\ Met(r, 18) <=> p >= 3 /\ cc \in DIG
    /\ Met(r, 19) <=> p >= 3 /\ cc = ";"

LEMMA RulesKnown ==
  ASSUME NEW p, NEW s, NEW cc
  PROVE  RuleFacts(Rules(p, s, cc), p, s, cc)
BY DEF Rules, Met, Thirds, RuleFacts

RuleChain(p, s, cc) ==
    IF p = 1 /\ s[0] = "ESC" THEN "wait"
    ELSE IF p = 1 /\ s[0] = "CSI8" THEN "introducer"
    ELSE IF p = 2 /\ s[1] \in GRP THEN "wait"
    ELSE IF Xpe(p, s) /\ Ends(cc) THEN "attribute"
    ELSE IF Xpe(p, s) THEN "wait"
    ELSE IF p = 3 /\ s[2] \in Thirds THEN "wait"
    ELSE IF p = 4 /\ s[3] = "SP" THEN "wait"
    ELSE IF p = 1 /\ cc \notin CTL THEN "chr"
    ELSE IF p >= 2 /\ s[0] = "ESC" /\ s[1] = "P" THEN "wait"
    ELSE IF p = 2 /\ s[0] = "ESC" THEN "esc"
    ELSE IF p = 3 /\ s[1] \in SCS THEN "cs"
    ELSE IF p = 3 /\ s[1] = "#" THEN "de"
    ELSE IF p >= 3 /\ s[2] \notin {"?", "!", ">"} /\ cc \in CPN THEN "pn"
    ELSE IF p >= 3 /\ s[2] \notin {"?", "!", ">"} /\ cc \in CPS THEN "resize"
    ELSE IF p >= 3 /\ s[2] = "!" THEN "pe"
    ELSE IF p >= 4 /\ s[2] = "SP" THEN "sp"
    ELSE IF p >= 5 /\ s[3] = "SP" THEN "psp"
    ELSE IF p >= 3 /\ cc \in DIG THEN "digit"
    ELSE IF p >= 3 /\ cc = ";" THEN "argument"
    ELSE "each"

LEMMA RuleIs ==
  ASSUME NEW p, NEW s, NEW cc
  PROVE  FirstRule(Rules(p, s, cc)) = RuleChain(p, s, cc)
<1>1. PICK r : r = Rules(p, s, cc)
  OBVIOUS
<1>2. RuleFacts(r, p, s, cc)
  BY <1>1, RulesKnown
<1>3. Len(r) = 20 /\ Met(r, 20)
  BY <1>2 DEF RuleFacts
<1>4. Len(r) \in Nat \ {0} /\ Len(r) \in Nat /\ Met(r, Len(r))
  BY <1>3
<1>5. PICK i : Takes(r, i)
  BY <1>4, OneTaken
<1>6. i \in 1 .. 20 /\ Met(r, i) /\ \A j \in 1 .. i - 1 : ~Met(r, j)
  BY <1>3, <1>5 DEF Takes
<1>7. FirstRule(r) = r[i][2]
  BY <1>4, <1>5, FirstIs
<1>8. CASE i = 1
  <2>1. Met(r, 1)
    BY <1>6, <1>8
  <2>2. r[1][2] = RuleChain(p, s, cc)
    BY <1>2, <2>1 DEF RuleFacts, RuleChain
  <2> QED
    BY <1>1, <1>7, <1>8, <2>2
<1>9. CASE i = 2
  <2>1. Met(r, 2) /\ ~Met(r, 1)
    BY <1>6, <1>9
  <2>2. r[2][2] = RuleChain(p, s, cc)
    BY <1>2, <2>1 DEF RuleFacts, RuleChain
  <2> QED
    BY <1>1, <1>7, <1>9, <2>2
<1>10. CASE i = 3
  <2>1. Met(r, 3) /\ ~Met(r, 1) /\ ~Met(r, 2)
    BY <1>6, <1>10
  <2>2. r[3][2] = RuleChain(p, s, cc)
    BY <1>2, <2>1 DEF RuleFacts, RuleChain
  <2> QED
    BY <1>1, <1>7, <1>10, <2>2
<1>11. CASE i = 4
  <2>1. Met(r, 4) /\ ~Met(r, 1) /\ ~Met(r, 2) /\ ~Met(r, 3)
    BY <1>6, <1>11
  <2>2. r[4][2] = RuleChain(p, s, cc)
    BY <1>2, <2>1 DEF RuleFacts, RuleChain
  <2> QED
    BY <1>1, <1>7, <1>11, <2>2
<1>12. CASE i = 5
  <2>1. Met(r, 5) /\ ~Met(r, 1) /\ ~Met(r, 2) /\ ~Met(r, 3) /\ ~Met(r, 4)
    BY <1>6, <1>12
  <2>2. r[5][2] = RuleChain(p, s, cc)
    BY <1>2, <2>1 DEF RuleFacts, RuleChain
  <2> QED
    BY <1>1, <1>7, <1>12, <2>2
<1>13. CASE i = 6
  <2>1. Met(r, 6) /\ ~Met(r, 1) /\ ~Met(r, 2) /\ ~Met(r, 3) /\ ~Met(r, 4) /\ ~Met(r, 5)
    BY <1>6, <1>13
  <2>2. r[6][2] = RuleChain(p, s, cc)
    BY <1>2, <2>1 DEF RuleFacts, RuleChain
  <2> QED
    BY <1>1, <1>7, <1>13, <2>2
<1>14. CASE i = 7
  <2>1. Met(r, 7) /\ ~Met(r, 1) /\ ~Met(r, 2) /\ ~Met(r, 3) /\ ~Met(r, 4) /\ ~Met(r, 5) /\ ~Met(r, 6)
    BY <1>6, <1>14
  <2>2. r[7][2] = RuleChain(p, s, cc)
    BY <1>2, <2>1 DEF RuleFacts, RuleChain
  <2> QED
    BY <1>1, <1>7, <1>14, <2>2
<1>15. CASE i = 8
  <2>1. Met(r, 8) /\ ~Met(r, 1) /\ ~Met(r, 2) /\ ~Met(r, 3) /\ ~Met(r, 4) /\ ~Met(r, 5) /\ ~Met(r, 6)
        /\ ~Met(r, 7)
    BY <1>6, <1>15
  <2>2. r[8][2] = RuleChain(p, s, cc)
    BY <1>2, <2>1 DEF RuleFacts, RuleChain
  <2> QED
    BY <1>1, <1>7, <1>15, <2>2
<1>16. CASE i = 9
  <2>1. Met(r, 9) /\ ~Met(r, 1) /\ ~Met(r, 2) /\ ~Met(r, 3) /\ ~Met(r, 4) /\ ~Met(r, 5) /\ ~Met(r, 6)
        /\ ~Met(r, 7) /\ ~Met(r, 8)
    BY <1>6, <1>16
  <2>2. r[9][2] = RuleChain(p, s, cc)
    BY <1>2, <2>1 DEF RuleFacts, RuleChain
  <2> QED
    BY <1>1, <1>7, <1>16, <2>2
<1>17. CASE i = 10
  <2>1. Met(r, 10) /\ ~Met(r, 1) /\ ~Met(r, 2) /\ ~Met(r, 3) /\ ~Met(r, 4) /\ ~Met(r, 5) /\ ~Met(r, 6)
        /\ ~Met(r, 7) /\ ~Met(r, 8) /\ ~Met(r, 9)
    BY <1>6, <1>17
  <2>2. r[10][2] = RuleChain(p, s, cc)
    BY <1>2, <2>1 DEF RuleFacts, RuleChain
  <2> QED
    BY <1>1, <1>7, <1>17, <2>2
<1>18. CASE i = 11
  <2>1. Met(r, 11) /\ ~Met(r, 1) /\ ~Met(r, 2) /\ ~Met(r, 3) /\ ~Met(r, 4) /\ ~Met(r, 5) /\ ~Met(r, 6)
        /\ ~Met(r, 7) /\ ~Met(r, 8) /\ ~Met(r, 9) /\ ~Met(r, 10)
    BY <1>6, <1>18
  <2>2. r[11][2] = RuleChain(p, s, cc)
    BY <1>2, <2>1 DEF RuleFacts, RuleChain
  <2> QED
    BY <1>1, <1>7, <1>18, <2>2
<1>19. CASE i = 12
  <2>1. Met(r, 12) /\ ~Met(r, 1) /\ ~Met(r, 2) /\ ~Met(r, 3) /\ ~Met(r, 4) /\ ~Met(r, 5) /\ ~Met(r, 6)
        /\ ~Met(r, 7) /\ ~Met(r, 8) /\ ~Met(r, 9) /\ ~Met(r, 10) /\ ~Met(r, 11)
    BY <1>6, <1>19
  <2>2. r[12][2] = RuleChain(p, s, cc)
    BY <1>2, <2>1 DEF RuleFacts, RuleChain
  <2> QED
    BY <1>1, <1>7, <1>19, <2>2
<1>20. CASE i = 13
  <2>1. Met(r, 13) /\ ~Met(r, 1) /\ ~Met(r, 2) /\ ~Met(r, 3) /\ ~Met(r, 4) /\ ~Met(r, 5) /\ ~Met(r, 6)
        /\ ~Met(r, 7) /\ ~Met(r, 8) /\ ~Met(r, 9) /\ ~Met(r, 10) /\ ~Met(r, 11) /\ ~Met(r, 12)
    BY <1>6, <1>20
  <2>2. r[13][2] = RuleChain(p, s, cc)
    BY <1>2, <2>1 DEF RuleFacts, RuleChain
  <2> QED
    BY <1>1, <1>7, <1>20, <2>2
<1>21. CASE i = 14
  <2>1. Met(r, 14) /\ ~Met(r, 1) /\ ~Met(r, 2) /\ ~Met(r, 3) /\ ~Met(r, 4) /\ ~Met(r, 5) /\ ~Met(r, 6)
        /\ ~Met(r, 7) /\ ~Met(r, 8) /\ ~Met(r, 9) /\ ~Met(r, 10) /\ ~Met(r, 11) /\ ~Met(r, 12) /\ ~Met(r, 13)
    BY <1>6, <1>21
  <2>2. r[14][2] = RuleChain(p, s, cc)
    BY <1>2, <2>1 DEF RuleFacts, RuleChain
  <2> QED
    BY <1>1, <1>7, <1>21, <2>2
<1>22. CASE i = 15
  <2>1. Met(r, 15) /\ ~Met(r, 1) /\ ~Met(r, 2) /\ ~Met(r, 3) /\ ~Met(r, 4) /\ ~Met(r, 5) /\ ~Met(r, 6)
        /\ ~Met(r, 7) /\ ~Met(r, 8) /\ ~Met(r, 9) /\ ~Met(r, 10) /\ ~Met(r, 11) /\ ~Met(r, 12) /\ ~Met(r, 13)
        /\ ~Met(r, 14)
    BY <1>6, <1>22
  <2>2. r[15][2] = RuleChain(p, s, cc)
    BY <1>2, <2>1 DEF RuleFacts, RuleChain
  <2> QED
    BY <1>1, <1>7, <1>22, <2>2
<1>23. CASE i = 16
  <2>1. Met(r, 16) /\ ~Met(r, 1) /\ ~Met(r, 2) /\ ~Met(r, 3) /\ ~Met(r, 4) /\ ~Met(r, 5) /\ ~Met(r, 6)
        /\ ~Met(r, 7) /\ ~Met(r, 8) /\ ~Met(r, 9) /\ ~Met(r, 10) /\ ~Met(r, 11) /\ ~Met(r, 12) /\ ~Met(r, 13)
        /\ ~Met(r, 14) /\ ~Met(r, 15)
    BY <1>6, <1>23
  <2>2. r[16][2] = RuleChain(p, s, cc)
    BY <1>2, <2>1 DEF RuleFacts, RuleChain
  <2> QED
    BY <1>1, <1>7, <1>23, <2>2
<1>24. CASE i = 17
  <2>1. Met(r, 17) /\ ~Met(r, 1) /\ ~Met(r, 2) /\ ~Met(r, 3) /\ ~Met(r, 4) /\ ~Met(r, 5) /\ ~Met(r, 6)
        /\ ~Met(r, 7) /\ ~Met(r, 8) /\ ~Met(r, 9) /\ ~Met(r, 10) /\ ~Met(r, 11) /\ ~Met(r, 12) /\ ~Met(r, 13)
        /\ ~Met(r, 14) /\ ~Met(r, 15) /\ ~Met(r, 16)
    BY <1>6, <1>24
  <2>2. r[17][2] = RuleChain(p, s, cc)
    BY <1>2, <2>1 DEF RuleFacts, RuleChain
  <2> QED
    BY <1>1, <1>7, <1>24, <2>2
<1>25. CASE i = 18
  <2>1. Met(r, 18) /\ ~Met(r, 1) /\ ~Met(r, 2) /\ ~Met(r, 3) /\ ~Met(r, 4) /\ ~Met(r, 5) /\ ~Met(r, 6)
        /\ ~Met(r, 7) /\ ~Met(r, 8) /\ ~Met(r, 9) /\ ~Met(r, 10) /\ ~Met(r, 11) /\ ~Met(r, 12) /\ ~Met(r, 13)
        /\ ~Met(r, 14) /\ ~Met(r, 15) /\ ~Met(r, 16) /\ ~Met(r, 17)
    BY <1>6, <1>25
  <2>2. r[18][2] = RuleChain(p, s, cc)
    BY <1>2, <2>1 DEF RuleFacts, RuleChain
  <2> QED
    BY <1>1, <1>7, <1>25, <2>2
<1>26. CASE i = 19
  <2>1. Met(r, 19) /\ ~Met(r, 1) /\ ~Met(r, 2) /\ ~Met(r, 3) /\ ~Met(r, 4) /\ ~Met(r, 5) /\ ~Met(r, 6)
        /\ ~Met(r, 7) /\ ~Met(r, 8) /\ ~Met(r, 9) /\ ~Met(r, 10) /\ ~Met(r, 11) /\ ~Met(r, 12) /\ ~Met(r, 13)
        /\ ~Met(r, 14) /\ ~Met(r, 15) /\ ~Met(r, 16) /\ ~Met(r, 17) /\ ~Met(r, 18)
    BY <1>6, <1>26
  <2>2. r[19][2] = RuleChain(p, s, cc)
    BY <1>2, <2>1 DEF RuleFacts, RuleChain
  <2> QED
    BY <1>1, <1>7, <1>26, <2>2
<1>27. CASE i = 20
  <2>1. Met(r, 20) /\ ~Met(r, 1) /\ ~Met(r, 2) /\ ~Met(r, 3) /\ ~Met(r, 4) /\ ~Met(r, 5) /\ ~Met(r, 6)
        /\ ~Met(r, 7) /\ ~Met(r, 8) /\ ~Met(r, 9) /\ ~Met(r, 10) /\ ~Met(r, 11) /\ ~Met(r, 12) /\ ~Met(r, 13)
        /\ ~Met(r, 14) /\ ~Met(r, 15) /\ ~Met(r, 16) /\ ~Met(r, 17) /\ ~Met(r, 18) /\ ~Met(r, 19)
    BY <1>6, <1>27
  <2>2. r[20][2] = RuleChain(p, s, cc)
    BY <1>2, <2>1 DEF RuleFacts, RuleChain
  <2> QED
    BY <1>1, <1>7, <1>27, <2>2
<1> QED
  BY <1>6, <1>8, <1>9, <1>10, <1>11, <1>12, <1>13, <1>14, <1>15, <1>16, <1>17, <1>18, <1>19, <1>20, <1>21, <1>22, <1>23, <1>24, <1>25, <1>26, <1>27

LEMMA RuleAtStart ==
  ASSUME NEW s, NEW cc, s[0] = cc, cc \notin CTL
  PROVE  FirstRule(Rules(1, s, cc)) = IF cc = "CSI8" THEN "introducer" ELSE "chr"
<1>1. FirstRule(Rules(1, s, cc)) = RuleChain(1, s, cc)
  BY RuleIs
<1>2. RuleChain(1, s, cc) = IF cc = "CSI8" THEN "introducer" ELSE "chr"
  BY DEF RuleChain, CTL, Xpe
<1> QED
  BY <1>1, <1>2

LEMMA RuleSecond ==
  ASSUME NEW s, NEW cc, s[0] = "ESC", s[1] = cc
  PROVE  FirstRule(Rules(2, s, cc)) = IF cc \in GRP \cup {"P"} THEN "wait" ELSE "esc"
<1>1. FirstRule(Rules(2, s, cc)) = RuleChain(2, s, cc)
  BY RuleIs
<1>2. RuleChain(2, s, cc) = IF cc \in GRP \cup {"P"} THEN "wait" ELSE "esc"
  BY DEF RuleChain, GRP, Xpe
<1> QED
  BY <1>1, <1>2

LEMMA RuleInText ==
  ASSUME NEW p \in Nat, p >= 3, NEW s, NEW cc, s[1] = "]"
  PROVE  FirstRule(Rules(p, s, cc)) = IF Ends(cc) THEN "attribute" ELSE "wait"
<1>1. FirstRule(Rules(p, s, cc)) = RuleChain(p, s, cc)
  BY RuleIs
<1>2. RuleChain(p, s, cc) = IF Ends(cc) THEN "attribute" ELSE "wait"
  <2>1. Xpe(p, s) /\ p # 1 /\ p # 2
    BY DEF Xpe
  <2>2. CASE Ends(cc)
    BY <2>1, <2>2 DEF RuleChain
  <2>3. CASE ~Ends(cc)
    BY <2>1, <2>3 DEF RuleChain
  <2> QED
    BY <2>2, <2>3
<1> QED
  BY <1>1, <1>2

LEMMA RuleInString ==
  ASSUME NEW p \in Nat, p >= 3, NEW s, NEW cc, s[0] = "ESC", s[1] = "P"
  PROVE  FirstRule(Rules(p, s, cc)) = "wait"
<1>1. FirstRule(Rules(p, s, cc)) = RuleChain(p, s, cc)
  BY RuleIs
<1>2. RuleChain(p, s, cc) = "wait"
  BY DEF RuleChain, Xpe
<1> QED
  BY <1>1, <1>2

LEMMA RuleThird ==
  ASSUME NEW s, NEW cc, s[1] # "]", s[2] = cc, cc \in Thirds
  PROVE  FirstRule(Rules(3, s, cc)) = "wait"
<1>1. FirstRule(Rules(3, s, cc)) = RuleChain(3, s, cc)
  BY RuleIs
<1>2. RuleChain(3, s, cc) = "wait"
  BY DEF RuleChain, Xpe
<1> QED
  BY <1>1, <1>2

LEMMA RuleDesignate ==
  ASSUME NEW s, NEW cc, s[1] \in SCS \cup {"#"}, s[2] \notin Thirds
  PROVE  FirstRule(Rules(3, s, cc)) = IF s[1] = "#" THEN "de" ELSE "cs"
<1>1. FirstRule(Rules(3, s, cc)) = RuleChain(3, s, cc)
  BY RuleIs
<1>2. RuleChain(3, s, cc) = IF s[1] = "#" THEN "de" ELSE "cs"
  <2>1. s[1] # "]" /\ s[1] # "P" /\ (s[1] = "#" <=> s[1] \notin SCS)
    BY DEF SCS
  <2>2. ~Xpe(3, s)
    BY <2>1 DEF Xpe
  <2>3. CASE s[1] = "#"
    BY <2>1, <2>2, <2>3 DEF RuleChain
  <2>4. CASE s[1] # "#"
    BY <2>1, <2>2, <2>4 DEF RuleChain
  <2> QED
    BY <2>3, <2>4
<1> QED
  BY <1>1, <1>2

LEMMA RuleFourth ==
  ASSUME NEW s, NEW cc, s[1] # "]", s[3] = "SP"
  PROVE  FirstRule(Rules(4, s, cc)) = "wait"
<1>1. FirstRule(Rules(4, s, cc)) = RuleChain(4, s, cc)
  BY RuleIs
<1>2. RuleChain(4, s, cc) = "wait"
  BY DEF RuleChain, Xpe
<1> QED
  BY <1>1, <1>2

(* The rules for what is in a list, in their order.                        *)
InOpen(s) == s[2] \notin {"?", "!", ">"}
RuleInList(p, s, cc) ==
    IF InOpen(s) /\ cc \in CPN THEN "pn"
    ELSE IF InOpen(s) /\ cc \in CPS THEN "resize"
    ELSE IF s[2] = "!" THEN "pe"
    ELSE IF p >= 4 /\ s[2] = "SP" THEN "sp"
    ELSE IF p >= 5 /\ s[3] = "SP" THEN "psp"
    ELSE IF cc \in DIG THEN "digit"
    ELSE IF cc = ";" THEN "argument"
    ELSE "each"
HoldsList(p, s) ==
    /\ p \in Nat /\ p >= 3 /\ s[1] \notin {"]", "P"}
    /\ p = 3 => s[1] = "[" /\ s[2] \notin Thirds
    /\ p = 4 => s[3] # "SP"

LEMMA RuleBody ==
  ASSUME NEW p, NEW s, NEW cc, HoldsList(p, s)
  PROVE  FirstRule(Rules(p, s, cc)) = RuleInList(p, s, cc)
<1>1. p \in Nat /\ p >= 3 /\ s[1] \notin {"]", "P"} /\ (p = 3 => s[1] \notin SCS /\ s[1] # "#" /\ s[2] \notin Thirds)
      /\ (p = 4 => s[3] # "SP")
  BY DEF HoldsList, SCS
<1>2. ~Xpe(p, s)
  BY <1>1 DEF Xpe
<1>3. FirstRule(Rules(p, s, cc)) = RuleChain(p, s, cc)
  BY RuleIs
<1>4. RuleChain(p, s, cc) = RuleInList(p, s, cc)
  <2>1. p # 1 /\ p # 2 /\ ~(p = 3 /\ s[2] \in Thirds) /\ ~(p = 4 /\ s[3] = "SP")
        /\ s[1] # "P" /\ ~(p = 3 /\ s[1] \in SCS) /\ ~(p = 3 /\ s[1] = "#") /\ p >= 3
    BY <1>1
  <2> QED
    BY <1>2, <2>1 DEF RuleChain, RuleInList, InOpen
<1> QED
  BY <1>3, <1>4

LEMMA VT52Rule ==
  ASSUME NEW p \in Nat, NEW s
  PROVE  FirstRule(VT52Rules(p, s)) =
           IF p = 1 THEN IF s[0] = "ESC" THEN "wait" ELSE IF s[0] \notin Wide THEN "chr" ELSE "vt52"
           ELSE IF p \in {2, 3} /\ s[1] = "Y" THEN "wait"
           ELSE IF p < 4 THEN "vt52" ELSE "vt52yx"
<1>1. PICK r : r = VT52Rules(p, s)
  OBVIOUS
<1>2. /\ Len(r) = 5 /\ Met(r, 5)
      /\ r[1][2] = "wait" /\ r[2][2] = "chr" /\ r[3][2] = "wait"
      /\ r[4][2] = "vt52" /\ r[5][2] = "vt52yx"
  BY <1>1 DEF VT52Rules, Met
<1>3. /\ Met(r, 1) <=> p = 1 /\ s[0] = "ESC"
      /\ Met(r, 2) <=> p = 1 /\ s[0] \notin Wide
      /\ Met(r, 3) <=> p \in {2, 3} /\ s[1] = "Y"
      /\ Met(r, 4) <=> p < 4
  BY <1>1 DEF VT52Rules, Met
<1>4. Len(r) \in Nat \ {0} /\ Len(r) \in Nat /\ Met(r, Len(r))
  BY <1>2
<1>5. PICK i : Takes(r, i)
  BY <1>4, OneTaken
<1>6. i \in 1 .. 5 /\ Met(r, i) /\ \A j \in 1 .. i - 1 : ~Met(r, j)
  BY <1>2, <1>5 DEF Takes
<1>7. FirstRule(r) = r[i][2]
  BY <1>4, <1>5, FirstIs
<1>8. CASE i = 1
  BY <1>1, <1>2, <1>3, <1>6, <1>7, <1>8
<1>9. CASE i = 2
  BY <1>1, <1>2, <1>3, <1>6, <1>7, <1>9
<1>10. CASE i = 3
  BY <1>1, <1>2, <1>3, <1>6, <1>7, <1>10
<1>11. CASE i = 4
  BY <1>1, <1>2, <1>3, <1>6, <1>7, <1>11
<1>12. CASE i = 5
  BY <1>1, <1>2, <1>3, <1>6, <1>7, <1>12
<1> QED
  BY <1>6, <1>8, <1>9, <1>10, <1>11, <1>12

(* What a character does to the scanner, by the rule that takes it.        *)
Writes(s, cc) == s = [tokenBuffer EXCEPT ![tokenBufferPos] = cc]
RuleOf(s, cc) == FirstRule(IF ansi THEN Rules(NextPos, s, cc) ELSE VT52Rules(NextPos, s))
Keeps(s) == tokenBuffer' = s /\ tokenBufferPos' = NextPos /\ Say(<<>>)
Silent == {"introducer", "wait", "digit", "argument"}

LEMMA ScanDoes ==
  ASSUME NEW cc, Scan(cc), NEW s, Writes(s, cc)
  PROVE  /\ RuleOf(s, cc) = "introducer" =>
              /\ tokenBuffer' = [s EXCEPT ![0] = "ESC", ![1] = "["] /\ tokenBufferPos' = 2
              /\ Say(<<>>) /\ argv' = argv /\ argc' = argc
         /\ RuleOf(s, cc) = "wait" => Keeps(s) /\ argv' = argv /\ argc' = argc
         /\ RuleOf(s, cc) = "digit" => Keeps(s) /\ AddDigit(DigitValue[cc])
         /\ RuleOf(s, cc) = "argument" => Keeps(s) /\ AddArgument
         /\ RuleOf(s, cc) \notin Silent =>
              Say(Calls(RuleOf(s, cc), NextPos, s, cc)) /\ ResetTokenizer
<1>1. PICK rule : rule = RuleOf(s, cc)
  OBVIOUS
<1>2. CASE rule = "introducer"
  BY <1>1, <1>2 DEF Scan, Writes, RuleOf, Silent
<1>3. CASE rule \in {"wait", "digit", "argument"}
  <2>1. /\ Keeps(s)
        /\ \/ rule = "digit"    /\ AddDigit(DigitValue[cc])
           \/ rule = "argument" /\ AddArgument
           \/ rule = "wait"     /\ UNCHANGED <<argv, argc>>
    BY <1>1, <1>3 DEF Scan, Writes, RuleOf, Keeps
  <2> QED
    BY <1>1, <1>3, <2>1 DEF Silent
<1>4. CASE rule \notin Silent
  <2>1. Say(Calls(rule, NextPos, s, cc)) /\ ResetTokenizer
    BY <1>1, <1>4 DEF Scan, Writes, RuleOf, Silent
  <2> QED
    BY <1>1, <1>4, <2>1 DEF Silent
<1> QED
  BY <1>2, <1>3, <1>4 DEF Silent

Scans(cc, s) ==
    /\ TokenInv /\ BegunInv /\ ansi' \in BOOLEAN
    /\ cc \in Char /\ cc # "DEL"
    /\ cc \in CTL => Xpe(tokenBufferPos, tokenBuffer) /\ Ends(cc)
    /\ Writes(s, cc) /\ Scan(cc)

(* The buffer after the character was written to it.                       *)
LEMMA Written ==
  ASSUME NEW cc, NEW s, Scans(cc, s)
  PROVE  /\ tokenBufferPos \in Nat /\ NextPos \in Nat
         /\ tokenBufferPos \in {0, 1, 2, 3} \/ tokenBufferPos >= 4
         /\ tokenBufferPos = 0 => NextPos = 1
         /\ tokenBufferPos = 1 => NextPos = 2
         /\ tokenBufferPos = 2 => NextPos = 3
         /\ tokenBufferPos = 3 => NextPos = 4
         /\ tokenBufferPos >= 4 => NextPos >= 5
         /\ s[tokenBufferPos] = cc
         /\ tokenBufferPos # 0 => s[0] = tokenBuffer[0]
         /\ tokenBufferPos # 1 => s[1] = tokenBuffer[1]
         /\ tokenBufferPos # 2 => s[2] = tokenBuffer[2]
         /\ tokenBufferPos # 3 => s[3] = tokenBuffer[3]
<1>1. /\ MaxTokenLength \in Nat /\ MaxTokenLength >= 6 /\ TypeOK
      /\ tokenBufferPos \in 0 .. MaxTokenLength - 1
      /\ tokenBuffer \in [0 .. MaxTokenLength - 1 -> Char \cup {NoChar}]
  BY TokenizerAssumption DEF Scans, TokenInv, TypeOK
<1>2. /\ NextPos \in 1 .. MaxTokenLength - 1
      /\ NextPos = IF tokenBufferPos = MaxTokenLength - 1 THEN tokenBufferPos ELSE tokenBufferPos + 1
  BY <1>1, NextPosIs
<1>4. \A i \in 0 .. MaxTokenLength - 1 : s[i] = IF i = tokenBufferPos THEN cc ELSE tokenBuffer[i]
  BY <1>1 DEF Scans, Writes
<1>5. s[tokenBufferPos] = cc
  BY <1>1, <1>4
<1>6. 0 \in 0 .. MaxTokenLength - 1 /\ 1 \in 0 .. MaxTokenLength - 1
      /\ 2 \in 0 .. MaxTokenLength - 1 /\ 3 \in 0 .. MaxTokenLength - 1
  BY <1>1
<1> QED
  BY <1>1, <1>2, <1>4, <1>5, <1>6

LEMMA Begun ==
  ASSUME NEW cc, NEW s, Scans(cc, s)
  PROVE  /\ tokenBufferPos >= 1 => tokenBuffer[0] = "ESC"
         /\ ~Xpe(tokenBufferPos, tokenBuffer) => cc \notin CTL
         /\ cc # "DEL" /\ cc \in Char /\ TypeOK
BY DEF Scans, TokenInv, BegunInv, BegunAt

LEMMA BegunNone ==
  ASSUME NEW cc, NEW s, Scans(cc, s), StateAt(tokenBufferPos, tokenBuffer, ansi) \notin Lists
  PROVE  argc = 0 /\ argv[0] = 0
BY DEF Scans, BegunInv, NoneYet

LEMMA BegunAnsi ==
  ASSUME NEW cc, NEW s, Scans(cc, s), ansi
  PROVE  /\ tokenBufferPos >= 2 => tokenBuffer[1] \in GRP \cup {"P"}
         /\ tokenBufferPos >= 3 /\ tokenBuffer[1] \in SCS \cup {"#"} => tokenBuffer[2] \in Thirds
BY DEF Scans, BegunInv, BegunAt

LEMMA BegunVT52 ==
  ASSUME NEW cc, NEW s, Scans(cc, s), ~ansi
  PROVE  tokenBufferPos >= 2 => tokenBuffer[1] = "Y" /\ tokenBufferPos <= 3
BY DEF Scans, BegunInv, BegunAt

LEMMA ModeKnown ==
  ASSUME NEW cc, NEW s, Scans(cc, s)
  PROVE  ansi \in BOOLEAN /\ ansi' \in BOOLEAN
BY DEF Scans, TokenInv, TypeOK

LEMMA ScanMakes ==
  ASSUME NEW cc, NEW s, Scans(cc, s), NEW rule, rule = RuleOf(s, cc), rule \notin Silent
  PROVE  Parser!Finish(Calls(rule, NextPos, s, cc)) /\ BegunInv'
<1>1. Say(Calls(rule, NextPos, s, cc)) /\ ResetTokenizer
  BY ScanDoes DEF Scans
<1>2. TypeOK /\ ansi' \in BOOLEAN
  BY Begun, ModeKnown
<1> QED
  BY <1>1, <1>2, Finishes

LEMMA ScanWaits ==
  ASSUME NEW cc, NEW s, Scans(cc, s), RuleOf(s, cc) = "wait"
  PROVE  /\ tokenBuffer' = s /\ tokenBufferPos' = NextPos /\ ansi' = ansi
         /\ argv' = argv /\ argc' = argc /\ Parser!Say(<<>>)
<1>1. Keeps(s) /\ argv' = argv /\ argc' = argc
  BY ScanDoes DEF Scans
<1> QED
  BY <1>1, ModeStays, SameSay DEF Keeps

(* Nothing is being scanned.                                               *)
LEMMA FirstParsed ==
  ASSUME NEW cc, NEW s, Scans(cc, s), ansi, tokenBufferPos = 0
  PROVE  Parser!First(cc) /\ BegunInv'
<1>0. ~Xpe(tokenBufferPos, tokenBuffer)
  BY DEF Xpe
<1>1. s[0] = cc /\ cc \notin CTL /\ NextPos = 1 /\ TypeOK
  BY <1>0, Written, Begun
<1>2. StateAt(tokenBufferPos, tokenBuffer, ansi) = "ground"
  BY DEF StateAt
<1>3. RuleOf(s, cc) = IF cc = "CSI8" THEN "introducer" ELSE "chr"
  BY <1>1, RuleAtStart DEF RuleOf
<1>4. CASE cc = "CSI8"
  <2>1. /\ tokenBuffer' = [s EXCEPT ![0] = "ESC", ![1] = "["] /\ tokenBufferPos' = 2
        /\ Say(<<>>) /\ argv' = argv /\ argc' = argc
    BY <1>3, <1>4, ScanDoes DEF Scans
  <2>2. tokenBuffer'[0] = "ESC" /\ tokenBuffer'[1] = "["
    <3>1. 0 \in 0 .. MaxTokenLength - 1 /\ 1 \in 0 .. MaxTokenLength - 1
      BY TokenizerAssumption
    <3>2. tokenBuffer \in [0 .. MaxTokenLength - 1 -> Char \cup {NoChar}]
      BY <1>1 DEF TypeOK
    <3>3. DOMAIN s = 0 .. MaxTokenLength - 1 /\ s = [i \in 0 .. MaxTokenLength - 1 |-> s[i]]
      BY <3>2 DEF Scans, Writes
    <3> QED
      BY <2>1, <3>1, <3>3
  <2>3. ansi' = ansi /\ Parser!Say(<<>>)
    BY <2>1, ModeStays, SameSay
  <2>4. StateAt(tokenBufferPos', tokenBuffer', ansi') = "csi"
    BY <2>1, <2>2, <2>3 DEF StateAt
  <2>5. ~Xpe(tokenBufferPos', tokenBuffer') /\ "csi" \notin Lists /\ "ground" \notin Lists
    BY <2>2 DEF Xpe, Lists
  <2>6. argc' = 0 /\ argv'[0] = 0
    BY <1>2, <2>1, <2>5, BegunNone
  <2>7. Parser!Enter("csi")
    BY <2>4, <2>5, <2>6, Enters
  <2>8. BegunInv'
    BY <2>1, <2>2, <2>3, <2>6 DEF BegunInv, BegunAt, NoneYet, GRP, SCS
  <2> QED
    BY <1>2, <1>4, <2>3, <2>7, <2>8 DEF Parser!First, Parser!Go
<1>5. CASE cc # "CSI8"
  <2>1. RuleOf(s, cc) = "chr" /\ "chr" \notin Silent
    BY <1>3, <1>5 DEF Silent
  <2>2. Calls("chr", NextPos, s, cc) = <<Token("chr", cc, <<>>)>>
    BY DEF Calls
  <2>3. Parser!Finish(<<Token("chr", cc, <<>>)>>) /\ BegunInv'
    BY <2>1, <2>2, ScanMakes
  <2> QED
    BY <1>2, <1>5, <2>3, SameTokens DEF Parser!First
<1> QED
  BY <1>4, <1>5

(* ESC was received.                                                       *)
LEMMA SecondParsed ==
  ASSUME NEW cc, NEW s, Scans(cc, s), ansi, tokenBufferPos = 1
  PROVE  Parser!Second(cc) /\ BegunInv'
<1>w. s[0] = tokenBuffer[0] /\ s[1] = cc /\ NextPos = 2
  BY Written
<1>b. tokenBuffer[0] = "ESC"
  BY Begun
<1>1. s[0] = "ESC" /\ s[1] = cc /\ NextPos = 2
  BY <1>w, <1>b
<1>2. StateAt(tokenBufferPos, tokenBuffer, ansi) = "escape" /\ "escape" \notin Lists
  BY DEF StateAt, Lists
<1>3. RuleOf(s, cc) = IF cc \in GRP \cup {"P"} THEN "wait" ELSE "esc"
  BY <1>1, RuleSecond DEF RuleOf
<1>4. argc = 0 /\ argv[0] = 0
  BY <1>2, BegunNone
<1>5. CASE cc \in GRP \cup {"P"}
  <2>1. /\ tokenBuffer' = s /\ tokenBufferPos' = 2 /\ ansi' = ansi
        /\ argv' = argv /\ argc' = argc /\ Parser!Say(<<>>)
    BY <1>1, <1>3, <1>5, ScanWaits
  <2>2. BegunInv'
    <3>1. BegunAt(2, s, ansi)
      BY <1>1, <1>5 DEF BegunAt
    <3>2. NoneYet(2, s, ansi, argc, argv)
      BY <1>4 DEF NoneYet
    <3> QED
      BY <2>1, <3>1, <3>2 DEF BegunInv
  <2>3. ASSUME NEW st, StateAt(2, s, TRUE) = st, st \notin Lists, st # "designate", st # "column"
        PROVE  Parser!Go(st)
    <3>1. Parser!Enter(st)
      BY <1>4, <2>1, <2>3, Enters
    <3> QED
      BY <2>1, <3>1 DEF Parser!Go
  <2>4. CASE cc \in {"[", "]", "P"}
    <3>1. StateAt(2, s, TRUE) = (IF cc = "[" THEN "csi" ELSE IF cc = "]" THEN "osc" ELSE "dcs")
      BY <1>1, <2>4 DEF StateAt
    <3>2. Parser!Go(IF cc = "[" THEN "csi" ELSE IF cc = "]" THEN "osc" ELSE "dcs")
      BY <2>3, <3>1 DEF Lists
    <3>3. cc # "#" /\ cc \notin SCS
      BY <2>4 DEF SCS
    <3> QED
      BY <1>2, <2>2, <2>4, <3>2, <3>3, SameClasses DEF Parser!Second
  <2>5. CASE cc \notin {"[", "]", "P"}
    <3>1. cc = "#" \/ cc \in SCS
      BY <1>5, <2>5 DEF GRP
    <3>2. StateAt(2, s, TRUE) = "designate" /\ "designate" \notin Lists
      BY <1>1, <2>5 DEF StateAt, Lists
    <3>3. Parser!Mark("designate", cc)
      <4>1. MarksAt(2, s, TRUE) = <<cc>>
        BY <1>1, <3>2 DEF MarksAt
      <4>2. MarksAt(tokenBufferPos, tokenBuffer, ansi) = <<>>
        BY <1>2 DEF MarksAt
      <4>3. Append(<<>>, cc) = <<cc>>
        OBVIOUS
      <4>4. FourthAt(2, s, TRUE) = "fresh" /\ FourthAt(tokenBufferPos, tokenBuffer, ansi) = "fresh"
        BY <1>2, <3>2 DEF FourthAt
      <4>5. TextAt(2, s) = <<>> /\ TextAt(tokenBufferPos, tokenBuffer) = <<>>
        BY <1>1, <2>5 DEF TextAt, Xpe
      <4> QED
        BY <2>1, <3>2, <4>1, <4>2, <4>3, <4>4, <4>5 DEF Parser!Mark
    <3> QED
      BY <1>2, <2>2, <2>5, <3>1, <3>3, SameClasses DEF Parser!Second
  <2> QED
    BY <2>4, <2>5
<1>6. CASE cc \notin GRP \cup {"P"}
  <2>1. RuleOf(s, cc) = "esc" /\ "esc" \notin Silent
    BY <1>3, <1>6 DEF Silent
  <2>2. Calls("esc", NextPos, s, cc) = <<Token("esc", cc, <<>>)>>
    BY <1>1 DEF Calls
  <2>3. Parser!Finish(<<Token("esc", cc, <<>>)>>) /\ BegunInv'
    BY <2>1, <2>2, ScanMakes
  <2>4. cc \notin {"[", "]", "P", "#"} /\ cc \notin SCS
    BY <1>6 DEF GRP
  <2> QED
    BY <1>2, <2>3, <2>4, SameTokens, SameClasses DEF Parser!Second
<1> QED
  BY <1>5, <1>6

(* Inside a device control string.                                         *)
LEMMA DcsParsed ==
  ASSUME NEW cc, NEW s, Scans(cc, s), ansi, tokenBufferPos >= 2, tokenBuffer[1] = "P"
  PROVE  Parser!Dcs(cc) /\ BegunInv'
<1>1. /\ tokenBufferPos \in Nat /\ NextPos \in Nat /\ NextPos >= 3
      /\ s[0] = "ESC" /\ s[1] = "P"
  <2>1. /\ tokenBufferPos \in Nat /\ NextPos \in Nat /\ NextPos >= 3
        /\ s[0] = tokenBuffer[0] /\ s[1] = "P"
    BY Written
  <2>2. tokenBuffer[0] = "ESC"
    BY Written, Begun
  <2> QED
    BY <2>1, <2>2
<1>a. ansi \in BOOLEAN
  BY ModeKnown
<1>2. StateAt(tokenBufferPos, tokenBuffer, ansi) = "dcs" /\ StateAt(NextPos, s, ansi) = "dcs"
  BY <1>1 DEF StateAt
<1>3. RuleOf(s, cc) = "wait"
  BY <1>1, RuleInString DEF RuleOf
<1>4. /\ tokenBuffer' = s /\ tokenBufferPos' = NextPos /\ ansi' = ansi
      /\ argv' = argv /\ argc' = argc /\ Parser!Say(<<>>)
  BY <1>3, ScanWaits
<1>5. "dcs" \notin Lists
  BY DEF Lists
<1>6. BegunInv'
  <2>1. argc = 0 /\ argv[0] = 0
    BY <1>2, <1>5, BegunNone
  <2>2. "P" \notin SCS \cup {"#"}
    BY DEF SCS
  <2> QED
    BY <1>1, <1>4, <2>1, <2>2 DEF BegunInv, BegunAt, NoneYet
<1>7. FourthAt(tokenBufferPos, tokenBuffer, ansi) = "fresh" /\ FourthAt(NextPos, s, ansi) = "fresh"
  BY <1>2, <1>5 DEF FourthAt
<1>8. TextAt(tokenBufferPos, tokenBuffer) = <<>> /\ TextAt(NextPos, s) = <<>>
  BY <1>1 DEF TextAt, Xpe
<1>9. MarksAt(tokenBufferPos, tokenBuffer, ansi) = <<>> /\ MarksAt(NextPos, s, ansi) = <<>>
  BY <1>2 DEF MarksAt
<1> QED
  BY <1>2, <1>4, <1>6, <1>7, <1>8, <1>9 DEF Parser!Dcs, Parser!unread

(* After ESC [ and after ESC ( and the like.                               *)
LEMMA ThirdParsed ==
  ASSUME NEW cc, NEW s, Scans(cc, s), ansi, tokenBufferPos = 2, tokenBuffer[1] \notin {"]", "P"},
         cc \in Thirds \/ tokenBuffer[1] # "["
  PROVE  Parser!Third(cc) /\ BegunInv'
<1>1. /\ NextPos = 3 /\ s[0] = "ESC" /\ s[1] = tokenBuffer[1] /\ s[2] = cc
      /\ s[1] \in GRP /\ s[1] \notin {"]", "P"} /\ ansi \in BOOLEAN
  <2>1. NextPos = 3 /\ s[0] = tokenBuffer[0] /\ s[1] = tokenBuffer[1] /\ s[2] = cc
    BY Written
  <2>2. tokenBuffer[0] = "ESC"
    BY Begun
  <2>3. tokenBuffer[1] \in GRP \cup {"P"}
    BY BegunAnsi
  <2>4. ansi \in BOOLEAN
    BY ModeKnown
  <2> QED
    BY <2>1, <2>2, <2>3, <2>4
<1>2. StateAt(tokenBufferPos, tokenBuffer, ansi) = IF s[1] = "[" THEN "csi" ELSE "designate"
  BY <1>1 DEF StateAt
<1>3. CASE cc \in Thirds
  <2>1. RuleOf(s, cc) = "wait"
    BY <1>1, <1>3, RuleThird DEF RuleOf
  <2>2. /\ tokenBuffer' = s /\ tokenBufferPos' = 3 /\ ansi' = ansi
        /\ argv' = argv /\ argc' = argc /\ Parser!Say(<<>>)
    BY <1>1, <2>1, ScanWaits
  <2>3. StateAt(3, s, ansi) = ListOf(cc)
    BY <1>1 DEF StateAt, ListOf
  <2>4. ListOf(cc) \in Lists /\ ListOf(cc) \notin {"designate", "column"}
    BY ListsAre
  <2>5. argc = 0 /\ argv[0] = 0
    <3>1. "csi" \notin Lists /\ "designate" \notin Lists
      BY DEF Lists
    <3> QED
      BY <1>2, <3>1, BegunNone
  <2>6. ~Xpe(3, s)
    BY <1>1 DEF Xpe
  <2>7. Parser!Enter(ListOf(cc))
    BY <2>2, <2>3, <2>4, <2>5, <2>6, Enters
  <2>8. BegunInv'
    BY <1>1, <1>3, <2>2, <2>3, <2>4 DEF BegunInv, BegunAt, NoneYet
  <2>9. Parser!Go(ListOf(cc))
    BY <2>2, <2>7 DEF Parser!Go
  <2>10. CASE cc = "?"
    BY <1>2, <2>8, <2>9, <2>10 DEF Parser!Third, ListOf
  <2>11. CASE cc = ">"
    BY <1>2, <2>8, <2>9, <2>11 DEF Parser!Third, ListOf
  <2>12. CASE cc = "!"
    BY <1>2, <2>8, <2>9, <2>12 DEF Parser!Third, ListOf
  <2>13. CASE cc = "SP"
    BY <1>2, <2>8, <2>9, <2>13 DEF Parser!Third, ListOf
  <2> QED
    BY <1>3, <2>10, <2>11, <2>12, <2>13 DEF Thirds
<1>4. CASE cc \notin Thirds
  <2>1. s[1] \in SCS \cup {"#"} /\ s[1] # "[" /\ ("#" \notin SCS)
    BY <1>1, <1>4 DEF GRP, SCS
  <2>2. RuleOf(s, cc) = IF s[1] = "#" THEN "de" ELSE "cs"
    BY <1>1, <1>4, <2>1, RuleDesignate DEF RuleOf
  <2>3. MarksAt(tokenBufferPos, tokenBuffer, ansi) = <<s[1]>>
    BY <1>1, <1>2, <2>1 DEF MarksAt
  <2>4. CASE s[1] = "#"
    <3>1. RuleOf(s, cc) = "de" /\ "de" \notin Silent
      BY <2>2, <2>4 DEF Silent
    <3>2. Calls("de", NextPos, s, cc) = <<Token("de", cc, <<>>)>>
      BY <1>1 DEF Calls
    <3>3. Parser!Finish(<<Token("de", cc, <<>>)>>) /\ BegunInv'
      BY <3>1, <3>2, ScanMakes
    <3>4. cc \notin {"?", ">", "!", "SP"}
      BY <1>4 DEF Thirds
    <3> QED
      BY <1>2, <2>1, <2>3, <2>4, <3>3, <3>4, SameTokens DEF Parser!Third
  <2>5. CASE s[1] # "#"
    <3>1. RuleOf(s, cc) = "cs" /\ "cs" \notin Silent
      BY <2>2, <2>5 DEF Silent
    <3>2. Calls("cs", NextPos, s, cc) = <<Token("cs", cc, <<s[1]>>)>>
      BY <1>1 DEF Calls
    <3>3. Parser!Finish(<<Token("cs", cc, <<s[1]>>)>>) /\ BegunInv'
      BY <3>1, <3>2, ScanMakes
    <3>4. cc \notin {"?", ">", "!", "SP"} /\ <<s[1]>> # <<"#">>
      BY <1>4, <2>5 DEF Thirds
    <3> QED
      BY <1>2, <2>1, <2>3, <3>3, <3>4, SameTokens DEF Parser!Third
  <2> QED
    BY <2>4, <2>5
<1> QED
  BY <1>3, <1>4

LEMMA AppendOne ==
  ASSUME NEW a, NEW b
  PROVE  Append(<<a>>, b) = <<a, b>>
<1> DEFINE q == Append(<<a>>, b)
           r == <<a, b>>
           S == {a, b}
<1>1. <<a>> \in Seq(S) /\ b \in S /\ r \in Seq(S) /\ Len(<<a>>) = 1 /\ <<a>>[1] = a
  OBVIOUS
<1>2. q \in Seq(S) /\ Len(q) = 2
  BY <1>1, AppendProperties
<1>3. q[1] = a /\ q[2] = b
  BY <1>1, AppendProperties
<1>4. Len(r) = 2 /\ r[1] = a /\ r[2] = b
  OBVIOUS
<1> HIDE DEF q, r, S
<1>5. Len(q) = Len(r) /\ \A i \in 1 .. Len(q) : q[i] = r[i]
  BY <1>2, <1>3, <1>4
<1>6. q = r
  BY <1>1, <1>2, <1>5, SeqEqual
<1> QED
  BY <1>6 DEF q, r

(* VT52 mode.                                                              *)
LEMMA VT52Parsed ==
  ASSUME NEW cc, NEW s, Scans(cc, s), ~ansi
  PROVE  Parser!VT52(cc) /\ BegunInv'
<1>b. tokenBufferPos \in Nat /\ tokenBufferPos <= 3
  BY Written, BegunVT52
<1>m. ansi = FALSE
  BY ModeKnown
<1>1. /\ tokenBufferPos \in {0, 1, 2, 3} /\ NextPos = tokenBufferPos + 1
      /\ cc \notin CTL
  <2>1. ~Xpe(tokenBufferPos, tokenBuffer)
    BY <1>b, BegunVT52 DEF Xpe
  <2> QED
    BY <1>b, <2>1, Written, Begun
<1>2. RuleOf(s, cc) = FirstRule(VT52Rules(NextPos, s)) /\ NextPos \in Nat
  BY <1>1 DEF RuleOf
<1>3. CASE tokenBufferPos = 0
  <2>1. s[0] = cc /\ NextPos = 1 /\ s[0] # "ESC" /\ s[1] = tokenBuffer[1]
    BY <1>1, <1>3, Written DEF CTL
  <2>2. RuleOf(s, cc) = IF cc \notin Wide THEN "chr" ELSE "vt52"
    BY <1>2, <2>1, VT52Rule
  <2>3. StateAt(tokenBufferPos, tokenBuffer, ansi) = "ground"
    BY <1>3 DEF StateAt
  <2>4. CASE cc \in Wide
    <3>1. RuleOf(s, cc) = "vt52" /\ "vt52" \notin Silent
      BY <2>2, <2>4 DEF Silent
    <3>2. Calls("vt52", NextPos, s, cc) = <<Token("vt52", tokenBuffer[1], <<>>)>>
      BY <2>1 DEF Calls
    <3>3. Parser!Finish(<<Token("vt52", tokenBuffer[1], <<>>)>>) /\ BegunInv'
      BY <3>1, <3>2, ScanMakes
    <3>4. tokenBuffer[1] \in Char \cup {NoChar}
      <4>1. tokenBuffer \in [0 .. MaxTokenLength - 1 -> Char \cup {NoChar}]
        BY Begun DEF TypeOK
      <4>2. 1 \in 0 .. MaxTokenLength - 1
        BY TokenizerAssumption
      <4> QED
        BY <4>1, <4>2
    <3> QED
      BY <1>1, <2>3, <2>4, <3>3, <3>4, SameTokens, SameClasses DEF Parser!VT52
  <2>5. CASE cc \notin Wide
    <3>1. RuleOf(s, cc) = "chr" /\ "chr" \notin Silent
      BY <2>2, <2>5 DEF Silent
    <3>2. Calls("chr", NextPos, s, cc) = <<Token("chr", cc, <<>>)>>
      BY DEF Calls
    <3>3. Parser!Finish(<<Token("chr", cc, <<>>)>>) /\ BegunInv'
      BY <3>1, <3>2, ScanMakes
    <3> QED
      BY <1>1, <2>3, <2>5, <3>3, SameTokens, SameClasses DEF Parser!VT52
  <2> QED
    BY <2>4, <2>5
<1>4. CASE tokenBufferPos = 1
  <2>1. s[0] = "ESC" /\ NextPos = 2 /\ s[1] = cc
    BY <1>1, <1>4, Written, Begun
  <2>2. RuleOf(s, cc) = IF cc = "Y" THEN "wait" ELSE "vt52"
    BY <1>2, <2>1, VT52Rule
  <2>3. StateAt(tokenBufferPos, tokenBuffer, ansi) = "escape" /\ "escape" \notin Lists
    BY <1>4 DEF StateAt, Lists
  <2>4. CASE cc = "Y"
    <3>1. /\ tokenBuffer' = s /\ tokenBufferPos' = 2 /\ ansi' = FALSE
          /\ argv' = argv /\ argc' = argc /\ Parser!Say(<<>>)
      BY <1>m, <2>1, <2>2, <2>4, ScanWaits
    <3>2. argc = 0 /\ argv[0] = 0
      BY <2>3, BegunNone
    <3>3. StateAt(2, s, FALSE) = "row" /\ "row" \notin Lists /\ "row" \notin {"designate", "column"}
      BY DEF StateAt, Lists
    <3>4. Parser!Enter("row")
      BY <3>1, <3>2, <3>3, Enters
    <3>5. BegunInv'
      BY <2>1, <2>4, <3>1, <3>2 DEF BegunInv, BegunAt, NoneYet
    <3> QED
      BY <1>1, <2>3, <2>4, <3>1, <3>4, <3>5 DEF Parser!VT52, Parser!Go
  <2>5. CASE cc # "Y"
    <3>1. RuleOf(s, cc) = "vt52" /\ "vt52" \notin Silent
      BY <2>2, <2>5 DEF Silent
    <3>2. Calls("vt52", NextPos, s, cc) = <<Token("vt52", cc, <<>>)>>
      BY <2>1 DEF Calls
    <3>3. Parser!Finish(<<Token("vt52", cc, <<>>)>>) /\ BegunInv'
      BY <3>1, <3>2, ScanMakes
    <3> QED
      BY <1>1, <2>3, <2>5, <3>3, SameTokens DEF Parser!VT52
  <2> QED
    BY <2>4, <2>5
<1>5. CASE tokenBufferPos = 2
  <2>1. s[0] = "ESC" /\ s[1] = "Y" /\ NextPos = 3 /\ s[2] = cc
    BY <1>1, <1>5, Written, Begun, BegunVT52
  <2>2. RuleOf(s, cc) = "wait"
    BY <1>2, <2>1, VT52Rule
  <2>3. /\ tokenBuffer' = s /\ tokenBufferPos' = 3 /\ ansi' = FALSE
        /\ argv' = argv /\ argc' = argc /\ Parser!Say(<<>>)
    BY <1>m, <2>1, <2>2, ScanWaits
  <2>4. /\ StateAt(tokenBufferPos, tokenBuffer, ansi) = "row" /\ StateAt(3, s, FALSE) = "column"
        /\ "row" \notin Lists /\ "column" \notin Lists
    BY <1>m, <1>5 DEF StateAt, Lists
  <2>5. argc = 0 /\ argv[0] = 0
    BY <2>4, BegunNone
  <2>6. BegunInv'
    BY <2>1, <2>3, <2>5 DEF BegunInv, BegunAt, NoneYet
  <2>7. Parser!Mark("column", cc)
    <3>1. MarksAt(3, s, FALSE) = <<cc>>
      BY <2>1, <2>4 DEF MarksAt
    <3>2. MarksAt(tokenBufferPos, tokenBuffer, ansi) = <<>> /\ Append(<<>>, cc) = <<cc>>
      BY <2>4 DEF MarksAt
    <3>3. FourthAt(3, s, FALSE) = "fresh" /\ FourthAt(tokenBufferPos, tokenBuffer, ansi) = "fresh"
      BY <2>4 DEF FourthAt
    <3>4. TextAt(3, s) = <<>> /\ TextAt(tokenBufferPos, tokenBuffer) = <<>>
      <4>1. tokenBuffer[1] = "Y"
        BY <1>1, <1>5, BegunVT52
      <4> QED
        BY <2>1, <4>1 DEF TextAt, Xpe
    <3> QED
      BY <2>3, <2>4, <3>1, <3>2, <3>3, <3>4 DEF Parser!Mark
  <2> QED
    BY <1>1, <2>4, <2>6, <2>7 DEF Parser!VT52
<1>6. CASE tokenBufferPos = 3
  <2>1. s[1] = "Y" /\ NextPos = 4 /\ s[2] = tokenBuffer[2] /\ s[3] = cc
    BY <1>1, <1>6, Written, BegunVT52
  <2>2. RuleOf(s, cc) = "vt52yx" /\ "vt52yx" \notin Silent
    BY <1>2, <2>1, VT52Rule DEF Silent
  <2>3. Calls("vt52yx", NextPos, s, cc) = <<Token("vt52", "Y", <<s[2], cc>>)>>
    BY <2>1 DEF Calls
  <2>4. Parser!Finish(<<Token("vt52", "Y", <<s[2], cc>>)>>) /\ BegunInv'
    BY <2>2, <2>3, ScanMakes
  <2>5. StateAt(tokenBufferPos, tokenBuffer, ansi) = "column"
    BY <1>1, <1>6 DEF StateAt
  <2>6. Append(MarksAt(tokenBufferPos, tokenBuffer, ansi), cc) = <<s[2], cc>>
    <3>1. MarksAt(tokenBufferPos, tokenBuffer, ansi) = <<s[2]>>
      BY <2>1, <2>5 DEF MarksAt
    <3>2. Append(<<s[2]>>, cc) = <<s[2], cc>>
      BY AppendOne
    <3> QED
      BY <3>1, <3>2
  <2> QED
    BY <1>1, <2>4, <2>5, <2>6, SameTokens DEF Parser!VT52
<1> QED
  BY <1>1, <1>3, <1>4, <1>5, <1>6

LEMMA SubSeqIs ==
  ASSUME NEW S, NEW q, NEW m \in Int, NEW n \in Int, \A i \in m .. n : q[i] \in S
  PROVE  SubSeq(q, m, n) = [j \in 1 .. n - m + 1 |-> q[m + j - 1]]
<1> DEFINE r == [j \in 1 .. n - m + 1 |-> q[m + j - 1]]
<1>1. CASE m <= n
  <2>1. \A j \in 1 .. n - m + 1 : m + j - 1 \in m .. n
    BY <1>1
  <2>2. n - m + 1 \in Nat
    BY <1>1
  <2>3. r \in [1 .. n - m + 1 -> S]
    BY <2>1
  <2>4. r \in Seq(S) /\ Len(r) = n - m + 1 /\ \A j \in 1 .. n - m + 1 : r[j] = q[m + j - 1]
    BY <2>2, <2>3
  <2> HIDE DEF r
  <2>5. /\ SubSeq(q, m, n) \in Seq(S) /\ Len(SubSeq(q, m, n)) = n - m + 1
        /\ \A j \in 1 .. n - m + 1 : SubSeq(q, m, n)[j] = q[m + j - 1]
    BY <1>1, SubSeqProperties
  <2>6. \A j \in 1 .. Len(SubSeq(q, m, n)) : SubSeq(q, m, n)[j] = r[j]
    BY <2>4, <2>5
  <2>7. Len(SubSeq(q, m, n)) = Len(r)
    BY <2>4, <2>5
  <2>8. SubSeq(q, m, n) = r
    BY <2>4, <2>5, <2>6, <2>7, SeqEqual
  <2> QED
    BY <2>8 DEF r
<1>2. CASE n < m
  <2>1. SubSeq(q, m, n) = <<>>
    BY <1>2, SubSeqEmpty
  <2>2. 1 .. n - m + 1 = {}
    BY <1>2
  <2>3. r = <<>>
    BY <2>2
  <2> QED
    BY <2>1, <2>3
<1> QED
  BY <1>1, <1>2

(* The first character of a text that is no digit.                         *)
FirstOther(t) == SelectInSeq(t, LAMBDA c : c \notin DIG)
Others(t) == {k \in 1 .. Len(t) : t[k] \notin DIG}

LEMMA FirstOtherIs ==
  ASSUME NEW t, Len(t) \in Nat
  PROVE  /\ Others(t) = {} => FirstOther(t) = 0
         /\ Others(t) # {} => FirstOther(t) \in Others(t) /\ \A k \in Others(t) : FirstOther(t) <= k
<1>1. Others(t) \subseteq Nat
  BY DEF Others
<1>2. FirstOther(t) = IF Others(t) # {} THEN Min(Others(t)) ELSE 0
  BY DEF FirstOther, SelectInSeq, Others
<1> QED
  BY <1>1, <1>2, LeastIs

(* The parser's attribute, its number and text read from the buffer.       *)
AttributeOf(t) ==
  LET end  == FirstOther(t)
      kept == IF Len(t) < MaxTokenLength - 4 THEN Len(t) ELSE MaxTokenLength - 4
  IN  IF end = 0 \/ t[end] # ";" THEN <<>>
      ELSE <<Token(IF SubSeq(t, end + 1, kept) = <<"?">> THEN "request" ELSE "attribute",
                   SubSeq(t, end + 1, kept), <<Number(SubSeq(t, 1, end - 1))>>)>>

LEMMA ParserAttribute == Parser!Attribute = AttributeOf(TextAt(tokenBufferPos, tokenBuffer))
BY DEF Parser!Attribute, AttributeOf, FirstOther, SelectInSeq, Parser!SelectInSeq, Min, Parser!Min,
       Parser!DIG, DIG, Parser!DigitValue, DigitValue, Parser!Number, Number, Parser!Token, Token,
       Parser!Texts, Texts, Parser!LowByte, LowByte

(* The number and the text of a session attribute, once it has ended.      *)
LEMMA SameAttribute ==
  ASSUME NEW cc, NEW s, Scans(cc, s), Xpe(tokenBufferPos, tokenBuffer), Ends(cc)
  PROVE  Parser!Attribute = Attribute(NextPos, s)
<1> DEFINE pos == tokenBufferPos
           p == NextPos
           t == TextAt(tokenBufferPos, tokenBuffer)
           end == FirstOther(t)
           I == {k \in 2 .. p : k = p \/ s[k] \notin DIG}
           i == Min(I)
           C == Char \cup {NoChar}
           kept == IF Len(t) < MaxTokenLength - 4 THEN Len(t) ELSE MaxTokenLength - 4
<1>1. /\ MaxTokenLength \in Nat /\ MaxTokenLength >= 6 /\ TypeOK
      /\ pos \in 2 .. MaxTokenLength - 1
      /\ tokenBuffer \in [0 .. MaxTokenLength - 1 -> C]
  BY TokenizerAssumption DEF Scans, TokenInv, TypeOK, Xpe
<1>2. p = IF pos = MaxTokenLength - 1 THEN pos ELSE pos + 1
  BY <1>1, NextPosIs
<1>3. /\ \A k \in 0 .. MaxTokenLength - 1 : s[k] = IF k = pos THEN cc ELSE tokenBuffer[k]
      /\ \A k \in 0 .. MaxTokenLength - 1 : s[k] \in C
  BY <1>1 DEF Scans, Writes
<1>4. cc \notin DIG /\ cc # ";"
  BY DEF Ends, DIG, DigitValue
<1>5. t = [k \in 1 .. pos - 2 |-> tokenBuffer[k + 1]]
  BY DEF TextAt
<1>6. pos - 2 \in Nat /\ \A k \in 1 .. pos - 2 : k + 1 \in 0 .. MaxTokenLength - 1 /\ k + 1 # pos
  BY <1>1
<1>7. Len(t) = pos - 2
  BY <1>5, <1>6
<1> HIDE DEF pos, p, t, I, C
<1>8. \A k \in 1 .. pos - 2 : t[k] = s[k + 1] /\ t[k] \in C
  BY <1>3, <1>5, <1>6
<1>9. pos \in I /\ I \subseteq Nat
  <2>1. pos \in 2 .. p /\ p \in Nat /\ s[pos] = cc
    BY <1>1, <1>2, <1>3
  <2> QED
    <3>1. pos \in I
      BY <1>4, <2>1 DEF I
    <3>2. 2 .. p \subseteq Nat
      BY <2>1
    <3>3. I \subseteq 2 .. p
      BY DEF I
    <3> QED
      BY <3>1, <3>2, <3>3
<1>10. i \in I /\ \A y \in I : i <= y
  BY <1>9, LeastIs
<1> HIDE DEF i
<1>11. i \in 2 .. pos /\ (i < pos => s[i] \notin DIG /\ i - 1 \in Others(t))
  <2>1. i \in 2 .. p /\ i <= pos /\ (i = p \/ s[i] \notin DIG)
    BY <1>9, <1>10 DEF I
  <2>2. i \in 2 .. pos
    BY <1>1, <2>1
  <2>3. ASSUME i < pos PROVE s[i] \notin DIG /\ i - 1 \in Others(t)
    <3>1. i # p /\ i - 1 \in 1 .. pos - 2 /\ (i - 1) + 1 = i
      BY <1>1, <1>2, <2>2, <2>3
    <3>2. s[i] \notin DIG /\ t[i - 1] = s[i]
      BY <1>8, <2>1, <3>1
    <3> QED
      BY <1>7, <3>1, <3>2 DEF Others
  <2> QED
    BY <2>2, <2>3
<1>12. Parser!Attribute =
         IF end = 0 \/ t[end] # ";" THEN <<>>
         ELSE <<Token(IF SubSeq(t, end + 1, kept) = <<"?">> THEN "request" ELSE "attribute",
                      SubSeq(t, end + 1, kept), <<Number(SubSeq(t, 1, end - 1))>>)>>
  BY ParserAttribute DEF AttributeOf, t
<1>13. Attribute(p, s) =
         IF s[i] # ";" THEN <<>>
         ELSE <<Token(IF [j \in 1 .. p - i - 2 |-> s[i + j]] = <<"?">> THEN "request" ELSE "attribute",
                      [j \in 1 .. p - i - 2 |-> s[i + j]],
                      <<Number([k \in 1 .. i - 2 |-> s[k + 1]])>>)>>
  BY DEF Attribute, i, I
<1>14. CASE Others(t) = {}
  <2>1. end = 0
    BY <1>6, <1>7, <1>14, FirstOtherIs
  <2>2. i = pos
    BY <1>1, <1>11, <1>14
  <2>3. s[i] # ";"
    <3>1. pos \in 0 .. MaxTokenLength - 1
      BY <1>1
    <3>2. s[i] = cc
      BY <1>3, <2>2, <3>1
    <3> QED
      BY <1>4, <3>2
  <2> QED
    BY <1>12, <1>13, <2>1, <2>3 DEF p
<1>15. CASE Others(t) # {}
  <2>1. end \in Others(t) /\ \A k \in Others(t) : end <= k
    BY <1>6, <1>7, <1>15, FirstOtherIs
  <2> HIDE DEF end
  <2>2. end \in 1 .. pos - 2 /\ t[end] \notin DIG
    BY <1>7, <2>1 DEF Others
  <2>3. end + 1 \in I
    <3>1. s[end + 1] \notin DIG
      BY <1>8, <2>2
    <3>2. end + 1 \in 2 .. p
      BY <1>1, <1>2, <2>2
    <3> QED
      BY <3>1, <3>2 DEF I
  <2>4. i <= end + 1 /\ i < pos
    BY <1>1, <1>10, <1>11, <2>2, <2>3
  <2>5. end <= i - 1
    BY <1>11, <2>1, <2>4
  <2>6. i = end + 1 /\ t[end] = s[i] /\ end # 0
    BY <1>1, <1>8, <1>11, <2>2, <2>4, <2>5
  <2>7. SubSeq(t, 1, end - 1) = [k \in 1 .. i - 2 |-> s[k + 1]]
    <3>1. \A k \in 1 .. end - 1 : t[k] \in C
      <4>1. \A k \in 1 .. end - 1 : k \in 1 .. pos - 2
        BY <1>1, <2>2
      <4> QED
        BY <1>8, <4>1
    <3>2. 1 \in Int /\ end - 1 \in Int
      BY <2>2
    <3>3. SubSeq(t, 1, end - 1) = [k \in 1 .. (end - 1) - 1 + 1 |-> t[1 + k - 1]]
      BY <3>1, <3>2, SubSeqIs
    <3>4. (end - 1) - 1 + 1 = i - 2
      BY <2>2, <2>6
    <3>5. \A k \in 1 .. i - 2 : t[1 + k - 1] = s[k + 1]
      <4>1. \A k \in 1 .. i - 2 : 1 + k - 1 = k /\ k \in 1 .. pos - 2
        BY <1>1, <1>11, <2>4
      <4> QED
        BY <1>8, <4>1
    <3> QED
      BY <3>3, <3>4, <3>5
  <2>8. SubSeq(t, end + 1, kept) = [j \in 1 .. p - i - 2 |-> s[i + j]]
    <3>1. kept \in Int /\ kept = p - 3 /\ kept <= pos - 2
      BY <1>1, <1>2, <1>7
    <3> HIDE DEF kept
    <3>2. \A k \in end + 1 .. kept : t[k] \in C
      <4>1. \A k \in end + 1 .. kept : k \in 1 .. pos - 2
        BY <1>1, <2>2, <3>1
      <4> QED
        BY <1>8, <4>1
    <3>3. end + 1 \in Int
      BY <2>2
    <3>4. SubSeq(t, end + 1, kept) = [j \in 1 .. kept - (end + 1) + 1 |-> t[(end + 1) + j - 1]]
      BY <3>1, <3>2, <3>3, SubSeqIs
    <3>5. kept - (end + 1) + 1 = p - i - 2
      <4>1. end \in Int /\ i = end + 1
        BY <2>2, <2>6
      <4>2. p \in Int
        BY <1>1, <1>2
      <4> QED
        BY <3>1, <4>1, <4>2
    <3>6. \A j \in 1 .. p - i - 2 : t[(end + 1) + j - 1] = s[i + j]
      <4>1. ASSUME NEW j \in 1 .. p - i - 2
            PROVE  (end + 1) + j - 1 \in 1 .. pos - 2 /\ ((end + 1) + j - 1) + 1 = i + j
        BY <1>1, <1>2, <2>2, <2>6, <3>1
      <4> QED
        BY <1>8, <4>1
    <3> QED
      BY <3>4, <3>5, <3>6
  <2> QED
    BY <1>12, <1>13, <2>6, <2>7, <2>8 DEF p
<1> QED
  BY <1>14, <1>15

LEMMA TextGrows ==
  ASSUME NEW cc, NEW s, Scans(cc, s), Xpe(tokenBufferPos, tokenBuffer)
  PROVE  LET t == TextAt(tokenBufferPos, tokenBuffer)
         IN  TextAt(NextPos, s) = IF Len(t) <= MaxTokenLength - 4 THEN Append(t, cc) ELSE t
<1> DEFINE pos == tokenBufferPos
           p == NextPos
           t == TextAt(tokenBufferPos, tokenBuffer)
           u == [k \in 1 .. p - 2 |-> s[k + 1]]
           C == Char \cup {NoChar}
<1>1. /\ MaxTokenLength \in Nat /\ MaxTokenLength >= 6 /\ TypeOK
      /\ pos \in 2 .. MaxTokenLength - 1 /\ cc \in C
      /\ tokenBuffer \in [0 .. MaxTokenLength - 1 -> C] /\ tokenBuffer[1] = "]"
  BY TokenizerAssumption DEF Scans, TokenInv, TypeOK, Xpe
<1>2. p = IF pos = MaxTokenLength - 1 THEN pos ELSE pos + 1
  BY <1>1, NextPosIs
<1>3. \A k \in 0 .. MaxTokenLength - 1 : s[k] = IF k = pos THEN cc ELSE tokenBuffer[k]
  BY <1>1 DEF Scans, Writes
<1>4. t = [k \in 1 .. pos - 2 |-> tokenBuffer[k + 1]]
  BY DEF TextAt
<1>5. pos - 2 \in Nat /\ \A k \in 1 .. pos - 2 : k + 1 \in 0 .. MaxTokenLength - 1 /\ k + 1 # pos
  BY <1>1
<1>6. TextAt(p, s) = u
  <2>1. s[1] = "]" /\ p >= 2
    BY <1>1, <1>2, <1>3
  <2> QED
    BY <2>1 DEF TextAt, Xpe
<1> HIDE DEF pos, p, C
<1>7. t \in [1 .. pos - 2 -> C] /\ \A k \in 1 .. pos - 2 : t[k] = s[k + 1]
  <2> HIDE DEF t
  <2>1. \A k \in 1 .. pos - 2 : tokenBuffer[k + 1] \in C /\ tokenBuffer[k + 1] = s[k + 1]
    BY <1>1, <1>3, <1>5
  <2> QED
    BY <1>4, <2>1
<1> HIDE DEF t
<1>8. t \in Seq(C) /\ Len(t) = pos - 2
  BY <1>5, <1>7
<1>9. CASE pos = MaxTokenLength - 1
  <2>1. ~(Len(t) <= MaxTokenLength - 4) /\ p = pos
    BY <1>1, <1>2, <1>8, <1>9
  <2>2. u = t
    BY <1>7, <2>1
  <2> QED
    BY <1>6, <2>1, <2>2 DEF p, t
<1>10. CASE pos # MaxTokenLength - 1
  <2>1. Len(t) <= MaxTokenLength - 4 /\ p = pos + 1
    BY <1>1, <1>2, <1>8, <1>10
  <2>2. /\ Append(t, cc) \in Seq(C) /\ Len(Append(t, cc)) = pos - 1
        /\ \A k \in 1 .. pos - 2 : Append(t, cc)[k] = t[k]
        /\ Append(t, cc)[pos - 1] = cc
    <3>1. Len(t) + 1 = pos - 1
      BY <1>1, <1>8
    <3> QED
      BY <1>1, <1>8, <3>1, AppendProperties
  <2>3. u \in Seq(C) /\ Len(u) = pos - 1 /\ \A k \in 1 .. pos - 1 : u[k] = s[k + 1]
    <3>1. \A k \in 1 .. pos - 1 : k + 1 \in 0 .. MaxTokenLength - 1
      BY <1>1
    <3>2. \A k \in 1 .. pos - 1 : s[k + 1] \in C
      BY <1>1, <1>3, <3>1
    <3>3. p - 2 = pos - 1 /\ pos - 1 \in Nat
      BY <1>1, <2>1
    <3>4. u = [k \in 1 .. pos - 1 |-> s[k + 1]]
      BY <3>3
    <3> HIDE DEF u
    <3>5. u \in [1 .. pos - 1 -> C] /\ \A k \in 1 .. pos - 1 : u[k] = s[k + 1]
      BY <3>2, <3>4
    <3> QED
      BY <3>3, <3>5
  <2> HIDE DEF u
  <2>4. \A k \in 1 .. pos - 1 : Append(t, cc)[k] = u[k]
    <3>1. \A k \in 1 .. pos - 1 : k = pos - 1 \/ k \in 1 .. pos - 2
      BY <1>1
    <3>2. s[(pos - 1) + 1] = cc
      BY <1>1, <1>3
    <3> QED
      BY <1>7, <2>2, <2>3, <3>1, <3>2
  <2>5. Append(t, cc) = u
    BY <2>2, <2>3, <2>4, SeqEqual
  <2> QED
    BY <1>6, <2>1, <2>5 DEF p, t
<1> QED
  BY <1>9, <1>10

(* The text of a session attribute.                                        *)
LEMMA OscParsed ==
  ASSUME NEW cc, NEW s, Scans(cc, s), ansi, tokenBufferPos >= 2, tokenBuffer[1] = "]"
  PROVE  Parser!Osc(cc) /\ BegunInv'
<1>1. /\ tokenBufferPos \in Nat /\ NextPos \in Nat /\ NextPos >= 3
      /\ s[0] = "ESC" /\ s[1] = "]" /\ cc # "DEL"
  <2>1. /\ tokenBufferPos \in Nat /\ NextPos \in Nat /\ NextPos >= 3
        /\ s[0] = tokenBuffer[0] /\ s[1] = "]"
    BY Written
  <2>2. tokenBuffer[0] = "ESC" /\ cc # "DEL"
    BY Written, Begun
  <2> QED
    BY <2>1, <2>2
<1>2. Xpe(tokenBufferPos, tokenBuffer) /\ Xpe(NextPos, s)
  BY <1>1 DEF Xpe
<1>3. ansi \in BOOLEAN
  BY ModeKnown
<1>4. StateAt(tokenBufferPos, tokenBuffer, ansi) = "osc" /\ StateAt(NextPos, s, ansi) = "osc"
      /\ "osc" \notin Lists
  BY <1>1 DEF StateAt, Lists
<1>5. RuleOf(s, cc) = IF Ends(cc) THEN "attribute" ELSE "wait"
  BY <1>1, RuleInText DEF RuleOf
<1>6. CASE Ends(cc)
  <2>1. RuleOf(s, cc) = "attribute" /\ "attribute" \notin Silent
    BY <1>5, <1>6 DEF Silent
  <2>2. Calls("attribute", NextPos, s, cc) = Attribute(NextPos, s)
    BY DEF Calls
  <2>3. Parser!Finish(Parser!Attribute) /\ BegunInv'
    BY <1>2, <1>6, <2>1, <2>2, SameAttribute, ScanMakes
  <2>4. cc \in {"BEL", "ESC"}
    BY <1>6 DEF Ends
  <2> QED
    BY <1>4, <2>3, <2>4 DEF Parser!Osc
<1>7. CASE ~Ends(cc)
  <2>1. /\ tokenBuffer' = s /\ tokenBufferPos' = NextPos /\ ansi' = ansi
        /\ argv' = argv /\ argc' = argc /\ Parser!Say(<<>>)
    BY <1>5, <1>7, ScanWaits
  <2>2. cc \notin {"BEL", "ESC"} /\ cc \notin {"CAN", "LF", "DEL"}
    <3>1. cc \notin CTL
      BY <1>7 DEF Scans
    <3> QED
      BY <1>1, <3>1 DEF CTL
  <2>3. argc = 0 /\ argv[0] = 0
    BY <1>4, BegunNone
  <2>4. BegunInv'
    <3>1. BegunAt(NextPos, s, ansi)
      <4>1. "]" \in GRP /\ "]" \notin SCS \cup {"#"}
        BY DEF GRP, SCS
      <4> QED
        BY <1>1, <4>1 DEF BegunAt
    <3>2. NoneYet(NextPos, s, ansi, argc, argv)
      BY <2>3 DEF NoneYet
    <3> QED
      BY <2>1, <3>1, <3>2 DEF BegunInv
  <2>5. FourthAt(tokenBufferPos, tokenBuffer, ansi) = "fresh" /\ FourthAt(NextPos, s, ansi) = "fresh"
    BY <1>4 DEF FourthAt
  <2>6. MarksAt(tokenBufferPos, tokenBuffer, ansi) = <<>> /\ MarksAt(NextPos, s, ansi) = <<>>
    BY <1>4 DEF MarksAt
  <2>7. TextAt(NextPos, s) = IF Len(TextAt(tokenBufferPos, tokenBuffer)) <= MaxTokenLength - 4
                             THEN Append(TextAt(tokenBufferPos, tokenBuffer), cc)
                             ELSE TextAt(tokenBufferPos, tokenBuffer)
    BY <1>2, TextGrows
  <2> QED
    BY <1>4, <2>1, <2>2, <2>4, <2>5, <2>6, <2>7 DEF Parser!Osc
<1> QED
  BY <1>6, <1>7

-----------------------------------------------------------------------------
(* Lists of parameters.                                                    *)
LEMMA ParametersAre ==
  ASSUME TypeOK
  PROVE  LET q == ParametersIn(argc, argv)
         IN  /\ q \in Seq(Nat) /\ Len(q) = argc + 1 /\ argc \in Nat
             /\ q \in [1 .. argc + 1 -> Nat]
             /\ \A i \in 1 .. argc + 1 : q[i] = argv[i - 1]
<1>1. /\ argc \in Nat /\ argc + 1 \in Nat
      /\ \A i \in 1 .. argc + 1 : argv[i - 1] \in Nat
  <2>1. /\ MaxArgs \in Nat /\ argc \in 0 .. MaxArgs - 1 /\ ArgumentLimit \in Int /\ Garbage \in Nat
        /\ argv \in [0 .. MaxArgs - 1 -> 0 .. ArgumentLimit \cup {Garbage}]
    BY TokenizerAssumption DEF TypeOK, ArgumentLimit
  <2>2. 0 .. ArgumentLimit \cup {Garbage} \subseteq Nat
    BY <2>1
  <2>3. \A i \in 1 .. argc + 1 : i - 1 \in 0 .. MaxArgs - 1
    BY <2>1
  <2> QED
    BY <2>1, <2>2, <2>3
<1> DEFINE q == ParametersIn(argc, argv)
<1>2. q = [i \in 1 .. argc + 1 |-> argv[i - 1]]
  BY DEF ParametersIn
<1> HIDE DEF q
<1>3. q \in [1 .. argc + 1 -> Nat] /\ \A i \in 1 .. argc + 1 : q[i] = argv[i - 1]
  BY <1>1, <1>2
<1>4. q \in Seq(Nat) /\ Len(q) = argc + 1
  BY <1>1, <1>3
<1> QED
  BY <1>1, <1>3, <1>4 DEF q

LEMMA DigitParsed ==
  ASSUME TypeOK, NEW d \in 0 .. 9, AddDigit(d)
  PROVE  LET q == ParametersIn(argc, argv)
         IN  ParametersIn(argc', argv') = IF q[Len(q)] >= MaxArgument THEN q
                                          ELSE [q EXCEPT ![Len(q)] = 10 * @ + d]
<1> DEFINE q == ParametersIn(argc, argv)
<1>1. /\ Len(q) = argc + 1 /\ argc \in Nat /\ q \in [1 .. argc + 1 -> Nat]
      /\ \A i \in 1 .. argc + 1 : q[i] = argv[i - 1]
  BY ParametersAre
<1>2. MaxArgument \in Nat /\ argc' = argc /\ argc \in 0 .. MaxArgs - 1 /\ MaxArgs \in Nat
  BY TokenizerAssumption DEF AddDigit, TypeOK
<1>3. ParametersIn(argc', argv') = [i \in 1 .. argc + 1 |-> argv'[i - 1]]
  BY <1>2 DEF ParametersIn
<1> HIDE DEF q
<1>4. q[argc + 1] = argv[argc] /\ argv[argc] \in Nat
  <2>1. argc + 1 \in 1 .. argc + 1 /\ (argc + 1) - 1 = argc
    BY <1>1
  <2> QED
    BY <1>1, <2>1
<1>5. CASE argv[argc] < MaxArgument
  <2>1. argv' = [argv EXCEPT ![argc] = 10 * argv[argc] + d]
    BY <1>5 DEF AddDigit
  <2>2. \A i \in 0 .. MaxArgs - 1 : argv'[i] = IF i = argc THEN 10 * argv[argc] + d ELSE argv[i]
    BY <2>1 DEF TypeOK
  <2>3. \A i \in 1 .. argc + 1 : argv'[i - 1] = IF i = argc + 1 THEN 10 * argv[argc] + d ELSE q[i]
    <3>1. \A i \in 1 .. argc + 1 : i - 1 \in 0 .. MaxArgs - 1 /\ (i - 1 = argc <=> i = argc + 1)
      BY <1>2
    <3> QED
      BY <1>1, <2>2, <3>1
  <2>4. [q EXCEPT ![argc + 1] = 10 * @ + d]
          = [i \in 1 .. argc + 1 |-> IF i = argc + 1 THEN 10 * argv[argc] + d ELSE q[i]]
    BY <1>1, <1>4
  <2>5. ~(q[argc + 1] >= MaxArgument)
    BY <1>2, <1>4, <1>5
  <2> QED
    BY <1>1, <1>3, <2>3, <2>4, <2>5 DEF q
<1>6. CASE ~(argv[argc] < MaxArgument)
  <2>1. argv' = argv
    BY <1>6 DEF AddDigit
  <2>2. q[argc + 1] >= MaxArgument
    BY <1>2, <1>4, <1>6
  <2> QED
    BY <1>1, <1>2, <2>1, <2>2 DEF q
<1> QED
  BY <1>5, <1>6

LEMMA ArgumentParsed ==
  ASSUME TypeOK, AddArgument
  PROVE  LET q == ParametersIn(argc, argv)
         IN  ParametersIn(argc', argv') = IF Len(q) < MaxArgs THEN Append(q, 0)
                                          ELSE [q EXCEPT ![Len(q)] = 0]
<1> DEFINE q == ParametersIn(argc, argv)
           r == [i \in 1 .. argc' + 1 |-> argv'[i - 1]]
<1>1. /\ Len(q) = argc + 1 /\ argc \in Nat /\ q \in [1 .. argc + 1 -> Nat] /\ q \in Seq(Nat)
      /\ \A i \in 1 .. argc + 1 : q[i] = argv[i - 1]
  BY ParametersAre
<1>2. MaxArgs \in Nat /\ argc \in 0 .. MaxArgs - 1
  BY TokenizerAssumption DEF TypeOK
<1>3. argc' = IF argc + 1 < MaxArgs THEN argc + 1 ELSE argc
  <2>1. {argc + 1, MaxArgs - 1} \subseteq Nat /\ {argc + 1, MaxArgs - 1} # {}
    BY <1>1, <1>2
  <2>2. argc' \in {argc + 1, MaxArgs - 1} /\ argc' <= argc + 1 /\ argc' <= MaxArgs - 1
    BY <2>1, LeastIs DEF AddArgument
  <2> QED
    BY <1>1, <1>2, <2>2
<1>4. \A i \in 0 .. MaxArgs - 1 : argv'[i] = IF i = argc' THEN 0 ELSE argv[i]
  BY DEF AddArgument, TypeOK
<1>5. ParametersIn(argc', argv') = r
  BY DEF ParametersIn
<1> HIDE DEF q
<1>6. \A i \in 1 .. argc' + 1 : i - 1 \in 0 .. MaxArgs - 1 /\ (i - 1 = argc' <=> i = argc' + 1)
  BY <1>2, <1>3
<1>7. \A i \in 1 .. argc' + 1 : argv'[i - 1] = IF i = argc' + 1 THEN 0 ELSE q[i]
  <2>1. \A i \in 1 .. argc' + 1 : i # argc' + 1 => i \in 1 .. argc + 1
    BY <1>2, <1>3
  <2> QED
    BY <1>1, <1>4, <1>6, <2>1
<1>8. CASE argc + 1 < MaxArgs
  <2>1. argc' = argc + 1
    BY <1>3, <1>8
  <2>2. /\ Append(q, 0) \in Seq(Nat) /\ Len(Append(q, 0)) = argc + 2
        /\ \A i \in 1 .. argc + 1 : Append(q, 0)[i] = q[i]
        /\ Append(q, 0)[argc + 2] = 0
    <3>1. 0 \in Nat /\ (argc + 1) + 1 = argc + 2
      BY <1>1
    <3> QED
      BY <1>1, <3>1, AppendProperties
  <2>3. r \in Seq(Nat) /\ Len(r) = argc + 2
        /\ \A i \in 1 .. argc + 2 : r[i] = IF i = argc + 2 THEN 0 ELSE q[i]
    <3>1. r = [i \in 1 .. argc + 2 |-> argv'[i - 1]] /\ argc + 2 \in Nat
      BY <1>1, <2>1
    <3> HIDE DEF r
    <3>2. \A i \in 1 .. argc + 2 : argv'[i - 1] = IF i = argc + 2 THEN 0 ELSE q[i]
      <4>1. argc' + 1 = argc + 2
        BY <1>1, <2>1
      <4> QED
        BY <1>7, <4>1
    <3>3. \A i \in 1 .. argc + 2 : argv'[i - 1] \in Nat
      <4>1. \A i \in 1 .. argc + 2 : i # argc + 2 => i \in 1 .. argc + 1
        BY <1>1
      <4> QED
        BY <1>1, <3>2, <4>1
    <3>4. r \in [1 .. argc + 2 -> Nat] /\ \A i \in 1 .. argc + 2 : r[i] = argv'[i - 1]
      BY <3>1, <3>3
    <3> QED
      BY <3>1, <3>2, <3>4
  <2> HIDE DEF r
  <2>4. \A i \in 1 .. argc + 2 : Append(q, 0)[i] = r[i]
    <3>1. \A i \in 1 .. argc + 2 : i = argc + 2 \/ (i # argc + 2 /\ i \in 1 .. argc + 1)
      BY <1>1
    <3> QED
      BY <2>2, <2>3, <3>1
  <2>5. Append(q, 0) = r
    BY <2>2, <2>3, <2>4, SeqEqual
  <2> QED
    BY <1>1, <1>5, <1>8, <2>5 DEF q
<1>9. CASE ~(argc + 1 < MaxArgs)
  <2>1. argc' = argc
    BY <1>3, <1>9
  <2>2. r = [i \in 1 .. argc + 1 |-> IF i = argc + 1 THEN 0 ELSE q[i]]
    BY <1>7, <2>1
  <2>3. [q EXCEPT ![argc + 1] = 0] = [i \in 1 .. argc + 1 |-> IF i = argc + 1 THEN 0 ELSE q[i]]
    BY <1>1
  <2> HIDE DEF r
  <2> QED
    BY <1>1, <1>5, <1>9, <2>2, <2>3 DEF q
<1> QED
  BY <1>8, <1>9

LEMMA ConsIs ==
  ASSUME NEW S, NEW a \in S, NEW k \in Nat, NEW g \in [1 .. k -> S]
  PROVE  <<a>> \o g = [j \in 1 .. k + 1 |-> IF j = 1 THEN a ELSE g[j - 1]]
<1> DEFINE r == [j \in 1 .. k + 1 |-> IF j = 1 THEN a ELSE g[j - 1]]
           o == <<a>>
<1>1. o \in Seq(S) /\ Len(o) = 1 /\ o[1] = a /\ g \in Seq(S) /\ Len(g) = k
  OBVIOUS
<1> HIDE DEF o
<1>2. /\ o \o g \in Seq(S) /\ Len(o \o g) = k + 1
      /\ \A j \in 1 .. k + 1 : (o \o g)[j] = IF j <= 1 THEN o[j] ELSE g[j - 1]
  <2>1. /\ o \o g \in Seq(S) /\ Len(o \o g) = 1 + k
        /\ \A j \in 1 .. 1 + k : (o \o g)[j] = IF j <= 1 THEN o[j] ELSE g[j - 1]
    BY <1>1, ConcatProperties
  <2>2. 1 + k = k + 1
    OBVIOUS
  <2> QED
    BY <2>1, <2>2
<1>3. r \in [1 .. k + 1 -> S] /\ \A j \in 1 .. k + 1 : r[j] = IF j = 1 THEN a ELSE g[j - 1]
  <2>1. \A j \in 1 .. k + 1 : (IF j = 1 THEN a ELSE g[j - 1]) \in S
    OBVIOUS
  <2> QED
    BY <2>1
<1> HIDE DEF r
<1>4. r \in Seq(S) /\ Len(r) = k + 1
  BY <1>3
<1>5. \A j \in 1 .. k + 1 : (o \o g)[j] = r[j]
  BY <1>1, <1>2, <1>3
<1>6. o \o g = r
  BY <1>2, <1>4, <1>5, SeqEqual
<1> QED
  BY <1>6 DEF o, r

(* A private list: each parameter makes a token of its own.                *)
PrivateKind(s, kind) ==
  \/ s[2] = "?" /\ kind = "pr"
  \/ s[2] = ">" /\ kind = "pg"

LEMMA PrivateEach ==
  ASSUME TypeOK, NEW cc \in Char, NEW s, NEW kind, PrivateKind(s, kind)
  PROVE  EachArgument(cc, s) = [i \in 1 .. argc + 1 |-> Token(kind, cc, <<argv[i - 1]>>)]
<1>1. PICK f : IsSaid(f, cc, s) /\ EachArgument(cc, s) = f[0]
  BY EachSays
<1>2. /\ f \in [0 .. MaxArgs -> Seq(Said)]
      /\ \A i \in 0 .. MaxArgs : f[i] = EachFrom(cc, s, f, i)
      /\ MaxArgs \in Nat /\ argc \in Nat /\ argc + 1 <= MaxArgs
  BY <1>1, TokenizerAssumption DEF IsSaid, TypeOK
<1>3. \A i \in 0 .. argc : f[i] = <<Token(kind, cc, <<argv[i]>>)>> \o f[i + 1]
  <2>1. ASSUME NEW i \in 0 .. argc PROVE f[i] = <<Token(kind, cc, <<argv[i]>>)>> \o f[i + 1]
    <3>1. i \in 0 .. MaxArgs /\ ~(i > argc)
      BY <1>2
    <3>2. f[i] = EachFrom(cc, s, f, i)
      BY <1>2, <3>1
    <3> QED
      BY <3>1, <3>2 DEF EachFrom, PrivateKind
  <2> QED
    BY <2>1
<1>4. f[argc + 1] = <<>>
  <2>1. argc + 1 \in 0 .. MaxArgs /\ argc + 1 > argc
    BY <1>2
  <2> QED
    BY <1>2, <2>1 DEF EachFrom
<1> DEFINE tok(i) == Token(kind, cc, <<argv[i]>>)
           all == [j \in 0 .. argc |-> tok(j)]
           V == {all[j] : j \in 0 .. argc}
           S == {k \in Nat : k <= argc + 1 => f[argc + 1 - k] = [j \in 1 .. k |-> all[argc + j - k]]}
<1>5. \A j \in 0 .. argc : all[j] = tok(j) /\ all[j] \in V
  OBVIOUS
<1> HIDE DEF all, V
<1>6. 0 \in S
  <2>1. [j \in 1 .. 0 |-> all[argc + j - 0]] = <<>>
    OBVIOUS
  <2>2. argc + 1 - 0 = argc + 1
    BY <1>2
  <2> QED
    BY <1>4, <2>1, <2>2
<1>7. ASSUME NEW k \in Nat, k \in S PROVE k + 1 \in S
  <2> SUFFICES ASSUME k + 1 <= argc + 1
               PROVE  f[argc + 1 - (k + 1)] = [j \in 1 .. k + 1 |-> all[argc + j - (k + 1)]]
    OBVIOUS
  <2> DEFINE g == [j \in 1 .. k |-> all[argc + j - k]]
             i == argc - k
  <2>1. i \in 0 .. argc /\ i = argc + 1 - (k + 1) /\ i + 1 = argc + 1 - k
    BY <1>2
  <2>2. f[argc + 1 - k] = g
    BY <1>2, <1>7
  <2>3. \A j \in 1 .. k : argc + j - k \in 0 .. argc
    BY <1>2
  <2>4. g \in [1 .. k -> V] /\ \A j \in 1 .. k : g[j] = all[argc + j - k]
    BY <1>5, <2>3
  <2> HIDE DEF g, i
  <2>5. f[i] = <<all[i]>> \o g /\ all[i] \in V
    BY <1>3, <1>5, <2>1, <2>2
  <2>6. f[i] = [j \in 1 .. k + 1 |-> IF j = 1 THEN all[i] ELSE g[j - 1]]
    BY <2>4, <2>5, ConsIs
  <2>7. ASSUME NEW j \in 1 .. k + 1
        PROVE  (IF j = 1 THEN all[i] ELSE g[j - 1]) = all[argc + j - (k + 1)]
    <3>1. CASE j = 1
      <4>1. argc + j - (k + 1) = i
        BY <1>2, <2>1, <3>1
      <4> QED
        BY <3>1, <4>1
    <3>2. CASE j # 1
      <4>1. j - 1 \in 1 .. k /\ argc + (j - 1) - k = argc + j - (k + 1)
        BY <1>2, <3>2
      <4> QED
        BY <2>4, <3>2, <4>1
    <3> QED
      BY <3>1, <3>2
  <2> QED
    BY <2>1, <2>6, <2>7
<1>8. argc + 1 \in S
  <2> HIDE DEF S
  <2> QED
    BY <1>2, <1>6, <1>7, Successively
<1>9. f[0] = [j \in 1 .. argc + 1 |-> all[argc + j - (argc + 1)]]
  <2>1. argc + 1 - (argc + 1) = 0 /\ argc + 1 <= argc + 1
    BY <1>2
  <2> QED
    BY <1>8, <2>1
<1>10. \A j \in 1 .. argc + 1 : all[argc + j - (argc + 1)] = tok(j - 1)
  <2>1. \A j \in 1 .. argc + 1 : argc + j - (argc + 1) = j - 1 /\ j - 1 \in 0 .. argc
    BY <1>2
  <2> QED
    BY <1>5, <2>1
<1> QED
  BY <1>1, <1>9, <1>10

(* The other lists: what `m' makes of its parameters, one by one.          *)
ColourIn(cc, q, i, n, space) ==
    cc = "m" /\ i + n <= Len(q) /\ q[i] \in ExtendedColours /\ q[i + 1] = space
RenditionFrom(cc, q, f, i) ==
    IF i > Len(q) THEN <<>>
    ELSE IF ColourIn(cc, q, i, 4, 2)
      THEN <<Token("rgb", cc, <<q[i]>> \o SubSeq(q, i + 2, i + 4))>> \o f[i + 5]
    ELSE IF ColourIn(cc, q, i, 2, 5)
      THEN <<Token("indexed", cc, <<q[i], q[i + 2]>>)>> \o f[i + 3]
    ELSE <<Token("ps", cc, <<q[i]>>)>> \o f[i + 1]

LEMMA ColourParsed ==
  ASSUME NEW q \in Seq(Nat), NEW i \in 1 .. Len(q) - 4
  PROVE  <<q[i]>> \o SubSeq(q, i + 2, i + 4) = <<q[i], q[i + 2], q[i + 3], q[i + 4]>>
<1> DEFINE g == [j \in 1 .. 3 |-> q[i + 2 + j - 1]]
           r == <<q[i], q[i + 2], q[i + 3], q[i + 4]>>
<1>1. Len(q) \in Nat /\ \A k \in 1 .. Len(q) : q[k] \in Nat
  OBVIOUS
<1>2. q[i] \in Nat /\ q[i + 2] \in Nat /\ q[i + 3] \in Nat /\ q[i + 4] \in Nat
  BY <1>1
<1>3. SubSeq(q, i + 2, i + 4) = g
  <2>1. \A k \in i + 2 .. i + 4 : q[k] \in Nat
    BY <1>1
  <2>2. i + 2 \in Int /\ i + 4 \in Int /\ (i + 4) - (i + 2) + 1 = 3
    OBVIOUS
  <2>3. SubSeq(q, i + 2, i + 4) = [j \in 1 .. (i + 4) - (i + 2) + 1 |-> q[(i + 2) + j - 1]]
    BY <2>1, <2>2, SubSeqIs
  <2> QED
    BY <2>2, <2>3
<1>4. g \in [1 .. 3 -> Nat] /\ g[1] = q[i + 2] /\ g[2] = q[i + 3] /\ g[3] = q[i + 4]
  BY <1>1
<1> HIDE DEF g
<1>5. <<q[i]>> \o g = [j \in 1 .. 3 + 1 |-> IF j = 1 THEN q[i] ELSE g[j - 1]]
  <2>1. PICK a \in Nat : a = q[i]
    BY <1>2
  <2>2. PICK k \in Nat : k = 3
    OBVIOUS
  <2>3. g \in [1 .. k -> Nat]
    BY <1>4, <2>2
  <2>4. <<a>> \o g = [j \in 1 .. k + 1 |-> IF j = 1 THEN a ELSE g[j - 1]]
    BY <2>3, ConsIs
  <2> QED
    BY <2>1, <2>2, <2>4
<1>6. r \in Seq(Nat) /\ Len(r) = 4 /\ r[1] = q[i] /\ r[2] = q[i + 2] /\ r[3] = q[i + 3] /\ r[4] = q[i + 4]
  BY <1>2
<1> DEFINE o == <<q[i]>> \o g
<1>7. o \in Seq(Nat) /\ Len(o) = 4 /\ o[1] = q[i] /\ o[2] = g[1] /\ o[3] = g[2] /\ o[4] = g[3]
  <2>1. o = [j \in 1 .. 4 |-> IF j = 1 THEN q[i] ELSE g[j - 1]]
    BY <1>5
  <2> HIDE DEF o
  <2>2. o \in [1 .. 4 -> Nat]
    <3>1. \A j \in 1 .. 4 : (IF j = 1 THEN q[i] ELSE g[j - 1]) \in Nat
      BY <1>2, <1>4
    <3> QED
      BY <2>1, <3>1
  <2> QED
    BY <2>1, <2>2
<1> HIDE DEF o, r
<1>8. \A j \in 1 .. 4 : o[j] = r[j]
  <2>1. o[1] = r[1] /\ o[2] = r[2] /\ o[3] = r[3] /\ o[4] = r[4]
    BY <1>4, <1>6, <1>7
  <2>2. 1 .. 4 = {1, 2, 3, 4}
    OBVIOUS
  <2> QED
    BY <2>1, <2>2
<1>9. o = r
  BY <1>6, <1>7, <1>8, SeqEqual
<1> QED
  BY <1>3, <1>9 DEF o, r

LEMMA RenditionLater ==
  ASSUME NEW cc, NEW q \in Seq(Nat), NEW f, NEW g, NEW i \in 1 .. Len(q) + 1,
         \A j \in i + 1 .. Len(q) + 1 : f[j] = g[j]
  PROVE  RenditionFrom(cc, q, f, i) = RenditionFrom(cc, q, g, i)
<1>1. CASE i > Len(q)
  BY <1>1 DEF RenditionFrom
<1>2. CASE ~(i > Len(q))
  <2>1. Len(q) \in Nat
    OBVIOUS
  <2>2. /\ f[i + 1] = g[i + 1]
        /\ ColourIn(cc, q, i, 4, 2) => f[i + 5] = g[i + 5]
        /\ ColourIn(cc, q, i, 2, 5) => f[i + 3] = g[i + 3]
    BY <1>2, <2>1 DEF ColourIn
  <2> QED
    BY <1>2, <2>2 DEF RenditionFrom
<1> QED
  BY <1>1, <1>2

LEMMA RenditionIs ==
  ASSUME NEW cc, TypeOK, NEW g,
         LET q == ParametersIn(argc, argv)
         IN  /\ g = [i \in 1 .. Len(q) + 1 |-> g[i]]
             /\ \A i \in 1 .. Len(q) + 1 : g[i] = RenditionFrom(cc, q, g, i)
  PROVE  Parser!Rendition(cc) = g[1]
<1> DEFINE q == ParametersIn(argc, argv)
           n == Len(q) + 1
           from[i \in 1 .. Len(q) + 1] ==
             IF i > Len(q) THEN <<>>
             ELSE IF ColourIn(cc, q, i, 4, 2)
               THEN <<Token("rgb", cc, <<q[i]>> \o SubSeq(q, i + 2, i + 4))>> \o from[i + 5]
             ELSE IF ColourIn(cc, q, i, 2, 5)
               THEN <<Token("indexed", cc, <<q[i], q[i + 2]>>)>> \o from[i + 3]
             ELSE <<Token("ps", cc, <<q[i]>>)>> \o from[i + 1]
<1>1. q \in Seq(Nat) /\ Len(q) \in Nat
  BY ParametersAre
<1>2. Parser!Rendition(cc) = from[1]
  BY DEF Parser!Rendition, ColourIn, Parser!Token, Token,
       Parser!Texts, Texts, Parser!LowByte, LowByte
<1> HIDE DEF q
<1>3. g = [i \in 1 .. Len(q) + 1 |-> RenditionFrom(cc, q, g, i)]
  BY DEF q
<1>4. from = [i \in 1 .. Len(q) + 1 |-> RenditionFrom(cc, q, from, i)]
  BY <1>3 DEF RenditionFrom
<1> HIDE DEF from
<1>5. \A i \in 1 .. n : from[i] = RenditionFrom(cc, q, from, i) /\ g[i] = RenditionFrom(cc, q, g, i)
  BY <1>3, <1>4
<1> DEFINE S == {k \in Nat : \A i \in 1 .. n : i > n - k => from[i] = g[i]}
<1>6. 0 \in S
  BY <1>1
<1>7. ASSUME NEW k \in Nat, k \in S PROVE k + 1 \in S
  <2>1. ASSUME NEW i \in 1 .. n, i > n - (k + 1) PROVE from[i] = g[i]
    <3>1. \A j \in i + 1 .. n : j \in 1 .. n /\ j > n - k
      BY <1>1, <2>1
    <3>2. \A j \in i + 1 .. Len(q) + 1 : from[j] = g[j]
      BY <1>7, <3>1
    <3>3. RenditionFrom(cc, q, from, i) = RenditionFrom(cc, q, g, i)
      BY <1>1, <3>2, RenditionLater
    <3> QED
      BY <1>5, <3>3
  <2>2. \A i \in 1 .. n : i > n - (k + 1) => from[i] = g[i]
    <3> HIDE DEF n
    <3> QED
      BY <2>1
  <2> HIDE DEF n
  <2>3. k + 1 \in Nat
    OBVIOUS
  <2> QED
    BY <2>2, <2>3
<1>8. n \in S
  <2> HIDE DEF S
  <2> QED
    BY <1>1, <1>6, <1>7, Successively
<1>9. 1 \in 1 .. n /\ 1 > n - n
  BY <1>1
<1>10. from[1] = g[1]
  BY <1>8, <1>9
<1> QED
  BY <1>2, <1>10

LEMMA SameRendition ==
  ASSUME TypeOK, NEW cc \in Char, NEW s, s[2] \notin {"?", ">"}
  PROVE  EachArgument(cc, s) = Parser!Rendition(cc)
<1>1. PICK f : IsSaid(f, cc, s) /\ EachArgument(cc, s) = f[0]
  BY EachSays
<1>2. /\ f \in [0 .. MaxArgs -> Seq(Said)]
      /\ \A i \in 0 .. MaxArgs : f[i] = EachFrom(cc, s, f, i)
      /\ MaxArgs \in Nat /\ argc \in Nat /\ argc + 1 <= MaxArgs
  BY <1>1, TokenizerAssumption DEF IsSaid, TypeOK
<1> DEFINE q == ParametersIn(argc, argv)
           g == [i \in 1 .. Len(q) + 1 |-> f[i - 1]]
<1>3. /\ q \in Seq(Nat) /\ Len(q) = argc + 1
      /\ \A i \in 1 .. argc + 1 : q[i] = argv[i - 1]
  BY ParametersAre
<1> HIDE DEF q
<1>4. \A i \in 1 .. argc + 2 : g[i] = f[i - 1]
  BY <1>2, <1>3
<1>g. g = [i \in 1 .. Len(q) + 1 |-> g[i]]
  OBVIOUS
<1> HIDE DEF g
<1>5. ASSUME NEW i \in 1 .. argc + 2 PROVE g[i] = RenditionFrom(cc, q, g, i)
  <2>1. i - 1 \in 0 .. MaxArgs /\ f[i - 1] = EachFrom(cc, s, f, i - 1) /\ g[i] = f[i - 1]
    BY <1>2, <1>4
  <2>2. CASE i > argc + 1
    <3>1. i - 1 > argc
      BY <1>2, <2>2
    <3> QED
      BY <1>3, <2>1, <2>2, <3>1 DEF EachFrom, RenditionFrom
  <2>3. CASE ~(i > argc + 1)
    <3>1. /\ ~(i - 1 > argc) /\ i \in 1 .. argc + 1
          /\ (i - 1) + 1 = i /\ (i - 1) + 2 = i + 1 /\ (i - 1) + 3 = i + 2
          /\ (i - 1) + 4 = i + 3 /\ (i - 1) + 5 = i + 4
      BY <1>2, <2>3
    <3>2. q[i] = argv[i - 1]
      BY <1>3, <3>1
    <3>3. ASSUME NEW n \in {2, 4}, NEW space
          PROVE  Colour(cc, i - 1, n, space) <=> ColourIn(cc, q, i, n, space)
      <4>1. argc - (i - 1) >= n <=> i + n <= Len(q)
        BY <1>2, <1>3
      <4>2. CASE i + n <= Len(q)
        <5>1. i + 1 \in 1 .. argc + 1 /\ (i + 1) - 1 = i
          <6>1. n = 2 \/ n = 4
            OBVIOUS
          <6> QED
            BY <1>2, <1>3, <3>1, <4>2, <6>1
        <5>2. q[i + 1] = argv[i]
          BY <1>3, <5>1
        <5> QED
          BY <3>1, <3>2, <4>1, <5>2 DEF Colour, ColourIn
      <4>3. CASE ~(i + n <= Len(q))
        BY <4>1, <4>3 DEF Colour, ColourIn
      <4> QED
        BY <4>2, <4>3
    <3>4. g[i + 1] = f[i]
      <4>1. i + 1 \in 1 .. argc + 2 /\ (i + 1) - 1 = i
        BY <1>2, <3>1
      <4> QED
        BY <1>4, <4>1
    <3>5. CASE Colour(cc, i - 1, 4, 2)
      <4>1. i + 4 <= argc + 1 /\ ColourIn(cc, q, i, 4, 2)
        BY <1>3, <3>3, <3>5 DEF ColourIn
      <4>2. /\ i + 5 \in 1 .. argc + 2 /\ (i + 5) - 1 = i + 4 /\ i \in 1 .. Len(q) - 4
            /\ i + 2 \in 1 .. argc + 1 /\ (i + 2) - 1 = i + 1
            /\ i + 3 \in 1 .. argc + 1 /\ (i + 3) - 1 = i + 2
            /\ i + 4 \in 1 .. argc + 1 /\ (i + 4) - 1 = i + 3
        BY <1>2, <1>3, <3>1, <4>1
      <4>3. /\ g[i + 5] = f[i + 4] /\ q[i + 2] = argv[i + 1]
            /\ q[i + 3] = argv[i + 2] /\ q[i + 4] = argv[i + 3]
        BY <1>3, <1>4, <4>2
      <4>4. <<q[i]>> \o SubSeq(q, i + 2, i + 4) = <<q[i], q[i + 2], q[i + 3], q[i + 4]>>
        BY <1>3, <4>2, ColourParsed
      <4>5. RenditionFrom(cc, q, g, i)
              = <<Token("rgb", cc, <<q[i], q[i + 2], q[i + 3], q[i + 4]>>)>> \o g[i + 5]
        BY <1>3, <2>3, <4>1, <4>4 DEF RenditionFrom
      <4>6. EachFrom(cc, s, f, i - 1)
              = <<Token("rgb", cc, <<argv[i - 1], argv[i + 1], argv[i + 2], argv[i + 3]>>)>> \o f[i + 4]
        BY <3>1, <3>5 DEF EachFrom
      <4> QED
        BY <2>1, <3>2, <4>3, <4>5, <4>6
    <3>6. CASE ~Colour(cc, i - 1, 4, 2) /\ Colour(cc, i - 1, 2, 5)
      <4>1. i + 2 <= argc + 1 /\ ColourIn(cc, q, i, 2, 5) /\ ~ColourIn(cc, q, i, 4, 2)
        BY <1>3, <3>3, <3>6 DEF ColourIn
      <4>2. /\ i + 3 \in 1 .. argc + 2 /\ (i + 3) - 1 = i + 2
            /\ i + 2 \in 1 .. argc + 1 /\ (i + 2) - 1 = i + 1
        BY <1>2, <3>1, <4>1
      <4>3. g[i + 3] = f[i + 2] /\ q[i + 2] = argv[i + 1]
        BY <1>3, <1>4, <4>2
      <4>4. RenditionFrom(cc, q, g, i) = <<Token("indexed", cc, <<q[i], q[i + 2]>>)>> \o g[i + 3]
        BY <1>3, <2>3, <4>1 DEF RenditionFrom
      <4>5. EachFrom(cc, s, f, i - 1) = <<Token("indexed", cc, <<argv[i - 1], argv[i + 1]>>)>> \o f[i + 2]
        BY <3>1, <3>6 DEF EachFrom
      <4> QED
        BY <2>1, <3>2, <4>3, <4>4, <4>5
    <3>7. CASE ~Colour(cc, i - 1, 4, 2) /\ ~Colour(cc, i - 1, 2, 5)
      <4>1. ~ColourIn(cc, q, i, 4, 2) /\ ~ColourIn(cc, q, i, 2, 5)
        BY <3>3, <3>7
      <4>2. RenditionFrom(cc, q, g, i) = <<Token("ps", cc, <<q[i]>>)>> \o g[i + 1]
        BY <1>3, <2>3, <4>1 DEF RenditionFrom
      <4>3. EachFrom(cc, s, f, i - 1) = <<Token("ps", cc, <<argv[i - 1]>>)>> \o f[i]
        BY <3>1, <3>7 DEF EachFrom
      <4> QED
        BY <2>1, <3>2, <3>4, <4>2, <4>3
    <3> QED
      BY <3>5, <3>6, <3>7
  <2> QED
    BY <2>2, <2>3
<1>6. Parser!Rendition(cc) = g[1]
  <2>1. Len(q) + 1 = argc + 2
    BY <1>2, <1>3
  <2>2. \A i \in 1 .. Len(q) + 1 : g[i] = RenditionFrom(cc, q, g, i)
    BY <1>5, <2>1
  <2> QED
    BY <1>g, <2>2, RenditionIs DEF q
<1>7. g[1] = f[0]
  <2>1. 1 \in 1 .. argc + 2 /\ 1 - 1 = 0
    BY <1>2
  <2> QED
    BY <1>4, <2>1
<1> QED
  BY <1>1, <1>6, <1>7

(* Where a list of parameters is being read, and what the state says of it. *)
InList ==
    /\ tokenBufferPos >= 2 /\ tokenBuffer[1] \notin {"]", "P"}
    /\ tokenBufferPos = 2 => tokenBuffer[1] = "["
ListState == StateAt(tokenBufferPos, tokenBuffer, ansi)
ListFourth == FourthAt(tokenBufferPos, tokenBuffer, ansi)
Open == ListState \in {"csi", "list", "space"}

LEMMA ListStateIs ==
  ASSUME NEW cc, NEW s, Scans(cc, s), ansi, InList, tokenBufferPos = 2 => cc \notin Thirds
  PROVE  /\ tokenBufferPos = 2 => ListState = "csi" /\ ListFourth = "fresh"
         /\ tokenBufferPos >= 3 => /\ ListState = ListOf(tokenBuffer[2]) /\ ListState \in Lists
                                   /\ s[2] = tokenBuffer[2]
         /\ tokenBufferPos = 3 => ListFourth = "fresh"
         /\ tokenBufferPos >= 4 => ListFourth = (IF s[3] = "SP" THEN "space" ELSE "other")
         /\ ListState \in {"csi"} \cup Lists
         /\ Open <=> InOpen(s)
         /\ ListState = "bang" <=> s[2] = "!"
         /\ ListState = "space" <=> tokenBufferPos >= 3 /\ s[2] = "SP"
         /\ ListState = "private" <=> s[2] = "?"
         /\ ListState = "second" <=> s[2] = ">"
<1>1. tokenBufferPos \in Nat /\ tokenBufferPos >= 2 /\ (tokenBufferPos = 2 \/ tokenBufferPos >= 3)
      /\ (tokenBufferPos = 2 => s[2] = cc)
      /\ (tokenBufferPos >= 3 => s[2] = tokenBuffer[2])
      /\ (tokenBufferPos >= 4 => s[3] = tokenBuffer[3])
  BY Written DEF InList
<1>2. CASE tokenBufferPos = 2
  <2>1. ListState = "csi"
    BY <1>2 DEF ListState, StateAt, InList
  <2>2. ListFourth = "fresh" /\ "csi" \notin Lists
    BY <2>1 DEF ListFourth, ListState, FourthAt, Lists
  <2>3. s[2] \notin {"?", ">", "!", "SP"}
    BY <1>1, <1>2 DEF Thirds
  <2> QED
    BY <1>1, <1>2, <2>1, <2>2, <2>3 DEF Open, InOpen
<1>3. CASE tokenBufferPos >= 3
  <2>1. ListState = ListOf(tokenBuffer[2])
    BY <1>1, <1>3 DEF ListState, StateAt, InList, ListOf
  <2>2. ListState \in Lists
    BY <2>1, ListsAre
  <2>3. tokenBufferPos = 3 => ListFourth = "fresh"
    BY DEF ListFourth, FourthAt
  <2>4. tokenBufferPos >= 4 => ListFourth = (IF s[3] = "SP" THEN "space" ELSE "other")
    <3>1. StateAt(tokenBufferPos, tokenBuffer, ansi) \in Lists
      BY <2>2 DEF ListState
    <3>2. ListFourth = IF tokenBufferPos = 3 THEN "fresh"
                       ELSE IF tokenBuffer[3] = "SP" THEN "space" ELSE "other"
      BY <3>1 DEF ListFourth, FourthAt
    <3> QED
      BY <1>1, <3>2
  <2>5. ListState = ListOf(s[2])
    BY <1>1, <1>3, <2>1
  <2>6. /\ Open <=> InOpen(s)
        /\ ListState = "bang" <=> s[2] = "!"
        /\ ListState = "space" <=> s[2] = "SP"
        /\ ListState = "private" <=> s[2] = "?"
        /\ ListState = "second" <=> s[2] = ">"
    BY <2>5 DEF Open, InOpen, ListOf
  <2> QED
    BY <1>1, <1>3, <2>1, <2>2, <2>3, <2>4, <2>6
<1> QED
  BY <1>1, <1>2, <1>3

(* A character that leaves the scanner in the list.                        *)
LEMMA ListStays ==
  ASSUME NEW cc, NEW s, Scans(cc, s), ansi, InList, tokenBufferPos = 2 => cc \notin Thirds, Keeps(s)
  PROVE  /\ StateAt(tokenBufferPos', tokenBuffer', ansi')
              = (IF ListState = "csi" THEN "list" ELSE ListState)
         /\ FourthAt(tokenBufferPos', tokenBuffer', ansi')
              = (IF tokenBufferPos = 3 /\ cc = "SP" THEN "space"
                 ELSE IF ListFourth = "space" THEN "space"
                 ELSE IF ListState = "csi" THEN "fresh" ELSE "other")
         /\ TextAt(tokenBufferPos', tokenBuffer') = TextAt(tokenBufferPos, tokenBuffer)
         /\ MarksAt(tokenBufferPos', tokenBuffer', ansi') = MarksAt(tokenBufferPos, tokenBuffer, ansi)
         /\ Parser!Say(<<>>) /\ BegunInv'
<1>1. /\ tokenBuffer' = s /\ tokenBufferPos' = NextPos /\ ansi' = ansi /\ Parser!Say(<<>>)
  BY ModeStays, SameSay DEF Keeps
<1>2. /\ tokenBufferPos \in Nat /\ NextPos \in Nat /\ NextPos >= 3
      /\ (tokenBufferPos = 2 \/ tokenBufferPos = 3 \/ tokenBufferPos >= 4)
      /\ (tokenBufferPos = 2 => NextPos = 3 /\ s[2] = cc)
      /\ (tokenBufferPos = 3 => NextPos = 4 /\ s[3] = cc)
      /\ (tokenBufferPos >= 4 => NextPos >= 5)
      /\ (tokenBufferPos >= 3 => s[2] = tokenBuffer[2])
      /\ s[0] = tokenBuffer[0] /\ s[1] = tokenBuffer[1]
  BY Written DEF InList
<1>3. s[1] \notin {"]", "P"} /\ tokenBufferPos >= 2
  BY <1>2 DEF InList
<1>4. /\ tokenBufferPos = 2 => ListState = "csi" /\ ListFourth = "fresh"
      /\ tokenBufferPos >= 3 => ListState = ListOf(tokenBuffer[2]) /\ ListState \in Lists
      /\ tokenBufferPos = 3 => ListFourth = "fresh"
      /\ tokenBufferPos >= 4 => ListFourth = (IF s[3] = "SP" THEN "space" ELSE "other")
      /\ ListState \in {"csi"} \cup Lists
  BY ListStateIs
<1>5. StateAt(NextPos, s, ansi) = ListOf(s[2])
  BY <1>2, <1>3 DEF StateAt, ListOf
<1>6. ListOf(s[2]) = (IF ListState = "csi" THEN "list" ELSE ListState)
  <2>1. CASE tokenBufferPos = 2
    <3>1. s[2] \notin {"?", ">", "!", "SP"}
      BY <1>2, <2>1 DEF Thirds
    <3> QED
      BY <1>4, <2>1, <3>1 DEF ListOf
  <2>2. CASE tokenBufferPos >= 3
    <3>1. "csi" \notin Lists
      BY DEF Lists
    <3> QED
      BY <1>2, <1>4, <2>2, <3>1
  <2> QED
    BY <1>2, <2>1, <2>2
<1>7. FourthAt(NextPos, s, ansi) = IF NextPos = 3 THEN "fresh" ELSE IF s[3] = "SP" THEN "space" ELSE "other"
  <2>1. StateAt(NextPos, s, ansi) \in Lists
    BY <1>5, ListsAre
  <2> QED
    BY <2>1 DEF FourthAt
<1>8. FourthAt(NextPos, s, ansi) = (IF tokenBufferPos = 3 /\ cc = "SP" THEN "space"
                                    ELSE IF ListFourth = "space" THEN "space"
                                    ELSE IF ListState = "csi" THEN "fresh" ELSE "other")
  <2>1. CASE tokenBufferPos = 2
    BY <1>2, <1>4, <1>7, <2>1
  <2>2. CASE tokenBufferPos = 3
    <3>1. ListState # "csi" /\ ListFourth = "fresh"
      BY <1>2, <1>4, <2>2 DEF Lists
    <3>2. NextPos # 3 /\ s[3] = cc
      BY <1>2, <2>2
    <3>3. FourthAt(NextPos, s, ansi) = IF cc = "SP" THEN "space" ELSE "other"
      BY <1>7, <3>2
    <3> QED
      BY <2>2, <3>1, <3>3
  <2>3. CASE tokenBufferPos >= 4
    <3>1. ListState # "csi" /\ ListFourth = (IF s[3] = "SP" THEN "space" ELSE "other")
      BY <1>2, <1>4, <2>3 DEF Lists
    <3>2. NextPos # 3 /\ tokenBufferPos # 3
      BY <1>2, <2>3
    <3>3. FourthAt(NextPos, s, ansi) = IF s[3] = "SP" THEN "space" ELSE "other"
      BY <1>7, <3>2
    <3> QED
      BY <3>1, <3>2, <3>3
  <2> QED
    BY <1>2, <2>1, <2>2, <2>3
<1>9. TextAt(NextPos, s) = <<>> /\ TextAt(tokenBufferPos, tokenBuffer) = <<>>
  BY <1>2, <1>3 DEF TextAt, Xpe
<1>10. MarksAt(NextPos, s, ansi) = <<>> /\ MarksAt(tokenBufferPos, tokenBuffer, ansi) = <<>>
  <2>1. StateAt(NextPos, s, ansi) \in Lists /\ ListState \in {"csi"} \cup Lists
    BY <1>4, <1>5, ListsAre
  <2>2. StateAt(NextPos, s, ansi) \notin {"designate", "column"} /\ ListState \notin {"designate", "column"}
    BY <2>1 DEF Lists
  <2> QED
    BY <2>2 DEF MarksAt, ListState
<1>11. BegunInv'
  <2>1. BegunAt(NextPos, s, ansi)
    <3>1. s[0] = "ESC"
      BY <1>2, <1>3, Begun
    <3>2. s[1] \in GRP \cup {"P"}
      BY <1>2, <1>3, BegunAnsi
    <3>3. s[1] \in SCS \cup {"#"} => s[2] \in Thirds
      <4>1. CASE tokenBufferPos = 2
        BY <1>2, <4>1 DEF InList, SCS
      <4>2. CASE tokenBufferPos >= 3
        BY <1>2, <4>2, BegunAnsi
      <4> QED
        BY <1>2, <4>1, <4>2
    <3> QED
      BY <1>2, <3>1, <3>2, <3>3 DEF BegunAt
  <2>2. NoneYet(NextPos, s, ansi, argc', argv')
    BY <1>5, ListsAre DEF NoneYet
  <2> QED
    BY <1>1, <2>1, <2>2 DEF BegunInv
<1> QED
  BY <1>1, <1>5, <1>6, <1>8, <1>9, <1>10, <1>11

(* The rule that takes a character in a list.                              *)
LEMMA ListRule ==
  ASSUME NEW cc, NEW s, Scans(cc, s), ansi, InList, tokenBufferPos = 2 => cc \notin Thirds
  PROVE  RuleOf(s, cc) =
           IF tokenBufferPos = 3 /\ cc = "SP" THEN "wait"
           ELSE IF Open /\ cc \in CPN THEN "pn"
           ELSE IF Open /\ cc \in CPS THEN "resize"
           ELSE IF ListState = "bang" THEN "pe"
           ELSE IF ListState = "space" THEN "sp"
           ELSE IF ListFourth = "space" THEN "psp"
           ELSE IF cc \in DIG THEN "digit"
           ELSE IF cc = ";" THEN "argument"
           ELSE "each"
<1>1. /\ tokenBufferPos \in Nat /\ NextPos \in Nat /\ NextPos >= 3
      /\ (tokenBufferPos = 2 \/ tokenBufferPos = 3 \/ tokenBufferPos >= 4)
      /\ (tokenBufferPos = 2 => NextPos = 3 /\ s[2] = cc)
      /\ (tokenBufferPos = 3 => NextPos = 4 /\ s[3] = cc)
      /\ (tokenBufferPos >= 4 => NextPos >= 5)
      /\ s[1] = tokenBuffer[1]
  BY Written DEF InList
<1>2. s[1] \notin {"]", "P"} /\ (tokenBufferPos = 2 => s[1] = "[")
  BY <1>1 DEF InList
<1>3. RuleOf(s, cc) = FirstRule(Rules(NextPos, s, cc))
  BY DEF RuleOf
<1>4. CASE tokenBufferPos = 3 /\ cc = "SP"
  <2>1. NextPos = 4 /\ s[3] = "SP" /\ s[1] # "]"
    BY <1>1, <1>2, <1>4
  <2> QED
    BY <1>3, <1>4, <2>1, RuleFourth
<1>5. CASE ~(tokenBufferPos = 3 /\ cc = "SP")
  <2>1. HoldsList(NextPos, s)
    BY <1>1, <1>2, <1>5 DEF HoldsList
  <2>2. RuleOf(s, cc) = RuleInList(NextPos, s, cc)
    BY <1>3, <2>1, RuleBody
  <2>3. /\ Open <=> InOpen(s)
        /\ ListState = "bang" <=> s[2] = "!"
        /\ ListState = "space" <=> tokenBufferPos >= 3 /\ s[2] = "SP"
    BY ListStateIs
  <2>4. ListState = "space" <=> NextPos >= 4 /\ s[2] = "SP"
    BY <1>1, <2>3
  <2>5. ListFourth = "space" <=> NextPos >= 5 /\ s[3] = "SP"
    <3>1. /\ tokenBufferPos = 2 => ListFourth = "fresh"
          /\ tokenBufferPos = 3 => ListFourth = "fresh"
          /\ tokenBufferPos >= 4 => ListFourth = (IF s[3] = "SP" THEN "space" ELSE "other")
      BY ListStateIs
    <3> QED
      BY <1>1, <3>1
  <2> QED
    BY <1>5, <2>2, <2>3, <2>4, <2>5 DEF RuleInList
<1> QED
  BY <1>4, <1>5

(* Lists: each case is that of the parser.                                 *)
LEMMA BodyParsed ==
  ASSUME NEW cc, NEW s, Scans(cc, s), ansi, InList, tokenBufferPos = 2 => cc \notin Thirds
  PROVE  Parser!Body(cc) /\ BegunInv'
<1> DEFINE q == ParametersIn(argc, argv)
           first == IF 1 <= Len(q) THEN q[1] ELSE 0
           second == IF 2 <= Len(q) THEN q[2] ELSE 0
           each(kind) == [i \in 1 .. Len(q) |-> Token(kind, cc, <<q[i]>>)]
<1>1. TypeOK /\ cc \in Char
  BY Begun
<1>2. /\ tokenBufferPos \in Nat /\ (tokenBufferPos = 2 \/ tokenBufferPos = 3 \/ tokenBufferPos >= 4)
      /\ (tokenBufferPos = 2 => s[2] = cc)
  BY Written DEF InList
<1>3. /\ tokenBufferPos = 2 => ListState = "csi" /\ ListFourth = "fresh"
      /\ tokenBufferPos >= 3 => ListState \in Lists
      /\ tokenBufferPos = 3 => ListFourth = "fresh"
      /\ tokenBufferPos >= 4 => ListFourth \in {"space", "other"}
      /\ ListState \in {"csi", "list", "private", "second", "bang", "space"}
      /\ ListState = "csi" => cc \notin {"?", ">", "!", "SP"}
      /\ ListState = "private" <=> s[2] = "?"
      /\ ListState = "second" <=> s[2] = ">"
  BY <1>2, ListStateIs DEF Lists, Thirds
<1>4. ListFourth = "fresh" /\ ListState # "csi" /\ cc = "SP" <=> tokenBufferPos = 3 /\ cc = "SP"
  BY <1>2, <1>3
<1>5. RuleOf(s, cc) =
           IF tokenBufferPos = 3 /\ cc = "SP" THEN "wait"
           ELSE IF Open /\ cc \in CPN THEN "pn"
           ELSE IF Open /\ cc \in CPS THEN "resize"
           ELSE IF ListState = "bang" THEN "pe"
           ELSE IF ListState = "space" THEN "sp"
           ELSE IF ListFourth = "space" THEN "psp"
           ELSE IF cc \in DIG THEN "digit"
           ELSE IF cc = ";" THEN "argument"
           ELSE "each"
  BY ListRule
<1>6. /\ q \in Seq(Nat) /\ Len(q) = argc + 1 /\ argc \in Nat
      /\ \A i \in 1 .. argc + 1 : q[i] = argv[i - 1]
  BY <1>1, ParametersAre
<1>7. /\ first = argv[0] /\ second = argv[1]
      /\ argv[2] \in (IF Len(q) >= 3 THEN {q[3]} ELSE 0 .. ArgumentLimit \cup {Garbage})
  <2>1. argc = 0 => argv[1] = 0
    BY DEF Scans, TokenInv, ArgumentsWritten
  <2>2. argv[2] \in 0 .. ArgumentLimit \cup {Garbage}
    <3>1. 2 \in 0 .. MaxArgs - 1
      BY TokenizerAssumption
    <3> QED
      BY <1>1, <3>1 DEF TypeOK
  <2> HIDE DEF q
  <2>3. q[1] = argv[0] /\ (argc >= 1 => q[2] = argv[1]) /\ (argc >= 2 => q[3] = argv[2])
    <3>1. 1 \in 1 .. argc + 1 /\ 1 - 1 = 0 /\ 2 - 1 = 1 /\ 3 - 1 = 2
          /\ (argc >= 1 => 2 \in 1 .. argc + 1) /\ (argc >= 2 => 3 \in 1 .. argc + 1)
      BY <1>6
    <3> QED
      BY <1>6, <3>1
  <2> QED
    BY <1>6, <2>1, <2>2, <2>3
<1>8. ASSUME NEW calls, NEW rule, rule = RuleOf(s, cc), rule \notin Silent,
             Calls(rule, NextPos, s, cc) = calls
      PROVE  Parser!Finish(calls) /\ BegunInv'
  BY <1>8, ScanMakes
<1>9. /\ Parser!Parameter(1) = first /\ Parser!Parameter(2) = second
      /\ Parser!CPN = CPN /\ Parser!CPS = CPS /\ Parser!DIG = DIG
  BY SameClasses DEF Parser!Parameter
<1>10. Keeps(s) => BegunInv'
  BY ListStays
<1>11. CASE tokenBufferPos = 3 /\ cc = "SP"
  <2>1. Keeps(s) /\ argv' = argv /\ argc' = argc
    BY <1>5, <1>11, ScanDoes DEF Scans
  <2>2. /\ StateAt(tokenBufferPos', tokenBuffer', ansi') = ListState
        /\ FourthAt(tokenBufferPos', tokenBuffer', ansi') = "space"
        /\ TextAt(tokenBufferPos', tokenBuffer') = TextAt(tokenBufferPos, tokenBuffer)
        /\ MarksAt(tokenBufferPos', tokenBuffer', ansi') = MarksAt(tokenBufferPos, tokenBuffer, ansi)
        /\ Parser!Say(<<>>)
    BY <1>4, <1>11, <2>1, ListStays
  <2> QED
    BY <1>3, <1>4, <1>10, <1>11, <2>1, <2>2 DEF Parser!Body, ListState, ListFourth
<1>12. CASE ~(tokenBufferPos = 3 /\ cc = "SP") /\ Open /\ cc \in CPN
  <2>1. RuleOf(s, cc) = "pn" /\ "pn" \notin Silent
    BY <1>5, <1>12 DEF Silent
  <2>2. Calls("pn", NextPos, s, cc) = <<Token("pn", cc, <<argv[0], argv[1]>>)>>
    BY DEF Calls
  <2>3. Parser!Finish(<<Token("pn", cc, <<first, second>>)>>) /\ BegunInv'
    BY <1>7, <1>8, <2>1, <2>2
  <2> HIDE DEF first, second
  <2> QED
    BY <1>3, <1>4, <1>9, <1>12, <2>3, SameTokens DEF Parser!Body, ListState, ListFourth, Open
<1>13. CASE ~(tokenBufferPos = 3 /\ cc = "SP") /\ Open /\ cc \notin CPN /\ cc \in CPS
  <2>1. RuleOf(s, cc) = "resize" /\ "resize" \notin Silent
    BY <1>5, <1>13 DEF Silent
  <2>2. Calls("resize", NextPos, s, cc) = <<Token("resize", cc, <<argv[0], argv[1], argv[2]>>)>>
    BY DEF Calls
  <2>3. Parser!Finish(<<Token("resize", cc, <<first, second, argv[2]>>)>>) /\ BegunInv'
    BY <1>7, <1>8, <2>1, <2>2
  <2>4. \E third \in (IF Len(q) >= 3 THEN {q[3]} ELSE 0 .. ArgumentLimit \cup {Garbage}) :
          Parser!Finish(<<Token("resize", cc, <<first, second, third>>)>>)
    BY <1>7, <2>3
  <2> HIDE DEF first, second
  <2> QED
    BY <1>3, <1>4, <1>9, <1>13, <2>3, <2>4, SameTokens DEF Parser!Body, ListState, ListFourth, Open
<1>14. CASE ~(tokenBufferPos = 3 /\ cc = "SP") /\ ~(Open /\ cc \in CPN) /\ ~(Open /\ cc \in CPS)
  <2> DEFINE M == Parser!Body(cc) /\ BegunInv'
  <2>1. CASE ListState = "bang"
    <3>1. RuleOf(s, cc) = "pe" /\ "pe" \notin Silent
      BY <1>5, <1>14, <2>1 DEF Silent
    <3>2. Calls("pe", NextPos, s, cc) = <<Token("pe", cc, <<>>)>>
      BY DEF Calls
    <3>3. Parser!Finish(<<Token("pe", cc, <<>>)>>) /\ BegunInv'
      BY <1>8, <3>1, <3>2
    <3> QED
      BY <1>3, <1>4, <1>9, <1>14, <2>1, <3>3, SameTokens DEF Parser!Body, ListState, ListFourth, Open
  <2>2. CASE ListState = "space"
    <3>1. RuleOf(s, cc) = "sp" /\ "sp" \notin Silent
      BY <1>5, <1>14, <2>2 DEF Silent
    <3>2. Calls("sp", NextPos, s, cc) = <<Token("sp", cc, <<>>)>>
      BY DEF Calls
    <3>3. Parser!Finish(<<Token("sp", cc, <<>>)>>) /\ BegunInv'
      BY <1>8, <3>1, <3>2
    <3> QED
      BY <1>3, <1>4, <1>9, <1>14, <2>2, <3>3, SameTokens DEF Parser!Body, ListState, ListFourth, Open
  <2>3. CASE ListState \notin {"bang", "space"} /\ ListFourth = "space"
    <3>1. RuleOf(s, cc) = "psp" /\ "psp" \notin Silent
      BY <1>5, <1>14, <2>3 DEF Silent
    <3>2. Calls("psp", NextPos, s, cc) = <<Token("psp", cc, <<argv[0]>>)>>
      BY DEF Calls
    <3>3. Parser!Finish(<<Token("psp", cc, <<first>>)>>) /\ BegunInv'
      BY <1>7, <1>8, <3>1, <3>2
    <3> HIDE DEF first, second
    <3> QED
      BY <1>3, <1>4, <1>9, <1>14, <2>3, <3>3, SameTokens DEF Parser!Body, ListState, ListFourth, Open
  <2>4. ASSUME ListState \notin {"bang", "space"}, ListFourth # "space", cc \in DIG \/ cc = ";", Keeps(s),
               ParametersIn(argc', argv') =
                 IF cc \in DIG THEN IF q[Len(q)] >= MaxArgument THEN q
                                    ELSE [q EXCEPT ![Len(q)] = 10 * @ + DigitValue[cc]]
                 ELSE IF Len(q) < MaxArgs THEN Append(q, 0) ELSE [q EXCEPT ![Len(q)] = 0]
        PROVE  M
    <3>1. /\ StateAt(tokenBufferPos', tokenBuffer', ansi')
               = (IF ListState = "csi" THEN "list" ELSE ListState)
          /\ FourthAt(tokenBufferPos', tokenBuffer', ansi')
               = (IF ListFourth = "space" THEN ListFourth
                  ELSE IF ListState = "csi" THEN "fresh" ELSE "other")
          /\ TextAt(tokenBufferPos', tokenBuffer') = TextAt(tokenBufferPos, tokenBuffer)
          /\ MarksAt(tokenBufferPos', tokenBuffer', ansi') = MarksAt(tokenBufferPos, tokenBuffer, ansi)
          /\ Parser!Say(<<>>)
      BY <1>14, <2>4, ListStays
    <3>2. Parser!DigitValue = DigitValue
      BY SameClasses
    <3> QED
      BY <1>3, <1>4, <1>9, <1>10, <1>14, <2>4, <3>1, <3>2 DEF Parser!Body, ListState, ListFourth, Open
  <2>5. CASE ListState \notin {"bang", "space"} /\ ListFourth # "space" /\ cc \in DIG
    <3>1. RuleOf(s, cc) = "digit"
      BY <1>5, <1>14, <2>5
    <3>2. Keeps(s) /\ AddDigit(DigitValue[cc])
      BY <3>1, ScanDoes DEF Scans
    <3>3. ParametersIn(argc', argv') = IF q[Len(q)] >= MaxArgument THEN q
                                       ELSE [q EXCEPT ![Len(q)] = 10 * @ + DigitValue[cc]]
      BY <1>1, <2>5, <3>2, DigitsAre, DigitParsed
    <3> HIDE DEF q
    <3> QED
      BY <2>4, <2>5, <3>2, <3>3
  <2>6. CASE ListState \notin {"bang", "space"} /\ ListFourth # "space" /\ cc \notin DIG /\ cc = ";"
    <3>1. RuleOf(s, cc) = "argument"
      BY <1>5, <1>14, <2>6
    <3>2. Keeps(s) /\ AddArgument
      BY <3>1, ScanDoes DEF Scans
    <3>3. ParametersIn(argc', argv') = IF Len(q) < MaxArgs THEN Append(q, 0)
                                       ELSE [q EXCEPT ![Len(q)] = 0]
      BY <1>1, <3>2, ArgumentParsed
    <3> HIDE DEF q
    <3> QED
      BY <2>4, <2>6, <3>2, <3>3
  <2>7. CASE ListState \notin {"bang", "space"} /\ ListFourth # "space" /\ cc \notin DIG /\ cc # ";"
    <3>1. RuleOf(s, cc) = "each" /\ "each" \notin Silent
      BY <1>5, <1>14, <2>7 DEF Silent
    <3>2. Calls("each", NextPos, s, cc) = EachArgument(cc, s)
      BY DEF Calls
    <3>3. Parser!Finish(EachArgument(cc, s)) /\ BegunInv'
      BY <1>8, <3>1, <3>2
    <3>4. ASSUME NEW kind,
                 EachArgument(cc, s) = [i \in 1 .. argc + 1 |-> Token(kind, cc, <<argv[i - 1]>>)]
          PROVE  EachArgument(cc, s) = each(kind)
      <4> HIDE DEF q
      <4> QED
        BY <1>6, <3>4
    <3>5. CASE ListState = "private"
      <4>1. EachArgument(cc, s) = each("pr")
        <5>1. s[2] = "?"
          BY <1>3, <3>5
        <5>2. PrivateKind(s, "pr")
          BY <5>1 DEF PrivateKind
        <5>3. EachArgument(cc, s) = [i \in 1 .. argc + 1 |-> Token("pr", cc, <<argv[i - 1]>>)]
          BY <1>1, <5>2, PrivateEach
        <5> HIDE DEF each
        <5> QED
          BY <3>4, <5>3
      <4>2. Parser!Finish([i \in 1 .. Len(q) |-> Parser!Token("pr", cc, <<q[i]>>)])
        BY <3>3, <4>1, SameTokens
      <4> QED
        BY <1>3, <1>4, <1>9, <1>14, <2>7, <3>3, <3>5, <4>2 DEF Parser!Body, ListState, ListFourth, Open
    <3>6. CASE ListState = "second"
      <4>1. EachArgument(cc, s) = each("pg")
        <5>1. s[2] = ">"
          BY <1>3, <3>6
        <5>2. PrivateKind(s, "pg")
          BY <5>1 DEF PrivateKind
        <5>3. EachArgument(cc, s) = [i \in 1 .. argc + 1 |-> Token("pg", cc, <<argv[i - 1]>>)]
          BY <1>1, <5>2, PrivateEach
        <5> HIDE DEF each
        <5> QED
          BY <3>4, <5>3
      <4>2. Parser!Finish([i \in 1 .. Len(q) |-> Parser!Token("pg", cc, <<q[i]>>)])
        BY <3>3, <4>1, SameTokens
      <4> QED
        BY <1>3, <1>4, <1>9, <1>14, <2>7, <3>3, <3>6, <4>2 DEF Parser!Body, ListState, ListFourth, Open
    <3>7. CASE ListState \notin {"private", "second"}
      <4>1. s[2] \notin {"?", ">"}
        BY <1>3, <3>7
      <4>2. Parser!Finish(Parser!Rendition(cc))
        BY <1>1, <3>3, <4>1, SameRendition
      <4> QED
        BY <1>3, <1>4, <1>9, <1>14, <2>7, <3>3, <3>7, <4>2 DEF Parser!Body, ListState, ListFourth, Open
    <3> QED
      BY <3>5, <3>6, <3>7
  <2> QED
    BY <2>1, <2>2, <2>3, <2>5, <2>6, <2>7
<1> QED
  BY <1>11, <1>12, <1>13, <1>14

(* Any character that reaches the rules.                                   *)
LEMMA ScanParsed ==
  ASSUME NEW cc, NEW s, Scans(cc, s)
  PROVE  Parser!PReceive(cc) /\ BegunInv'
<1>1. /\ tokenBufferPos \in Nat
      /\ (tokenBufferPos = 0 \/ tokenBufferPos = 1 \/ tokenBufferPos = 2 \/ tokenBufferPos >= 3)
  BY Written
<1>2. Parser!CTL = CTL /\ cc # "DEL"
  BY SameClasses, Begun
<1>3. CASE ansi /\ tokenBufferPos >= 2 /\ tokenBuffer[1] = "]"
  <2>1. Parser!Osc(cc) /\ BegunInv'
    BY <1>3, OscParsed
  <2> QED
    BY <2>1 DEF Parser!PReceive
<1>4. CASE ~(ansi /\ tokenBufferPos >= 2 /\ tokenBuffer[1] = "]")
  <2>1. cc \notin Parser!CTL \cup {"DEL"}
    <3>1. ~Xpe(tokenBufferPos, tokenBuffer)
      <4>1. ansi \in BOOLEAN
        BY ModeKnown
      <4>2. ~ansi => ~Xpe(tokenBufferPos, tokenBuffer)
        BY BegunVT52 DEF Xpe
      <4> QED
        BY <1>4, <4>2 DEF Xpe
    <3> QED
      BY <1>2, <3>1, Begun
  <2>2. (Parser!First(cc) \/ Parser!Second(cc) \/ Parser!Dcs(cc) \/ Parser!Third(cc) \/ Parser!Body(cc)
         \/ Parser!VT52(cc)) /\ BegunInv'
    <3>1. CASE ~ansi
      BY <3>1, VT52Parsed
    <3>2. CASE ansi
      <4>1. CASE tokenBufferPos = 0
        BY <3>2, <4>1, FirstParsed
      <4>2. CASE tokenBufferPos = 1
        BY <3>2, <4>2, SecondParsed
      <4>3. CASE tokenBufferPos >= 2 /\ tokenBuffer[1] = "P"
        BY <3>2, <4>3, DcsParsed
      <4>4. CASE tokenBufferPos >= 2 /\ tokenBuffer[1] # "P"
        <5>1. tokenBuffer[1] \notin {"]", "P"}
          BY <1>4, <3>2, <4>4
        <5>2. CASE tokenBufferPos = 2 /\ (cc \in Thirds \/ tokenBuffer[1] # "[")
          BY <3>2, <5>1, <5>2, ThirdParsed
        <5>3. CASE ~(tokenBufferPos = 2 /\ (cc \in Thirds \/ tokenBuffer[1] # "["))
          <6>1. InList /\ (tokenBufferPos = 2 => cc \notin Thirds)
            BY <4>4, <5>1, <5>3 DEF InList
          <6> QED
            BY <3>2, <6>1, BodyParsed
        <5> QED
          BY <5>2, <5>3
      <4> QED
        BY <1>1, <4>1, <4>2, <4>3, <4>4
    <3> QED
      BY <3>1, <3>2
  <2> QED
    BY <2>1, <2>2 DEF Parser!PReceive
<1> QED
  BY <1>3, <1>4

-----------------------------------------------------------------------------
(* What the scanner keeps, and what the refinement needs of the buffer.    *)
ScannerInv == TokenInv /\ BegunInv

LEMMA ParserStep ==
  ASSUME ScannerInv, [Next]_vars
  PROVE  ScannerInv' /\ [Parser!PNext]_(Parser!parserVars)
<1>1. TokenInv /\ BegunInv /\ TokenInv'
  BY TokenStep DEF ScannerInv
<1>2. CASE UNCHANGED vars
  <2>1. /\ tokenBuffer' = tokenBuffer /\ tokenBufferPos' = tokenBufferPos /\ argv' = argv /\ argc' = argc
        /\ ansi' = ansi /\ tokens' = tokens
    BY <1>2 DEF vars
  <2>2. UNCHANGED Parser!unread /\ BegunInv'
    BY <1>1, <2>1, UnreadStays
  <2> QED
    BY <1>1, <2>1, <2>2 DEF ScannerInv, Parser!parserVars, Parser!unread
<1>3. ASSUME NEW cc \in Char, ReceiveChar(cc)
      PROVE  Parser!PReceive(cc) /\ BegunInv'
  <2>1. CASE cc = "DEL" /\ Say(<<>>) /\ UNCHANGED <<tokenBuffer, tokenBufferPos, argv, argc>>
    BY <1>1, <2>1, DeleteParsed
  <2>2. CASE Control(cc)
    BY <1>1, <2>2, ControlParsed
  <2>3. CASE /\ cc # "DEL"
             /\ cc \in CTL => Xpe(tokenBufferPos, tokenBuffer) /\ Ends(cc)
             /\ Scan(cc)
    <3>1. PICK s : s = [tokenBuffer EXCEPT ![tokenBufferPos] = cc]
      OBVIOUS
    <3>2. ansi' \in BOOLEAN
      BY <1>1 DEF TokenInv, TypeOK
    <3>3. Scans(cc, s)
      BY <1>1, <2>3, <3>1, <3>2 DEF Scans, Writes
    <3> QED
      BY <3>3, ScanParsed
  <2> QED
    BY <1>3, <2>1, <2>2, <2>3 DEF ReceiveChar
<1>4. CASE Next
  <2>1. PICK cc \in Char : ReceiveChar(cc)
    BY <1>4 DEF Next
  <2>2. Parser!PReceive(cc) /\ BegunInv'
    BY <1>3, <2>1
  <2> QED
    BY <1>1, <2>2 DEF ScannerInv, Parser!PNext
<1> QED
  BY <1>2, <1>4

(* For every sequence of characters the scanner does what the parser with  *)
(* named states does, whatever earlier sequences left in the buffer and in *)
(* the arguments (receiveChar): the state can be deduced from the buffer,  *)
(* as the comment above the scanner says.                                  *)
THEOREM ParsesAsSpecified == Spec => ImplementsParser
<1>1. Init => ScannerInv /\ Parser!PInit
  <2> SUFFICES ASSUME Init PROVE ScannerInv /\ Parser!PInit
    OBVIOUS
  <2>1. MaxTokenLength \in Nat /\ MaxTokenLength >= 6 /\ MaxArgs \in Nat /\ MaxArgs >= 3
    BY TokenizerAssumption
  <2>2. TokenInv
    BY FirstIsSound
  <2>3. tokenBufferPos = 0 /\ argc = 0 /\ argv[0] = 0 /\ ansi = TRUE /\ tokens = <<>>
    BY <2>1 DEF Init
  <2>4. StateAt(tokenBufferPos, tokenBuffer, ansi) = "ground" /\ "ground" \notin Lists
    BY <2>3 DEF StateAt, Lists
  <2>5. BegunInv
    BY <2>3 DEF BegunInv, BegunAt, NoneYet
  <2>6. /\ FourthAt(tokenBufferPos, tokenBuffer, ansi) = "fresh"
        /\ MarksAt(tokenBufferPos, tokenBuffer, ansi) = <<>>
        /\ TextAt(tokenBufferPos, tokenBuffer) = <<>>
    <3>1. FourthAt(tokenBufferPos, tokenBuffer, ansi) = "fresh"
      BY <2>4 DEF FourthAt
    <3>2. MarksAt(tokenBufferPos, tokenBuffer, ansi) = <<>>
      BY <2>4 DEF MarksAt
    <3>3. TextAt(tokenBufferPos, tokenBuffer) = <<>>
      BY <2>3 DEF TextAt, Xpe
    <3> QED
      BY <3>1, <3>2, <3>3
  <2>7. ParametersIn(argc, argv) = <<0>>
    <3>1. [i \in 1 .. 0 + 1 |-> argv[i - 1]] = <<0>>
      BY <2>3
    <3> QED
      BY <2>3, <3>1 DEF ParametersIn
  <2> QED
    BY <2>2, <2>3, <2>4, <2>5, <2>6, <2>7 DEF ScannerInv, Parser!PInit
<1>2. ScannerInv /\ [Next]_vars => ScannerInv' /\ [Parser!PNext]_(Parser!parserVars)
  BY ParserStep
<1> QED
  BY <1>1, <1>2, PTL DEF Spec, ImplementsParser, Parser!PSpec
=============================================================================
