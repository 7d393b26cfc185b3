--------------------------- MODULE ReferenceProofs --------------------------
(***************************************************************************)
(* Proofs about Reference: what its runs check on short inputs holds for   *)
(* inputs of any length.                                                   *)
(***************************************************************************)
EXTENDS Reference, FiniteSetTheorems, WellFoundedInduction, TLAPS

----------------------------------------------------------------------------
(* Induction over numbers. *)

(* A set of numbers that is not empty has a least member. *)
LEMMA Smallest ==
    ASSUME NEW T \in SUBSET Nat, T # {}
    PROVE  \E x \in T : \A y \in T : x <= y
<1> DEFINE R == OpToRel(<, Nat)
<1>1. IsWellFoundedOn(R, Nat)
  BY NatLessThanWellFounded, Zenon
<1>2. \A a, b \in Nat : a < b => << a, b >> \in R
  BY DEF OpToRel
<1> HIDE DEF R
<1>3. PICK x \in T : \A y \in T : << y, x >> \notin R
  BY <1>1, WFMin
<1>4. \A y \in T : x \in Nat /\ y \in Nat /\ ~(y < x)
  BY <1>2, <1>3
<1> QED  BY <1>3, <1>4

(* Induction, for a set of numbers: one that holds 0 and the successor of  *)
(* each of its members holds all of them.  The proofs below put the claim  *)
(* they are about into such a set.                                         *)
LEMMA SetInduction ==
    ASSUME NEW S \in SUBSET Nat, 0 \in S, \A n \in S : n + 1 \in S
    PROVE  S = Nat
<1> SUFFICES ASSUME Nat \ S # {}  PROVE FALSE
  OBVIOUS
<1>1. PICK x \in Nat \ S : \A y \in Nat \ S : x <= y
  BY Smallest, Nat \ S \in SUBSET Nat
<1>2. x # 0 /\ x - 1 \in Nat /\ ~(x <= x - 1)
  BY <1>1
<1>3. x - 1 \in S
  BY <1>1, <1>2
<1>4. (x - 1) + 1 = x
  BY <1>1
<1> QED BY <1>1, <1>3, <1>4

----------------------------------------------------------------------------
(* Glob matching. *)

(* The part of an alignment that is still to come: the pattern from its    *)
(* place a on can be cut to fit the text from its place b on.  W says      *)
(* which parts of the pattern are wildcards, F[i][j] that part i takes     *)
(* element j.                                                              *)
Cut(m, n, W, F, a, b) ==
    \E cut \in [a .. m -> 0 .. n] :
        /\ cut[a] = b /\ cut[m] = n
        /\ \A i \in (a + 1) .. m :
              IF W[i] THEN cut[i - 1] <= cut[i]
              ELSE cut[i] = cut[i - 1] + 1 /\ F[i][cut[i]]

(* An alignment exists or it does not. *)
LEMMA CutBoolean ==
    ASSUME NEW m, NEW n, NEW W, NEW F, NEW a, NEW b
    PROVE  Cut(m, n, W, F, a, b) \in BOOLEAN
BY DEF Cut

(* What matchers do at each call: an alignment from (a, b) is one turn and *)
(* an alignment of the rest.                                               *)
LEMMA CutStep ==
    ASSUME NEW m \in Nat, NEW n \in Nat, NEW W, NEW F, NEW a \in 0 .. m, NEW b \in 0 .. n
    PROVE  Cut(m, n, W, F, a, b) <=>
             IF a = m THEN b = n
             ELSE IF W[a + 1] THEN \E k \in b .. n : Cut(m, n, W, F, a + 1, k)
             ELSE b < n /\ F[a + 1][b + 1] /\ Cut(m, n, W, F, a + 1, b + 1)
<1>1. CASE a = m
  <2>1. ASSUME b = n PROVE Cut(m, n, W, F, a, b)
    <3> DEFINE cut == [i \in a .. m |-> n]
    <3>1. cut \in [a .. m -> 0 .. n] /\ cut[a] = b /\ cut[m] = n
      BY <1>1, <2>1
    <3>2. \A i \in (a + 1) .. m : FALSE
      BY <1>1
    <3> QED BY <3>1, <3>2 DEF Cut
  <2> QED BY <2>1, <1>1 DEF Cut
<1>2. CASE a # m
  <2>0. a + 1 \in 0 .. m /\ a + 1 <= m /\ a < m
    BY <1>2
  <2>1. ASSUME Cut(m, n, W, F, a, b)
        PROVE IF W[a + 1] THEN \E k \in b .. n : Cut(m, n, W, F, a + 1, k)
             ELSE b < n /\ F[a + 1][b + 1] /\ Cut(m, n, W, F, a + 1, b + 1)
    <3>1. PICK cut \in [a .. m -> 0 .. n] :
             /\ cut[a] = b /\ cut[m] = n
             /\ \A i \in (a + 1) .. m :
                  IF W[i] THEN cut[i - 1] <= cut[i]
                  ELSE cut[i] = cut[i - 1] + 1 /\ F[i][cut[i]]
      BY <2>1 DEF Cut
    <3> DEFINE rest == [i \in (a + 1) .. m |-> cut[i]]
    <3>2. rest \in [(a + 1) .. m -> 0 .. n] /\ rest[a + 1] = cut[a + 1] /\ rest[m] = n
      BY <2>0, <3>1
    <3>3. \A i \in ((a + 1) + 1) .. m : i - 1 \in (a + 1) .. m /\ i \in (a + 1) .. m /\ rest[i] = cut[i] /\ rest[i - 1] = cut[i - 1]
      BY <2>0, <3>1
    <3>4. \A i \in ((a + 1) + 1) .. m : IF W[i] THEN rest[i - 1] <= rest[i]
                  ELSE rest[i] = rest[i - 1] + 1 /\ F[i][rest[i]]
      BY <3>1, <3>3
    <3> HIDE DEF rest
    <3>5. Cut(m, n, W, F, a + 1, cut[a + 1])
      BY <3>2, <3>4 DEF Cut
    <3>6. /\ a + 1 \in (a + 1) .. m /\ (a + 1) - 1 = a
      BY <2>0
    <3>7. IF W[a + 1] THEN b <= cut[a + 1] ELSE cut[a + 1] = b + 1 /\ F[a + 1][cut[a + 1]]
      BY <3>1, <3>6
    <3>8. cut[a + 1] \in 0 .. n
      BY <3>1, <2>0
    <3>9. CASE W[a + 1]
      <4>1. cut[a + 1] \in b .. n
        BY <3>7, <3>8, <3>9
      <4> QED BY <4>1, <3>5, <3>9
    <3>10. CASE ~W[a + 1]
      <4>1. cut[a + 1] = b + 1 /\ b < n /\ F[a + 1][b + 1]
        BY <3>7, <3>8, <3>10
      <4> QED BY <4>1, <3>5, <3>10
    <3> QED BY <3>9, <3>10
  <2>2. ASSUME NEW k \in b .. n, Cut(m, n, W, F, a + 1, k),
               IF W[a + 1] THEN TRUE ELSE k = b + 1 /\ F[a + 1][k]
        PROVE Cut(m, n, W, F, a, b)
    <3>1. PICK rest \in [(a + 1) .. m -> 0 .. n] :
             /\ rest[a + 1] = k /\ rest[m] = n
             /\ \A i \in ((a + 1) + 1) .. m :
                  IF W[i] THEN rest[i - 1] <= rest[i]
                  ELSE rest[i] = rest[i - 1] + 1 /\ F[i][rest[i]]
      BY <2>2 DEF Cut
    <3> DEFINE cut == [i \in a .. m |-> IF i = a THEN b ELSE rest[i]]
    <3>2. cut \in [a .. m -> 0 .. n] /\ cut[a] = b /\ cut[m] = n /\ cut[a + 1] = k
      BY <2>0, <3>1
    <3>3. ASSUME NEW i \in (a + 1) .. m
          PROVE  IF W[i] THEN cut[i - 1] <= cut[i]
                  ELSE cut[i] = cut[i - 1] + 1 /\ F[i][cut[i]]
      <4>1. CASE i = a + 1
        <5>1. cut[i - 1] = b /\ cut[i] = k /\ b <= k
          BY <4>1, <3>2
        <5> HIDE DEF cut
        <5> QED BY <5>1, <4>1, <2>2
      <4>2. CASE i # a + 1
        <5>1. i \in ((a + 1) + 1) .. m /\ i - 1 \in (a + 1) .. m /\ i # a /\ i - 1 # a /\ i \in a .. m /\ i - 1 \in a .. m
          BY <4>2
        <5>2. cut[i - 1] = rest[i - 1] /\ cut[i] = rest[i]
          BY <5>1
        <5> HIDE DEF cut
        <5> QED BY <5>1, <5>2, <3>1
      <4> QED BY <4>1, <4>2
    <3> HIDE DEF cut
    <3> QED BY <3>2, <3>3 DEF Cut
  <2>3. ASSUME W[a + 1], NEW k \in b .. n, Cut(m, n, W, F, a + 1, k)
        PROVE Cut(m, n, W, F, a, b)
    BY <2>2, <2>3
  <2>4. ASSUME ~W[a + 1], b < n, F[a + 1][b + 1], Cut(m, n, W, F, a + 1, b + 1)
        PROVE Cut(m, n, W, F, a, b)
    <3>1. b + 1 \in b .. n
      BY <2>4
    <3> QED BY <3>1, <2>2, <2>4
  <2> QED BY <1>2, <2>1, <2>3, <2>4
<1> QED BY <1>1, <1>2

(* T answers every call of a matcher from the answers of the calls that    *)
(* one makes.                                                              *)
IsTable(m, n, W, F, T) ==
    \A a \in 0 .. m, b \in 0 .. n :
        T[a][b] <=> IF a = m THEN b = n
                    ELSE IF W[a + 1] THEN \E k \in b .. n : T[a + 1][k]
                    ELSE b < n /\ F[a + 1][b + 1] /\ T[a + 1][b + 1]

(* Whatever answers its calls so, answers whether an alignment exists; by  *)
(* induction on the length of the rest of the pattern.                     *)
LEMMA TableIsCut ==
    ASSUME NEW m \in Nat, NEW n \in Nat, NEW W, NEW F, NEW T, IsTable(m, n, W, F, T),
           NEW a \in 0 .. m, NEW b \in 0 .. n
    PROVE  T[a][b] <=> Cut(m, n, W, F, a, b)
<1> DEFINE S == {h \in Nat : \A x \in 0 .. m, y \in 0 .. n :
                     x + h >= m => (T[x][y] <=> Cut(m, n, W, F, x, y))}
<1>1. 0 \in S
  <2> SUFFICES ASSUME NEW x \in 0 .. m, NEW y \in 0 .. n, x + 0 >= m
               PROVE T[x][y] <=> Cut(m, n, W, F, x, y)
    OBVIOUS
  <2>1. x = m
    OBVIOUS
  <2>2. T[x][y] <=> y = n
    BY <2>1 DEF IsTable
  <2>3. Cut(m, n, W, F, x, y) <=> y = n
    BY <2>1, CutStep
  <2> QED BY <2>2, <2>3
<1>2. ASSUME NEW h \in S PROVE h + 1 \in S
  <2> SUFFICES ASSUME NEW x \in 0 .. m, NEW y \in 0 .. n, x + (h + 1) >= m
               PROVE T[x][y] <=> Cut(m, n, W, F, x, y)
    OBVIOUS
  <2>0. h \in Nat /\ \A v \in 0 .. m, w \in 0 .. n :
           v + h >= m => (T[v][w] <=> Cut(m, n, W, F, v, w))
    OBVIOUS
  <2> HIDE DEF S
  <2>1. CASE x = m
    <3>1. T[x][y] <=> y = n
      BY <2>1 DEF IsTable
    <3>2. Cut(m, n, W, F, x, y) <=> y = n
      BY <2>1, CutStep
    <3> QED BY <3>1, <3>2
  <2>2. CASE x # m
    <3>1. x + 1 \in 0 .. m /\ (x + 1) + h >= m
      BY <2>0, <2>2
    <3>2. \A k \in 0 .. n : T[x + 1][k] <=> Cut(m, n, W, F, x + 1, k)
      BY <2>0, <3>1
    <3>3. y + 1 \in 0 .. n \/ ~(y < n)
      OBVIOUS
    <3>4. \A k \in y .. n : k \in 0 .. n
      OBVIOUS
    <3>5. T[x][y] <=> IF W[x + 1] THEN \E k \in y .. n : T[x + 1][k]
                    ELSE y < n /\ F[x + 1][y + 1] /\ T[x + 1][y + 1]
      BY <2>2 DEF IsTable
    <3>6. Cut(m, n, W, F, x, y) <=> 
             IF W[x + 1] THEN \E k \in y .. n : Cut(m, n, W, F, x + 1, k)
             ELSE y < n /\ F[x + 1][y + 1] /\ Cut(m, n, W, F, x + 1, y + 1)
      BY <2>2, CutStep
    <3>7. CASE W[x + 1]
      BY <3>2, <3>4, <3>5, <3>6, <3>7
    <3>8. CASE ~W[x + 1]
      BY <3>2, <3>3, <3>5, <3>6, <3>8
    <3> QED BY <3>7, <3>8
  <2> QED BY <2>1, <2>2
<1> HIDE DEF S
<1>3. S = Nat
  BY <1>1, <1>2, SetInduction, S \in SUBSET Nat DEF S
<1> QED BY <1>3, m \in S, a + m >= m DEF S

(* The two levels of matching: characters in a segment, segments in a      *)
(* text.                                                                   *)
CharWild(p) == [i \in 1 .. Len(p) |-> p[i] = "*"]
CharFits(p, t) == [i \in 1 .. Len(p) |-> [j \in 1 .. Len(t) |-> p[i] \in {"?", t[j]}]]
SegWild(p) == [i \in 1 .. Len(p) |-> p[i] = DoubleStar]
SegFits(p, t) == [i \in 1 .. Len(p) |-> [j \in 1 .. Len(t) |-> SegmentMatches(p[i], t[j])]]

(* In an alignment, what a part takes is an element of the text. *)
LEMMA CutTyped ==
    ASSUME NEW m \in Nat, NEW n \in Nat, NEW cut \in [0 .. m -> 0 .. n], NEW i \in 1 .. m,
           cut[i] = cut[i - 1] + 1
    PROVE  cut[i] \in 1 .. n
<1>1. i - 1 \in 0 .. m /\ i \in 0 .. m
  OBVIOUS
<1>2. cut[i] \in 0 .. n /\ cut[i - 1] \in 0 .. n
  BY <1>1
<1> QED BY <1>2

(* What it means to match a segment is an alignment from the start. *)
LEMMA SegmentCut ==
    ASSUME NEW C, NEW p \in Seq(C), NEW t \in Seq(C)
    PROVE  SegmentMatches(p, t) = Cut(Len(p), Len(t), CharWild(p), CharFits(p, t), 0, 0)
<1> DEFINE cuts == [0 .. Len(p) -> 0 .. Len(t)]
<1>0. Len(p) \in Nat /\ Len(t) \in Nat
  OBVIOUS
<1>1. ASSUME NEW cut \in cuts, NEW i \in 1 .. Len(p)
      PROVE  /\ (CharWild(p)[i] <=> p[i] = "*")
             /\ cut[i] = cut[i - 1] + 1 => (CharFits(p, t)[i][cut[i]] <=> p[i] \in {"?", t[cut[i]]})
  <2>0. CharWild(p)[i] <=> p[i] = "*"
    BY DEF CharWild
  <2>2. ASSUME cut[i] = cut[i - 1] + 1 PROVE cut[i] \in 1 .. Len(t)
    BY <1>0, <2>2, CutTyped
  <2> QED BY <2>0, <2>2 DEF CharFits
<1> DEFINE Means(cut) ==
               /\ cut[0] = 0 /\ cut[Len(p)] = Len(t)
               /\ \A i \in 1 .. Len(p) :
                     IF p[i] = "*" THEN cut[i - 1] <= cut[i]
                     ELSE cut[i] = cut[i - 1] + 1 /\ p[i] \in {"?", t[cut[i]]}
           Fits(cut) ==
               /\ cut[0] = 0 /\ cut[Len(p)] = Len(t)
               /\ \A i \in (0 + 1) .. Len(p) :
                     IF CharWild(p)[i] THEN cut[i - 1] <= cut[i]
                     ELSE cut[i] = cut[i - 1] + 1 /\ CharFits(p, t)[i][cut[i]]
<1>2. SegmentMatches(p, t) <=> \E cut \in cuts : Means(cut)
  BY DEF SegmentMatches, Aligned
<1>3. Cut(Len(p), Len(t), CharWild(p), CharFits(p, t), 0, 0) <=> \E cut \in cuts : Fits(cut)
  BY DEF Cut
<1>4. ASSUME NEW cut \in cuts PROVE Means(cut) <=> Fits(cut)
  <2>1. 0 + 1 = 1
    OBVIOUS
  <2> HIDE DEF cuts
  <2> QED BY <1>1, <2>1
<1> HIDE DEF cuts, Means, Fits
<1>5. SegmentMatches(p, t) <=> Cut(Len(p), Len(t), CharWild(p), CharFits(p, t), 0, 0)
  BY <1>2, <1>3, <1>4
<1>6. SegmentMatches(p, t) \in BOOLEAN
  BY DEF SegmentMatches, Aligned
<1> QED BY <1>5, <1>6, CutBoolean

(* Slices of a sequence: their length, their elements, slices of slices. *)
LEMMA SliceFacts ==
    ASSUME NEW S, NEW s \in Seq(S)
    PROVE  /\ \A i \in 0 .. Len(s) : /\ From(s, i) \in Seq(S) /\ Len(From(s, i)) = Len(s) - i
                                     /\ From(s, i) \in Slices(s)
                                     /\ From(s, i) = << >> <=> i = Len(s)
           /\ \A i \in 0 .. Len(s) : \A k \in 0 .. Len(s) - i :
                 From(From(s, i), k) = From(s, i + k)
           /\ \A i \in 0 .. Len(s) : i < Len(s) =>
                 Head(From(s, i)) = s[i + 1] /\ Tail(From(s, i)) = From(s, i + 1)
           /\ From(s, 0) = s
<1>1. ASSUME NEW i \in 0 .. Len(s)
      PROVE /\ From(s, i) \in Seq(S) /\ Len(From(s, i)) = Len(s) - i
            /\ From(s, i) \in Slices(s)
            /\ From(s, i) = << >> <=> i = Len(s)
            /\ \A k \in 1 .. Len(s) - i : From(s, i)[k] = s[i + k]
  <2>1. From(s, i) \in Slices(s)
    BY DEF Slices
  <2>2. /\ From(s, i) \in Seq(S) /\ Len(From(s, i)) = Len(s) - i
        /\ \A k \in 1 .. Len(s) - i : From(s, i)[k] = s[i + k]
    BY DEF From
  <2>3. From(s, i) = << >> <=> i = Len(s)
    BY <2>2
  <2> QED BY <2>1, <2>2, <2>3
<1>2. ASSUME NEW i \in 0 .. Len(s), NEW k \in 0 .. Len(s) - i
      PROVE From(From(s, i), k) = From(s, i + k)
  BY DEF From
<1>3. ASSUME NEW i \in 0 .. Len(s), i < Len(s)
      PROVE Head(From(s, i)) = s[i + 1] /\ Tail(From(s, i)) = From(s, i + 1)
  BY <1>3 DEF From
<1>4. From(s, 0) = s
  BY DEF From
<1> QED BY <1>1, <1>2, <1>3, <1>4

(* The equation of a matcher that takes slices, with W and F for its       *)
(* tests.                                                                  *)
Cells(p, t, W, F, h) ==
    [q \in Slices(p) |-> [u \in Slices(t) |->
        IF q = << >> THEN u = << >>
        ELSE IF W[Len(p) - Len(q) + 1]
             THEN \E i \in 0 .. Len(u) : h[Tail(q)][From(u, i)]
             ELSE /\ u # << >> /\ F[Len(p) - Len(q) + 1][Len(t) - Len(u) + 1]
                  /\ h[Tail(q)][Tail(u)]]]

(* The equation on the slices from a and from b. *)
LEMMA CellsUnroll ==
    ASSUME NEW S, NEW p \in Seq(S), NEW t \in Seq(S), NEW W, NEW F, NEW h,
           NEW a \in 0 .. Len(p), NEW b \in 0 .. Len(t)
    PROVE  Cells(p, t, W, F, h)[From(p, a)][From(t, b)] <=>
             IF a = Len(p) THEN b = Len(t)
             ELSE IF W[a + 1]
                  THEN \E k \in b .. Len(t) : h[From(p, a + 1)][From(t, k)]
                  ELSE /\ b < Len(t) /\ F[a + 1][b + 1]
                       /\ h[From(p, a + 1)][From(t, b + 1)]
<1> DEFINE q == From(p, a)
           u == From(t, b)
<1>1. /\ q \in Slices(p) /\ u \in Slices(t) /\ Len(q) = Len(p) - a /\ Len(u) = Len(t) - b
      /\ q = << >> <=> a = Len(p)
      /\ u = << >> <=> b = Len(t)
  BY SliceFacts
<1>2. /\ Len(p) \in Nat /\ Len(t) \in Nat
      /\ Len(p) - Len(q) + 1 = a + 1 /\ Len(t) - Len(u) + 1 = b + 1
  BY <1>1
<1>3. a # Len(p) => Tail(q) = From(p, a + 1)
  BY SliceFacts
<1>4. b # Len(t) => Tail(u) = From(t, b + 1) /\ b < Len(t)
  BY SliceFacts
<1>5. \A i \in 0 .. Len(u) : From(u, i) = From(t, b + i)
  BY <1>1, SliceFacts
<1>6. Cells(p, t, W, F, h)[q][u] <=>
        IF q = << >> THEN u = << >>
        ELSE IF W[a + 1]
             THEN \E i \in 0 .. Len(u) : h[Tail(q)][From(u, i)]
             ELSE /\ u # << >> /\ F[a + 1][b + 1]
                  /\ h[Tail(q)][Tail(u)]
  BY <1>1, <1>2 DEF Cells
<1>7. (\E i \in 0 .. Len(u) : h[From(p, a + 1)][From(u, i)])
         <=> \E k \in b .. Len(t) : h[From(p, a + 1)][From(t, k)]
  <2>1. ASSUME NEW i \in 0 .. Len(u) PROVE b + i \in b .. Len(t)
    BY <1>1
  <2>2. ASSUME NEW k \in b .. Len(t) PROVE k - b \in 0 .. Len(u) /\ b + (k - b) = k
    BY <1>1
  <2> HIDE DEF u
  <2> QED BY <1>5, <2>1, <2>2
<1>8. b < Len(t) => b # Len(t)
  BY <1>2
<1> HIDE DEF q, u
<1>9. Cells(p, t, W, F, h)[q][u] <=>
             IF a = Len(p) THEN b = Len(t)
             ELSE IF W[a + 1]
                  THEN \E k \in b .. Len(t) : h[From(p, a + 1)][From(t, k)]
                  ELSE /\ b < Len(t) /\ F[a + 1][b + 1]
                       /\ h[From(p, a + 1)][From(t, b + 1)]
  <2>1. CASE a = Len(p)
    BY <2>1, <1>1, <1>6
  <2>2. CASE a # Len(p) /\ W[a + 1]
    BY <2>2, <1>1, <1>3, <1>6, <1>7
  <2>3. CASE a # Len(p) /\ ~W[a + 1]
    BY <2>3, <1>1, <1>3, <1>4, <1>6, <1>8
  <2> QED BY <2>1, <2>2, <2>3
<1> QED BY <1>9 DEF q, u

(* A function that satisfies the equation tells whether an alignment       *)
(* exists.                                                                 *)
LEMMA CellsMatch ==
    ASSUME NEW S, NEW p \in Seq(S), NEW t \in Seq(S), NEW W, NEW F, NEW h,
           h = Cells(p, t, W, F, h)
    PROVE  h[p][t] = Cut(Len(p), Len(t), W, F, 0, 0)
<1> DEFINE T == [a \in 0 .. Len(p) |-> [b \in 0 .. Len(t) |-> h[From(p, a)][From(t, b)]]]
<1>0. Len(p) \in Nat /\ Len(t) \in Nat
  OBVIOUS
<1>1. \A a \in 0 .. Len(p), b \in 0 .. Len(t) : T[a][b] = h[From(p, a)][From(t, b)]
  OBVIOUS
<1>2. IsTable(Len(p), Len(t), W, F, T)
  <2> SUFFICES ASSUME NEW a \in 0 .. Len(p), NEW b \in 0 .. Len(t)
               PROVE  T[a][b] <=> IF a = Len(p) THEN b = Len(t)
                          ELSE IF W[a + 1] THEN \E k \in b .. Len(t) : T[a + 1][k]
                          ELSE b < Len(t) /\ F[a + 1][b + 1] /\ T[a + 1][b + 1]
    BY DEF IsTable
  <2>1. T[a][b] <=> 
             IF a = Len(p) THEN b = Len(t)
             ELSE IF W[a + 1]
                  THEN \E k \in b .. Len(t) : h[From(p, a + 1)][From(t, k)]
                  ELSE /\ b < Len(t) /\ F[a + 1][b + 1]
                       /\ h[From(p, a + 1)][From(t, b + 1)]
    <3>1. Cells(p, t, W, F, h)[From(p, a)][From(t, b)] <=>
             IF a = Len(p) THEN b = Len(t)
             ELSE IF W[a + 1]
                  THEN \E k \in b .. Len(t) : h[From(p, a + 1)][From(t, k)]
                  ELSE /\ b < Len(t) /\ F[a + 1][b + 1]
                       /\ h[From(p, a + 1)][From(t, b + 1)]
      BY CellsUnroll
    <3> HIDE DEF T
    <3> QED BY <3>1, <1>1
  <2>2. a # Len(p) => a + 1 \in 0 .. Len(p)
    BY <1>0
  <2>3. b < Len(t) => b + 1 \in 0 .. Len(t)
    BY <1>0
  <2>4. \A k \in b .. Len(t) : k \in 0 .. Len(t)
    BY <1>0
  <2> HIDE DEF T
  <2> QED BY <1>1, <2>1, <2>2, <2>3, <2>4
<1>3. 0 \in 0 .. Len(p) /\ 0 \in 0 .. Len(t)
  BY <1>0
<1>4. T[0][0] <=> Cut(Len(p), Len(t), W, F, 0, 0)
  <2> HIDE DEF T
  <2> QED BY <1>0, <1>2, <1>3, TableIsCut
<1>5. From(p, 0) = p /\ From(t, 0) = t
  BY SliceFacts
<1>6. h[p][t] \in BOOLEAN
  <2>1. p \in Slices(p) /\ t \in Slices(t)
    BY <1>3, <1>5 DEF Slices
  <2>2. ASSUME NEW x PROVE Cells(p, t, W, F, x)[p][t] \in BOOLEAN
    BY <2>1 DEF Cells
  <2> QED BY <2>2
<1> HIDE DEF T
<1> QED BY <1>1, <1>3, <1>4, <1>5, <1>6, CutBoolean

(* Some function satisfies the equation: the one that tells whether an     *)
(* alignment exists.  Without it a recursive definition says nothing.      *)
LEMMA CellsExist ==
    ASSUME NEW S, NEW p \in Seq(S), NEW t \in Seq(S), NEW W, NEW F
    PROVE  \E h : h = Cells(p, t, W, F, h)
<1> DEFINE m == Len(p)
           n == Len(t)
           g == [q \in Slices(p) |-> [u \in Slices(t) |->
                   Cut(m, n, W, F, m - Len(q), n - Len(u))]]
<1>0. m \in Nat /\ n \in Nat
  OBVIOUS
<1>1. ASSUME NEW a \in 0 .. m, NEW b \in 0 .. n
      PROVE  g[From(p, a)][From(t, b)] <=> Cut(m, n, W, F, a, b)
  <2>1. /\ From(p, a) \in Slices(p) /\ Len(From(p, a)) = m - a
        /\ From(t, b) \in Slices(t) /\ Len(From(t, b)) = n - b
    BY SliceFacts
  <2>2. m - (m - a) = a /\ n - (n - b) = b
    BY <1>0
  <2> QED BY <2>1, <2>2
<1>2. ASSUME NEW q \in Slices(p), NEW u \in Slices(t)
      PROVE  g[q][u] <=> Cells(p, t, W, F, g)[q][u]
  <2>1. PICK a \in 0 .. m : q = From(p, a)
    BY DEF Slices
  <2>2. PICK b \in 0 .. n : u = From(t, b)
    BY DEF Slices
  <2> HIDE DEF g, m, n
  <2>3. g[q][u] <=> Cut(m, n, W, F, a, b)
    BY <1>1, <2>1, <2>2
  <2>4. Cut(m, n, W, F, a, b) <=>
             IF a = m THEN b = n
             ELSE IF W[a + 1] THEN \E k \in b .. n : Cut(m, n, W, F, a + 1, k)
             ELSE b < n /\ F[a + 1][b + 1] /\ Cut(m, n, W, F, a + 1, b + 1)
    BY <1>0, CutStep
  <2>5. Cells(p, t, W, F, g)[q][u] <=>
             IF a = m THEN b = n
             ELSE IF W[a + 1]
                  THEN \E k \in b .. n : g[From(p, a + 1)][From(t, k)]
                  ELSE /\ b < n /\ F[a + 1][b + 1]
                       /\ g[From(p, a + 1)][From(t, b + 1)]
    BY <2>1, <2>2, CellsUnroll DEF m, n
  <2>6. a # m => a + 1 \in 0 .. m
    BY <1>0
  <2>7. b < n => b + 1 \in 0 .. n
    BY <1>0
  <2>8. \A k \in b .. n : k \in 0 .. n
    BY <1>0
  <2> QED BY <1>1, <2>3, <2>4, <2>5, <2>6, <2>7, <2>8
<1>3. g = Cells(p, t, W, F, g)
  <2>1. ASSUME NEW q \in Slices(p) PROVE g[q] = Cells(p, t, W, F, g)[q]
    <3>0. ASSUME NEW u \in Slices(t) PROVE g[q][u] \in BOOLEAN
      BY CutBoolean
    <3>1. ASSUME NEW u \in Slices(t) PROVE Cells(p, t, W, F, g)[q][u] \in BOOLEAN
      <4>1. ASSUME NEW h PROVE Cells(p, t, W, F, h)[q][u] \in BOOLEAN
        BY DEF Cells
      <4> HIDE DEF g
      <4> QED BY <4>1
    <3>2. \A u \in Slices(t) : g[q][u] = Cells(p, t, W, F, g)[q][u]
      BY <3>0, <3>1, <1>2
    <3>3. g[q] = [u \in Slices(t) |-> g[q][u]]
      OBVIOUS
    <3>4. Cells(p, t, W, F, g)[q] = [u \in Slices(t) |-> Cells(p, t, W, F, g)[q][u]]
      BY DEF Cells
    <3> HIDE DEF g
    <3> QED BY <3>2, <3>3, <3>4
  <2>2. g = [q \in Slices(p) |-> g[q]]
    OBVIOUS
  <2>3. Cells(p, t, W, F, g) = [q \in Slices(p) |-> Cells(p, t, W, F, g)[q]]
    BY DEF Cells
  <2> HIDE DEF g
  <2> QED BY <2>1, <2>2, <2>3
<1> HIDE DEF g
<1> QED BY <1>3

(* The head of a slice is the element it starts at. *)
LEMMA SliceHead ==
    ASSUME NEW S, NEW s \in Seq(S), NEW q \in Slices(s), q # << >>
    PROVE  /\ Len(s) - Len(q) + 1 \in 1 .. Len(s)
           /\ Head(q) = s[Len(s) - Len(q) + 1]
<1>1. PICK a \in 0 .. Len(s) : q = From(s, a)
  BY DEF Slices
<1>2. Len(q) = Len(s) - a /\ a # Len(s) /\ (a < Len(s) => Head(q) = s[a + 1]) /\ Len(s) \in Nat
  BY <1>1, SliceFacts
<1> QED BY <1>2

(* The right-hand side of the definition in match_chars. *)
CharsBody(pattern, text, accepts) ==
    [p \in Slices(pattern) |-> [t \in Slices(text) |->
            IF p = << >> THEN t = << >>
            ELSE IF Head(p) = "*"
                 THEN \E i \in 0 .. Len(t) : accepts[Tail(p)][From(t, i)]
                 ELSE /\ t # << >> /\ Head(p) \in {"?", Head(t)}
                      /\ accepts[Tail(p)][Tail(t)]]]

(* It is the equation for characters. *)
LEMMA CharsBodyIsCells ==
    ASSUME NEW C, NEW p \in Seq(C), NEW t \in Seq(C), NEW h
    PROVE  CharsBody(p, t, h) = Cells(p, t, CharWild(p), CharFits(p, t), h)
<1>3. ASSUME NEW q \in Slices(p), q # << >>
      PROVE  CharWild(p)[Len(p) - Len(q) + 1] = (Head(q) = "*")
  BY SliceHead, <1>3 DEF CharWild
<1>4. ASSUME NEW q \in Slices(p), q # << >>, NEW u \in Slices(t), u # << >>
      PROVE  CharFits(p, t)[Len(p) - Len(q) + 1][Len(t) - Len(u) + 1] = (Head(q) \in {"?", Head(u)})
  <2>1. /\ Len(p) - Len(q) + 1 \in 1 .. Len(p)
        /\ Head(q) = p[Len(p) - Len(q) + 1]
    BY SliceHead, <1>4
  <2>2. /\ Len(t) - Len(u) + 1 \in 1 .. Len(t)
        /\ Head(u) = t[Len(t) - Len(u) + 1]
    BY SliceHead, <1>4
  <2> QED BY <2>1, <2>2 DEF CharFits
<1> QED BY <1>3, <1>4 DEF CharsBody, Cells

(* match_chars of glob.rs accepts exactly the texts that can be cut to fit *)
(* the segment's pattern.                                                  *)
LEMMA MatchChars ==
    ASSUME NEW C, NEW p \in Seq(C), NEW t \in Seq(C)
    PROVE  match_chars(p, t) = SegmentMatches(p, t)
<1> DEFINE c == CHOOSE h : h = CharsBody(p, t, h)
<1>1. \E h : h = CharsBody(p, t, h)
  <2>1. PICK h : h = Cells(p, t, CharWild(p), CharFits(p, t), h)
    BY CellsExist
  <2> QED BY <2>1, CharsBodyIsCells
<1>2. c = CharsBody(p, t, c)
  BY <1>1
<1>3. match_chars(p, t) = c[p][t]
  BY DEF match_chars, CharsBody
<1> HIDE DEF c
<1>4. c = Cells(p, t, CharWild(p), CharFits(p, t), c)
  BY <1>2, CharsBodyIsCells
<1>5. c[p][t] = Cut(Len(p), Len(t), CharWild(p), CharFits(p, t), 0, 0)
  BY <1>4, CellsMatch
<1> QED BY <1>3, <1>5, SegmentCut

(* The right-hand side of the definition in match_segments. *)
SegsBody(pattern, text, accepts) ==
    [pat \in Slices(pattern) |-> [txt \in Slices(text) |->
            IF pat = << >> THEN txt = << >>
            ELSE IF Head(pat) = DoubleStar
                 THEN \E i \in 0 .. Len(txt) : accepts[Tail(pat)][From(txt, i)]
                 ELSE /\ txt # << >> /\ match_chars(Head(pat), Head(txt))
                      /\ accepts[Tail(pat)][Tail(txt)]]]

(* It is the equation for segments. *)
LEMMA SegsBodyIsCells ==
    ASSUME NEW C, NEW p \in Seq(Seq(C)), NEW t \in Seq(Seq(C)), NEW h
    PROVE  SegsBody(p, t, h) = Cells(p, t, SegWild(p), SegFits(p, t), h)
<1>3. ASSUME NEW q \in Slices(p), q # << >>
      PROVE  SegWild(p)[Len(p) - Len(q) + 1] = (Head(q) = DoubleStar)
  BY SliceHead, <1>3 DEF SegWild
<1>4. ASSUME NEW q \in Slices(p), q # << >>, NEW u \in Slices(t), u # << >>
      PROVE  SegFits(p, t)[Len(p) - Len(q) + 1][Len(t) - Len(u) + 1] = match_chars(Head(q), Head(u))
  <2>1. /\ Len(p) - Len(q) + 1 \in 1 .. Len(p)
        /\ Head(q) = p[Len(p) - Len(q) + 1] /\ Head(q) \in Seq(C)
    BY SliceHead, <1>4
  <2>2. /\ Len(t) - Len(u) + 1 \in 1 .. Len(t)
        /\ Head(u) = t[Len(t) - Len(u) + 1] /\ Head(u) \in Seq(C)
    BY SliceHead, <1>4
  <2>3. match_chars(Head(q), Head(u)) = SegmentMatches(Head(q), Head(u))
    BY <2>1, <2>2, MatchChars
  <2> QED BY <2>1, <2>2, <2>3 DEF SegFits
<1> QED BY <1>3, <1>4 DEF SegsBody, Cells

(* What it means to match a text is an alignment from the start. *)
LEMMA TextCut ==
    ASSUME NEW C, NEW p \in Seq(Seq(C)), NEW t \in Seq(Seq(C))
    PROVE  TextMatches(p, t) = Cut(Len(p), Len(t), SegWild(p), SegFits(p, t), 0, 0)
<1> DEFINE cuts == [0 .. Len(p) -> 0 .. Len(t)]
<1>0. Len(p) \in Nat /\ Len(t) \in Nat
  OBVIOUS
<1>1. ASSUME NEW cut \in cuts, NEW i \in 1 .. Len(p)
      PROVE  /\ (SegWild(p)[i] <=> p[i] = DoubleStar)
             /\ cut[i] = cut[i - 1] + 1 => (SegFits(p, t)[i][cut[i]] <=> SegmentMatches(p[i], t[cut[i]]))
  <2>0. SegWild(p)[i] <=> p[i] = DoubleStar
    BY DEF SegWild
  <2>2. ASSUME cut[i] = cut[i - 1] + 1 PROVE cut[i] \in 1 .. Len(t)
    BY <1>0, <2>2, CutTyped
  <2> QED BY <2>0, <2>2 DEF SegFits
<1> DEFINE Means(cut) ==
               /\ cut[0] = 0 /\ cut[Len(p)] = Len(t)
               /\ \A i \in 1 .. Len(p) :
                     IF p[i] = DoubleStar THEN cut[i - 1] <= cut[i]
                     ELSE cut[i] = cut[i - 1] + 1 /\ SegmentMatches(p[i], t[cut[i]])
           Fits(cut) ==
               /\ cut[0] = 0 /\ cut[Len(p)] = Len(t)
               /\ \A i \in (0 + 1) .. Len(p) :
                     IF SegWild(p)[i] THEN cut[i - 1] <= cut[i]
                     ELSE cut[i] = cut[i - 1] + 1 /\ SegFits(p, t)[i][cut[i]]
<1>2. TextMatches(p, t) <=> \E cut \in cuts : Means(cut)
  BY DEF TextMatches, Aligned
<1>3. Cut(Len(p), Len(t), SegWild(p), SegFits(p, t), 0, 0) <=> \E cut \in cuts : Fits(cut)
  BY DEF Cut
<1>4. ASSUME NEW cut \in cuts PROVE Means(cut) <=> Fits(cut)
  <2>1. 0 + 1 = 1
    OBVIOUS
  <2> HIDE DEF cuts
  <2> QED BY <1>1, <2>1
<1> HIDE DEF cuts, Means, Fits
<1>5. TextMatches(p, t) <=> Cut(Len(p), Len(t), SegWild(p), SegFits(p, t), 0, 0)
  BY <1>2, <1>3, <1>4
<1>6. TextMatches(p, t) \in BOOLEAN
  BY DEF TextMatches, Aligned
<1> QED BY <1>5, <1>6, CutBoolean

(* match_segments of glob.rs accepts exactly the texts that can be cut to  *)
(* fit the pattern.                                                        *)
LEMMA MatchSegments ==
    ASSUME NEW C, NEW p \in Seq(Seq(C)), NEW t \in Seq(Seq(C))
    PROVE  match_segments(p, t) = TextMatches(p, t)
<1> DEFINE c == CHOOSE h : h = SegsBody(p, t, h)
<1>1. \E h : h = SegsBody(p, t, h)
  <2>1. PICK h : h = Cells(p, t, SegWild(p), SegFits(p, t), h)
    BY CellsExist
  <2> QED BY <2>1, SegsBodyIsCells
<1>2. c = SegsBody(p, t, c)
  BY <1>1
<1>3. match_segments(p, t) = c[p][t]
  BY DEF match_segments, SegsBody
<1> HIDE DEF c
<1>4. c = Cells(p, t, SegWild(p), SegFits(p, t), c)
  BY <1>2, SegsBodyIsCells
<1>5. c[p][t] = Cut(Len(p), Len(t), SegWild(p), SegFits(p, t), 0, 0)
  BY <1>4, CellsMatch
<1> QED BY <1>3, <1>5, TextCut

(* The equation of a matcher that counts positions, as the page does. *)
Places(m, n, W, F, h) ==
    [a \in 0 .. m |-> [b \in 0 .. n |->
        IF a >= m THEN b >= n
        ELSE IF W[a + 1] THEN \E k \in b .. n : h[a + 1][k]
             ELSE b < n /\ F[a + 1][b + 1] /\ h[a + 1][b + 1]]]

(* Its values are truth values. *)
LEMMA PlacesBoolean ==
    ASSUME NEW m \in Nat, NEW n \in Nat, NEW W, NEW F, NEW h, NEW a \in 0 .. m, NEW b \in 0 .. n
    PROVE  Places(m, n, W, F, h)[a][b] \in BOOLEAN
<1>1. CASE a >= m
  <2>1. Places(m, n, W, F, h)[a][b] = (b >= n)
    BY <1>1 DEF Places
  <2>2. (b >= n) \in BOOLEAN
    OBVIOUS
  <2> QED BY <2>1, <2>2
<1>2. CASE ~(a >= m)
  <2>1. Places(m, n, W, F, h)[a][b] =
           IF W[a + 1] THEN \E k \in b .. n : h[a + 1][k]
             ELSE b < n /\ F[a + 1][b + 1] /\ h[a + 1][b + 1]
    BY <1>2 DEF Places
  <2>2. (\E k \in b .. n : h[a + 1][k]) \in BOOLEAN /\ (b < n /\ F[a + 1][b + 1] /\ h[a + 1][b + 1]) \in BOOLEAN
    OBVIOUS
  <2> QED BY <2>1, <2>2
<1> QED BY <1>1, <1>2

(* A function that satisfies it tells whether an alignment exists. *)
LEMMA PlacesMatch ==
    ASSUME NEW m \in Nat, NEW n \in Nat, NEW W, NEW F, NEW h, h = Places(m, n, W, F, h)
    PROVE  h[0][0] = Cut(m, n, W, F, 0, 0)
<1>1. \A a \in 0 .. m, b \in 0 .. n :
         h[a][b] <=> IF a >= m THEN b >= n
                     ELSE IF W[a + 1] THEN \E k \in b .. n : h[a + 1][k]
                     ELSE b < n /\ F[a + 1][b + 1] /\ h[a + 1][b + 1]
  <2> SUFFICES ASSUME NEW a \in 0 .. m, NEW b \in 0 .. n
               PROVE Places(m, n, W, F, h)[a][b] <=> IF a >= m THEN b >= n
                     ELSE IF W[a + 1] THEN \E k \in b .. n : h[a + 1][k]
                     ELSE b < n /\ F[a + 1][b + 1] /\ h[a + 1][b + 1]
    OBVIOUS
  <2> QED BY DEF Places
<1>2. \A a \in 0 .. m, b \in 0 .. n : (a >= m <=> a = m) /\ (b >= n <=> b = n)
  OBVIOUS
<1>3. IsTable(m, n, W, F, h)
  BY <1>1, <1>2 DEF IsTable
<1>4. 0 \in 0 .. m /\ 0 \in 0 .. n
  OBVIOUS
<1>5. h[0][0] <=> Cut(m, n, W, F, 0, 0)
  BY <1>3, <1>4, TableIsCut
<1>6. h[0][0] \in BOOLEAN
  <2>1. ASSUME NEW x PROVE Places(m, n, W, F, x)[0][0] \in BOOLEAN
    BY <1>4, PlacesBoolean
  <2> QED BY <2>1
<1> QED BY <1>5, <1>6, CutBoolean

(* Some function satisfies it. *)
LEMMA PlacesExist ==
    ASSUME NEW m \in Nat, NEW n \in Nat, NEW W, NEW F
    PROVE  \E h : h = Places(m, n, W, F, h)
<1> DEFINE g == [a \in 0 .. m |-> [b \in 0 .. n |-> Cut(m, n, W, F, a, b)]]
<1>1. ASSUME NEW a \in 0 .. m, NEW b \in 0 .. n
      PROVE  g[a][b] = Places(m, n, W, F, g)[a][b]
  <2>1. Places(m, n, W, F, g)[a][b] = 
            IF a >= m THEN b >= n
            ELSE IF W[a + 1] THEN \E k \in b .. n : g[a + 1][k]
                 ELSE b < n /\ F[a + 1][b + 1] /\ g[a + 1][b + 1]
    <3> HIDE DEF g
    <3> QED BY DEF Places
  <2>2. \A x \in 0 .. m, y \in 0 .. n : g[x][y] = Cut(m, n, W, F, x, y)
    OBVIOUS
  <2>3. Cut(m, n, W, F, a, b) <=>
             IF a = m THEN b = n
             ELSE IF W[a + 1] THEN \E k \in b .. n : Cut(m, n, W, F, a + 1, k)
             ELSE b < n /\ F[a + 1][b + 1] /\ Cut(m, n, W, F, a + 1, b + 1)
    BY CutStep
  <2>4. (a >= m <=> a = m) /\ (b >= n <=> b = n)
    OBVIOUS
  <2>6. a # m => a + 1 \in 0 .. m
    OBVIOUS
  <2>7. b < n => b + 1 \in 0 .. n
    OBVIOUS
  <2>8. \A k \in b .. n : k \in 0 .. n
    OBVIOUS
  <2> HIDE DEF g
  <2>9. g[a][b] <=> Places(m, n, W, F, g)[a][b]
    BY <2>1, <2>2, <2>3, <2>4, <2>6, <2>7, <2>8
  <2>10. Places(m, n, W, F, g)[a][b] \in BOOLEAN
    BY PlacesBoolean
  <2> QED BY <2>2, <2>9, <2>10, CutBoolean
<1>2. g = Places(m, n, W, F, g)
  <2>1. ASSUME NEW a \in 0 .. m PROVE g[a] = Places(m, n, W, F, g)[a]
    <3>1. g[a] = [b \in 0 .. n |-> g[a][b]]
      OBVIOUS
    <3> HIDE DEF g
    <3>2. Places(m, n, W, F, g)[a] = [b \in 0 .. n |-> Places(m, n, W, F, g)[a][b]]
      BY DEF Places
    <3> QED BY <1>1, <3>1, <3>2
  <2>2. g = [a \in 0 .. m |-> g[a]]
    OBVIOUS
  <2> HIDE DEF g
  <2>3. Places(m, n, W, F, g) = [a \in 0 .. m |-> Places(m, n, W, F, g)[a]]
    BY DEF Places
  <2> QED BY <2>1, <2>2, <2>3
<1> HIDE DEF g
<1> QED BY <1>2

(* The right-hand side of the definition in the page's oneSeg. *)
OneSegBody(pc, tc, chars) == [a \in 0 .. Len(pc) |-> [b \in 0 .. Len(tc) |->
            IF a >= Len(pc) THEN b >= Len(tc)
            ELSE IF pc[a + 1] = "*"
                 THEN \E i \in b .. Len(tc) : chars[a + 1][i]
                 ELSE /\ b < Len(tc) /\ pc[a + 1] \in {"?", tc[b + 1]}
                      /\ chars[a + 1][b + 1]]]

(* The page's oneSeg accepts the same segments as match_chars. *)
LEMMA OneSeg ==
    ASSUME NEW C, NEW p \in Seq(C), NEW t \in Seq(C)
    PROVE  oneSeg(p, t) = SegmentMatches(p, t)
<1> DEFINE Body(h) == OneSegBody(p, t, h)
           Table(h) == Places(Len(p), Len(t), CharWild(p), CharFits(p, t), h)
           c == CHOOSE h : h = Body(h)
<1>0. Len(p) \in Nat /\ Len(t) \in Nat
  OBVIOUS
<1>1. ASSUME NEW h PROVE Body(h) = Table(h)
  <2>1. \A a \in 0 .. Len(p) : ~(a >= Len(p)) => a + 1 \in 1 .. Len(p)
    BY <1>0
  <2>2. \A b \in 0 .. Len(t) : b < Len(t) => b + 1 \in 1 .. Len(t)
    BY <1>0
  <2>3. \A a \in 1 .. Len(p) : /\ CharWild(p)[a] = (p[a] = "*")
                               /\ \A b \in 1 .. Len(t) : CharFits(p, t)[a][b] = (p[a] \in {"?", t[b]})
    BY DEF CharWild, CharFits
  <2>4. ASSUME NEW a \in 0 .. Len(p), NEW b \in 0 .. Len(t)
        PROVE  Body(h)[a][b] = Table(h)[a][b]
    <3>1. CASE a >= Len(p)
      BY <3>1 DEF OneSegBody, Places
    <3>2. CASE ~(a >= Len(p))
      <4>1. Body(h)[a][b] = IF p[a + 1] = "*"
                 THEN \E i \in b .. Len(t) : h[a + 1][i]
                 ELSE /\ b < Len(t) /\ p[a + 1] \in {"?", t[b + 1]}
                      /\ h[a + 1][b + 1]
        BY <3>2 DEF OneSegBody
      <4>2. Table(h)[a][b] =
           IF CharWild(p)[a + 1] THEN \E k \in b .. Len(t) : h[a + 1][k]
             ELSE b < Len(t) /\ CharFits(p, t)[a + 1][b + 1] /\ h[a + 1][b + 1]
        BY <3>2 DEF Places
      <4> HIDE DEF Body, Table
      <4> QED BY <2>1, <2>2, <2>3, <3>2, <4>1, <4>2
    <3> QED BY <3>1, <3>2
  <2>5. /\ Body(h) = [a \in 0 .. Len(p) |-> [b \in 0 .. Len(t) |-> Body(h)[a][b]]]
        /\ Table(h) = [a \in 0 .. Len(p) |-> [b \in 0 .. Len(t) |-> Table(h)[a][b]]]
    BY DEF OneSegBody, Places
  <2> HIDE DEF Body, Table
  <2> QED BY <2>4, <2>5
<1>2. PICK g : g = Table(g)
  BY <1>0, PlacesExist
<1>3. c = Body(c)
  BY <1>1, <1>2
<1>4. oneSeg(p, t) = c[0][0]
  BY DEF oneSeg, OneSegBody
<1> HIDE DEF c
<1>5. c = Table(c)
  BY <1>1, <1>3
<1>6. c[0][0] = Cut(Len(p), Len(t), CharWild(p), CharFits(p, t), 0, 0)
  BY <1>0, <1>5, PlacesMatch
<1> QED BY <1>4, <1>6, SegmentCut

(* The right-hand side of the definition in the page's globMatch. *)
PageBody(p, t, segs) == [i \in 0 .. Len(p) |-> [j \in 0 .. Len(t) |->
            IF i >= Len(p) THEN j >= Len(t)
            ELSE IF p[i + 1] = DoubleStar
                 THEN \E k \in j .. Len(t) : segs[i + 1][k]
                 ELSE /\ j < Len(t) /\ oneSeg(p[i + 1], t[j + 1])
                      /\ segs[i + 1][j + 1]]]

(* The page's globMatch accepts the same texts as match_segments. *)
LEMMA PageMatches ==
    ASSUME NEW C, NEW p \in Seq(Seq(C)), NEW t \in Seq(Seq(C))
    PROVE  globMatch(p, t) = TextMatches(p, t)
<1> DEFINE Body(h) == PageBody(p, t, h)
           Table(h) == Places(Len(p), Len(t), SegWild(p), SegFits(p, t), h)
           c == CHOOSE h : h = Body(h)
<1>0. Len(p) \in Nat /\ Len(t) \in Nat
  OBVIOUS
<1>1. ASSUME NEW h PROVE Body(h) = Table(h)
  <2>1. \A a \in 0 .. Len(p) : ~(a >= Len(p)) => a + 1 \in 1 .. Len(p)
    BY <1>0
  <2>2. \A b \in 0 .. Len(t) : b < Len(t) => b + 1 \in 1 .. Len(t)
    BY <1>0
  <2>3. ASSUME NEW a \in 1 .. Len(p)
        PROVE  /\ SegWild(p)[a] = (p[a] = DoubleStar)
               /\ \A b \in 1 .. Len(t) : SegFits(p, t)[a][b] = oneSeg(p[a], t[b])
    <3>1. \A b \in 1 .. Len(t) : oneSeg(p[a], t[b]) = SegmentMatches(p[a], t[b])
      BY OneSeg
    <3> QED BY <3>1 DEF SegWild, SegFits
  <2>4. ASSUME NEW a \in 0 .. Len(p), NEW b \in 0 .. Len(t)
        PROVE  Body(h)[a][b] = Table(h)[a][b]
    <3>1. CASE a >= Len(p)
      BY <3>1 DEF PageBody, Places
    <3>2. CASE ~(a >= Len(p))
      <4>1. Body(h)[a][b] = IF p[a + 1] = DoubleStar
                 THEN \E k \in b .. Len(t) : h[a + 1][k]
                 ELSE /\ b < Len(t) /\ oneSeg(p[a + 1], t[b + 1])
                      /\ h[a + 1][b + 1]
        BY <3>2 DEF PageBody
      <4>2. Table(h)[a][b] =
           IF SegWild(p)[a + 1] THEN \E k \in b .. Len(t) : h[a + 1][k]
             ELSE b < Len(t) /\ SegFits(p, t)[a + 1][b + 1] /\ h[a + 1][b + 1]
        BY <3>2 DEF Places
      <4> HIDE DEF Body, Table
      <4> QED BY <2>1, <2>2, <2>3, <3>2, <4>1, <4>2
    <3> QED BY <3>1, <3>2
  <2>5. /\ Body(h) = [a \in 0 .. Len(p) |-> [b \in 0 .. Len(t) |-> Body(h)[a][b]]]
        /\ Table(h) = [a \in 0 .. Len(p) |-> [b \in 0 .. Len(t) |-> Table(h)[a][b]]]
    BY DEF PageBody, Places
  <2> HIDE DEF Body, Table
  <2> QED BY <2>4, <2>5
<1>2. PICK g : g = Table(g)
  BY <1>0, PlacesExist
<1>3. c = Body(c)
  BY <1>1, <1>2
<1>4. globMatch(p, t) = c[0][0]
  BY DEF globMatch, PageBody
<1> HIDE DEF c
<1>5. c = Table(c)
  BY <1>1, <1>3
<1>6. c[0][0] = Cut(Len(p), Len(t), SegWild(p), SegFits(p, t), 0, 0)
  BY <1>0, <1>5, PlacesMatch
<1> QED BY <1>4, <1>6, TextCut

(* For every pattern and every text, of any length and over any            *)
(* characters, the engine's matcher accepts exactly what can be cut to     *)
(* fit, and so does the page's copy: glob.rs and globMatch agree.          *)
THEOREM GlobsAgree == Spec => []GlobAgrees
<1>1. Init => GlobAgrees
  <2> SUFFICES ASSUME Init, kind = "glob" PROVE GlobAgrees
    BY DEF GlobAgrees
  <2>1. input.pattern \in Seq(Seq(Char)) /\ input.text \in Seq(Seq(Char))
    BY CasesAssumption DEF Init, Text
  <2> QED BY <2>1, MatchSegments, PageMatches DEF GlobAgrees, matches
<1>2. GlobAgrees /\ [Next]_<< kind, input >> => GlobAgrees'
  BY DEF Next, GlobAgrees
<1> QED BY <1>1, <1>2, PTL DEF Spec

----------------------------------------------------------------------------
(* The replay. *)

(* Counting the members of A up to i, one number more at a time. *)
LEMMA CountStep ==
    ASSUME NEW A, NEW i \in Nat
    PROVE  /\ IsFiniteSet(A \cap (1 .. i)) /\ Cardinality(A \cap (1 .. i)) \in Nat
           /\ Cardinality(A \cap (1 .. (i + 1)))
                 = Cardinality(A \cap (1 .. i)) + (IF i + 1 \in A THEN 1 ELSE 0)
           /\ A \cap (1 .. (i + 1))
                 = (A \cap (1 .. i)) \cup (IF i + 1 \in A THEN {i + 1} ELSE {})
<1>1. IsFiniteSet(1 .. i)
  BY FS_Interval
<1>2. IsFiniteSet(A \cap (1 .. i))
  BY <1>1, FS_Subset
<1>3. Cardinality(A \cap (1 .. i)) \in Nat
  BY <1>2, FS_CardinalityType
<1>4. \A x : x \in 1 .. (i + 1) <=> x \in 1 .. i \/ x = i + 1
  OBVIOUS
<1>5. i + 1 \notin A \cap (1 .. i)
  OBVIOUS
<1>6. CASE i + 1 \in A
  <2>1. A \cap (1 .. (i + 1)) = (A \cap (1 .. i)) \cup {i + 1}
    BY <1>4, <1>6
  <2>2. Cardinality((A \cap (1 .. i)) \cup {i + 1}) = Cardinality(A \cap (1 .. i)) + 1
    BY <1>2, <1>5, FS_AddElement
  <2> QED BY <1>2, <1>3, <1>6, <2>1, <2>2
<1>7. CASE i + 1 \notin A
  <2>1. A \cap (1 .. (i + 1)) = A \cap (1 .. i)
    BY <1>4, <1>7
  <2> QED BY <1>2, <1>3, <1>7, <2>1
<1> QED BY <1>6, <1>7

(* The right-hand side of the definition in replay_lines. *)
AfterBody(lines, lenient, after) ==
    [idx \in 0 .. Len(lines) |->
        IF idx = 0 THEN Start ELSE ReadLine(lines, lenient, after[idx - 1], idx)]

(* h is the state of the loop after each of the first k lines. *)
IsTrace(lines, lenient, h, k) ==
    /\ h[0] = Start
    /\ \A i \in 1 .. k : h[i] = ReadLine(lines, lenient, h[i - 1], i)

(* The loop has a state after every line. *)
LEMMA TraceExists ==
    ASSUME NEW lines, Len(lines) \in Nat, NEW lenient
    PROVE  \E h : h = AfterBody(lines, lenient, h)
<1> DEFINE S == {k \in Nat : \E h : IsTrace(lines, lenient, h, k)}
<1>1. 0 \in S
  <2> DEFINE h == [i \in 0 .. 0 |-> Start]
  <2>1. h[0] = Start
    OBVIOUS
  <2>2. \A i \in 1 .. 0 : FALSE
    OBVIOUS
  <2> HIDE DEF h
  <2>3. IsTrace(lines, lenient, h, 0)
    BY <2>1, <2>2 DEF IsTrace
  <2> QED BY <2>3
<1>2. ASSUME NEW k \in S PROVE k + 1 \in S
  <2>1. PICK h : IsTrace(lines, lenient, h, k)
    OBVIOUS
  <2>2. k \in Nat
    OBVIOUS
  <2> DEFINE g == [i \in 0 .. (k + 1) |->
                     IF i = k + 1 THEN ReadLine(lines, lenient, h[k], k + 1) ELSE h[i]]
  <2>3. \A i \in 0 .. k : g[i] = h[i]
    BY <2>2
  <2>4. g[k + 1] = ReadLine(lines, lenient, h[k], k + 1)
    BY <2>2
  <2> HIDE DEF g, S
  <2>5. g[0] = Start /\ g[(k + 1) - 1] = h[k]
    BY <2>1, <2>2, <2>3 DEF IsTrace
  <2>6. ASSUME NEW i \in 1 .. (k + 1)
        PROVE  g[i] = ReadLine(lines, lenient, g[i - 1], i)
    <3>1. CASE i = k + 1
      BY <3>1, <2>4, <2>5
    <3>2. CASE i # k + 1
      <4>1. i \in 1 .. k /\ i \in 0 .. k /\ i - 1 \in 0 .. k
        BY <3>2, <2>2
      <4> QED BY <4>1, <2>1, <2>3 DEF IsTrace
    <3> QED BY <3>1, <3>2
  <2>7. IsTrace(lines, lenient, g, k + 1)
    BY <2>5, <2>6 DEF IsTrace
  <2>8. k + 1 \in Nat
    BY <2>2
  <2> QED BY <2>7, <2>8 DEF S
<1>3. Len(lines) \in S
  <2> HIDE DEF S
  <2> QED BY <1>1, <1>2, SetInduction, S \in SUBSET Nat DEF S
<1>4. PICK h : IsTrace(lines, lenient, h, Len(lines))
  BY <1>3
<1> DEFINE n == Len(lines)
           g == [i \in 0 .. n |-> h[i]]
<1>5. ASSUME NEW i \in 0 .. n
      PROVE  g[i] = IF i = 0 THEN Start ELSE ReadLine(lines, lenient, g[i - 1], i)
  <2>1. CASE i = 0
    BY <2>1, <1>4 DEF IsTrace
  <2>2. CASE i # 0
    <3>1. i \in 1 .. n /\ i - 1 \in 0 .. n
      BY <2>2
    <3>2. g[i] = h[i] /\ g[i - 1] = h[i - 1]
      BY <3>1
    <3> HIDE DEF g
    <3> QED BY <3>1, <3>2, <2>2, <1>4 DEF IsTrace
  <2> QED BY <2>1, <2>2
<1>6. g = [i \in 0 .. n |-> g[i]]
  OBVIOUS
<1> HIDE DEF g
<1>7. g = AfterBody(lines, lenient, g)
  BY <1>5, <1>6 DEF AfterBody
<1> QED BY <1>7

Bad(lines) == {i \in DOMAIN lines : lines[i].kind = "bad"}
Full(lines) == {i \in DOMAIN lines : lines[i].kind # "blank"}
Broke(lines) ==
    {i \in DOMAIN lines : IsEvent(lines[i]) /\ lines[i].admitted /\ RuleIdOf(lines[i]) # NoRule}

RulesOf(lines) == {RuleIdOf(lines[j]) : j \in DOMAIN lines}

UpTo(A, i) == A \cap (1 .. i)

Capped(n) == IF n <= VIOLATION_CAP THEN n ELSE VIOLATION_CAP

(* What is true of the loop's state after the first i lines. *)
Accounted(lines, lenient, i, s) ==
    /\ s \in [ingested : Nat, skipped : Nat, throttled : Nat,
              ring : Seq(RulesOf(lines)), failed : Nat]
    /\ UpTo(Bad(lines), i) # {} /\ ~lenient =>
          s.failed \in UpTo(Bad(lines), i) /\ \A j \in UpTo(Bad(lines), i) : s.failed <= j
    /\ UpTo(Bad(lines), i) = {} \/ lenient =>
          /\ s.failed = 0
          /\ s.ingested + s.throttled + s.skipped = Cardinality(UpTo(Full(lines), i))
          /\ s.skipped = Cardinality(UpTo(Bad(lines), i))
          /\ Len(s.ring) = Capped(Cardinality(UpTo(Broke(lines), i)))

(* Before the first line nothing is counted. *)
LEMMA StartAccounted ==
    ASSUME NEW lines, NEW lenient
    PROVE  Accounted(lines, lenient, 0, Start)
<1>1. \A A : UpTo(A, 0) = {}
  BY DEF UpTo
<1>2. Cardinality({}) = 0
  BY FS_EmptySet
<1>3. Capped(0) = 0
  BY ReplayAssumption DEF Capped
<1>4. /\ Start \in [ingested : Nat, skipped : Nat, throttled : Nat,
              ring : Seq(RulesOf(lines)), failed : Nat]
      /\ Start.failed = 0 /\ Start.ingested = 0 /\ Start.throttled = 0 /\ Start.skipped = 0
      /\ Len(Start.ring) = 0
  BY DEF Start
<1>5. 0 + 0 + 0 = 0
  OBVIOUS
<1> QED BY <1>1, <1>2, <1>3, <1>4, <1>5 DEF Accounted

(* A violation more in the ring, unless it is full. *)
LEMMA RaisedCounts ==
    ASSUME NEW R, NEW ring \in Seq(R), NEW rule \in R, NEW n \in Nat, Len(ring) = Capped(n)
    PROVE  /\ Raised(ring, rule) \in Seq(R)
           /\ Len(Raised(ring, rule)) = Capped(IF rule = NoRule THEN n ELSE n + 1)
<1>1. CASE rule = NoRule
  BY <1>1 DEF Raised
<1>2. CASE rule # NoRule /\ Len(ring) >= VIOLATION_CAP
  <2>1. ring # << >> /\ Len(ring) = VIOLATION_CAP
    BY <1>2, ReplayAssumption DEF Capped
  <2>2. Tail(ring) \in Seq(R) /\ Len(Tail(ring)) = VIOLATION_CAP - 1
    BY <2>1
  <2>3. Raised(ring, rule) = Append(Tail(ring), rule)
    BY <1>2 DEF Raised
  <2>4. Append(Tail(ring), rule) \in Seq(R) /\ Len(Append(Tail(ring), rule)) = VIOLATION_CAP
    BY <2>2, ReplayAssumption
  <2>5. Capped(n + 1) = VIOLATION_CAP
    BY <2>1, ReplayAssumption DEF Capped
  <2> QED BY <1>2, <2>3, <2>4, <2>5
<1>3. CASE rule # NoRule /\ ~(Len(ring) >= VIOLATION_CAP)
  <2>1. Raised(ring, rule) = Append(ring, rule)
    BY <1>3 DEF Raised
  <2>2. Capped(n + 1) = n + 1 /\ Len(ring) = n
    BY <1>3, ReplayAssumption DEF Capped
  <2> QED BY <1>3, <2>1, <2>2
<1> QED BY <1>1, <1>2, <1>3

(* An element of a sequence over L. *)
LEMMA ElementOf ==
    ASSUME NEW L, NEW s \in Seq(L), NEW k \in 1 .. Len(s)
    PROVE  k \in DOMAIN s /\ s[k] \in L
OBVIOUS

(* The states of the loop. *)
States(R) ==
    [ingested : Nat, skipped : Nat, throttled : Nat, ring : Seq(R), failed : Nat]

(* A bad line that is skipped. *)
LEMMA Skips ==
    ASSUME NEW R, NEW s \in States(R), NEW t, t = [s EXCEPT !.skipped = @ + 1]
    PROVE  /\ t \in States(R) /\ t.ingested = s.ingested /\ t.throttled = s.throttled
           /\ t.skipped = s.skipped + 1 /\ t.ring = s.ring /\ t.failed = s.failed
BY DEF States

(* An event that is shed. *)
LEMMA Throttles ==
    ASSUME NEW R, NEW s \in States(R), NEW t, t = [s EXCEPT !.throttled = @ + 1]
    PROVE  /\ t \in States(R) /\ t.ingested = s.ingested /\ t.throttled = s.throttled + 1
           /\ t.skipped = s.skipped /\ t.ring = s.ring /\ t.failed = s.failed
BY DEF States

(* A bad line that ends the replay. *)
LEMMA Fails ==
    ASSUME NEW R, NEW s \in States(R), NEW t, NEW n \in Nat, t = [s EXCEPT !.failed = n]
    PROVE  /\ t \in States(R) /\ t.ingested = s.ingested /\ t.throttled = s.throttled
           /\ t.skipped = s.skipped /\ t.ring = s.ring /\ t.failed = n
BY DEF States

(* An event that is admitted. *)
Ingested(s, ring) == [s EXCEPT !.ingested = @ + 1, !.ring = ring]

(* One more event in the table, and its violations in the ring. *)
LEMMA Ingests ==
    ASSUME NEW R, NEW s \in States(R), NEW ring \in Seq(R)
    PROVE  /\ Ingested(s, ring) \in States(R)
           /\ Ingested(s, ring).ingested + Ingested(s, ring).throttled + Ingested(s, ring).skipped
                 = (s.ingested + s.throttled + s.skipped) + 1
           /\ Ingested(s, ring).skipped = s.skipped
           /\ Ingested(s, ring).ring = ring /\ Ingested(s, ring).failed = s.failed
<1> DEFINE u == [s EXCEPT !.ingested = @ + 1]
<1>0. s.ingested \in Nat /\ s.throttled \in Nat /\ s.skipped \in Nat
  BY DEF States
<1>1. /\ u \in States(R) /\ u.ingested = s.ingested + 1 /\ u.throttled = s.throttled
      /\ u.skipped = s.skipped /\ u.failed = s.failed
  BY DEF States
<1>2. Ingested(s, ring) = [u EXCEPT !.ring = ring]
  BY DEF States, Ingested
<1> HIDE DEF u
<1>3. /\ Ingested(s, ring) \in States(R) /\ Ingested(s, ring).ingested = u.ingested
      /\ Ingested(s, ring).throttled = u.throttled /\ Ingested(s, ring).skipped = u.skipped
      /\ Ingested(s, ring).ring = ring /\ Ingested(s, ring).failed = u.failed
  BY <1>1, <1>2 DEF States
<1>4. (s.ingested + 1) + s.throttled + s.skipped = (s.ingested + s.throttled + s.skipped) + 1
  BY <1>0
<1> QED BY <1>1, <1>3, <1>4

(* One more of three kinds is one more. *)
LEMMA OneMore ==
    ASSUME NEW a \in Nat, NEW b \in Nat, NEW c \in Nat
    PROVE  (a + 1) + b + c = (a + b + c) + 1 /\ a + (b + 1) + c = (a + b + c) + 1
OBVIOUS

(* One turn of the loop keeps the account. *)
LEMMA LineAccounted ==
    ASSUME NEW lines \in Seq([kind : STRING, admitted : BOOLEAN]), NEW lenient \in BOOLEAN,
           NEW i \in Nat, i + 1 \in 1 .. Len(lines), NEW s, Accounted(lines, lenient, i, s)
    PROVE  Accounted(lines, lenient, i + 1, ReadLine(lines, lenient, s, i + 1))
<1> DEFINE l == lines[i + 1]
           rules == RulesOf(lines)
           next == ReadLine(lines, lenient, s, i + 1)
           bads == UpTo(Bad(lines), i)
           bads1 == UpTo(Bad(lines), i + 1)
           b == Cardinality(UpTo(Bad(lines), i))
           f == Cardinality(UpTo(Full(lines), i))
           v == Cardinality(UpTo(Broke(lines), i))
           b1 == Cardinality(UpTo(Bad(lines), i + 1))
           f1 == Cardinality(UpTo(Full(lines), i + 1))
           v1 == Cardinality(UpTo(Broke(lines), i + 1))
<1>0. i + 1 \in DOMAIN lines /\ l \in [kind : STRING, admitted : BOOLEAN]
  BY ElementOf
<1>1. i + 1 \in DOMAIN lines /\ RuleIdOf(l) \in rules /\ l.admitted \in BOOLEAN
  BY <1>0 DEF RulesOf
<1>2. /\ (i + 1 \in Bad(lines) <=> l.kind = "bad")
      /\ (i + 1 \in Full(lines) <=> l.kind # "blank")
      /\ (i + 1 \in Broke(lines)
             <=> l.kind \notin {"blank", "bad"} /\ l.admitted /\ RuleIdOf(l) # NoRule)
  BY <1>1 DEF Bad, Full, Broke, IsEvent
<1>3. /\ b \in Nat /\ f \in Nat /\ v \in Nat
      /\ b1 = b + (IF l.kind = "bad" THEN 1 ELSE 0)
      /\ f1 = f + (IF l.kind # "blank" THEN 1 ELSE 0)
      /\ v1 = v + (IF i + 1 \in Broke(lines) THEN 1 ELSE 0)
      /\ bads1 = bads \cup (IF l.kind = "bad" THEN {i + 1} ELSE {})
      /\ bads \subseteq 1 .. i
  BY <1>2, CountStep DEF UpTo
<1>33. b \in Nat /\ f \in Nat /\ v \in Nat
  BY <1>3
<1>4. /\ s \in States(rules)
      /\ bads # {} /\ ~lenient => s.failed \in bads /\ \A j \in bads : s.failed <= j
      /\ bads = {} \/ lenient =>
            /\ s.failed = 0 /\ s.ingested + s.throttled + s.skipped = f
            /\ s.skipped = b /\ Len(s.ring) = Capped(v)
  BY DEF Accounted, States
<1> SUFFICES /\ next \in States(rules)
             /\ bads1 # {} /\ ~lenient => next.failed \in bads1 /\ \A j \in bads1 : next.failed <= j
             /\ bads1 = {} \/ lenient =>
                  /\ next.failed = 0 /\ next.ingested + next.throttled + next.skipped = f1
                  /\ next.skipped = b1 /\ Len(next.ring) = Capped(v1)
  BY DEF Accounted, States
<1> HIDE DEF l, rules, b, f, v, b1, f1, v1, bads, bads1
<1>5. CASE s.failed # 0
  <2>1. next = s
    BY <1>5 DEF ReadLine
  <2>2. bads # {} /\ ~lenient
    BY <1>4, <1>5
  <2>3. s.failed \in 1 .. i /\ s.failed \in bads /\ \A j \in bads : s.failed <= j
    BY <1>3, <1>4, <2>2
  <2>4. \A j \in bads1 : j \in bads \/ j = i + 1
    BY <1>3
  <2>5. s.failed <= i + 1
    BY <2>3
  <2>6. bads1 # {} /\ s.failed \in bads1 /\ \A j \in bads1 : s.failed <= j
    BY <1>3, <2>3, <2>4, <2>5
  <2> HIDE DEF next
  <2> QED BY <2>1, <2>2, <2>6, <1>4
<1>6. CASE s.failed = 0
  <2>0. bads = {} \/ lenient
    BY <1>3, <1>4, <1>6
  <2>10. /\ s.ingested \in Nat /\ s.throttled \in Nat /\ s.skipped \in Nat /\ s \in States(rules)
         /\ s.ingested + s.throttled + s.skipped = f
         /\ s.skipped = b /\ Len(s.ring) = Capped(v) /\ s.ring \in Seq(rules)
    BY <1>4, <2>0 DEF States
  <2>11. /\ s.ingested \in Nat /\ s.throttled \in Nat /\ s.skipped \in Nat
         /\ s.ingested + s.throttled + s.skipped = f /\ s.skipped = b
    BY <2>10
  <2>1. CASE l.kind = "blank"
    <3>1. next = s
      BY <2>1 DEF ReadLine, l
    <3>2. l.kind # "bad" /\ i + 1 \notin Broke(lines)
      BY <2>1, <1>2
    <3>3. b1 = b /\ f1 = f /\ v1 = v /\ bads1 = bads
      BY <1>3, <2>1, <3>2
    <3> HIDE DEF next
    <3> QED BY <3>1, <3>3, <2>0, <1>4
  <2>2. CASE l.kind = "bad"
    <3>0. b1 = b + 1 /\ f1 = f + 1 /\ v1 = v /\ bads1 = bads \cup {i + 1}
      BY <1>2, <1>3, <2>2
    <3>1. CASE lenient
      <4>1. next = [s EXCEPT !.skipped = @ + 1]
        BY <1>6, <2>2, <3>1 DEF ReadLine, l
      <4> HIDE DEF next
      <4>2. next \in States(rules) /\ next.failed = 0 /\ next.skipped = s.skipped + 1
            /\ next.ingested = s.ingested /\ next.throttled = s.throttled /\ next.ring = s.ring
        <5>1. s \in States(rules)
          BY <2>10
        <5> QED BY <4>1, <5>1, <1>6, Skips
      <4>4. next.ingested + next.throttled + next.skipped = f1 /\ next.skipped = b1
        BY <4>2, <3>0, <2>11, <1>33
      <4> QED BY <4>2, <4>4, <3>0, <3>1, <2>10
    <3>2. CASE ~lenient
      <4>1. next = [s EXCEPT !.failed = i + 1]
        BY <1>6, <2>2, <3>2 DEF ReadLine, l, LineNumber
      <4> HIDE DEF next
      <4>2. next \in States(rules) /\ next.failed = i + 1
        BY <4>1, <2>10, i + 1 \in Nat, Fails
      <4>3. bads1 = {i + 1}
        BY <3>0, <3>2, <2>0
      <4> QED BY <4>2, <4>3, <3>2
    <3> QED BY <3>1, <3>2
  <2>3. CASE l.kind \notin {"blank", "bad"}
    <3>0. b1 = b /\ f1 = f + 1 /\ bads1 = bads
      BY <1>3, <2>3
    <3>1. CASE l.admitted
      <4> DEFINE ring == Raised(s.ring, RuleIdOf(l))
      <4>1. next = Ingested(s, ring)
        BY <1>6, <2>3, <3>1 DEF ReadLine, l, Ingested
      <4> HIDE DEF next
      <4>2. v1 = IF RuleIdOf(l) = NoRule THEN v ELSE v + 1
        BY <1>2, <1>3, <2>3, <3>1
      <4>3. s.ring \in Seq(rules) /\ Len(s.ring) = Capped(v)
        BY <2>10
      <4>4. ring \in Seq(rules) /\ Len(ring) = Capped(v1)
        BY <4>2, <4>3, <1>1, <1>3, RaisedCounts
      <4> HIDE DEF ring
      <4>5. /\ next \in States(rules) /\ next.skipped = s.skipped /\ next.ring = ring
            /\ next.ingested + next.throttled + next.skipped
                  = (s.ingested + s.throttled + s.skipped) + 1
            /\ next.failed = s.failed
        <5>1. s \in States(rules) /\ ring \in Seq(rules)
          BY <4>4, <2>10
        <5> QED BY <4>1, <5>1, Ingests
      <4>7. next.ingested + next.throttled + next.skipped = f1 /\ next.skipped = b1
        BY <4>5, <3>0, <2>11
      <4> QED BY <4>4, <4>5, <4>7, <3>0, <2>0, <1>6
    <3>2. CASE ~l.admitted
      <4>1. next = [s EXCEPT !.throttled = @ + 1]
        BY <1>6, <2>3, <3>2 DEF ReadLine, l
      <4> HIDE DEF next
      <4>2. v1 = v
        BY <1>2, <1>3, <3>2
      <4>3. next \in States(rules) /\ next.failed = 0 /\ next.skipped = s.skipped
            /\ next.ingested = s.ingested /\ next.throttled = s.throttled + 1
            /\ next.ring = s.ring
        <5>1. s \in States(rules)
          BY <2>10
        <5> QED BY <4>1, <5>1, <1>6, Throttles
      <4>4. next.ingested + next.throttled + next.skipped = f1 /\ next.skipped = b1
        BY <4>3, <3>0, <2>11, OneMore
      <4> QED BY <4>2, <4>3, <4>4, <3>0, <2>0, <2>10
    <3> QED BY <3>1, <3>2
  <2> QED BY <2>1, <2>2, <2>3
<1> QED BY <1>4, <1>5, <1>6

(* The right-hand side of the definition of the sum of a function's values. *)
SumBody(fun, D, iter) ==
    [s \in SUBSET D |->
        IF s = {} THEN 0
        ELSE LET x == CHOOSE x \in s : TRUE IN fun[x] + iter[s \ {x}]]

(* The places of the ring whose rule is in s. *)
PlacesOf(ring, s) == {i \in DOMAIN ring : ring[i] \in s}

(* The places of x and the places of the others in s. *)
SplitsAt(ring, s, x) ==
    /\ Cardinality(PlacesOf(ring, s)) \in Nat
    /\ Cardinality(PlacesOf(ring, s \ {x})) \in Nat
    /\ ToBag(ring)[x] \in Nat \ {0}
    /\ Cardinality(PlacesOf(ring, s))
          = ToBag(ring)[x] + Cardinality(PlacesOf(ring, s \ {x}))

(* The bag of a ring holds a rule as often as there are places for it. *)
LEMMA PlacesSplit ==
    ASSUME NEW R, NEW ring \in Seq(R), NEW s, NEW x \in s, x \in ToSet(ring)
    PROVE  SplitsAt(ring, s, x)
<1> DEFINE X == {i \in DOMAIN ring : ring[i] = x}
           O == PlacesOf(ring, s \ {x})
<1>1. DOMAIN ring = 1 .. Len(ring) /\ Len(ring) \in Nat /\ IsFiniteSet(1 .. Len(ring))
  BY FS_Interval
<1>2. IsFiniteSet(X) /\ IsFiniteSet(O) /\ IsFiniteSet(PlacesOf(ring, s))
  BY <1>1, FS_Subset DEF PlacesOf
<1>3. /\ Cardinality(X) \in Nat /\ Cardinality(O) \in Nat
      /\ Cardinality(PlacesOf(ring, s)) \in Nat
  BY <1>2, FS_CardinalityType
<1>4. PICK i \in DOMAIN ring : ring[i] = x
  BY DEF ToSet
<1>5. Cardinality(X) # 0
  BY <1>2, <1>4, FS_EmptySet
<1>6. X \cup O = PlacesOf(ring, s) /\ X \cap O = {}
  BY DEF PlacesOf
<1>7. Cardinality(X \cup O) = Cardinality(X) + Cardinality(O) - Cardinality(X \cap O)
  BY <1>2, FS_Union
<1>8. Cardinality(X \cap O) = 0
  BY <1>6, FS_EmptySet
<1>9. x \in Range(ring)
  BY <1>4 DEF Range
<1>10. ToBag(ring)[x] = Cardinality(X)
  BY <1>9 DEF ToBag
<1> HIDE DEF X, O
<1>11. Cardinality(PlacesOf(ring, s)) = Cardinality(X) + Cardinality(O)
  <2>1. Cardinality(PlacesOf(ring, s)) = Cardinality(X) + Cardinality(O) - 0
    BY <1>6, <1>7, <1>8, Zenon
  <2> QED BY <2>1, <1>3
<1>12. Cardinality(X) \in Nat \ {0}
  BY <1>3, <1>5
<1> QED BY <1>3, <1>10, <1>11, <1>12 DEF O, SplitsAt

(* by_rule adds up to the violations in the ring. *)
LEMMA BagAddsUp ==
    ASSUME NEW R, NEW ring \in Seq(R)
    PROVE  FoldFunction(+, 0, ToBag(ring)) = Len(ring)
<1> DEFINE D == ToSet(ring)
           bag == ToBag(ring)
           G == [s \in SUBSET D |-> Cardinality(PlacesOf(ring, s))]
           h == CHOOSE g : g = SumBody(bag, D, g)
<1>1. DOMAIN bag = D
  BY DEF ToBag, ToSet, Range
<1>2. FoldFunction(+, 0, bag) = h[D]
  <2>1. FoldFunction(+, 0, bag) = (CHOOSE g : g = SumBody(bag, DOMAIN bag, g))[DOMAIN bag]
    BY DEF FoldFunction, FoldFunctionOnSet, MapThenFoldSet, SumBody
  <2> QED BY <2>1, <1>1
<1> HIDE DEF D, bag
<1>3. PlacesOf(ring, {}) = {} /\ Cardinality({}) = 0
  BY FS_EmptySet DEF PlacesOf
<1>4. ASSUME NEW s \in SUBSET D, s # {}
      PROVE  /\ (CHOOSE x \in s : TRUE) \in s
             /\ s \ {CHOOSE x \in s : TRUE} \in SUBSET D
             /\ bag[CHOOSE x \in s : TRUE] \in Nat \ {0}
             /\ G[s] \in Nat /\ G[s \ {CHOOSE x \in s : TRUE}] \in Nat
             /\ G[s] = bag[CHOOSE x \in s : TRUE] + G[s \ {CHOOSE x \in s : TRUE}]
  <2> DEFINE x == CHOOSE x \in s : TRUE
  <2>1. x \in s
    BY <1>4
  <2> HIDE DEF x
  <2>2. s \ {x} \in SUBSET D
    OBVIOUS
  <2>3. G[s] = Cardinality(PlacesOf(ring, s)) /\ G[s \ {x}] = Cardinality(PlacesOf(ring, s \ {x}))
    BY <2>2
  <2> HIDE DEF G
  <2>4. /\ bag[x] \in Nat \ {0} /\ G[s] \in Nat /\ G[s \ {x}] \in Nat
        /\ G[s] = bag[x] + G[s \ {x}]
    <3>1. x \in ToSet(ring)
      BY <2>1 DEF D
    <3>2. SplitsAt(ring, s, x)
      BY <2>1, <3>1, PlacesSplit
    <3> QED BY <3>2, <2>3 DEF bag, SplitsAt
  <2> QED BY <2>1, <2>2, <2>4 DEF x
<1>5. G[{}] = 0
  BY <1>3
<1>6. G = [s \in SUBSET D |-> G[s]]
  OBVIOUS
<1> HIDE DEF G
<1>7. G = SumBody(bag, D, G)
  BY <1>4, <1>5, <1>6 DEF SumBody
<1>8. h = SumBody(bag, D, h)
  BY <1>7
<1> HIDE DEF h
<1>9. h[{}] = 0 /\ \A s \in SUBSET D : s # {} =>
        h[s] = bag[CHOOSE x \in s : TRUE] + h[s \ {CHOOSE x \in s : TRUE}]
  <2>1. SumBody(bag, D, h)[{}] = 0 /\ \A s \in SUBSET D : s # {} =>
          SumBody(bag, D, h)[s] = bag[CHOOSE x \in s : TRUE] + h[s \ {CHOOSE x \in s : TRUE}]
    BY DEF SumBody
  <2> QED BY <1>8, <2>1
<1> DEFINE S == {k \in Nat : \A s \in SUBSET D : G[s] <= k => h[s] = G[s]}
<1>10. 0 \in S
  <2> SUFFICES ASSUME NEW s \in SUBSET D, G[s] <= 0 PROVE h[s] = G[s]
    OBVIOUS
  <2>1. ASSUME s # {} PROVE FALSE
    <3> DEFINE x == CHOOSE x \in s : TRUE
    <3>1. bag[x] \in Nat \ {0} /\ G[s \ {x}] \in Nat /\ G[s] = bag[x] + G[s \ {x}]
      BY <2>1, <1>4
    <3> HIDE DEF x
    <3> QED BY <3>1
  <2> QED BY <2>1, <1>5, <1>9
<1>11. ASSUME NEW k \in S PROVE k + 1 \in S
  <2>0. k \in Nat /\ \A s \in SUBSET D : G[s] <= k => h[s] = G[s]
    OBVIOUS
  <2> SUFFICES ASSUME NEW s \in SUBSET D, G[s] <= k + 1 PROVE h[s] = G[s]
    BY <2>0
  <2> HIDE DEF S
  <2>1. CASE s = {}
    BY <2>1, <1>5, <1>9
  <2>2. CASE s # {}
    <3> DEFINE x == CHOOSE x \in s : TRUE
    <3>1. /\ s \ {x} \in SUBSET D /\ bag[x] \in Nat \ {0} /\ G[s] \in Nat /\ G[s \ {x}] \in Nat
          /\ G[s] = bag[x] + G[s \ {x}] /\ h[s] = bag[x] + h[s \ {x}]
      BY <2>2, <1>4, <1>9
    <3> HIDE DEF x
    <3>2. G[s \ {x}] <= k
      BY <3>1, <2>0
    <3>3. h[s \ {x}] = G[s \ {x}]
      BY <3>1, <3>2, <2>0
    <3> QED BY <3>1, <3>3
  <2> QED BY <2>1, <2>2
<1>12. S = Nat
  <2> HIDE DEF S
  <2> QED BY <1>10, <1>11, SetInduction, S \in SUBSET Nat DEF S
<1>13. G[D] = Len(ring)
  <2>1. PlacesOf(ring, D) = 1 .. Len(ring)
    BY DEF PlacesOf, D, ToSet
  <2>2. ASSUME NEW n \in Nat PROVE Cardinality(1 .. n) = n
    BY FS_Interval
  <2>3. G[D] = Cardinality(PlacesOf(ring, D))
    BY DEF G
  <2> QED BY <2>1, <2>2, <2>3
<1>14. Len(ring) \in Nat /\ Len(ring) <= Len(ring)
  OBVIOUS
<1>15. h[D] = G[D]
  BY <1>12, <1>13, <1>14
<1> QED BY <1>2, <1>13, <1>15 DEF bag

(* The loop's last state is accounted for. *)
LEMMA ReplayAccounted ==
    ASSUME NEW lines \in Seq([kind : STRING, admitted : BOOLEAN]), NEW lenient \in BOOLEAN
    PROVE  \E s : /\ Accounted(lines, lenient, Len(lines), s)
                  /\ replay_lines(lines, lenient) =
                       [ingested |-> s.ingested, skipped |-> s.skipped,
                        throttled |-> s.throttled, failed |-> s.failed,
                        violations |-> Len(s.ring), by_rule |-> ToBag(s.ring)]
<1> DEFINE n == Len(lines)
           h == CHOOSE g : g = AfterBody(lines, lenient, g)
           S == {k \in Nat : k <= n => Accounted(lines, lenient, k, h[k])}
<1>0. n \in Nat
  OBVIOUS
<1>1. h = AfterBody(lines, lenient, h)
  BY <1>0, TraceExists
<1>2. replay_lines(lines, lenient) =
         [ingested |-> h[n].ingested, skipped |-> h[n].skipped,
          throttled |-> h[n].throttled, failed |-> h[n].failed,
          violations |-> Len(h[n].ring), by_rule |-> ToBag(h[n].ring)]
  BY DEF replay_lines, AfterBody
<1> HIDE DEF h, n
<1>3. h[0] = Start /\ \A i \in 1 .. n : h[i] = ReadLine(lines, lenient, h[i - 1], i)
  <2>1. 0 \in 0 .. n
    BY <1>0
  <2>2. \A i \in 1 .. n : i \in 0 .. n /\ i # 0
    BY <1>0
  <2>3. AfterBody(lines, lenient, h)[0] = Start
    BY <2>1 DEF AfterBody, n
  <2>4. \A i \in 1 .. n :
           AfterBody(lines, lenient, h)[i] = ReadLine(lines, lenient, h[i - 1], i)
    BY <2>2 DEF AfterBody, n
  <2> QED BY <1>1, <2>3, <2>4
<1>4. 0 \in S
  BY <1>3, StartAccounted
<1>5. ASSUME NEW k \in S PROVE k + 1 \in S
  <2>1. k \in Nat /\ (k <= n => Accounted(lines, lenient, k, h[k]))
    OBVIOUS
  <2> SUFFICES ASSUME k + 1 <= n PROVE Accounted(lines, lenient, k + 1, h[k + 1])
    BY <2>1
  <2> HIDE DEF S
  <2>2. k + 1 \in 1 .. n /\ k <= n /\ (k + 1) - 1 = k
    BY <1>0, <2>1
  <2>3. h[k + 1] = ReadLine(lines, lenient, h[k], k + 1)
    BY <1>3, <2>2
  <2> QED BY <2>1, <2>2, <2>3, LineAccounted DEF n
<1>6. S = Nat
  <2> HIDE DEF S
  <2> QED BY <1>4, <1>5, SetInduction, S \in SUBSET Nat DEF S
<1>7. Accounted(lines, lenient, n, h[n])
  BY <1>0, <1>6
<1> QED BY <1>2, <1>7 DEF n

(* For a corpus of any length and any cap of the ring, a replay accounts   *)
(* for every line that is not blank, counts the newest violations by rule, *)
(* and without --lenient stops at the first bad line, named by its place   *)
(* in the file: replay_lines of asg-cli.                                   *)
THEOREM ReplaysAddUp == Spec => []ReplayAddsUp
<1>1. Init => ReplayAddsUp
  <2> SUFFICES ASSUME Init, kind = "corpus" PROVE ReplayAddsUp
    BY DEF ReplayAddsUp
  <2> DEFINE lines == input.lines
             lenient == input.lenient
             n == Len(lines)
  <2>1. lines \in Seq([kind : STRING, admitted : BOOLEAN]) /\ lenient \in BOOLEAN
    <3>1. input \in CorpusCases
      BY DEF Init
    <3> QED BY <3>1, CasesAssumption
  <2>2. PICK s : /\ Accounted(lines, lenient, n, s)
                 /\ replay_lines(lines, lenient) =
                       [ingested |-> s.ingested, skipped |-> s.skipped,
                        throttled |-> s.throttled, failed |-> s.failed,
                        violations |-> Len(s.ring), by_rule |-> ToBag(s.ring)]
    BY <2>1, ReplayAccounted
  <2> HIDE DEF lines, lenient
  <2> DEFINE summary == replay_lines(lines, lenient)
  <2>3. n \in Nat /\ DOMAIN lines = 1 .. n
    BY <2>1
  <2>4. /\ UpTo(Bad(lines), n) = Bad(lines) /\ UpTo(Full(lines), n) = Full(lines)
        /\ UpTo(Broke(lines), n) = Broke(lines)
    BY <2>3 DEF UpTo, Bad, Full, Broke
  <2>5. /\ summary.ingested = s.ingested /\ summary.skipped = s.skipped
        /\ summary.throttled = s.throttled /\ summary.failed = s.failed
        /\ summary.violations = Len(s.ring) /\ summary.by_rule = ToBag(s.ring)
    BY <2>2
  <2> HIDE DEF summary
  <2>6. /\ Bad(lines) # {} /\ ~lenient =>
              s.failed \in Bad(lines) /\ \A j \in Bad(lines) : s.failed <= j
        /\ Bad(lines) = {} \/ lenient =>
              /\ s.failed = 0
              /\ s.ingested + s.throttled + s.skipped = Cardinality(Full(lines))
              /\ s.skipped = Cardinality(Bad(lines))
              /\ Len(s.ring) = Capped(Cardinality(Broke(lines)))
        /\ s.ring \in Seq(RulesOf(lines))
    BY <2>2, <2>4 DEF Accounted
  <2>7. FoldFunction(+, 0, ToBag(s.ring)) = Len(s.ring)
    BY <2>6, BagAddsUp
  <2>8. Cardinality(Broke(lines)) \in Nat
    BY <2>3, <2>4, CountStep DEF UpTo
  <2>9. \A c \in Nat : Min({VIOLATION_CAP, c}) = Capped(c)
    <3> SUFFICES ASSUME NEW c \in Nat PROVE Min({VIOLATION_CAP, c}) = Capped(c)
      OBVIOUS
    <3>1. /\ Capped(c) \in {VIOLATION_CAP, c} /\ \A y \in {VIOLATION_CAP, c} : Capped(c) =< y
          /\ \A x \in {VIOLATION_CAP, c} : (\A y \in {VIOLATION_CAP, c} : x =< y) => x = Capped(c)
      BY ReplayAssumption DEF Capped
    <3> QED BY <3>1 DEF Min
  <2>10. /\ Bad(lines) = {i \in DOMAIN lines : lines[i].kind = "bad"}
         /\ Full(lines) = {i \in DOMAIN lines : lines[i].kind # "blank"}
         /\ Broke(lines) = {i \in DOMAIN lines :
               IsEvent(lines[i]) /\ lines[i].admitted /\ RuleIdOf(lines[i]) # NoRule}
    BY DEF Bad, Full, Broke
  <2>11. CASE Bad(lines) # {} /\ ~lenient
    BY <2>5, <2>6, <2>10, <2>11 DEF ReplayAddsUp, AddsUp, summary, lines, lenient
  <2>12. CASE ~(Bad(lines) # {} /\ ~lenient)
    <3>1. /\ summary.failed = 0
          /\ summary.ingested + summary.throttled + summary.skipped = Cardinality(Full(lines))
          /\ summary.skipped = Cardinality(Bad(lines))
          /\ summary.violations = Min({VIOLATION_CAP, Cardinality(Broke(lines))})
          /\ summary.violations = FoldFunction(+, 0, summary.by_rule)
      BY <2>5, <2>6, <2>7, <2>8, <2>9, <2>12
    <3> QED BY <3>1, <2>10, <2>12 DEF ReplayAddsUp, AddsUp, summary, lines, lenient, Count
  <2> QED BY <2>11, <2>12
<1>2. ReplayAddsUp /\ [Next]_<< kind, input >> => ReplayAddsUp'
  BY DEF Next, ReplayAddsUp
<1> QED BY <1>1, <1>2, PTL DEF Spec

----------------------------------------------------------------------------
(* Paths. *)

(* The members of the two-place sequence "./". *)
DotSlash == << ".", Slash >>

(* Two sequences are one when they agree place by place. *)
LEMMA SameSequence ==
    ASSUME NEW R, NEW s \in Seq(R), NEW t \in Seq(R), Len(s) = Len(t),
           \A i \in 1 .. Len(s) : s[i] = t[i]
    PROVE  s = t
OBVIOUS

(* What is left of a sequence, place by place. *)
LEMMA DropFacts ==
    ASSUME NEW R, NEW p \in Seq(R), NEW m \in 0 .. Len(p)
    PROVE  /\ Drop(p, m) \in Seq(R) /\ Len(Drop(p, m)) = Len(p) - m
           /\ DOMAIN Drop(p, m) = 1 .. (Len(p) - m)
           /\ \A i \in 1 .. (Len(p) - m) : Drop(p, m)[i] = p[m + i]
BY DEF Drop

(* A sequence starts with two characters when these are its first two. *)
LEMMA PairStart ==
    ASSUME NEW R, NEW p \in Seq(R), NEW c, NEW d
    PROVE  StartsWith(p, << c, d >>) <=> Len(p) >= 2 /\ p[1] = c /\ p[2] = d
<1> DEFINE q == << c, d >>
<1>1. ASSUME Len(p) >= 2
      PROVE  SubSeq(p, 1, 2) = q <=> p[1] = c /\ p[2] = d
  <2> DEFINE s == SubSeq(p, 1, 2)
  <2>1. s = << p[1], p[2] >>
    <3>1. s \in Seq(R) /\ Len(s) = 2 /\ s[1] = p[1] /\ s[2] = p[2]
      BY <1>1
    <3> HIDE DEF s
    <3> QED BY <3>1
  <2>2. << p[1], p[2] >> = << c, d >> <=> p[1] = c /\ p[2] = d
    OBVIOUS
  <2> HIDE DEF s
  <2>3. s = << c, d >> <=> p[1] = c /\ p[2] = d
    BY <2>1, <2>2
  <2> QED BY <2>3 DEF q, s
<1>2. Len(q) = 2
  OBVIOUS
<1> HIDE DEF q
<1>3. StartsWith(p, q) <=> Len(p) >= 2 /\ SubSeq(p, 1, 2) = q
  BY <1>2 DEF StartsWith
<1> QED BY <1>1, <1>3 DEF q

(* "//?/" or "//./". *)
Verbatim(p) ==
    /\ Len(p) >= 4 /\ p[1] = Slash /\ p[2] = Slash /\ p[3] \in {"?", "."} /\ p[4] = Slash

(* The prefix that Unverbatim takes off. *)
LEMMA UnverbatimCases ==
    ASSUME NEW R, NEW p \in Seq(R)
    PROVE  Unverbatim(p) = IF Verbatim(p) THEN Drop(p, 4) ELSE p
<1>1. ASSUME NEW c
      PROVE  StartsWith(p, << Slash, Slash, c, Slash >>)
                <=> Len(p) >= 4 /\ p[1] = Slash /\ p[2] = Slash /\ p[3] = c /\ p[4] = Slash
  <2> DEFINE q == << Slash, Slash, c, Slash >>
  <2>1. ASSUME Len(p) >= 4
        PROVE  SubSeq(p, 1, 4) = q
                  <=> p[1] = Slash /\ p[2] = Slash /\ p[3] = c /\ p[4] = Slash
    <3> DEFINE s == SubSeq(p, 1, 4)
    <3>1. s = << p[1], p[2], p[3], p[4] >>
      <4>1. /\ s \in Seq(R) /\ Len(s) = 4
            /\ s[1] = p[1] /\ s[2] = p[2] /\ s[3] = p[3] /\ s[4] = p[4]
        BY <2>1
      <4> HIDE DEF s
      <4> QED BY <4>1
    <3>2. << p[1], p[2], p[3], p[4] >> = << Slash, Slash, c, Slash >>
            <=> p[1] = Slash /\ p[2] = Slash /\ p[3] = c /\ p[4] = Slash
      OBVIOUS
    <3> HIDE DEF s
    <3>3. s = << Slash, Slash, c, Slash >>
            <=> p[1] = Slash /\ p[2] = Slash /\ p[3] = c /\ p[4] = Slash
      BY <3>1, <3>2
    <3> QED BY <3>3 DEF s
  <2>2. Len(q) = 4
    OBVIOUS
  <2> HIDE DEF q
  <2>3. StartsWith(p, q) <=> Len(p) >= 4 /\ SubSeq(p, 1, 4) = q
    BY <2>2 DEF StartsWith
  <2> QED BY <2>1, <2>3 DEF q
<1> QED BY <1>1 DEF Unverbatim, Verbatim

(* The turns after which no "./" leads. *)
Stops(p) == {k \in 0 .. Len(p) : ~StartsWith(Drop(p, 2 * k), DotSlash)}

(* Undotted stops at the first of them, and it drops characters of p only. *)
LEMMA FirstStop ==
    ASSUME NEW R, NEW p \in Seq(R)
    PROVE  \E k \in Stops(p) :
              /\ \A j \in Stops(p) : k <= j
              /\ 2 * k <= Len(p)
              /\ Undotted(p) = Drop(p, 2 * k)
              /\ ~StartsWith(Drop(p, 2 * k), DotSlash)
              /\ \A j \in 0 .. (k - 1) : StartsWith(Drop(p, 2 * j), DotSlash)
<1>1. Len(p) \in Nat /\ Stops(p) \in SUBSET Nat
  BY DEF Stops
<1>2. ASSUME NEW k \in 0 .. Len(p), 2 * k > Len(p) PROVE k \in Stops(p)
  <2>1. Len(Drop(p, 2 * k)) = 0
    BY <1>2 DEF Drop
  <2>2. ~StartsWith(Drop(p, 2 * k), DotSlash)
    BY <2>1 DEF StartsWith, DotSlash
  <2> QED BY <2>2 DEF Stops
<1>3. ~StartsWith(Drop(p, 2 * Len(p)), DotSlash)
  <2>1. Len(Drop(p, 2 * Len(p))) < 2
    BY DEF Drop
  <2> QED BY <2>1 DEF StartsWith, DotSlash
<1>4. Stops(p) # {}
  BY <1>1, <1>3 DEF Stops
<1>5. PICK k \in Stops(p) : \A j \in Stops(p) : k <= j
  BY <1>1, <1>4, Smallest
<1>6. Min(Stops(p)) = k
  <2> DEFINE m == Min(Stops(p))
  <2>1. m \in Stops(p) /\ \A j \in Stops(p) : m <= j
    BY <1>5 DEF Min
  <2> HIDE DEF m
  <2>2. m \in Nat /\ k \in Nat /\ m <= k /\ k <= m
    BY <1>1, <1>5, <2>1
  <2> QED BY <2>2 DEF m
<1>7. Undotted(p) = Drop(p, 2 * k)
  BY <1>6 DEF Undotted, Stops, DotSlash
<1>8. k \in 0 .. Len(p) /\ ~StartsWith(Drop(p, 2 * k), DotSlash)
  BY DEF Stops
<1>9. ASSUME NEW j \in 0 .. (k - 1) PROVE StartsWith(Drop(p, 2 * j), DotSlash)
  <2>1. j \in 0 .. Len(p) /\ ~(k <= j)
    BY <1>1, <1>8
  <2>2. j \notin Stops(p)
    BY <1>5, <2>1
  <2> QED BY <2>1, <2>2 DEF Stops
<1>10. 2 * k <= Len(p)
  <2>1. CASE k = 0
    BY <1>1, <2>1
  <2>2. CASE k # 0
    <3>1. k - 1 \in 0 .. (k - 1) /\ k - 1 \in 0 .. Len(p)
      BY <1>1, <1>8, <2>2
    <3>2. StartsWith(Drop(p, 2 * (k - 1)), DotSlash)
      BY <3>1, <1>9
    <3>3. Len(Drop(p, 2 * (k - 1))) >= 2
      BY <3>2 DEF StartsWith, DotSlash
    <3>4. Len(Drop(p, 2 * (k - 1))) =
             IF 2 * (k - 1) + 1 <= Len(p) THEN Len(p) - 2 * (k - 1) ELSE 0
      BY <3>1 DEF Drop
    <3> QED BY <1>1, <1>8, <3>3, <3>4
  <2> QED BY <2>1, <2>2
<1> QED BY <1>5, <1>7, <1>8, <1>9, <1>10

(* What is left of what is left. *)
LEMMA DropTwice ==
    ASSUME NEW R, NEW p \in Seq(R), NEW m \in 0 .. Len(p), NEW n \in 0 .. (Len(p) - m)
    PROVE  Drop(Drop(p, m), n) = Drop(p, m + n)
<1> DEFINE q == Drop(p, m)
           s == Drop(q, n)
           t == Drop(p, m + n)
<1>0. Len(p) \in Nat /\ m \in Nat /\ n \in Nat /\ m + n \in 0 .. Len(p)
  OBVIOUS
<1>1. q \in Seq(R) /\ Len(q) = Len(p) - m /\ \A i \in 1 .. (Len(p) - m) : q[i] = p[m + i]
  BY DropFacts
<1> HIDE DEF q
<1>2. /\ s \in Seq(R) /\ Len(s) = Len(q) - n
      /\ \A i \in 1 .. (Len(q) - n) : s[i] = q[n + i]
  <2>1. n \in 0 .. Len(q)
    BY <1>0, <1>1
  <2>2. q \in Seq(R)
    BY <1>1
  <2> QED BY <2>1, <2>2, DropFacts
<1>3. /\ t \in Seq(R) /\ Len(t) = Len(p) - (m + n)
      /\ \A i \in 1 .. (Len(p) - (m + n)) : t[i] = p[(m + n) + i]
  BY <1>0, DropFacts
<1> HIDE DEF s, t
<1>4. Len(s) = Len(t)
  BY <1>0, <1>1, <1>2, <1>3
<1>5. ASSUME NEW i \in 1 .. Len(s) PROVE s[i] = t[i]
  <2>1. /\ i \in 1 .. (Len(q) - n) /\ n + i \in 1 .. (Len(p) - m)
        /\ i \in 1 .. (Len(p) - (m + n)) /\ m + (n + i) = (m + n) + i
    BY <1>0, <1>1, <1>2
  <2> QED BY <2>1, <1>1, <1>2, <1>3
<1>6. s = t
  BY <1>2, <1>3, <1>4, <1>5, SameSequence
<1> QED BY <1>6 DEF q, s, t

(* Nothing dropped. *)
LEMMA DropNothing ==
    ASSUME NEW R, NEW p \in Seq(R)
    PROVE  Drop(p, 0) = p
BY DEF Drop

(* What a path is before its letters are folded: its end, from a place on, *)
(* and no "./" leads it; of a path that does not end in a slash something  *)
(* is left.                                                                *)
LEMMA StrippedIsEnd ==
    ASSUME NEW R, NEW p \in Seq(R)
    PROVE  \E m \in 0 .. Len(p) :
              /\ Undotted(Unverbatim(p)) = Drop(p, m)
              /\ ~StartsWith(Drop(p, m), DotSlash)
              /\ p # << >> /\ p[Len(p)] # Slash => m < Len(p)
<1>1. PICK a \in 0 .. Len(p) :
         /\ Unverbatim(p) = Drop(p, a)
         /\ a # 0 => p[a] = Slash
  <2>1. CASE Verbatim(p)
    BY <2>1, UnverbatimCases, 4 \in 0 .. Len(p) DEF Verbatim
  <2>2. CASE ~Verbatim(p)
    BY <2>2, UnverbatimCases, DropNothing, 0 \in 0 .. Len(p)
  <2> QED BY <2>1, <2>2
<1> DEFINE q == Drop(p, a)
<1>2. /\ q \in Seq(R) /\ Len(q) = Len(p) - a /\ Len(p) \in Nat
      /\ \A i \in 1 .. (Len(p) - a) : q[i] = p[a + i]
  BY DropFacts
<1>3. PICK k \in Stops(q) :
         /\ 2 * k <= Len(q)
         /\ Undotted(q) = Drop(q, 2 * k)
         /\ ~StartsWith(Drop(q, 2 * k), DotSlash)
         /\ \A j \in 0 .. (k - 1) : StartsWith(Drop(q, 2 * j), DotSlash)
  <2> HIDE DEF q
  <2> QED BY <1>2, FirstStop
<1>4. k \in Nat
  BY <1>2 DEF Stops
<1>5. 2 * k \in 0 .. (Len(p) - a) /\ a + 2 * k \in 0 .. Len(p)
  BY <1>2, <1>3, <1>4
<1>6. Drop(q, 2 * k) = Drop(p, a + 2 * k)
  BY <1>5, DropTwice
<1>7. ASSUME p # << >>, p[Len(p)] # Slash PROVE a + 2 * k < Len(p)
  <2> SUFFICES ASSUME a + 2 * k = Len(p) PROVE FALSE
    BY <1>2, <1>5
  <2>1. k # 0
    BY <1>1, <1>2, <1>7
  <2> DEFINE i == 2 * (k - 1)
             s == Drop(q, i)
  <2>2. k - 1 \in 0 .. (k - 1) /\ i \in 0 .. Len(q) /\ i + 2 = Len(q) /\ Len(q) - i = 2
    BY <1>2, <1>4, <2>1
  <2> HIDE DEF i, q
  <2>3. /\ s \in Seq(R) /\ Len(s) = Len(q) - i
        /\ \A j \in 1 .. (Len(q) - i) : s[j] = q[i + j]
    BY <1>2, <2>2, DropFacts
  <2>4. StartsWith(s, DotSlash)
    BY <1>3, <2>2 DEF i
  <2> HIDE DEF s
  <2>5. s[2] = Slash
    BY <2>3, <2>4, PairStart DEF DotSlash
  <2>6. s[2] = q[Len(q)]
    BY <1>2, <2>2, <2>3
  <2>7. q[Len(q)] = p[Len(p)]
    <3>1. Len(q) \in 1 .. (Len(p) - a) /\ a + Len(q) = Len(p)
      BY <1>2, <1>5, <2>2
    <3> QED BY <1>2, <3>1
  <2> QED BY <1>7, <2>5, <2>6, <2>7
<1> QED BY <1>1, <1>3, <1>5, <1>6, <1>7

(* What is left of a sequence is a suffix of it. *)
LEMMA DropIsSuffix ==
    ASSUME NEW R, NEW p \in Seq(R), NEW m \in 0 .. Len(p)
    PROVE  IsSuffix(Drop(p, m), p)
<1> DEFINE q == Drop(p, m)
           a == Reverse(q)
           b == Reverse(p)
<1>1. /\ q \in Seq(R) /\ Len(q) = Len(p) - m /\ m \in Nat /\ Len(p) \in Nat
      /\ \A i \in 1 .. Len(q) : q[i] = p[m + i]
  BY DropFacts
<1> HIDE DEF q
<1>2. a \in Seq(R) /\ Len(a) = Len(q) /\ \A i \in 1 .. Len(q) : a[i] = q[(Len(q) - i) + 1]
  BY <1>1 DEF Reverse
<1>3. b \in Seq(R) /\ Len(b) = Len(p) /\ \A i \in 1 .. Len(p) : b[i] = p[(Len(p) - i) + 1]
  BY DEF Reverse
<1> HIDE DEF a, b
<1> DEFINE u == SubSeq(a, 1, Len(a))
           v == SubSeq(b, 1, Len(a))
<1>4. Len(a) <= Len(b) /\ Len(a) \in Nat
  BY <1>1, <1>2, <1>3
<1>5. u \in Seq(R) /\ Len(u) = Len(a) /\ \A i \in 1 .. Len(a) : u[i] = a[i]
  BY <1>2, <1>4
<1>6. v \in Seq(R) /\ Len(v) = Len(a) /\ \A i \in 1 .. Len(a) : v[i] = b[i]
  BY <1>3, <1>4
<1>7. ASSUME NEW i \in 1 .. Len(a) PROVE a[i] = b[i]
  <2>1. /\ i \in 1 .. Len(q) /\ i \in 1 .. Len(p) /\ (Len(q) - i) + 1 \in 1 .. Len(q)
        /\ m + ((Len(q) - i) + 1) = (Len(p) - i) + 1
    BY <1>1, <1>2
  <2> QED BY <2>1, <1>1, <1>2, <1>3
<1> HIDE DEF u, v
<1>8. u = v
  BY <1>5, <1>6, <1>7, SameSequence
<1> QED BY <1>4, <1>8 DEF IsSuffix, IsPrefix, q, a, b, u, v

(* The folded letters. *)
LEMMA FoldedFacts ==
    ASSUME NEW R, NEW p \in Seq(R)
    PROVE  /\ Folded(p) \in Seq(R \cup {"c"}) /\ Len(Folded(p)) = Len(p)
           /\ DOMAIN Folded(p) = 1 .. Len(p)
           /\ \A i \in 1 .. Len(p) : Folded(p)[i] = IF p[i] = "C" THEN "c" ELSE p[i]
BY DEF Folded

(* Folding what is left is what is left of the folded. *)
LEMMA FoldedDrop ==
    ASSUME NEW R, NEW p \in Seq(R), NEW m \in 0 .. Len(p)
    PROVE  Folded(Drop(p, m)) = Drop(Folded(p), m)
<1> DEFINE q == Drop(p, m)
           f == Folded(p)
           s == Folded(q)
           t == Drop(f, m)
           A == R \cup {"c"}
<1>1. /\ q \in Seq(R) /\ Len(q) = Len(p) - m /\ m \in Nat /\ Len(p) \in Nat
      /\ \A i \in 1 .. (Len(p) - m) : q[i] = p[m + i]
  BY DropFacts
<1>2. /\ f \in Seq(A) /\ Len(f) = Len(p)
      /\ \A i \in 1 .. Len(p) : f[i] = IF p[i] = "C" THEN "c" ELSE p[i]
  BY FoldedFacts
<1> HIDE DEF q, f
<1>3. /\ s \in Seq(A) /\ Len(s) = Len(q)
      /\ \A i \in 1 .. Len(q) : s[i] = IF q[i] = "C" THEN "c" ELSE q[i]
  BY <1>1, FoldedFacts
<1> HIDE DEF A
<1>4. t \in Seq(A) /\ Len(t) = Len(f) - m /\ \A i \in 1 .. (Len(f) - m) : t[i] = f[m + i]
  BY <1>2, DropFacts
<1> HIDE DEF s, t
<1>5. Len(s) = Len(t)
  BY <1>1, <1>2, <1>3, <1>4
<1>6. ASSUME NEW i \in 1 .. Len(s) PROVE s[i] = t[i]
  <2>1. /\ i \in 1 .. Len(q) /\ i \in 1 .. (Len(p) - m) /\ i \in 1 .. (Len(f) - m)
        /\ m + i \in 1 .. Len(p)
    BY <1>1, <1>2, <1>3
  <2>2. s[i] = IF q[i] = "C" THEN "c" ELSE q[i]
    BY <1>3, <2>1
  <2>3. t[i] = f[m + i] /\ q[i] = p[m + i]
    BY <1>1, <1>4, <2>1
  <2>4. f[m + i] = IF p[m + i] = "C" THEN "c" ELSE p[m + i]
    BY <1>2, <2>1
  <2> QED BY <2>2, <2>3, <2>4
<1>7. s = t
  BY <1>3, <1>4, <1>5, <1>6, SameSequence
<1> QED BY <1>7 DEF q, f, s, t

(* What the code takes for a Windows path is one. *)
LEMMA WindowsPaths ==
    ASSUME NEW R, NEW p \in Seq(R)
    PROVE  IsWindows(p) <=> NamesWindowsPath(p)
<1>1. StartsWith(p, << Slash, Slash >>) <=> Len(p) >= 2 /\ p[1] = Slash /\ p[2] = Slash
  BY PairStart
<1>2. ASSUME Len(p) >= 3
      PROVE  Has(Drop(p, 3), Slash) <=> \E i \in 4 .. Len(p) : p[i] = Slash
  <2> DEFINE q == Drop(p, 3)
  <2>1. /\ DOMAIN q = 1 .. (Len(p) - 3) /\ Len(p) \in Nat
        /\ \A i \in 1 .. (Len(p) - 3) : q[i] = p[3 + i]
    BY <1>2, DropFacts
  <2> HIDE DEF q
  <2>2. ASSUME Has(q, Slash) PROVE \E i \in 4 .. Len(p) : p[i] = Slash
    <3>1. PICK i \in 1 .. (Len(p) - 3) : q[i] = Slash
      BY <2>1, <2>2 DEF Has
    <3>2. 3 + i \in 4 .. Len(p) /\ p[3 + i] = Slash
      BY <2>1, <3>1
    <3> QED BY <3>2
  <2>3. ASSUME NEW i \in 4 .. Len(p), p[i] = Slash PROVE Has(q, Slash)
    <3>1. i - 3 \in 1 .. (Len(p) - 3) /\ 3 + (i - 3) = i
      BY <2>1
    <3>2. q[i - 3] = Slash
      BY <2>1, <2>3, <3>1
    <3> QED BY <2>1, <3>1, <3>2 DEF Has
  <2> QED BY <2>2, <2>3 DEF q
<1>3. ASSUME NEW i \in 4 .. Len(p) PROVE Len(p) >= 3
  OBVIOUS
<1> QED BY <1>1, <1>2, <1>3 DEF IsWindows, HasDrive, NamesWindowsPath

(* Folding a path changes neither what it names nor its "./". *)
LEMMA FoldedPath ==
    ASSUME NEW R, NEW p \in Seq(R)
    PROVE  /\ NamesWindowsPath(Folded(p)) <=> NamesWindowsPath(p)
           /\ StartsWith(Folded(p), DotSlash) <=> StartsWith(p, DotSlash)
           /\ ~Has(Folded(p), "C")
           /\ ~Has(p, Backslash) => ~Has(Folded(p), Backslash)
<1> DEFINE f == Folded(p)
<1>1. /\ f \in Seq(R \cup {"c"}) /\ Len(f) = Len(p) /\ Len(p) \in Nat
      /\ DOMAIN f = 1 .. Len(p) /\ DOMAIN p = 1 .. Len(p)
      /\ \A i \in 1 .. Len(p) : f[i] = IF p[i] = "C" THEN "c" ELSE p[i]
  BY FoldedFacts
<1> HIDE DEF f
<1>2. \A i \in 1 .. Len(p) : /\ f[i] = Slash <=> p[i] = Slash
                             /\ f[i] = "." <=> p[i] = "."
                             /\ f[i] = ":" <=> p[i] = ":"
                             /\ f[i] \in Letter <=> p[i] \in Letter
                             /\ f[i] # "C"
                             /\ f[i] = Backslash => p[i] = Backslash
  BY <1>1 DEF Slash, Backslash, Letter
<1>3. NamesWindowsPath(f) <=> NamesWindowsPath(p)
  BY <1>1, <1>2 DEF NamesWindowsPath
<1>4. StartsWith(f, DotSlash) <=> StartsWith(p, DotSlash)
  <2>1. StartsWith(f, << ".", Slash >>) <=> Len(f) >= 2 /\ f[1] = "." /\ f[2] = Slash
    BY <1>1, PairStart
  <2>2. StartsWith(p, << ".", Slash >>) <=> Len(p) >= 2 /\ p[1] = "." /\ p[2] = Slash
    BY PairStart
  <2> QED BY <2>1, <2>2, <1>1, <1>2 DEF DotSlash
<1> QED BY <1>1, <1>2, <1>3, <1>4 DEF Has, f

(* A path with one kind of separator. *)
LEMMA SlashedFacts ==
    ASSUME NEW R, NEW p \in Seq(R)
    PROVE  /\ Slashed(p) \in Seq(R \cup {Slash}) /\ Len(Slashed(p)) = Len(p)
           /\ DOMAIN Slashed(p) = 1 .. Len(p)
           /\ \A i \in 1 .. Len(p) :
                 Slashed(p)[i] = IF p[i] = Backslash THEN Slash ELSE p[i]
BY DEF Slashed

(* A sequence made of two, place by place. *)
LEMMA ConcatFacts ==
    ASSUME NEW R, NEW a \in Seq(R), NEW b \in Seq(R)
    PROVE  /\ a \o b \in Seq(R) /\ Len(a \o b) = Len(a) + Len(b)
           /\ \A i \in 1 .. Len(a) : (a \o b)[i] = a[i]
           /\ \A i \in 1 .. Len(b) : (a \o b)[Len(a) + i] = b[i]
OBVIOUS

(* The separators of a path are those of its parts. *)
LEMMA SlashedConcat ==
    ASSUME NEW R, NEW a \in Seq(R), NEW b \in Seq(R)
    PROVE  Slashed(a \o b) = Slashed(a) \o Slashed(b)
<1> DEFINE A == R \cup {Slash}
           p == a \o b
           u == Slashed(p)
           x == Slashed(a)
           y == Slashed(b)
           v == x \o y
<1>0. Len(a) \in Nat /\ Len(b) \in Nat
  OBVIOUS
<1>1. /\ p \in Seq(R) /\ Len(p) = Len(a) + Len(b)
      /\ \A i \in 1 .. Len(a) : p[i] = a[i]
      /\ \A i \in 1 .. Len(b) : p[Len(a) + i] = b[i]
  BY ConcatFacts
<1> HIDE DEF p
<1>2. /\ u \in Seq(A) /\ Len(u) = Len(p)
      /\ \A i \in 1 .. Len(p) : u[i] = IF p[i] = Backslash THEN Slash ELSE p[i]
  BY <1>1, SlashedFacts
<1>3. /\ x \in Seq(A) /\ Len(x) = Len(a)
      /\ \A i \in 1 .. Len(a) : x[i] = IF a[i] = Backslash THEN Slash ELSE a[i]
  BY SlashedFacts
<1>4. /\ y \in Seq(A) /\ Len(y) = Len(b)
      /\ \A i \in 1 .. Len(b) : y[i] = IF b[i] = Backslash THEN Slash ELSE b[i]
  BY SlashedFacts
<1> HIDE DEF A, u, x, y
<1>5. /\ v \in Seq(A) /\ Len(v) = Len(x) + Len(y)
      /\ \A i \in 1 .. Len(x) : v[i] = x[i]
      /\ \A i \in 1 .. Len(y) : v[Len(x) + i] = y[i]
  <2>1. x \in Seq(A) /\ y \in Seq(A)
    BY <1>3, <1>4
  <2> QED BY <2>1, ConcatFacts
<1> HIDE DEF v
<1>6. Len(u) = Len(v)
  BY <1>1, <1>2, <1>3, <1>4, <1>5
<1>7. ASSUME NEW i \in 1 .. Len(u) PROVE u[i] = v[i]
  <2>1. CASE i <= Len(a)
    <3>1. i \in 1 .. Len(a) /\ i \in 1 .. Len(p) /\ i \in 1 .. Len(x)
      BY <1>0, <1>1, <1>2, <1>3, <2>1
    <3> QED BY <3>1, <1>1, <1>2, <1>3, <1>5
  <2>2. CASE ~(i <= Len(a))
    <3> DEFINE j == i - Len(a)
    <3>1. j \in 1 .. Len(b) /\ i \in 1 .. Len(p) /\ j \in 1 .. Len(y) /\ i = Len(a) + j
      BY <1>0, <1>1, <1>2, <1>4, <2>2
    <3> HIDE DEF j
    <3>2. p[i] = b[j] /\ v[i] = y[j]
      BY <3>1, <1>1, <1>3, <1>5
    <3> QED BY <3>1, <3>2, <1>2, <1>4
  <2> QED BY <2>1, <2>2
<1>8. u = v
  BY <1>2, <1>5, <1>6, <1>7, SameSequence
<1> QED BY <1>8 DEF p, u, v, x, y

(* Dropping within the first of two sequences. *)
LEMMA DropConcat ==
    ASSUME NEW R, NEW a \in Seq(R), NEW b \in Seq(R), NEW m \in 0 .. Len(a)
    PROVE  Drop(a \o b, m) = Drop(a, m) \o b
<1> DEFINE p == a \o b
           u == Drop(p, m)
           x == Drop(a, m)
           v == x \o b
<1>0. Len(a) \in Nat /\ Len(b) \in Nat /\ m \in Nat
  OBVIOUS
<1>1. /\ p \in Seq(R) /\ Len(p) = Len(a) + Len(b)
      /\ \A i \in 1 .. Len(a) : p[i] = a[i]
      /\ \A i \in 1 .. Len(b) : p[Len(a) + i] = b[i]
  BY ConcatFacts
<1> HIDE DEF p
<1>2. /\ u \in Seq(R) /\ Len(u) = Len(p) - m
      /\ \A i \in 1 .. (Len(p) - m) : u[i] = p[m + i]
  <2>1. m \in 0 .. Len(p)
    BY <1>0, <1>1
  <2> QED BY <2>1, <1>1, DropFacts
<1>3. /\ x \in Seq(R) /\ Len(x) = Len(a) - m
      /\ \A i \in 1 .. (Len(a) - m) : x[i] = a[m + i]
  BY DropFacts
<1> HIDE DEF u, x
<1>5. /\ v \in Seq(R) /\ Len(v) = Len(x) + Len(b)
      /\ \A i \in 1 .. Len(x) : v[i] = x[i]
      /\ \A i \in 1 .. Len(b) : v[Len(x) + i] = b[i]
  <2>1. x \in Seq(R) /\ b \in Seq(R)
    BY <1>3
  <2> QED BY <2>1, ConcatFacts
<1> HIDE DEF v
<1>6. Len(u) = Len(v)
  BY <1>0, <1>1, <1>2, <1>3, <1>5
<1>7. ASSUME NEW i \in 1 .. Len(u) PROVE u[i] = v[i]
  <2>0. m <= Len(a)
    OBVIOUS
  <2>1. CASE i <= Len(a) - m
    <3>1. i \in 1 .. (Len(a) - m) /\ i \in 1 .. (Len(p) - m) /\ i \in 1 .. Len(x)
      BY <1>0, <1>1, <1>2, <1>3, <2>1
    <3>2. m + i \in 1 .. Len(a)
      BY <1>0, <3>1
    <3> QED BY <3>1, <3>2, <1>1, <1>2, <1>3, <1>5
  <2>2. CASE ~(i <= Len(a) - m)
    <3> DEFINE j == i - (Len(a) - m)
    <3>1. /\ j \in 1 .. Len(b) /\ i \in 1 .. (Len(p) - m) /\ i = Len(x) + j
          /\ m + i = Len(a) + j
      BY <1>0, <1>1, <1>2, <1>3, <2>2
    <3> HIDE DEF j
    <3>2. u[i] = p[m + i] /\ p[Len(a) + j] = b[j] /\ v[Len(x) + j] = b[j]
      BY <3>1, <1>1, <1>2, <1>5
    <3> QED BY <3>1, <3>2
  <2> QED BY <2>1, <2>2
<1>8. u = v
  BY <1>2, <1>5, <1>6, <1>7, SameSequence
<1> QED BY <1>8 DEF p, u, v, x

(* All of the first of two sequences dropped. *)
LEMMA DropFirst ==
    ASSUME NEW R, NEW a \in Seq(R), NEW b \in Seq(R)
    PROVE  Drop(a \o b, Len(a)) = b
<1> DEFINE x == Drop(a, Len(a))
<1>1. x \in Seq(R) /\ Len(x) = 0 /\ Len(a) \in 0 .. Len(a)
  BY DropFacts
<1> HIDE DEF x
<1>2. x \o b = b
  BY <1>1
<1>3. Drop(a \o b, Len(a)) = x \o b
  BY <1>1, DropConcat DEF x
<1> QED BY <1>2, <1>3

(* Any number of "./" before a path is stripped. *)
LEMMA LeadingDots ==
    ASSUME NEW R, NEW dots \in Seq(R), NEW b \in Seq(R), Len(dots) % 2 = 0,
           \A i \in DOMAIN dots : dots[i] = IF i % 2 = 1 THEN "." ELSE Slash
    PROVE  Undotted(dots \o b) = Undotted(b)
<1> DEFINE s == dots \o b
           n == Len(dots) \div 2
<1>1. n \in Nat /\ Len(dots) = 2 * n
  OBVIOUS
<1> HIDE DEF n
<1>2. /\ s \in Seq(R) /\ Len(s) = Len(dots) + Len(b) /\ Len(b) \in Nat
      /\ \A i \in 1 .. Len(dots) : s[i] = dots[i]
  BY ConcatFacts
<1>3. Drop(s, 2 * n) = b
  BY <1>1, DropFirst
<1> HIDE DEF s
<1>4. ASSUME NEW i \in 0 .. (n - 1) PROVE StartsWith(Drop(s, 2 * i), DotSlash)
  <2> DEFINE q == Drop(s, 2 * i)
  <2>1. 2 * i \in 0 .. Len(s) /\ Len(s) - 2 * i >= 2
    BY <1>1, <1>2
  <2>2. /\ q \in Seq(R) /\ Len(q) = Len(s) - 2 * i
        /\ \A k \in 1 .. (Len(s) - 2 * i) : q[k] = s[2 * i + k]
    BY <1>2, <2>1, DropFacts
  <2> HIDE DEF q
  <2>3. q[1] = s[2 * i + 1] /\ q[2] = s[2 * i + 2]
    BY <1>2, <2>1, <2>2
  <2>4. 2 * i + 1 \in 1 .. Len(dots) /\ 2 * i + 2 \in 1 .. Len(dots)
    BY <1>1
  <2>5. (2 * i + 1) % 2 = 1 /\ (2 * i + 2) % 2 = 0
    BY <1>1
  <2>6. dots[2 * i + 1] = "." /\ dots[2 * i + 2] = Slash
    BY <2>4, <2>5, DOMAIN dots = 1 .. Len(dots)
  <2>7. Len(q) >= 2 /\ q[1] = "." /\ q[2] = Slash
    BY <1>2, <2>1, <2>2, <2>3, <2>4, <2>6
  <2>8. StartsWith(q, << ".", Slash >>)
    BY <2>2, <2>7, PairStart
  <2> QED BY <2>8 DEF DotSlash, q
<1>5. PICK k \in Stops(s) :
         /\ 2 * k <= Len(s)
         /\ Undotted(s) = Drop(s, 2 * k)
         /\ ~StartsWith(Drop(s, 2 * k), DotSlash)
         /\ \A i \in 0 .. (k - 1) : StartsWith(Drop(s, 2 * i), DotSlash)
  BY <1>2, FirstStop
<1>6. PICK j \in Stops(b) :
         /\ \A i \in Stops(b) : j <= i
         /\ 2 * j <= Len(b)
         /\ Undotted(b) = Drop(b, 2 * j)
         /\ ~StartsWith(Drop(b, 2 * j), DotSlash)
  BY FirstStop
<1>7. k \in Nat /\ j \in Nat
  BY <1>2 DEF Stops
<1>8. k >= n
  <2>1. k \notin 0 .. (n - 1)
    BY <1>4, <1>5
  <2> QED BY <1>1, <1>7, <2>1
<1>9. ASSUME NEW i \in Nat, 2 * i <= Len(b)
      PROVE  Drop(s, 2 * (n + i)) = Drop(b, 2 * i)
  <2>1. /\ 2 * n \in 0 .. Len(s) /\ 2 * i \in 0 .. (Len(s) - 2 * n)
        /\ 2 * (n + i) = 2 * n + 2 * i
    BY <1>1, <1>2, <1>9
  <2>2. Drop(Drop(s, 2 * n), 2 * i) = Drop(s, 2 * n + 2 * i)
    BY <1>2, <2>1, DropTwice
  <2> QED BY <1>3, <2>1, <2>2
<1>10. k - n \in Nat /\ 2 * (k - n) <= Len(b) /\ n + (k - n) = k /\ k - n \in 0 .. Len(b)
  BY <1>1, <1>2, <1>5, <1>7, <1>8
<1>11. Drop(s, 2 * k) = Drop(b, 2 * (k - n))
  BY <1>9, <1>10
<1>12. k - n \in Stops(b)
  BY <1>5, <1>10, <1>11 DEF Stops
<1>13. j <= k - n
  BY <1>6, <1>12
<1>14. ~(n + j \in 0 .. (k - 1))
  BY <1>5, <1>6, <1>7, <1>9
<1>15. j = k - n
  BY <1>1, <1>7, <1>10, <1>13, <1>14
<1> QED BY <1>5, <1>6, <1>11, <1>15 DEF s

(* The form of a path behind a stripped prefix is the form of the path. *)
LEMMA BehindPrefix ==
    ASSUME NEW prefix \in Seq(Char), NEW body \in Seq(Char),
           IsStripped(Slashed(prefix)), IsComponent(body)
    PROVE  normalize_path(prefix \o body) = normalize_path(body)
<1> DEFINE R == Char \cup {Slash}
           a == Slashed(prefix)
           b == Slashed(body)
           s == a \o b
           dots == Unverbatim(a)
<1>1. /\ a \in Seq(R) /\ b \in Seq(R) /\ Len(a) \in Nat /\ Len(b) \in Nat
      /\ Slashed(prefix \o body) = s
  <2>1. a \in Seq(R) /\ b \in Seq(R)
    BY SlashedFacts
  <2>2. Slashed(prefix \o body) = s
    BY SlashedConcat
  <2> HIDE DEF R, a, b, s
  <2> QED BY <2>1, <2>2
<1>2. b # << >> /\ b[1] # Slash
  <2>1. Len(body) \in Nat /\ Len(body) >= 1 /\ body[1] \notin {Slash, Backslash}
    BY DEF IsComponent, IsSeparator
  <2>2. Len(b) = Len(body) /\ b[1] = IF body[1] = Backslash THEN Slash ELSE body[1]
    <3>1. 1 \in 1 .. Len(body)
      BY <2>1
    <3> QED BY <3>1, SlashedFacts
  <2> HIDE DEF b
  <2> QED BY <2>1, <2>2
<1>3. Len(dots) % 2 = 0 /\ \A i \in DOMAIN dots : dots[i] = IF i % 2 = 1 THEN "." ELSE Slash
  BY DEF IsStripped
<1> HIDE DEF R, a, b
<1>4. Len(b) >= 1
  BY <1>1, <1>2
<1>5. /\ s \in Seq(R) /\ Len(s) = Len(a) + Len(b)
      /\ \A i \in 1 .. Len(a) : s[i] = a[i]
      /\ \A i \in 1 .. Len(b) : s[Len(a) + i] = b[i]
  BY <1>1, ConcatFacts
<1>6. dots \in Seq(R) /\ Unverbatim(s) = dots \o b
  <2>1. CASE Verbatim(a)
    <3>1. 4 \in 0 .. Len(a) /\ dots = Drop(a, 4)
      BY <1>1, <2>1, UnverbatimCases DEF Verbatim
    <3>2. dots \in Seq(R)
      BY <1>1, <3>1, DropFacts
    <3>3. Verbatim(s)
      <4>1. /\ Len(s) >= 4 /\ 1 \in 1 .. Len(a) /\ 2 \in 1 .. Len(a)
            /\ 3 \in 1 .. Len(a) /\ 4 \in 1 .. Len(a)
        BY <1>1, <1>5, <2>1 DEF Verbatim
      <4>2. s[1] = a[1] /\ s[2] = a[2] /\ s[3] = a[3] /\ s[4] = a[4]
        BY <1>5, <4>1
      <4> HIDE DEF s
      <4> QED BY <2>1, <4>1, <4>2 DEF Verbatim
    <3>4. Drop(s, 4) = Drop(a, 4) \o b
      BY <1>1, <3>1, DropConcat
    <3>5. Unverbatim(s) = Drop(s, 4)
      <4> HIDE DEF s
      <4> QED BY <1>5, <3>3, UnverbatimCases
    <3> HIDE DEF s, dots
    <3> QED BY <3>1, <3>2, <3>4, <3>5
  <2>2. CASE ~Verbatim(a)
    <3>1. dots = a
      BY <1>1, <2>2, UnverbatimCases
    <3>2. s[1] # Slash
      <4> HIDE DEF s, dots
      <4>1. CASE Len(a) = 0
        BY <1>1, <1>2, <1>4, <1>5, <4>1
      <4>2. CASE Len(a) # 0
        <5>1. 1 \in DOMAIN a /\ 1 \in 1 .. Len(a) /\ 1 % 2 = 1
          BY <1>1, <4>2
        <5>2. a[1] = "."
          BY <1>3, <3>1, <5>1
        <5> QED BY <1>5, <5>1, <5>2 DEF Slash
      <4> QED BY <4>1, <4>2
    <3>3. ~Verbatim(s)
      BY <3>2 DEF Verbatim
    <3>4. Unverbatim(s) = s
      <4> HIDE DEF s
      <4> QED BY <1>5, <3>3, UnverbatimCases
    <3> QED BY <1>1, <3>1, <3>4
  <2> QED BY <2>1, <2>2
<1>7. Unverbatim(b) = b
  <2>1. ~Verbatim(b)
    BY <1>2 DEF Verbatim
  <2> QED BY <1>1, <2>1, UnverbatimCases
<1> HIDE DEF s, dots
<1>8. Undotted(dots \o b) = Undotted(b)
  BY <1>1, <1>3, <1>6, LeadingDots
<1> QED BY <1>1, <1>6, <1>7, <1>8 DEF normalize_path, b

(* A set of numbers up to n that holds 0 has a greatest member. *)
LEMMA Largest ==
    ASSUME NEW n \in Nat, NEW T \in SUBSET (0 .. n), 0 \in T
    PROVE  Max(T) \in T /\ \A y \in T : y <= Max(T)
<1> DEFINE U == {k \in 0 .. n : n - k \in T}
<1>1. U \in SUBSET Nat /\ n \in U
  BY DEF U
<1>2. PICK k \in U : \A j \in U : k <= j
  <2> HIDE DEF U
  <2> QED BY <1>1, Smallest
<1>3. n - k \in T /\ k \in 0 .. n
  OBVIOUS
<1>4. ASSUME NEW y \in T PROVE n - k >= y
  <2>1. n - y \in 0 .. n /\ n - (n - y) = y
    OBVIOUS
  <2>2. n - y \in U
    BY <2>1
  <2>3. k <= n - y
    BY <1>2, <2>2
  <2> QED BY <1>3, <2>1, <2>3
<1> DEFINE m == Max(T)
<1>5. m \in T /\ \A y \in T : m >= y
  BY <1>3, <1>4, Zenon DEF Max
<1> HIDE DEF m
<1>6. \A y \in T : y <= m
  BY <1>5
<1> QED BY <1>5, <1>6 DEF m

(* The base name is what stands between the last two separators, whatever  *)
(* number of them trails.                                                  *)
LEMMA BasenameIsLast ==
    ASSUME NEW R, NEW path \in Seq(R)
    PROVE  IsLastComponent(basename(path), path)
<1> DEFINE N == {0} \cup {i \in DOMAIN path : ~IsSeparator(path[i])}
           n == Max(N)
           t == SubSeq(path, 1, n)
           A == {0} \cup {i \in DOMAIN t : IsSeparator(t[i])}
           a == Max(A)
           base == Drop(t, a)
<1>1. Len(path) \in Nat /\ DOMAIN path = 1 .. Len(path)
  OBVIOUS
<1>2. n \in N /\ \A y \in N : y <= n
  <2>1. N \in SUBSET (0 .. Len(path)) /\ 0 \in N
    BY <1>1
  <2> HIDE DEF N
  <2> QED BY <1>1, <2>1, Largest
<1>3. t = Trimmed(path)
  BY DEF Trimmed
<1> HIDE DEF n
<1>4. n \in 0 .. Len(path)
  BY <1>1, <1>2
<1>5. \A k \in (n + 1) .. Len(path) : IsSeparator(path[k])
  <2> SUFFICES ASSUME NEW k \in (n + 1) .. Len(path), ~IsSeparator(path[k]) PROVE FALSE
    OBVIOUS
  <2>1. k \in 1 .. Len(path) /\ ~(k <= n)
    BY <1>1, <1>4
  <2>2. k \in N
    BY <1>1, <2>1
  <2> QED BY <1>2, <2>1, <2>2
<1>6. n # 0 => ~IsSeparator(path[n])
  BY <1>2
<1>7. /\ t \in Seq(R) /\ Len(t) = n /\ DOMAIN t = 1 .. n
      /\ \A i \in 1 .. n : t[i] = path[i]
  BY <1>4
<1> HIDE DEF N, t
<1>8. a \in A /\ \A y \in A : y <= a
  <2>1. n \in Nat /\ A \in SUBSET (0 .. n) /\ 0 \in A
    BY <1>4, <1>7
  <2> HIDE DEF A
  <2> QED BY <2>1, Largest
<1>9. base = basename(path)
  BY <1>3 DEF basename
<1> HIDE DEF a
<1>10. a \in 0 .. n
  BY <1>4, <1>7, <1>8
<1>11. a = 0 \/ IsSeparator(path[a])
  BY <1>7, <1>8
<1>12. \A k \in (a + 1) .. n : ~IsSeparator(path[k])
  <2> SUFFICES ASSUME NEW k \in (a + 1) .. n, IsSeparator(path[k]) PROVE FALSE
    OBVIOUS
  <2>1. k \in 1 .. n /\ ~(k <= a)
    BY <1>4, <1>10
  <2>2. k \in A
    BY <1>7, <2>1
  <2> QED BY <1>8, <2>1, <2>2
<1>13. /\ base \in Seq(R) /\ Len(base) = n - a /\ DOMAIN base = 1 .. (n - a)
       /\ \A i \in 1 .. (n - a) : base[i] = t[a + i]
  BY <1>7, <1>10, DropFacts
<1> HIDE DEF A, base
<1> DEFINE u == SubSeq(path, a + 1, n)
<1>14. base = u
  <2>1. u \in Seq(R) /\ Len(u) = n - a /\ \A i \in 1 .. (n - a) : u[i] = path[a + i]
    BY <1>1, <1>4, <1>10
  <2> HIDE DEF u
  <2>2. ASSUME NEW i \in 1 .. (n - a) PROVE base[i] = u[i]
    <3>1. a + i \in 1 .. n
      BY <1>4, <1>10
    <3> QED BY <2>1, <3>1, <1>7, <1>13
  <2> QED BY <1>13, <2>1, <2>2, SameSequence
<1>15. \A k \in DOMAIN base : ~IsSeparator(base[k])
  <2> SUFFICES ASSUME NEW k \in 1 .. (n - a) PROVE ~IsSeparator(base[k])
    BY <1>13
  <2>1. a + k \in (a + 1) .. n /\ a + k \in 1 .. n
    BY <1>4, <1>10
  <2> QED BY <2>1, <1>7, <1>12, <1>13
<1>16. base = << >> => \A k \in DOMAIN path : IsSeparator(path[k])
  <2> SUFFICES ASSUME base = << >> PROVE n = 0
    BY <1>1, <1>5
  <2>1. Len(base) = 0
    OBVIOUS
  <2>2. a = n
    BY <1>4, <1>10, <1>13, <2>1
  <2> QED BY <2>2, <1>6, <1>11
<1>17. a \in 0 .. Len(path)
  BY <1>4, <1>10
<1> HIDE DEF u
<1> QED BY <1>4, <1>5, <1>9, <1>11, <1>14, <1>15, <1>16, <1>17 DEF IsLastComponent, u

(* What is to hold of the normal form of every path. *)
LEMMA NormalForm ==
    ASSUME NEW T, NEW path \in Seq(T)
    PROVE  LET normal == normalize_path(path)
               source == Slashed(path)
           IN  /\ ~Has(normal, Backslash) /\ ~StartsWith(normal, << ".", Slash >>)
               /\ IF NamesWindowsPath(normal)
                  THEN ~Has(normal, "C") /\ IsSuffix(normal, Folded(source))
                  ELSE IsSuffix(normal, source)
               /\ ~Has(path, "E") => normalizePath(path) = normal
<1> DEFINE R == T \cup {Slash}
           source == Slashed(path)
           p == Undotted(Unverbatim(source))
           normal == normalize_path(path)
<1>1. /\ source \in Seq(R) /\ Len(source) = Len(path) /\ Len(path) \in Nat
      /\ \A i \in 1 .. Len(path) :
            source[i] = IF path[i] = Backslash THEN Slash ELSE path[i]
  BY SlashedFacts
<1>2. normal = IF IsWindows(p) THEN Folded(p) ELSE p
  BY DEF normalize_path
<1>3. normalizePath(path) = IF IsWindows(p) THEN toLowerCase(p) ELSE p
  BY DEF normalizePath
<1> HIDE DEF R, source
<1>4. PICK m \in 0 .. Len(source) : p = Drop(source, m) /\ ~StartsWith(p, DotSlash)
  BY <1>1, StrippedIsEnd
<1> HIDE DEF p, normal
<1>5. /\ p \in Seq(R) /\ Len(p) = Len(source) - m /\ DOMAIN p = 1 .. Len(p)
      /\ m \in Nat /\ Len(p) \in Nat
      /\ \A i \in 1 .. Len(p) : p[i] = source[m + i]
  <2> DEFINE q == Drop(source, m)
  <2>1. source \in Seq(R)
    BY <1>1
  <2>2. /\ q \in Seq(R) /\ Len(q) = Len(source) - m
        /\ DOMAIN q = 1 .. (Len(source) - m)
        /\ \A i \in 1 .. (Len(source) - m) : q[i] = source[m + i]
    BY <2>1, DropFacts
  <2>3. p = q
    BY <1>4
  <2> HIDE DEF q
  <2> QED BY <1>1, <2>2, <2>3
<1>6. ASSUME NEW i \in 1 .. Len(p)
      PROVE  p[i] # Backslash /\ (p[i] = "E" => Has(path, "E"))
  <2>1. m + i \in 1 .. Len(path)
    BY <1>1, <1>5
  <2>2. p[i] = IF path[m + i] = Backslash THEN Slash ELSE path[m + i]
    BY <2>1, <1>1, <1>5
  <2>3. m + i \in DOMAIN path
    BY <2>1
  <2> QED BY <2>2, <2>3 DEF Has, Slash, Backslash
<1>7. ~Has(p, Backslash)
  BY <1>5, <1>6 DEF Has
<1>8. /\ NamesWindowsPath(Folded(p)) <=> NamesWindowsPath(p)
      /\ StartsWith(Folded(p), DotSlash) <=> StartsWith(p, DotSlash)
      /\ ~Has(Folded(p), "C")
      /\ ~Has(Folded(p), Backslash)
  BY <1>5, <1>7, FoldedPath
<1>9. IsWindows(p) <=> NamesWindowsPath(p)
  BY <1>5, WindowsPaths
<1>10. ~Has(normal, Backslash) /\ ~StartsWith(normal, DotSlash)
  BY <1>2, <1>4, <1>7, <1>8
<1>11. NamesWindowsPath(normal) <=> IsWindows(p)
  BY <1>2, <1>8, <1>9
<1>12. IsSuffix(p, source)
  BY <1>1, <1>4, DropIsSuffix
<1>13. IsSuffix(Folded(p), Folded(source))
  <2> DEFINE f == Folded(source)
             A == R \cup {"c"}
  <2>1. f \in Seq(A) /\ Len(f) = Len(source)
    BY <1>1, FoldedFacts
  <2>2. Folded(p) = Drop(f, m)
    BY <1>1, <1>4, FoldedDrop
  <2> HIDE DEF f, A
  <2>3. m \in 0 .. Len(f)
    BY <2>1
  <2>4. IsSuffix(Drop(f, m), f)
    BY <2>1, <2>3, DropIsSuffix
  <2> QED BY <2>2, <2>4 DEF f
<1>14. IF NamesWindowsPath(normal)
       THEN ~Has(normal, "C") /\ IsSuffix(normal, Folded(source))
       ELSE IsSuffix(normal, source)
  BY <1>2, <1>8, <1>11, <1>12, <1>13
<1>15. ASSUME ~Has(path, "E") PROVE toLowerCase(p) = Folded(p)
  <2>1. toLowerCase(p) = [i \in DOMAIN p |-> Folded(p)[i]]
    BY <1>5, <1>6, <1>15 DEF toLowerCase
  <2>2. Folded(p) = [i \in DOMAIN p |-> Folded(p)[i]]
    BY DEF Folded
  <2> QED BY <2>1, <2>2
<1>16. ~Has(path, "E") => normalizePath(path) = normal
  BY <1>2, <1>3, <1>15
<1> QED BY <1>10, <1>14, <1>16 DEF DotSlash, normal, source

(* For every path, of any length and over any characters: the engine and   *)
(* the page see one form of it, however it is spelt, and the base name is  *)
(* the last component.                                                     *)
THEOREM PathsHaveOneForm == Spec => []PathsAgree
<1>1. Init => PathsAgree
  <2> SUFFICES ASSUME Init, kind = "path" PROVE PathsAgree
    BY DEF PathsAgree
  <2>1. input.prefix \in Seq(Char) /\ input.body \in Seq(Char)
    BY CasesAssumption DEF Init
  <2> DEFINE path == input.prefix \o input.body
  <2>2. path \in Seq(Char)
    BY <2>1
  <2>3. IsStripped(Slashed(input.prefix)) /\ IsComponent(input.body)
           => normalize_path(path) = normalize_path(input.body)
    BY <2>1, BehindPrefix
  <2> HIDE DEF path
  <2>4. IsLastComponent(basename(path), path)
    BY <2>2, BasenameIsLast
  <2> QED BY <2>2, <2>3, <2>4, NormalForm DEF PathsAgree, path
<1>2. PathsAgree /\ [Next]_<< kind, input >> => PathsAgree'
  BY DEF Next, PathsAgree
<1> QED BY <1>1, <1>2, PTL DEF Spec

----------------------------------------------------------------------------
(* Verdicts. *)

(* What the engine says of a connection. *)
LEMMA ConnectVerdict ==
    ASSUME NEW record, NEW rules, NEW d, record.kind = "net_connect",
           d = IF record.daddr = {} THEN [kind |-> "text", text |-> << << >> >>]
               ELSE CHOOSE x \in record.daddr : TRUE
    PROVE  /\ Raises("NET_DENIED", record, rules)
                 <=> \E h \in rules.denied_hosts : destination_matches(h, d)
           /\ Raises("NET_WARN", record, rules)
                 <=> /\ \E h \in rules.warn_hosts : destination_matches(h, d)
                     /\ ~\E h \in rules.denied_hosts : destination_matches(h, d)
<1> DEFINE event == Kernel!widen(record)
<1>1. event = [type |-> "net_connect", tgid |-> record.tgid, daddr |-> d]
  BY DEF Kernel!widen, Kernel!unwrap_or
<1>2. event # Kernel!NoEvent
  BY <1>1 DEF Kernel!NoEvent
<1>3. Verdict(record, rules) = Engine!eval_net_connect(d, rules)
  BY <1>1, <1>2 DEF Verdict, Engine!eval_event
<1>4. Verdict(record, rules) =
         IF \E h \in rules.denied_hosts : destination_matches(h, d)
         THEN << [rule_id |-> "NET_DENIED", severity |-> "critical"] >>
         ELSE IF \E h \in rules.warn_hosts : destination_matches(h, d)
         THEN << [rule_id |-> "NET_WARN", severity |-> "medium"] >>
         ELSE << >>
  BY <1>3 DEF Engine!eval_net_connect, Engine!Breach
<1> QED BY <1>4 DEF Raises

(* Under the mask two addresses are one when their first bits are.         *)
LEMMA MaskKeepsPrefix ==
    ASSUME NEW f \in Families, NEW a \in Address(f), NEW b \in Address(f),
           NEW n \in 0 .. Width[f]
    PROVE  And(a, mask(f, n)) = And(b, mask(f, n)) <=> \A k \in 1 .. n : a[k] = b[k]
<1> DEFINE w == Width[f]
           m == mask(f, n)
<1>1. w \in Nat \ {0}
  BY WidthAssumption
<1> HIDE DEF w
<1>2. m = [k \in 1 .. w |-> IF k <= n THEN 1 ELSE 0]
  <2>1. CASE n = 0
    <3>1. m = [k \in 1 .. w |-> 0]
      BY <2>1 DEF mask, w
    <3> QED BY <2>1, <3>1
  <2>2. CASE n # 0
    <3>1. n \in 1 .. w
      BY <2>2 DEF w
    <3>2. (w - n) % w = w - n
      BY <1>1, <3>1
    <3>3. \A k \in 1 .. w : k + (w - n) <= w <=> k <= n
      BY <1>1, <3>1
    <3>4. m = [k \in 1 .. w |-> IF k + ((w - n) % w) <= w THEN 1 ELSE 0]
      BY <2>2 DEF mask, MaxShl, w
    <3> HIDE DEF m
    <3> QED BY <3>2, <3>3, <3>4
  <2> QED BY <2>1, <2>2
<1>3. a \in [1 .. w -> {0, 1}] /\ b \in [1 .. w -> {0, 1}]
  BY DEF Address, w
<1> HIDE DEF m
<1>4. ASSUME NEW c \in [1 .. w -> {0, 1}]
      PROVE  And(c, m) = [k \in 1 .. w |-> IF k <= n THEN c[k] ELSE 0]
  <2>1. And(c, m) = [k \in 1 .. w |-> c[k] * m[k]]
    BY DEF And
  <2>2. ASSUME NEW k \in 1 .. w PROVE c[k] * m[k] = IF k <= n THEN c[k] ELSE 0
    <3>1. c[k] \in {0, 1} /\ m[k] = IF k <= n THEN 1 ELSE 0
      BY <1>2
    <3>2. CASE k <= n
      BY <3>1, <3>2
    <3>3. CASE ~(k <= n)
      BY <3>1, <3>3
    <3> QED BY <3>2, <3>3
  <2> QED BY <2>1, <2>2
<1>5. n <= w /\ n \in Nat
  BY <1>1 DEF w
<1>6. And(a, m) = [k \in 1 .. w |-> IF k <= n THEN a[k] ELSE 0]
  BY <1>3, <1>4
<1>7. And(b, m) = [k \in 1 .. w |-> IF k <= n THEN b[k] ELSE 0]
  BY <1>3, <1>4
<1>8. ASSUME And(a, m) = And(b, m), NEW k \in 1 .. n PROVE a[k] = b[k]
  <2>1. k \in 1 .. w /\ k <= n
    BY <1>1, <1>5
  <2>2. And(a, m)[k] = a[k] /\ And(b, m)[k] = b[k]
    BY <2>1, <1>6, <1>7
  <2> QED BY <2>2, <1>8
<1>9. ASSUME \A k \in 1 .. n : a[k] = b[k] PROVE And(a, m) = And(b, m)
  <2>1. \A k \in 1 .. w : k <= n => a[k] = b[k]
    BY <1>1, <1>5, <1>9
  <2> QED BY <1>6, <1>7, <2>1
<1> QED BY <1>8, <1>9 DEF m

(* A host rule covers a destination exactly when the engine's comparison   *)
(* says so.                                                                *)
LEMMA CoversIsMatch ==
    ASSUME NEW h, IsHostRule(h), NEW d, IsHost(d)
    PROVE  destination_matches(h, d) <=> Covers(h, d)
<1>1. CASE ~(h.kind = "cidr" /\ d.kind = "ip")
  <2> DEFINE R == Char \cup {"0", "1"}
  <2>1. h.text \in Seq(Seq(Char))
    BY DEF IsHostRule, Text
  <2>2. h.text \in Seq(Seq(R))
    BY <2>1
  <2>3. TextOf(d) \in Seq(Seq(R))
    <3>1. CASE d \in [kind : {"text"}, text : Text]
      BY <3>1 DEF Text, TextOf
    <3>2. ASSUME NEW f \in Families, d \in [kind : {"ip"}, family : {f}, addr : Address(f)]
          PROVE  TextOf(d) \in Seq(Seq(R))
      <4> DEFINE digits == [k \in 1 .. Width[f] |-> IF d.addr[k] = 1 THEN "1" ELSE "0"]
      <4>1. TextOf(d) = << digits >>
        BY <3>2 DEF TextOf
      <4>2. Width[f] \in Nat
        BY WidthAssumption
      <4>3. digits \in Seq(R)
        BY <4>2
      <4> HIDE DEF digits, R
      <4> QED BY <4>1, <4>3
    <3> QED BY <3>1, <3>2 DEF IsHost
  <2> HIDE DEF R
  <2>4. match_segments(h.text, TextOf(d)) = TextMatches(h.text, TextOf(d))
    BY <2>2, <2>3, MatchSegments
  <2> QED BY <1>1, <2>4 DEF destination_matches, Covers, matches
<1>2. CASE h.kind = "cidr" /\ d.kind = "ip"
  <2>1. PICK f \in Families : /\ h.family = f /\ h.addr \in Address(f)
                              /\ h.prefix \in Nat
    BY <1>2 DEF IsHostRule
  <2>2. CASE d.family = f /\ h.prefix <= Width[f]
    <3>1. d.addr \in Address(f)
      BY <1>2, <2>2 DEF IsHost
    <3>2. h.prefix \in 0 .. Width[f]
      BY <2>1, <2>2, WidthAssumption
    <3>3. /\ And(h.addr, mask(f, h.prefix)) = And(d.addr, mask(f, h.prefix))
               <=> \A k \in 1 .. h.prefix : h.addr[k] = d.addr[k]
      BY <2>1, <3>1, <3>2, MaskKeepsPrefix
    <3> QED BY <1>2, <2>1, <2>2, <3>3 DEF destination_matches, Covers, InNetwork
  <2>3. CASE ~(d.family = f /\ h.prefix <= Width[f])
    BY <1>2, <2>1, <2>3 DEF destination_matches, Covers, InNetwork
  <2> QED BY <2>2, <2>3
<1> QED BY <1>1, <1>2

(* The last segment of a pattern fits the last segment of the text.        *)
LEMMA LastSegments ==
    ASSUME NEW R, NEW p \in Seq(Seq(R)), NEW t \in Seq(Seq(R)), TextMatches(p, t),
           p # << >>, p[Len(p)] # DoubleStar
    PROVE  t # << >> /\ SegmentMatches(p[Len(p)], t[Len(t)])
<1> DEFINE m == Len(p)
           n == Len(t)
<1>1. m \in Nat \ {0} /\ n \in Nat /\ m \in 1 .. m
  OBVIOUS
<1>2. Cut(m, n, SegWild(p), SegFits(p, t), 0, 0)
  BY TextCut
<1>3. ~SegWild(p)[m]
  BY <1>1 DEF SegWild
<1>4. PICK cut \in [0 .. m -> 0 .. n] :
         /\ cut[m] = n
         /\ \A i \in (0 + 1) .. m :
               IF SegWild(p)[i] THEN cut[i - 1] <= cut[i]
               ELSE cut[i] = cut[i - 1] + 1 /\ SegFits(p, t)[i][cut[i]]
  BY <1>2 DEF Cut
<1>5. cut[m] = cut[m - 1] + 1 /\ SegFits(p, t)[m][cut[m]]
  <2>1. m \in (0 + 1) .. m
    BY <1>1
  <2> QED BY <2>1, <1>3, <1>4
<1>6. cut[m - 1] \in 0 .. n
  <2>1. m - 1 \in 0 .. m
    BY <1>1
  <2> QED BY <2>1
<1>7. n >= 1
  BY <1>1, <1>4, <1>5, <1>6
<1>8. SegFits(p, t)[m][n] = SegmentMatches(p[m], t[n])
  BY <1>1, <1>7 DEF SegFits
<1>9. SegFits(p, t)[m][n]
  BY <1>4, <1>5
<1>10. t # << >>
  BY <1>7
<1> QED BY <1>8, <1>9, <1>10

(* A segment without wildcards ends as the text it matches.                *)
LEMMA LiteralLast ==
    ASSUME NEW R, NEW p \in Seq(R), NEW t \in Seq(R), SegmentMatches(p, t),
           Literal(p), t # << >>
    PROVE  p # << >> /\ p[Len(p)] = t[Len(t)]
<1> DEFINE m == Len(p)
           n == Len(t)
<1>1. m \in Nat /\ n \in Nat \ {0}
  OBVIOUS
<1>2. Cut(m, n, CharWild(p), CharFits(p, t), 0, 0)
  BY SegmentCut
<1>3. PICK cut \in [0 .. m -> 0 .. n] :
         /\ cut[0] = 0 /\ cut[m] = n
         /\ \A i \in (0 + 1) .. m :
               IF CharWild(p)[i] THEN cut[i - 1] <= cut[i]
               ELSE cut[i] = cut[i - 1] + 1 /\ CharFits(p, t)[i][cut[i]]
  BY <1>2 DEF Cut
<1>4. m # 0
  BY <1>1, <1>3
<1>5. m \in 1 .. m /\ p[m] \notin {"*", "?"} /\ n \in 1 .. n
  BY <1>1, <1>4 DEF Literal
<1>6. ~CharWild(p)[m]
  BY <1>5 DEF CharWild
<1>7. CharFits(p, t)[m][n]
  <2>1. m \in (0 + 1) .. m
    BY <1>5
  <2> QED BY <2>1, <1>3, <1>6
<1>8. CharFits(p, t)[m][n] = (p[m] \in {"?", t[n]})
  BY <1>5 DEF CharFits
<1>9. p[m] = t[n]
  BY <1>5, <1>7, <1>8
<1> QED BY <1>4, <1>9

(* Only stars match the empty segment. *)
LEMMA EmptySegment ==
    ASSUME NEW R, NEW p \in Seq(R), SegmentMatches(p, << >>)
    PROVE  \A k \in DOMAIN p : p[k] = "*"
<1> DEFINE m == Len(p)
           t == << >>
<1>1. m \in Nat /\ t \in Seq(R) /\ Len(t) = 0
  OBVIOUS
<1> HIDE DEF t
<1>2. Cut(m, 0, CharWild(p), CharFits(p, t), 0, 0)
  BY <1>1, SegmentCut DEF t
<1>3. PICK cut \in [0 .. m -> 0 .. 0] :
         \A i \in (0 + 1) .. m :
               IF CharWild(p)[i] THEN cut[i - 1] <= cut[i]
               ELSE cut[i] = cut[i - 1] + 1 /\ CharFits(p, t)[i][cut[i]]
  BY <1>2 DEF Cut
<1>4. ASSUME NEW k \in 1 .. m PROVE p[k] = "*"
  <2>1. cut[k] = 0 /\ cut[k - 1] = 0 /\ k \in (0 + 1) .. m
    <3>1. k \in 0 .. m /\ k - 1 \in 0 .. m /\ k \in (0 + 1) .. m
      BY <1>1
    <3>2. cut[k] \in 0 .. 0 /\ cut[k - 1] \in 0 .. 0
      BY <3>1
    <3> QED BY <3>1, <3>2
  <2>2. CharWild(p)[k]
    BY <1>3, <2>1
  <2> QED BY <2>2 DEF CharWild
<1> QED BY <1>4

(* Only wildcards match the empty text, the sentinel for what a probe      *)
(* could not read.                                                         *)
LEMMA EmptyText ==
    ASSUME NEW R, NEW p \in Seq(Seq(R)), TextMatches(p, << << >> >>)
    PROVE  Wildcards(p)
<1> DEFINE m == Len(p)
           t == << << >> >>
<1>1. m \in Nat /\ t \in Seq(Seq(R)) /\ Len(t) = 1 /\ t[1] = << >>
  OBVIOUS
<1> HIDE DEF t
<1>2. Cut(m, 1, SegWild(p), SegFits(p, t), 0, 0)
  BY <1>1, TextCut DEF t
<1>3. PICK cut \in [0 .. m -> 0 .. 1] :
         \A i \in (0 + 1) .. m :
               IF SegWild(p)[i] THEN cut[i - 1] <= cut[i]
               ELSE cut[i] = cut[i - 1] + 1 /\ SegFits(p, t)[i][cut[i]]
  BY <1>2 DEF Cut
<1>4. ASSUME NEW k \in 1 .. m PROVE \A i \in DOMAIN p[k] : p[k][i] = "*"
  <2>1. CASE p[k] = DoubleStar
    <3>1. DOMAIN DoubleStar = 1 .. 2 /\ DoubleStar[1] = "*" /\ DoubleStar[2] = "*"
      BY DEF DoubleStar
    <3> QED BY <2>1, <3>1
  <2>2. CASE p[k] # DoubleStar
    <3>1. ~SegWild(p)[k]
      BY <2>2 DEF SegWild
    <3>2. cut[k] \in 0 .. 1 /\ cut[k - 1] \in 0 .. 1 /\ k \in (0 + 1) .. m
      <4>1. k \in 0 .. m /\ k - 1 \in 0 .. m /\ k \in (0 + 1) .. m
        BY <1>1
      <4> QED BY <4>1
    <3>3. cut[k] = cut[k - 1] + 1 /\ SegFits(p, t)[k][cut[k]]
      BY <1>3, <3>1, <3>2
    <3>4. cut[k] = 1
      BY <3>2, <3>3
    <3>5. SegFits(p, t)[k][1] = SegmentMatches(p[k], t[1])
      BY <1>1 DEF SegFits
    <3>6. SegmentMatches(p[k], << >>) /\ p[k] \in Seq(R)
      BY <1>1, <3>3, <3>4, <3>5
    <3> QED BY <3>6, EmptySegment
  <2> QED BY <2>1, <2>2
<1> QED BY <1>4 DEF Wildcards

(* The members of S up to i. *)
Below(S, i) == {j \in S : j <= i}

(* The k-th smallest member of a set of numbers up to n. *)
LEMMA NthFacts ==
    ASSUME NEW n \in Nat, NEW S \in SUBSET (0 .. n), NEW k \in 1 .. Cardinality(S)
    PROVE  Nth(S, k) \in S /\ Cardinality(Below(S, Nth(S, k))) = k
<1>0. \A j \in S : j \in Int /\ 0 <= j /\ j <= n
  OBVIOUS
<1>1. IsFiniteSet(S) /\ Cardinality(S) \in Nat
  <2>1. IsFiniteSet(0 .. n)
    BY FS_Interval
  <2>2. IsFiniteSet(S)
    BY <2>1, FS_Subset
  <2> QED BY <2>2, FS_CardinalityType
<1>2. ASSUME NEW i \in Int
      PROVE  IsFiniteSet(Below(S, i)) /\ Cardinality(Below(S, i)) \in Nat
  <2>1. Below(S, i) \in SUBSET S
    BY DEF Below
  <2> QED BY <1>1, <2>1, FS_Subset, FS_CardinalityType
<1>3. ASSUME NEW i \in 0 .. n
      PROVE  Cardinality(Below(S, i)) =
                Cardinality(Below(S, i - 1)) + (IF i \in S THEN 1 ELSE 0)
  <2>0. i \in Int /\ i - 1 \in Int
    OBVIOUS
  <2>1. CASE i \in S
    <3>1. /\ \A j \in S : j <= i <=> j <= i - 1 \/ j = i
          /\ ~(i <= i - 1)
      BY <1>0, <2>0
    <3>2. Below(S, i) = Below(S, i - 1) \cup {i} /\ i \notin Below(S, i - 1)
      BY <2>1, <3>1 DEF Below
    <3>3. Cardinality(Below(S, i - 1) \cup {i}) = Cardinality(Below(S, i - 1)) + 1
      BY <1>2, <2>0, <3>2, FS_AddElement
    <3> QED BY <2>1, <3>2, <3>3
  <2>2. CASE i \notin S
    <3>0. \A j \in S : j <= i <=> j <= i - 1
      BY <1>0, <2>0, <2>2
    <3>1. Below(S, i) = Below(S, i - 1)
      BY <3>0 DEF Below
    <3>2. Cardinality(Below(S, i - 1)) \in Nat
      BY <1>2, <2>0
    <3> QED BY <2>2, <3>1, <3>2
  <2> QED BY <2>1, <2>2
<1> DEFINE T == {i \in 0 .. n : Cardinality(Below(S, i)) >= k}
<1>4. n \in T
  <2>0. \A j \in S : j <= n
    BY <1>0
  <2>1. Below(S, n) = S
    BY <2>0 DEF Below
  <2> QED BY <1>1, <2>1
<1>5. PICK i \in T : \A j \in T : i <= j
  <2>1. T \in SUBSET Nat
    OBVIOUS
  <2> HIDE DEF T
  <2> QED BY <1>4, <2>1, Smallest
<1>6. Cardinality(Below(S, i - 1)) < k
  <2>1. CASE i = 0
    <3>0. \A j \in S : ~(j <= i - 1)
      BY <1>0, <2>1
    <3>1. Below(S, i - 1) = {}
      BY <3>0 DEF Below
    <3> QED BY <3>1, FS_EmptySet
  <2>2. CASE i # 0
    <3>1. i - 1 \in 0 .. n /\ ~(i <= i - 1) /\ i - 1 \in Int
      BY <2>2
    <3>2. i - 1 \notin T
      BY <1>5, <3>1
    <3>3. Cardinality(Below(S, i - 1)) \in Nat
      BY <1>2, <3>1
    <3> QED BY <3>1, <3>2, <3>3
  <2> QED BY <2>1, <2>2
<1>7. Cardinality(Below(S, i - 1)) \in Nat
  BY <1>2
<1>8. i \in S /\ Cardinality(Below(S, i)) = k
  BY <1>3, <1>6, <1>7
<1>9. Cardinality({j \in S : j <= i}) = k
  BY <1>8 DEF Below
<1> DEFINE x == Nth(S, k)
<1>10. x \in S /\ Cardinality({j \in S : j <= x}) = k
  BY <1>8, <1>9, Zenon DEF Nth
<1> QED BY <1>10 DEF Below

(* Where split('/') cuts. *)
Cuts(p) == {0, Len(p) + 1} \cup {i \in DOMAIN p : p[i] = Slash}

(* A text is cut at its ends and at its slashes. *)
LEMMA CutsFacts ==
    ASSUME NEW R, NEW p \in Seq(R)
    PROVE  /\ Len(p) \in Nat /\ Cuts(p) \in SUBSET (0 .. (Len(p) + 1))
           /\ IsFiniteSet(Cuts(p)) /\ Cardinality(Cuts(p)) \in Nat
           /\ Cardinality(Cuts(p)) >= 2
           /\ Cardinality(Cuts(p) \ {Len(p) + 1}) = Cardinality(Cuts(p)) - 1
<1>1. Len(p) \in Nat /\ Cuts(p) \in SUBSET (0 .. (Len(p) + 1))
  BY DEF Cuts
<1>2. IsFiniteSet(0 .. (Len(p) + 1))
  BY <1>1, FS_Interval
<1>3. IsFiniteSet(Cuts(p))
  BY <1>1, <1>2, FS_Subset
<1>4. Cardinality(Cuts(p)) \in Nat
  BY <1>3, FS_CardinalityType
<1>5. 0 \in Cuts(p) /\ Len(p) + 1 \in Cuts(p) /\ 0 # Len(p) + 1
  BY <1>1 DEF Cuts
<1>6. /\ IsFiniteSet(Cuts(p) \ {Len(p) + 1})
      /\ Cardinality(Cuts(p) \ {Len(p) + 1}) = Cardinality(Cuts(p)) - 1
  BY <1>3, <1>5, FS_RemoveElement
<1>7. Cardinality(Cuts(p) \ {Len(p) + 1}) \in Nat /\ Cuts(p) \ {Len(p) + 1} # {}
  BY <1>5, <1>6, FS_CardinalityType
<1>8. Cardinality(Cuts(p) \ {Len(p) + 1}) # 0
  BY <1>6, <1>7, FS_EmptySet
<1> QED BY <1>1, <1>3, <1>4, <1>6, <1>7, <1>8

(* The segments of a text, by their cuts. *)
LEMMA SplitFacts ==
    ASSUME NEW R, NEW p \in Seq(R)
    PROVE  /\ Split(p) \in Seq(Seq(R))
           /\ Len(Split(p)) = Cardinality(Cuts(p)) - 1
           /\ \A k \in 1 .. (Cardinality(Cuts(p)) - 1) :
                 Split(p)[k] = SubSeq(p, Nth(Cuts(p), k) + 1, Nth(Cuts(p), k + 1) - 1)
<1> DEFINE S == Cuts(p)
           K == Cardinality(S)
           seg(k) == SubSeq(p, Nth(S, k) + 1, Nth(S, k + 1) - 1)
           t == Split(p)
<1>1. Len(p) \in Nat /\ S \in SUBSET (0 .. (Len(p) + 1)) /\ K \in Nat /\ K >= 2
  BY CutsFacts
<1>2. t = [k \in 1 .. (K - 1) |-> seg(k)]
  BY DEF Split, Cuts
<1> HIDE DEF t
<1>3. ASSUME NEW k \in 1 .. (K - 1) PROVE seg(k) \in Seq(R)
  <2>1. k \in 1 .. K /\ k + 1 \in 1 .. K /\ Len(p) + 1 \in Nat
    BY <1>1
  <2> HIDE DEF S
  <2>2. Nth(S, k) \in S /\ Nth(S, k + 1) \in S
    BY <1>1, <2>1, NthFacts
  <2>3. Nth(S, k) \in 0 .. (Len(p) + 1) /\ Nth(S, k + 1) \in 0 .. (Len(p) + 1)
    BY <1>1, <2>2
  <2> DEFINE a == Nth(S, k)
             b == Nth(S, k + 1)
  <2> HIDE DEF a, b
  <2>4. SubSeq(p, a + 1, b - 1) \in Seq(R)
    <3>1. a + 1 \in Nat \ {0} /\ b - 1 \in Int /\ b - 1 <= Len(p)
      BY <1>1, <2>3 DEF a, b
    <3> QED BY <3>1
  <2> QED BY <2>4 DEF a, b
<1> HIDE DEF seg
<1>4. t \in Seq(Seq(R)) /\ Len(t) = K - 1
  <2>1. K - 1 \in Nat
    BY <1>1
  <2> HIDE DEF S, K
  <2>2. t \in [1 .. (K - 1) -> Seq(R)]
    BY <1>2, <1>3
  <2> QED BY <2>1, <2>2
<1>5. \A k \in 1 .. (K - 1) : t[k] = seg(k)
  BY <1>2
<1> QED BY <1>4, <1>5 DEF t, seg

(* What no probe could read is split into one empty segment. *)
LEMMA SplitEmpty == Split(<< >>) = << << >> >>
<1> DEFINE t == Split(<< >>)
           S == Cuts(<< >>)
<1>1. S = {0, 1}
  BY DEF Cuts
<1>2. Cardinality(S) = 2
  <2>1. IsFiniteSet({0}) /\ Cardinality({0}) = 1
    BY FS_Singleton
  <2>2. Cardinality({0} \cup {1}) = Cardinality({0}) + 1
    BY <2>1, FS_AddElement
  <2>3. {0} \cup {1} = {0, 1}
    OBVIOUS
  <2> QED BY <1>1, <2>1, <2>2, <2>3
<1>3. t \in Seq(Seq({})) /\ Len(t) = 1
  <2>1. << >> \in Seq({})
    OBVIOUS
  <2>2. t \in Seq(Seq({})) /\ Len(t) = Cardinality(S) - 1
    BY <2>1, SplitFacts
  <2> HIDE DEF t, S
  <2> QED BY <1>2, <2>2
<1> HIDE DEF t
<1>4. t[1] \in Seq({})
  BY <1>3
<1>5. t[1] = << >>
  BY <1>4
<1>6. t = << t[1] >>
  BY <1>3
<1> QED BY <1>5, <1>6 DEF t

(* A text that does not end in a slash ends as its last segment does. *)
LEMMA SplitLast ==
    ASSUME NEW R, NEW p \in Seq(R), p # << >>, p[Len(p)] # Slash
    PROVE  LET last == Split(p)[Len(Split(p))]
           IN  last \in Seq(R) /\ last # << >> /\ last[Len(last)] = p[Len(p)]
<1> DEFINE n == Len(p)
           S == Cuts(p)
           K == Cardinality(S)
           a == Nth(S, K - 1)
           b == Nth(S, K)
<1>1. /\ n \in Nat \ {0} /\ S \in SUBSET (0 .. (n + 1)) /\ IsFiniteSet(S)
      /\ K \in Nat /\ K >= 2 /\ Cardinality(S \ {n + 1}) = K - 1
  BY CutsFacts
<1>2. a \in S /\ Cardinality(Below(S, a)) = K - 1 /\ b \in S /\ Cardinality(Below(S, b)) = K
  <2>1. K - 1 \in 1 .. K /\ K \in 1 .. K /\ n + 1 \in Nat
    BY <1>1
  <2> HIDE DEF S, n
  <2> QED BY <1>1, <2>1, NthFacts
<1>3. a # n /\ n + 1 \in S
  <2>1. n \notin S
    BY <1>1 DEF Cuts
  <2>2. n + 1 \in S
    BY DEF Cuts
  <2> QED BY <1>2, <2>1, <2>2
<1>4. Split(p)[K - 1] = SubSeq(p, a + 1, b - 1) /\ Len(Split(p)) = K - 1
  <2>1. K - 1 \in 1 .. (K - 1) /\ (K - 1) + 1 = K
    BY <1>1
  <2>2. Split(p)[K - 1] = SubSeq(p, Nth(S, K - 1) + 1, Nth(S, (K - 1) + 1) - 1)
    BY <2>1, SplitFacts
  <2>3. Len(Split(p)) = K - 1
    BY SplitFacts
  <2> QED BY <2>1, <2>2, <2>3
<1> HIDE DEF n, S, K, a, b
<1>5. a \in 0 .. (n + 1) /\ b \in 0 .. (n + 1)
  BY <1>1, <1>2
<1>6. b = n + 1
  <2> SUFFICES ASSUME b # n + 1 PROVE FALSE
    OBVIOUS
  <2>1. ~(n + 1 <= b)
    BY <1>1, <1>5
  <2>2. Below(S, b) \in SUBSET (S \ {n + 1})
    BY <2>1 DEF Below
  <2>3. IsFiniteSet(S \ {n + 1})
    BY <1>1, FS_Subset
  <2>4. Cardinality(Below(S, b)) <= Cardinality(S \ {n + 1})
    BY <2>2, <2>3, FS_Subset
  <2> QED BY <1>1, <1>2, <2>4
<1>7. a # n + 1
  <2> SUFFICES ASSUME a = n + 1 PROVE FALSE
    OBVIOUS
  <2>1. a = b
    BY <1>6
  <2>2. K = K - 1
    BY <1>2, <2>1
  <2> QED BY <1>1, <2>2
<1>8. a \in 0 .. (n - 1)
  BY <1>1, <1>3, <1>5, <1>7
<1> DEFINE u == SubSeq(p, a + 1, n)
<1>9. u \in Seq(R) /\ Len(u) = n - a /\ u[n - a] = p[n]
  BY <1>1, <1>8 DEF n
<1>10. Split(p)[Len(Split(p))] = u
  BY <1>1, <1>4, <1>6
<1> HIDE DEF u
<1>11. u # << >> /\ u[Len(u)] = p[n]
  BY <1>1, <1>8, <1>9
<1> QED BY <1>9, <1>10, <1>11 DEF n

(* z is what stands in the path behind place a up to place b. *)
Stands(z, path, a, b) ==
    z = SubSeq(path, a + 1, b) /\ \A k \in DOMAIN z : ~IsSeparator(z[k])

Plain(z, path, a, b) ==
    /\ z # << >> => a < b /\ b \in DOMAIN path
    /\ \A k \in (a + 1) .. b : ~IsSeparator(path[k])

(* What stands there without a separator is plain in the path. *)
LEMMA StandsPlain ==
    ASSUME NEW R, NEW path \in Seq(R), NEW a \in 0 .. Len(path),
           NEW b \in 0 .. Len(path), NEW z, Stands(z, path, a, b)
    PROVE  Plain(z, path, a, b)
<1>1. z = SubSeq(path, a + 1, b) /\ \A k \in DOMAIN z : ~IsSeparator(z[k])
  BY DEF Stands
<1>2. Len(path) \in Nat /\ DOMAIN path = 1 .. Len(path)
  OBVIOUS
<1>3. /\ z \in Seq(R) /\ Len(z) = IF a < b THEN b - a ELSE 0
      /\ DOMAIN z = 1 .. Len(z)
      /\ \A k \in 1 .. Len(z) : z[k] = path[a + k]
  <2> DEFINE s == SubSeq(path, a + 1, b)
  <2>1. a + 1 \in Nat \ {0} /\ b \in Nat /\ b <= Len(path)
    BY <1>2
  <2>2. s \in Seq(R) /\ Len(s) = IF a < b THEN b - a ELSE 0
    BY <1>2, <2>1
  <2>3. \A k \in 1 .. Len(s) : s[k] = path[a + k]
    BY <1>2, <2>1
  <2>4. z = s
    BY <1>1
  <2> HIDE DEF s
  <2> QED BY <2>2, <2>3, <2>4
<1>4. z # << >> => a < b /\ b \in DOMAIN path
  BY <1>2, <1>3
<1>5. ASSUME NEW k \in (a + 1) .. b PROVE ~IsSeparator(path[k])
  <2>1. k - a \in 1 .. Len(z) /\ a + (k - a) = k
    BY <1>2, <1>3
  <2>2. z[k - a] = path[k] /\ ~IsSeparator(z[k - a])
    BY <1>1, <1>3, <2>1
  <2> QED BY <2>2
<1> QED BY <1>4, <1>5 DEF Plain

(* The last component of a path is one. *)
LEMMA LastIsUnique ==
    ASSUME NEW R, NEW path \in Seq(R), NEW x, NEW y,
           IsLastComponent(x, path), IsLastComponent(y, path)
    PROVE  x = y
<1>1. PICK i \in 0 .. Len(path), j \in 0 .. Len(path) :
         /\ x = SubSeq(path, i + 1, j)
         /\ \A k \in DOMAIN x : ~IsSeparator(x[k])
         /\ \A k \in (j + 1) .. Len(path) : IsSeparator(path[k])
         /\ i = 0 \/ IsSeparator(path[i])
         /\ x = << >> => \A k \in DOMAIN path : IsSeparator(path[k])
  BY DEF IsLastComponent
<1>2. PICK m \in 0 .. Len(path), n \in 0 .. Len(path) :
         /\ y = SubSeq(path, m + 1, n)
         /\ \A k \in DOMAIN y : ~IsSeparator(y[k])
         /\ \A k \in (n + 1) .. Len(path) : IsSeparator(path[k])
         /\ m = 0 \/ IsSeparator(path[m])
         /\ y = << >> => \A k \in DOMAIN path : IsSeparator(path[k])
  BY DEF IsLastComponent
<1>3. /\ x # << >> => i < j /\ j \in DOMAIN path
      /\ \A k \in (i + 1) .. j : ~IsSeparator(path[k])
  <2>1. Stands(x, path, i, j)
    BY <1>1 DEF Stands
  <2> QED BY <2>1, StandsPlain DEF Plain
<1>4. /\ y # << >> => m < n /\ n \in DOMAIN path
      /\ \A k \in (m + 1) .. n : ~IsSeparator(path[k])
  <2>1. Stands(y, path, m, n)
    BY <1>2 DEF Stands
  <2> QED BY <2>1, StandsPlain DEF Plain
<1>5. Len(path) \in Nat /\ DOMAIN path = 1 .. Len(path)
  OBVIOUS
<1>6. ASSUME x # << >>, y # << >> PROVE x = y
  <2>1. i < j /\ j \in DOMAIN path /\ m < n /\ n \in DOMAIN path
    BY <1>3, <1>4, <1>6
  <2>2. ~IsSeparator(path[j]) /\ ~IsSeparator(path[n])
    <3>1. j \in (i + 1) .. j /\ n \in (m + 1) .. n
      BY <2>1, <1>5
    <3> QED BY <1>3, <1>4, <3>1
  <2>3. ~(j < n) /\ ~(n < j)
    <3>1. j < n => n \in (j + 1) .. Len(path)
      BY <2>1, <1>5
    <3>2. n < j => j \in (n + 1) .. Len(path)
      BY <2>1, <1>5
    <3> QED BY <1>1, <1>2, <2>2, <3>1, <3>2
  <2>4. j = n
    BY <1>5, <2>3
  <2>5. ~(i < m) /\ ~(m < i)
    <3>1. i < m => m \in (i + 1) .. j /\ m # 0
      BY <2>1, <1>5, <2>4
    <3>2. m < i => i \in (m + 1) .. n /\ i # 0
      BY <2>1, <1>5, <2>4
    <3> QED BY <1>1, <1>2, <1>3, <1>4, <3>1, <3>2
  <2>6. i = m
    BY <1>5, <2>5
  <2> QED BY <1>1, <1>2, <2>4, <2>6
<1>7. ASSUME x = << >>, y # << >> PROVE FALSE
  <2>1. n \in (m + 1) .. n /\ n \in DOMAIN path
    BY <1>4, <1>5, <1>7
  <2>2. ~IsSeparator(path[n])
    BY <1>4, <2>1
  <2> QED BY <1>1, <1>7, <2>1, <2>2
<1>8. ASSUME y = << >>, x # << >> PROVE FALSE
  <2>1. j \in (i + 1) .. j /\ j \in DOMAIN path
    BY <1>3, <1>5, <1>8
  <2>2. ~IsSeparator(path[j])
    BY <1>3, <2>1
  <2> QED BY <1>2, <1>8, <2>1, <2>2
<1> QED BY <1>6, <1>7, <1>8

(* The normal form of a path is no longer than the path and ends as it     *)
(* does, a separator or a letter at the end aside.                         *)
LEMMA NormalEnd ==
    ASSUME NEW R, NEW path \in Seq(R)
    PROVE  LET normal == normalize_path(path)
           IN  /\ normal \in Seq(R \cup {Slash, "c"}) /\ Len(normal) <= Len(path)
               /\ path # << >> /\ path[Len(path)] \notin {Slash, Backslash, "C"}
                     => normal # << >> /\ normal[Len(normal)] = path[Len(path)]
<1> DEFINE A == R \cup {Slash}
           B == A \cup {"c"}
           source == Slashed(path)
           p == Undotted(Unverbatim(source))
           f == Folded(p)
           normal == normalize_path(path)
<1>1. /\ source \in Seq(A) /\ Len(source) = Len(path) /\ Len(path) \in Nat
      /\ \A i \in 1 .. Len(path) :
            source[i] = IF path[i] = Backslash THEN Slash ELSE path[i]
  <2>1. /\ Slashed(path) \in Seq(A) /\ Len(Slashed(path)) = Len(path)
        /\ \A i \in 1 .. Len(path) :
              Slashed(path)[i] = IF path[i] = Backslash THEN Slash ELSE path[i]
    BY SlashedFacts
  <2>2. Len(path) \in Nat
    OBVIOUS
  <2> QED BY <2>1, <2>2
<1>2. normal = IF IsWindows(p) THEN f ELSE p
  BY DEF normalize_path
<1> HIDE DEF source
<1>3. PICK m \in 0 .. Len(source) :
         /\ p = Drop(source, m)
         /\ source # << >> /\ source[Len(source)] # Slash => m < Len(source)
  <2> HIDE DEF A
  <2> QED BY <1>1, StrippedIsEnd
<1> HIDE DEF p, normal
<1>4. /\ p \in Seq(A) /\ Len(p) = Len(path) - m /\ m \in Nat /\ m <= Len(path)
      /\ \A i \in 1 .. Len(p) : p[i] = source[m + i]
  <2> DEFINE q == Drop(source, m)
  <2>1. source \in Seq(A)
    BY <1>1
  <2> HIDE DEF A
  <2>2. /\ q \in Seq(A) /\ Len(q) = Len(source) - m
        /\ \A i \in 1 .. (Len(source) - m) : q[i] = source[m + i]
    BY <2>1, DropFacts
  <2>3. p = q
    BY <1>3
  <2> HIDE DEF q
  <2> QED BY <1>1, <2>2, <2>3
<1>5. /\ f \in Seq(B) /\ Len(f) = Len(p)
      /\ \A i \in 1 .. Len(p) : f[i] = IF p[i] = "C" THEN "c" ELSE p[i]
  <2> HIDE DEF A
  <2> QED BY <1>4, FoldedFacts
<1>6. p \in Seq(B)
  BY <1>4
<1>7. B = R \cup {Slash, "c"}
  OBVIOUS
<1> HIDE DEF A, B, f
<1>8. normal \in Seq(B) /\ Len(normal) = Len(path) - m
  BY <1>2, <1>4, <1>5, <1>6
<1>9. ASSUME path # << >>, path[Len(path)] \notin {Slash, Backslash, "C"}
      PROVE  normal # << >> /\ normal[Len(normal)] = path[Len(path)]
  <2> DEFINE n == Len(path)
             c == path[n]
  <2>1. n \in Nat \ {0} /\ n \in 1 .. n
    BY <1>9
  <2>2. source[n] = c /\ c # Slash /\ c # "C" /\ source # << >> /\ Len(source) = n
    BY <1>1, <1>9, <2>1
  <2>3. m < n
    BY <1>3, <2>2
  <2>4. Len(p) \in 1 .. Len(p) /\ m + Len(p) = n
    BY <1>4, <2>1, <2>3
  <2>5. p[Len(p)] = c
    BY <1>4, <2>2, <2>4
  <2>6. f[Len(p)] = c
    BY <1>5, <2>2, <2>4, <2>5
  <2>7. Len(normal) = Len(p) /\ Len(normal) # 0
    BY <1>4, <1>8, <2>1, <2>3
  <2> QED BY <1>2, <2>5, <2>6, <2>7
<1> QED BY <1>1, <1>4, <1>7, <1>8, <1>9 DEF normal

(* A text over some characters is one over more. *)
LEMMA WiderText ==
    ASSUME NEW A, NEW B, A \subseteq B, NEW p \in Seq(Seq(A))
    PROVE  p \in Seq(Seq(B))
<1>1. \A s \in Seq(A) : s \in Seq(B)
  OBVIOUS
<1>2. Len(p) \in Nat /\ p \in [1 .. Len(p) -> Seq(A)]
  OBVIOUS
<1>3. p \in [1 .. Len(p) -> Seq(B)]
  BY <1>1, <1>2
<1> QED BY <1>2, <1>3

(* The path of the event of an open. *)
LEMMA OpenedPath ==
    ASSUME NEW record, record.kind = "file_open"
    PROVE  /\ Kernel!widen(record) =
                 [type |-> "file_open", tgid |-> record.tgid,
                  path |-> Kernel!Marked(IF record.path = {} THEN << >>
                                         ELSE CHOOSE x \in record.path : TRUE,
                                         record.path_truncated)]
           /\ Kernel!widen(record).path =
                 Kernel!Marked(IF record.path = {} THEN << >>
                               ELSE CHOOSE x \in record.path : TRUE,
                               record.path_truncated)
BY DEF Kernel!widen, Kernel!unwrap_or

(* What the engine says of an open. *)
LEMMA OpenVerdict ==
    ASSUME NEW record, NEW rules, record.kind = "file_open"
    PROVE  Raises("SECRET_ACCESS", record, rules) <=>
              \E g \in rules.secret_path_globs :
                 matches(g, Split(normalize_path(Kernel!widen(record).path)))
<1> DEFINE event == Kernel!widen(record)
           path  == event.path
<1>1. event.type = "file_open"
  BY OpenedPath
<1>2. event # Kernel!NoEvent
  BY <1>1 DEF Kernel!NoEvent
<1> HIDE DEF path
<1>3. Verdict(record, rules) = Engine!eval_file_open(path, rules)
  BY <1>1, <1>2 DEF Verdict, Engine!eval_event, path
<1>4. Verdict(record, rules) =
         IF \E g \in rules.secret_path_globs : matches(g, Split(normalize_path(path)))
         THEN << [rule_id |-> "SECRET_ACCESS", severity |-> "critical"] >>
         ELSE << >>
  BY <1>3 DEF Engine!eval_file_open, Engine!Breach, SplitMatches
<1>5. Raises("SECRET_ACCESS", record, rules) <=>
         \E g \in rules.secret_path_globs : matches(g, Split(normalize_path(path)))
  BY <1>4 DEF Raises
<1> QED BY <1>5 DEF path

(* An open is reported exactly on the evidence the page highlights, and    *)
(* never on that of a path that was cut off or not read at all, unless the *)
(* pattern's wildcards allow it.                                           *)
LEMMA OpensFollow ==
    ASSUME NEW record, NEW rules, record.kind = "file_open",
           IsRecord(record), AreRules(rules)
    PROVE  OpenFollows(record, rules)
<1> DEFINE R == Char \cup {Kernel!Mark}
           N == R \cup {Slash, "c"}
           path == Kernel!widen(record).path
           normal == normalize_path(path)
           t == Split(normal)
           raised == Raises("SECRET_ACCESS", record, rules)
           globs == rules.secret_path_globs
<1>1. path = Kernel!Marked(IF record.path = {} THEN << >>
                           ELSE CHOOSE x \in record.path : TRUE, record.path_truncated)
  BY OpenedPath
<1> DEFINE read == IF record.path = {} THEN << >> ELSE CHOOSE x \in record.path : TRUE
<1>2. /\ read \in Seq(Char)
      /\ record.path = {} => read = << >> /\ ~record.path_truncated
      /\ \A s \in record.path : read = s
  BY DEF IsRecord
<1>3. record.path_truncated \in BOOLEAN
  BY DEF IsRecord
<1> HIDE DEF path, read
<1>4. read \in Seq(R)
  BY <1>2
<1>5. ~record.path_truncated => path = read
  BY <1>1, <1>2 DEF Kernel!Marked, read
<1>6. record.path_truncated => path = read \o << Kernel!Mark >>
  BY <1>1 DEF Kernel!Marked, read
<1>7. path \in Seq(R)
  BY <1>3, <1>4, <1>5, <1>6
<1>8. record.path_truncated => path # << >> /\ path[Len(path)] = Kernel!Mark
  BY <1>4, <1>6
<1> HIDE DEF R, normal
<1>9. /\ normal \in Seq(N) /\ Len(normal) <= Len(path)
      /\ path # << >> /\ path[Len(path)] \notin {Slash, Backslash, "C"}
            => normal # << >> /\ normal[Len(normal)] = path[Len(path)]
  BY <1>7, NormalEnd DEF normal
<1>10. t \in Seq(Seq(N)) /\ Len(t) \in Nat
  <2> HIDE DEF N
  <2>1. t \in Seq(Seq(N))
    BY <1>9, SplitFacts
  <2> QED BY <2>1
<1>11. ASSUME NEW g \in globs
       PROVE  /\ g \in Seq(Seq(N)) /\ g # << >> /\ matches(g, t) = TextMatches(g, t)
              /\ globMatch(g, t) = TextMatches(g, t)
  <2>1. g \in Seq(Seq(Char)) /\ g # << >> /\ Char \subseteq N
    BY DEF AreRules, Text, R
  <2> HIDE DEF N, t
  <2>2. g \in Seq(Seq(N))
    BY <2>1, WiderText
  <2> QED BY <1>10, <2>1, <2>2, MatchSegments, PageMatches DEF matches
<1>12. raised <=> \E g \in globs : matches(g, t)
  BY OpenVerdict DEF path, normal
<1>13. ASSUME ~Has(path, "E") PROVE raised <=> isSecret(path, rules)
  <2>1. normalizePath(path) = normal
    BY <1>7, <1>13, NormalForm DEF normal
  <2>2. isSecret(path, rules) <=> \E g \in globs : globMatch(g, t)
    BY <2>1 DEF isSecret
  <2>3. \A g \in globs : globMatch(g, t) = matches(g, t)
    BY <1>11
  <2> HIDE DEF globs, t, raised
  <2> QED BY <1>12, <2>2, <2>3
<1>14. ASSUME NEW g \in globs, TextMatches(g, t)
       PROVE  /\ record.path = {} => Wildcards(g)
              /\ record.path_truncated /\ Literal(g[Len(g)]) => Has(g[Len(g)], Kernel!Mark)
              /\ ~record.path_truncated =>
                    \A s \in record.path : TextMatches(g, Split(normalize_path(s)))
  <2>1. g \in Seq(Seq(N)) /\ g # << >>
    BY <1>11
  <2>2. ASSUME record.path = {} PROVE Wildcards(g)
    <3>1. path = << >>
      BY <1>2, <1>5, <2>2
    <3>2. normal = << >>
      BY <1>9, <3>1
    <3>3. t = << << >> >>
      BY <3>2, SplitEmpty
    <3> HIDE DEF N, t
    <3> QED BY <1>14, <2>1, <3>3, EmptyText
  <2>3. ASSUME record.path_truncated, Literal(g[Len(g)]) PROVE Has(g[Len(g)], Kernel!Mark)
    <3> DEFINE last == g[Len(g)]
               end == t[Len(t)]
    <3>1. path # << >> /\ path[Len(path)] = Kernel!Mark
      BY <1>8, <2>3
    <3>2. normal # << >> /\ normal[Len(normal)] = Kernel!Mark
      <4>1. Kernel!Mark \notin {Slash, Backslash, "C"}
        BY DEF Kernel!Mark, Slash, Backslash
      <4> QED BY <1>9, <3>1, <4>1
    <3>3. normal[Len(normal)] # Slash
      BY <3>2 DEF Kernel!Mark, Slash
    <3> HIDE DEF N
    <3>4. end \in Seq(N) /\ end # << >> /\ end[Len(end)] = Kernel!Mark
      BY <1>9, <3>2, <3>3, SplitLast
    <3>5. last # DoubleStar
      <4>1. DOMAIN DoubleStar = 1 .. 2 /\ DoubleStar[1] = "*"
        BY DEF DoubleStar
      <4> QED BY <2>3, <4>1 DEF Literal
    <3> HIDE DEF t
    <3>6. SegmentMatches(last, end)
      BY <1>10, <1>14, <2>1, <3>5, LastSegments
    <3>7. last \in Seq(N)
      <4>1. Len(g) \in 1 .. Len(g)
        BY <2>1
      <4> QED BY <2>1, <4>1
    <3> HIDE DEF last, end
    <3>8. Literal(last)
      BY <2>3 DEF last
    <3>9. last # << >> /\ last[Len(last)] = Kernel!Mark
      BY <3>4, <3>6, <3>7, <3>8, LiteralLast
    <3>10. Len(last) \in DOMAIN last
      BY <3>7, <3>9
    <3> QED BY <3>9, <3>10 DEF Has, last
  <2>4. ASSUME ~record.path_truncated, NEW s \in record.path
        PROVE  TextMatches(g, Split(normalize_path(s)))
    <3>1. path = s
      BY <1>2, <1>5, <2>4
    <3> QED BY <1>14, <3>1 DEF normal
  <2> QED BY <2>2, <2>3, <2>4
<1>15. ASSUME raised
       PROVE  \E g \in globs :
                 /\ record.path = {} => Wildcards(g)
                 /\ record.path_truncated /\ Literal(g[Len(g)])
                       => Has(g[Len(g)], Kernel!Mark)
                 /\ ~record.path_truncated =>
                       \A s \in record.path : TextMatches(g, Split(normalize_path(s)))
  <2>1. PICK g \in globs : matches(g, t)
    BY <1>12, <1>15
  <2>2. TextMatches(g, t)
    BY <1>11, <2>1
  <2> QED BY <1>14, <2>2
<1> QED BY <1>13, <1>15 DEF OpenFollows, path

(* A command is denied by its last component, whatever the case. *)
LEMMA ExecsFollow ==
    ASSUME NEW record, NEW rules, record.kind = "proc_exec", IsRecord(record)
    PROVE  ExecFollows(record, rules)
<1> DEFINE event == Kernel!widen(record)
           comm == record.comm
           base == basename(comm)
           denied == \E d \in rules.denied_processes : Folded(d) = Folded(base)
<1>1. event.type = "proc_exec" /\ event.comm = comm
  BY DEF Kernel!widen
<1>2. event # Kernel!NoEvent
  BY <1>1 DEF Kernel!NoEvent
<1>3. Verdict(record, rules) = Engine!eval_proc_exec(comm, rules)
  BY <1>1, <1>2 DEF Verdict, Engine!eval_event
<1>4. Verdict(record, rules) =
         IF denied THEN << [rule_id |-> "PROC_DENIED", severity |-> "critical"] >> ELSE << >>
  BY <1>3 DEF Engine!eval_proc_exec, Engine!Breach
<1> HIDE DEF denied
<1>5. Raises("PROC_DENIED", record, rules) <=> denied
  BY <1>4 DEF Raises
<1>6. comm \in Seq(Char)
  BY DEF IsRecord
<1> HIDE DEF comm, base
<1>7. IsLastComponent(base, comm)
  BY <1>6, BasenameIsLast DEF base
<1>8. ASSUME NEW x, IsLastComponent(x, comm) PROVE x = base
  BY <1>6, <1>7, <1>8, LastIsUnique
<1>9. PICK i \in 0 .. Len(comm), j \in 0 .. Len(comm) : base = SubSeq(comm, i + 1, j)
  BY <1>7 DEF IsLastComponent
<1> DEFINE found == \E name \in rules.denied_processes : \E k, l \in 0 .. Len(comm) :
                       LET z == SubSeq(comm, k + 1, l)
                       IN  IsLastComponent(z, comm) /\ Folded(name) = Folded(z)
<1>10. ASSUME denied PROVE found
  <2>1. PICK d \in rules.denied_processes : Folded(d) = Folded(base)
    BY <1>10 DEF denied
  <2> QED BY <2>1, <1>7, <1>9
<1>11. ASSUME found PROVE denied
  <2>1. PICK d \in rules.denied_processes, k \in 0 .. Len(comm), l \in 0 .. Len(comm) :
           /\ IsLastComponent(SubSeq(comm, k + 1, l), comm)
           /\ Folded(d) = Folded(SubSeq(comm, k + 1, l))
    BY <1>11
  <2>2. SubSeq(comm, k + 1, l) = base
    BY <2>1, <1>8
  <2> QED BY <2>1, <2>2 DEF denied
<1>12. found <=> Raises("PROC_DENIED", record, rules)
  BY <1>5, <1>10, <1>11
<1> QED BY <1>12 DEF ExecFollows, comm

(* A connection is denied or warned about exactly on the rules that cover  *)
(* its address; of an address that could not be read, by wildcards alone.  *)
LEMMA ConnectsFollow ==
    ASSUME NEW record, NEW rules, record.kind = "net_connect",
           IsRecord(record), AreRules(rules)
    PROVE  ConnectFollows(record, rules)
<1> DEFINE blankHost == [kind |-> "text", text |-> << << >> >>]
           d == IF record.daddr = {} THEN blankHost ELSE CHOOSE x \in record.daddr : TRUE
           hits(hosts) == \E h \in hosts : destination_matches(h, d)
           listed(hosts) == \E h \in hosts : \E e \in record.daddr : Covers(h, e)
           blank(hosts) == \E h \in hosts : Wildcards(h.text)
           denied == rules.denied_hosts
           warn == rules.warn_hosts
           raised(id) == Raises(id, record, rules)
<1>1. raised("NET_DENIED") <=> hits(denied)
  BY ConnectVerdict
<1>2. raised("NET_WARN") <=> hits(warn) /\ ~hits(denied)
  BY ConnectVerdict
<1>3. \A h \in denied \cup warn : IsHostRule(h)
  BY DEF AreRules
<1>4. record.daddr # {} => record.daddr = {d} /\ IsHost(d)
  BY DEF IsRecord
<1>5. record.daddr = {} => d = blankHost
  OBVIOUS
<1> HIDE DEF d
<1>6. ASSUME record.daddr # {}, NEW hosts \in SUBSET (denied \cup warn)
      PROVE  hits(hosts) <=> listed(hosts)
  <2>1. \A h \in hosts : destination_matches(h, d) <=> Covers(h, d)
    BY <1>3, <1>4, <1>6, CoversIsMatch
  <2> QED BY <1>4, <1>6, <2>1
<1>7. ASSUME record.daddr = {}, NEW hosts \in SUBSET (denied \cup warn), hits(hosts)
      PROVE  blank(hosts)
  <2>1. PICK h \in hosts : destination_matches(h, d)
    BY <1>7
  <2>2. IsHostRule(h)
    BY <1>3
  <2>3. d.kind = "text" /\ d.text = << << >> >>
    BY <1>5, <1>7
  <2>4. h.text \in Seq(Seq(Char))
    BY <2>2 DEF IsHostRule, Text
  <2>5. match_segments(h.text, << << >> >>)
    BY <2>1, <2>3, <2>4 DEF destination_matches, TextOf, matches
  <2>6. << << >> >> \in Seq(Seq(Char))
    OBVIOUS
  <2>7. TextMatches(h.text, << << >> >>)
    BY <2>4, <2>5, <2>6, MatchSegments
  <2>8. Wildcards(h.text)
    BY <2>4, <2>7, EmptyText
  <2> QED BY <2>4, <2>8
<1>8. denied \in SUBSET (denied \cup warn) /\ warn \in SUBSET (denied \cup warn)
  OBVIOUS
<1> HIDE DEF hits, listed, blank, denied, warn, raised
<1>9. ASSUME record.daddr # {}
      PROVE  /\ raised("NET_DENIED") <=> listed(denied)
             /\ raised("NET_WARN") <=> listed(warn) /\ ~listed(denied)
  BY <1>1, <1>2, <1>6, <1>8, <1>9
<1>10. ASSUME record.daddr = {}
       PROVE  /\ raised("NET_DENIED") => blank(denied)
              /\ raised("NET_WARN") => blank(warn)
  BY <1>1, <1>2, <1>7, <1>8, <1>10
<1> QED BY <1>9, <1>10 DEF ConnectFollows, raised, listed, blank, denied, warn

(* For every record of a probe, every rule set and every address width:    *)
(* the verdict follows from the evidence.                                  *)
THEOREM VerdictsFollow == Spec => []VerdictsFromEvidence
<1>1. Init => VerdictsFromEvidence
  <2> SUFFICES ASSUME Init, kind = "record" PROVE VerdictsFromEvidence
    BY DEF VerdictsFromEvidence
  <2> DEFINE record == input.record
             rules == input.rules
  <2>1. IsRecord(record) /\ AreRules(rules)
    BY CasesAssumption DEF Init
  <2> HIDE DEF record, rules
  <2>2. record.kind = "net_connect" => ConnectFollows(record, rules)
    BY <2>1, ConnectsFollow
  <2>3. record.kind = "file_open" => OpenFollows(record, rules)
    BY <2>1, OpensFollow
  <2>4. record.kind = "proc_exec" => ExecFollows(record, rules)
    BY <2>1, ExecsFollow
  <2>5. record.kind \notin {"net_connect", "file_open", "proc_exec"}
           => Verdict(record, rules) = << >>
    <3>1. SUFFICES ASSUME record.kind \notin {"net_connect", "file_open", "proc_exec"}
                   PROVE  Kernel!widen(record) = Kernel!NoEvent
      BY DEF Verdict
    <3> QED BY <3>1 DEF Kernel!widen
  <2> QED BY <2>2, <2>3, <2>4, <2>5 DEF VerdictsFromEvidence, record, rules
<1>2. VerdictsFromEvidence /\ [Next]_<< kind, input >> => VerdictsFromEvidence'
  BY DEF Next, VerdictsFromEvidence
<1> QED BY <1>1, <1>2, PTL DEF Spec
=============================================================================
