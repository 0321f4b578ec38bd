--------------------------- MODULE LiballocProofs ---------------------------
(***************************************************************************)
(* For headers, pages and requests of any size: the blocks that malloc     *)
(* hands out do not overlap and lie inside their majors, l_bestBet never   *)
(* points at a major that was given back, and the counters of malloc and   *)
(* free agree with the lists.                                              *)
(***************************************************************************)
EXTENDS Liballoc, SequenceTheorems, WellFoundedInduction, TLAPS

-----------------------------------------------------------------------------
(* Arithmetic.                                                             *)

LEMMA MinIsLeast ==
  ASSUME NEW T, T \subseteq Nat, T # {}
  PROVE  Min(T) \in T
<1>1. PICK x \in T : \A y \in T : ~ (<<y, x>> \in OpToRel(<, Nat))
  BY NatLessThanWellFounded, WFMin
<1>2. ASSUME NEW y \in T, y < x PROVE FALSE
  <2>1. <<y, x>> \in Nat \X Nat /\ <<y, x>>[1] < <<y, x>>[2]
    BY <1>2
  <2>2. <<y, x>> \in OpToRel(<, Nat)
    BY <2>1 DEF OpToRel
  <2>3. QED BY <1>1, <2>2
<1>3. \E z \in T : \A y \in T : z <= y
  BY <1>2
<1>4. QED BY <1>3, Zenon DEF Min

LEMMA DivIs ==
  \A x \in Int, b \in Nat \ {0} :
    x \div b \in Int /\ b * (x \div b) <= x /\ x < b * (x \div b) + b
  OBVIOUS

\* Rounding up stops at the next multiple.
LEMMA CeilDivIs ==
  ASSUME NEW x \in Int, NEW b \in Nat \ {0}
  PROVE  /\ CeilDiv(x, b) \in Int
         /\ x <= CeilDiv(x, b) * b /\ CeilDiv(x, b) * b <= x + b - 1
  BY DivIs DEF CeilDiv

LEMMA MultipleIs == \A x \in Int, b \in Nat \ {0} : x * b \in Int /\ (x * b) % b = 0
  OBVIOUS

LEMMA TimesMonotone ==
  ASSUME NEW x \in Int, NEW y \in Int, NEW b \in Nat, x <= y
  PROVE  x * b <= y * b
  OBVIOUS

LEMMA MaxOfTwo ==
  ASSUME NEW x \in Int, NEW y \in Int
  PROVE  Max({x, y}) \in Int /\ Max({x, y}) >= x /\ Max({x, y}) >= y
  BY DEF Max

LEMMA SizesAre ==
  /\ MAJOR \in Nat \ {0} /\ MINOR \in Nat \ {0} /\ ALIGNMENT \in Nat \ {0}
  /\ ALIGN_INFO \in Nat \ {0} /\ PageSize \in Nat \ {0} /\ PageCount \in Nat \ {0}
  BY SizesAssumption

LEMMA OrderFacts ==
  /\ \A x, y, a, z \in Nat : x <= a /\ a + MINOR + z <= y => x <= y
  /\ \A x, y, z \in Nat :
        x < y /\ y + ALIGNMENT + ALIGN_INFO <= z => x + ALIGNMENT + ALIGN_INFO <= z
<1>1. ASSUME NEW x \in Nat, NEW y \in Nat, NEW a \in Nat, NEW z \in Nat,
             x <= a, a + MINOR + z <= y
      PROVE  x <= y
  BY <1>1, SizesAre
<1>2. ASSUME NEW x \in Nat, NEW y \in Nat, NEW z \in Nat,
             x < y, y + ALIGNMENT + ALIGN_INFO <= z
      PROVE  x + ALIGNMENT + ALIGN_INFO <= z
  BY <1>2, SizesAre
<1>3. QED BY <1>1, <1>2

-----------------------------------------------------------------------------
(* Lists.                                                                  *)

\* t is s with e inserted at i.
Inserts(t, s, i, e) ==
    /\ Len(t) = Len(s) + 1
    /\ \A k \in 1 .. Len(t) : t[k] = IF k < i THEN s[k] ELSE IF k = i THEN e ELSE s[k - 1]

\* t is s without its element at i.
Removes(t, s, i) ==
    /\ Len(t) = Len(s) - 1
    /\ \A k \in 1 .. Len(t) : t[k] = IF k < i THEN s[k] ELSE s[k + 1]

LEMMA SubSeqIs ==
  ASSUME NEW S, NEW s \in Seq(S), NEW m \in Int, NEW n \in Int,
         1 <= m, m <= n + 1, n <= Len(s)
  PROVE  /\ SubSeq(s, m, n) \in Seq(S) /\ Len(SubSeq(s, m, n)) = n - m + 1
         /\ \A k \in 1 .. n - m + 1 : SubSeq(s, m, n)[k] = s[m + k - 1]
<1>1. \A k \in m .. n : s[k] \in S
  <2>1. ASSUME NEW k \in m .. n PROVE s[k] \in S
    <3>1. k \in 1 .. Len(s) BY LenProperties
    <3>2. QED BY <3>1, ElementOfSeq, Zenon
  <2>2. QED BY <2>1
<1>2. QED BY <1>1, SubSeqProperties

LEMMA InsertAtIs ==
  ASSUME NEW S, NEW s \in Seq(S), NEW i \in 1 .. (Len(s) + 1), NEW e \in S
  PROVE  InsertAt(s, i, e) \in Seq(S) /\ Inserts(InsertAt(s, i, e), s, i, e)
<1>1. PICK n \in Nat : n = Len(s) BY LenProperties
<1>2. i \in 1 .. (n + 1) BY <1>1
<1>3. PICK a \in Seq(S) : /\ a = SubSeq(s, 1, i - 1) /\ Len(a) = i - 1
                          /\ \A k \in 1 .. (i - 1) : a[k] = s[k]
  <2>1. /\ SubSeq(s, 1, i - 1) \in Seq(S) /\ Len(SubSeq(s, 1, i - 1)) = (i - 1) - 1 + 1
        /\ \A k \in 1 .. (i - 1) - 1 + 1 : SubSeq(s, 1, i - 1)[k] = s[1 + k - 1]
    BY <1>1, <1>2, SubSeqIs
  <2>2. PICK a \in Seq(S) : a = SubSeq(s, 1, i - 1) BY <2>1, Zenon
  <2>3. Len(a) = i - 1 /\ \A k \in 1 .. (i - 1) : a[k] = s[k] BY <1>2, <2>1, <2>2
  <2>4. QED BY <2>2, <2>3, Zenon
<1>4. PICK c \in Seq(S) : /\ c = SubSeq(s, i, Len(s)) /\ Len(c) = n - i + 1
                          /\ \A k \in 1 .. (n - i + 1) : c[k] = s[i + k - 1]
  <2>1. /\ SubSeq(s, i, n) \in Seq(S) /\ Len(SubSeq(s, i, n)) = n - i + 1
        /\ \A k \in 1 .. (n - i + 1) : SubSeq(s, i, n)[k] = s[i + k - 1]
    BY <1>1, <1>2, SubSeqIs
  <2>2. QED BY <1>1, <2>1, Zenon
<1>5. <<e>> \in Seq(S) /\ Len(<<e>>) = 1 /\ <<e>>[1] = e OBVIOUS
<1>6. PICK b : b = <<e>> OBVIOUS
<1>7. PICK d \in Seq(S) : d = a \o b BY <1>5, <1>6, ConcatProperties, Zenon
<1>8. Len(d) = i /\ \A k \in 1 .. i : d[k] = IF k < i THEN s[k] ELSE e
  <2>1. /\ Len(d) = Len(a) + Len(b)
        /\ \A k \in 1 .. Len(a) + Len(b) : d[k] = IF k <= Len(a) THEN a[k] ELSE b[k - Len(a)]
    BY <1>5, <1>6, <1>7, ConcatProperties
  <2>2. QED BY <1>2, <1>3, <1>5, <1>6, <2>1
<1>9. PICK f \in Seq(S) : f = d \o c BY ConcatProperties, Zenon
<1>10. /\ Len(f) = Len(d) + Len(c)
       /\ \A k \in 1 .. Len(d) + Len(c) : f[k] = IF k <= Len(d) THEN d[k] ELSE c[k - Len(d)]
  BY <1>9, ConcatProperties
<1>11. Len(f) = n + 1 BY <1>2, <1>4, <1>8, <1>10
<1>12. ASSUME NEW k \in 1 .. (n + 1)
       PROVE  f[k] = IF k < i THEN s[k] ELSE IF k = i THEN e ELSE s[k - 1]
  <2>1. CASE k <= i
    <3>1. f[k] = d[k] BY <1>2, <1>4, <1>8, <1>10, <2>1
    <3>2. QED BY <1>2, <1>8, <2>1, <3>1
  <2>2. CASE k > i
    <3>1. f[k] = c[k - i] BY <1>2, <1>4, <1>8, <1>10, <2>2
    <3>2. k - i \in 1 .. (n - i + 1) /\ i + (k - i) - 1 = k - 1 BY <1>2, <2>2
    <3>3. c[k - i] = s[k - 1] BY <1>4, <3>2
    <3>4. QED BY <1>2, <2>2, <3>1, <3>3
  <2>3. QED BY <1>2, <2>1, <2>2
<1>13. f = InsertAt(s, i, e) BY <1>3, <1>4, <1>6, <1>7, <1>9 DEF InsertAt
<1>14. Inserts(f, s, i, e) BY <1>1, <1>11, <1>12 DEF Inserts
<1>15. QED BY <1>13, <1>14

LEMMA RemoveAtIs ==
  ASSUME NEW S, NEW s \in Seq(S), NEW i \in 1 .. Len(s)
  PROVE  RemoveAt(s, i) \in Seq(S) /\ Removes(RemoveAt(s, i), s, i)
<1>1. PICK n \in Nat : n = Len(s) BY LenProperties
<1>2. i \in 1 .. n BY <1>1
<1>3. PICK a \in Seq(S) : /\ a = SubSeq(s, 1, i - 1) /\ Len(a) = i - 1
                          /\ \A k \in 1 .. (i - 1) : a[k] = s[k]
  <2>1. /\ SubSeq(s, 1, i - 1) \in Seq(S) /\ Len(SubSeq(s, 1, i - 1)) = (i - 1) - 1 + 1
        /\ \A k \in 1 .. (i - 1) - 1 + 1 : SubSeq(s, 1, i - 1)[k] = s[1 + k - 1]
    BY <1>1, <1>2, SubSeqIs
  <2>2. PICK a \in Seq(S) : a = SubSeq(s, 1, i - 1) BY <2>1, Zenon
  <2>3. Len(a) = i - 1 /\ \A k \in 1 .. (i - 1) : a[k] = s[k] BY <1>2, <2>1, <2>2
  <2>4. QED BY <2>2, <2>3, Zenon
<1>4. PICK c \in Seq(S) : /\ c = SubSeq(s, i + 1, Len(s)) /\ Len(c) = n - i
                          /\ \A k \in 1 .. (n - i) : c[k] = s[i + k]
  <2>1. /\ SubSeq(s, i + 1, n) \in Seq(S) /\ Len(SubSeq(s, i + 1, n)) = n - (i + 1) + 1
        /\ \A k \in 1 .. (n - (i + 1) + 1) : SubSeq(s, i + 1, n)[k] = s[(i + 1) + k - 1]
    BY <1>1, <1>2, SubSeqIs
  <2>2. PICK c \in Seq(S) : c = SubSeq(s, i + 1, n) BY <2>1, Zenon
  <2>3. Len(c) = n - i /\ \A k \in 1 .. (n - i) : c[k] = s[i + k] BY <1>2, <2>1, <2>2
  <2>4. QED BY <1>1, <2>2, <2>3, Zenon
<1>5. PICK f \in Seq(S) : f = a \o c BY ConcatProperties, Zenon
<1>6. /\ Len(f) = Len(a) + Len(c)
      /\ \A k \in 1 .. Len(a) + Len(c) : f[k] = IF k <= Len(a) THEN a[k] ELSE c[k - Len(a)]
  BY <1>5, ConcatProperties
<1>7. Len(f) = n - 1 BY <1>2, <1>3, <1>4, <1>6
<1>8. ASSUME NEW k \in 1 .. (n - 1) PROVE f[k] = IF k < i THEN s[k] ELSE s[k + 1]
  <2>0. f[k] = IF k <= i - 1 THEN a[k] ELSE c[k - (i - 1)]
    <3>1. k \in 1 .. ((i - 1) + (n - i)) BY <1>2
    <3>2. QED BY <1>3, <1>4, <1>6, <3>1
  <2>1. CASE k < i
    <3>1. f[k] = a[k] /\ k \in 1 .. (i - 1) BY <1>2, <2>0, <2>1
    <3>2. QED BY <1>3, <2>1, <3>1
  <2>2. CASE k >= i
    <3>1. f[k] = c[k - (i - 1)] BY <1>2, <2>0, <2>2
    <3>2. k - (i - 1) \in 1 .. (n - i) /\ i + (k - (i - 1)) = k + 1 BY <1>2, <2>2
    <3>3. QED BY <1>2, <1>4, <2>2, <3>1, <3>2
  <2>3. QED BY <1>2, <2>1, <2>2
<1>9. f = RemoveAt(s, i) BY <1>3, <1>4, <1>5 DEF RemoveAt
<1>10. Removes(f, s, i) BY <1>1, <1>7, <1>8 DEF Removes
<1>11. QED BY <1>9, <1>10

-----------------------------------------------------------------------------
(* Sums.                                                                   *)

\* Induction over an interval, stated of a set.
LEMMA Climb ==
  ASSUME NEW n \in Nat, NEW T, 0 \in T, \A k \in 1 .. n : k - 1 \in T => k \in T
  PROVE  0 .. n \subseteq T
<1> DEFINE out == (0 .. n) \ T
<1>1. SUFFICES ASSUME out # {} PROVE FALSE OBVIOUS
<1>2. out \subseteq Nat OBVIOUS
<1>3. PICK x \in out : \A y \in out : ~ (<<y, x>> \in OpToRel(<, Nat))
  BY <1>1, <1>2, NatLessThanWellFounded, WFMin
<1>4. x \in 1 .. n
  <2>1. x \in 0 .. n /\ x # 0 BY <1>3
  <2>2. QED BY <2>1
<1>5. x - 1 \in out
  <2>1. x - 1 \notin T BY <1>4
  <2>2. QED BY <1>4, <2>1
<1>6. <<x - 1, x>> \in OpToRel(<, Nat)
  <2>1. /\ <<x - 1, x>> \in Nat \X Nat
        /\ <<x - 1, x>>[1] < <<x - 1, x>>[2]
    BY <1>4
  <2>2. QED BY <2>1 DEF OpToRel
<1>7. QED BY <1>3, <1>5, <1>6

\* f[k] is the sum of the first k elements of s, up to n.
Sums(f, s, n) ==
    /\ f \in [0 .. n -> Int] /\ f[0] = 0
    /\ \A k \in 1 .. n : f[k] = f[k - 1] + s[k]

Ints(s, n) == n \in Nat /\ Len(s) = n /\ \A k \in 1 .. n : s[k] \in Int

LEMMA SumsExist ==
  ASSUME NEW s, NEW n, Ints(s, n)
  PROVE  \E f : Sums(f, s, n)
<1>0. n \in Nat /\ \A k \in 1 .. n : s[k] \in Int BY DEF Ints
<1> DEFINE T == {m \in 0 .. n : \E f : Sums(f, s, m)}
<1>1. 0 \in T
  <2>1. PICK f : f = [k \in {0} |-> 0] OBVIOUS
  <2>2. Sums(f, s, 0) BY <2>1 DEF Sums
  <2>3. QED BY <1>0, <2>2
<1>2. ASSUME NEW m \in 1 .. n, m - 1 \in T PROVE m \in T
  <2>1. PICK f : Sums(f, s, m - 1) BY <1>2
  <2>2. PICK g : g = [k \in 0 .. m |-> IF k = m THEN f[m - 1] + s[m] ELSE f[k]] OBVIOUS
  <2>3. /\ f \in [0 .. (m - 1) -> Int] /\ f[0] = 0
        /\ \A k \in 1 .. (m - 1) : f[k] = f[k - 1] + s[k]
    BY <2>1 DEF Sums
  <2>4. g \in [0 .. m -> Int]
    <3>1. ASSUME NEW k \in 0 .. m
          PROVE  (IF k = m THEN f[m - 1] + s[m] ELSE f[k]) \in Int
      <4>1. CASE k = m
        <5>1. f[m - 1] \in Int /\ s[m] \in Int BY <1>0, <2>3
        <5>2. QED BY <4>1, <5>1
      <4>2. CASE k # m BY <1>0, <2>3, <4>2
      <4>3. QED BY <4>1, <4>2
    <3>2. QED BY <2>2, <3>1
  <2>5. g[0] = 0 BY <1>0, <2>2, <2>3
  <2>6. ASSUME NEW k \in 1 .. m PROVE g[k] = g[k - 1] + s[k]
    <3>1. k - 1 \in 0 .. m /\ k - 1 # m /\ k \in 0 .. m BY <1>0
    <3>2. g[k - 1] = f[k - 1] BY <2>2, <3>1
    <3>3. CASE k = m BY <2>2, <3>1, <3>2, <3>3
    <3>4. CASE k # m
      <4>1. k \in 1 .. (m - 1) BY <1>0, <3>4
      <4>2. QED BY <2>2, <2>3, <3>1, <3>2, <3>4, <4>1
    <3>5. QED BY <3>3, <3>4
  <2>7. Sums(g, s, m) BY <2>4, <2>5, <2>6 DEF Sums
  <2>8. m \in 0 .. n BY <1>0
  <2>9. QED BY <2>7, <2>8
<1> HIDE DEF T
<1>3. 0 .. n \subseteq T BY <1>0, <1>1, <1>2, Climb
<1>4. n \in T BY <1>0, <1>3
<1>5. QED BY <1>4 DEF T

\* Total is the last of the sums.
LEMMA TotalIs ==
  ASSUME NEW s, NEW n, Ints(s, n)
  PROVE  \E f : Sums(f, s, n) /\ Total(s) = f[n]
<1>0. n \in Nat /\ Len(s) = n /\ \A k \in 1 .. n : s[k] \in Int BY DEF Ints
<1> DEFINE Eq(f) == f = [m \in 0 .. Len(s) |-> IF m = 0 THEN 0 ELSE f[m - 1] + s[m]]
<1>1. \E f : Eq(f)
  <2>1. PICK f : Sums(f, s, n) BY SumsExist
  <2>2. f \in [0 .. n -> Int] /\ f[0] = 0 /\ \A k \in 1 .. n : f[k] = f[k - 1] + s[k]
    BY <2>1 DEF Sums
  <2>3. \A m \in 0 .. n : f[m] = IF m = 0 THEN 0 ELSE f[m - 1] + s[m]
    BY <1>0, <2>2
  <2>4. f = [m \in 0 .. n |-> IF m = 0 THEN 0 ELSE f[m - 1] + s[m]]
    BY <2>2, <2>3
  <2>5. QED BY <1>0, <2>4
<1>2. PICK f : f = CHOOSE g : Eq(g) OBVIOUS
<1>3. Eq(f) BY <1>1, <1>2, Zenon
<1>4. Total(s) = f[Len(s)] BY <1>2, Zenon DEF Total
<1>5. f = [m \in 0 .. n |-> IF m = 0 THEN 0 ELSE f[m - 1] + s[m]] BY <1>0, <1>3
<1>6. f[0] = 0 /\ \A k \in 1 .. n : f[k] = f[k - 1] + s[k]
  <2>1. \A m \in 0 .. n : f[m] = IF m = 0 THEN 0 ELSE f[m - 1] + s[m] BY <1>5, Zenon
  <2>2. QED BY <1>0, <2>1
<1>7. PICK T : T = {m \in 0 .. n : f[m] \in Int} OBVIOUS
<1>8. 0 \in T BY <1>0, <1>6, <1>7
<1>9. \A k \in 1 .. n : k - 1 \in T => k \in T BY <1>0, <1>6, <1>7
<1>10. 0 .. n \subseteq T BY <1>0, <1>8, <1>9, Climb
<1>11. DOMAIN f = 0 .. n /\ \A m \in 0 .. n : f[m] \in Int
  <2>1. DOMAIN f = 0 .. n BY <1>5
  <2>2. QED BY <1>7, <1>10, <2>1
<1>12. f = [m \in 0 .. n |-> f[m]] BY <1>5
<1>13. f \in [0 .. n -> Int] BY <1>11, <1>12
<1>14. QED BY <1>0, <1>4, <1>6, <1>13 DEF Sums

LEMMA TotalInsert ==
  ASSUME NEW s, NEW n, Ints(s, n), NEW t, NEW i \in 1 .. (n + 1), NEW e \in Int,
         Inserts(t, s, i, e)
  PROVE  Total(s) \in Int /\ Total(t) = Total(s) + e
<1>0. n \in Nat /\ Len(s) = n /\ \A k \in 1 .. n : s[k] \in Int BY DEF Ints
<1>1. /\ Len(t) = n + 1
      /\ \A k \in 1 .. (n + 1) : t[k] = IF k < i THEN s[k] ELSE IF k = i THEN e ELSE s[k - 1]
  BY <1>0 DEF Inserts
<1>2. Ints(t, n + 1) BY <1>0, <1>1 DEF Ints
<1>3. PICK f : Sums(f, s, n) /\ Total(s) = f[n] BY TotalIs
<1>4. PICK g : Sums(g, t, n + 1) /\ Total(t) = g[n + 1] BY <1>2, TotalIs
<1>5. f \in [0 .. n -> Int] /\ f[0] = 0 /\ \A k \in 1 .. n : f[k] = f[k - 1] + s[k]
  BY <1>3 DEF Sums
<1>6. g[0] = 0 /\ \A k \in 1 .. (n + 1) : g[k] = g[k - 1] + t[k]
  BY <1>4 DEF Sums
<1>7. PICK T : T = {m \in 0 .. (n + 1) : g[m] = IF m < i THEN f[m] ELSE f[m - 1] + e}
  OBVIOUS
<1>8. 0 \in T BY <1>0, <1>5, <1>6, <1>7
<1>9. ASSUME NEW k \in 1 .. (n + 1), k - 1 \in T PROVE k \in T
  <2>1. g[k] = g[k - 1] + t[k] BY <1>6
  <2>2. CASE k < i
    <3>1. k \in 1 .. n /\ k - 1 < i BY <1>0, <2>2
    <3>2. g[k - 1] = f[k - 1] BY <1>7, <1>9, <3>1
    <3>3. g[k] = f[k] BY <1>1, <1>5, <2>1, <2>2, <3>1, <3>2
    <3>4. QED BY <1>7, <2>2, <3>3
  <2>3. CASE k = i
    <3>1. k - 1 < i BY <1>0, <2>3
    <3>2. g[k - 1] = f[k - 1] BY <1>7, <1>9, <3>1
    <3>3. g[k] = f[k - 1] + e BY <1>1, <2>1, <2>3, <3>2
    <3>4. QED BY <1>7, <2>3, <3>3
  <2>4. CASE k > i
    <3>1. k - 1 \in 1 .. n /\ ~(k - 1 < i) /\ ~(k < i) /\ k # i /\ (k - 1) - 1 \in 0 .. n
      BY <1>0, <2>4
    <3>2. g[k - 1] = f[(k - 1) - 1] + e BY <1>7, <1>9, <3>1
    <3>3. f[k - 1] = f[(k - 1) - 1] + s[k - 1] BY <1>5, <3>1
    <3>4. t[k] = s[k - 1] BY <1>1, <3>1
    <3>5. f[(k - 1) - 1] \in Int /\ s[k - 1] \in Int BY <1>0, <1>5, <3>1
    <3>6. g[k] = f[k - 1] + e BY <2>1, <3>2, <3>3, <3>4, <3>5
    <3>7. QED BY <1>7, <3>1, <3>6
  <2>5. QED BY <1>0, <2>2, <2>3, <2>4
<1>10. 0 .. (n + 1) \subseteq T
  <2>1. n + 1 \in Nat BY <1>0
  <2>2. \A k \in 1 .. (n + 1) : k - 1 \in T => k \in T BY <1>9
  <2>3. QED BY <1>8, <2>1, <2>2, Climb
<1>11. n + 1 \in T BY <1>0, <1>10
<1>12. g[n + 1] = f[n] + e
  <2>1. ~(n + 1 < i) /\ (n + 1) - 1 = n BY <1>0
  <2>2. QED BY <1>7, <1>11, <2>1
<1>13. f[n] \in Int BY <1>0, <1>5
<1>14. QED BY <1>3, <1>4, <1>12, <1>13

LEMMA TotalExcept ==
  ASSUME NEW s, NEW n, Ints(s, n), NEW t, NEW i \in 1 .. n, NEW e \in Int, Len(t) = n,
         \A k \in 1 .. n : t[k] = IF k = i THEN e ELSE s[k]
  PROVE  Total(s) \in Int /\ Total(t) = Total(s) + e - s[i]
<1>0. n \in Nat /\ Len(s) = n /\ \A k \in 1 .. n : s[k] \in Int BY DEF Ints
<1>2. Ints(t, n) BY <1>0 DEF Ints
<1>3. PICK f : Sums(f, s, n) /\ Total(s) = f[n] BY TotalIs
<1>4. PICK g : Sums(g, t, n) /\ Total(t) = g[n] BY <1>2, TotalIs
<1>5. f \in [0 .. n -> Int] /\ f[0] = 0 /\ \A k \in 1 .. n : f[k] = f[k - 1] + s[k]
  BY <1>3 DEF Sums
<1>6. g[0] = 0 /\ \A k \in 1 .. n : g[k] = g[k - 1] + t[k]
  BY <1>4 DEF Sums
<1>7. PICK T : T = {m \in 0 .. n : g[m] = IF m < i THEN f[m] ELSE f[m] + e - s[i]}
  OBVIOUS
<1>8. 0 \in T BY <1>0, <1>5, <1>6, <1>7
<1>9. ASSUME NEW k \in 1 .. n, k - 1 \in T PROVE k \in T
  <2>0. /\ g[k] = g[k - 1] + t[k] /\ f[k] = f[k - 1] + s[k]
        /\ f[k - 1] \in Int /\ s[k] \in Int /\ s[i] \in Int
    <3>1. k - 1 \in 0 .. n BY <1>0
    <3>2. QED BY <1>0, <1>5, <1>6, <3>1
  <2>1. g[k - 1] = IF k - 1 < i THEN f[k - 1] ELSE f[k - 1] + e - s[i] BY <1>7, <1>9
  <2>2. CASE k < i
    <3>1. g[k] = f[k] BY <1>0, <2>0, <2>1, <2>2
    <3>2. QED BY <1>0, <1>7, <2>2, <3>1
  <2>3. CASE k = i
    <3>1. g[k] = f[k] + e - s[i] BY <1>0, <2>0, <2>1, <2>3
    <3>2. QED BY <1>0, <1>7, <2>3, <3>1
  <2>4. CASE k > i
    <3>1. g[k] = f[k] + e - s[i] BY <1>0, <2>0, <2>1, <2>4
    <3>2. QED BY <1>0, <1>7, <2>4, <3>1
  <2>5. QED BY <1>0, <2>2, <2>3, <2>4
<1>10. 0 .. n \subseteq T BY <1>0, <1>8, <1>9, Climb
<1>11. n \in T BY <1>0, <1>10
<1>12. g[n] = f[n] + e - s[i] BY <1>0, <1>7, <1>11
<1>13. f[n] \in Int BY <1>0, <1>5
<1>14. QED BY <1>3, <1>4, <1>12, <1>13

-----------------------------------------------------------------------------
(* One major.                                                              *)

Minor == [at : Nat, size : Nat, req : Nat]

Major == [base : Nat, pages : Nat, usage : Int, minors : Seq(Minor)]

\* Every minor ends where the next one starts, or before, and so does the last
\* one at the end of the major.
Ordered(maj) == \A j \in 0 .. Len(maj.minors) : GapStart(maj, j) <= GapEnd(maj, j)

\* Every minor has room for the bytes asked for behind the moved pointer.
Roomy(maj) ==
    \A j \in 1 .. Len(maj.minors) :
        maj.minors[j].req + ALIGNMENT + ALIGN_INFO <= maj.minors[j].size

Sound(maj) == maj \in Major /\ Ordered(maj) /\ Roomy(maj)

LEMMA MinorIs ==
  ASSUME NEW maj \in Major, NEW j \in 1 .. Len(maj.minors)
  PROVE  /\ maj.minors[j] \in Minor
         /\ maj.minors[j].at \in Nat /\ maj.minors[j].size \in Nat
         /\ maj.minors[j].req \in Nat
<1>1. maj.minors \in Seq(Minor) BY DEF Major
<1>2. maj.minors[j] \in Minor BY <1>1, ElementOfSeq, Zenon
<1>3. QED BY <1>2 DEF Minor

LEMMA GapIs ==
  ASSUME NEW maj \in Major, NEW j \in 0 .. Len(maj.minors)
  PROVE  GapStart(maj, j) \in Nat /\ GapEnd(maj, j) \in Nat
<1>1. PICK n \in Nat : n = Len(maj.minors)
  <2>1. maj.minors \in Seq(Minor) BY DEF Major
  <2>2. QED BY <2>1, LenProperties
<1>2. maj.base \in Nat /\ maj.pages \in Nat BY DEF Major
<1>3. GapStart(maj, j) \in Nat
  <2>1. CASE j = 0 BY <1>2, <2>1, SizesAre DEF GapStart
  <2>2. CASE j # 0
    <3>1. j \in 1 .. n BY <1>1, <2>2
    <3>2. maj.minors[j].at \in Nat /\ maj.minors[j].size \in Nat
      BY <1>1, <3>1, MinorIs
    <3>3. QED BY <2>2, <3>2, SizesAre DEF GapStart
  <2>3. QED BY <2>1, <2>2
<1>4. GapEnd(maj, j) \in Nat
  <2>1. CASE j = n
    <3>1. maj.pages * PageSize \in Nat BY <1>2, SizesAre
    <3>2. QED BY <1>1, <1>2, <2>1, <3>1 DEF GapEnd, Size
  <2>2. CASE j # n
    <3>1. j + 1 \in 1 .. n BY <1>1, <2>2
    <3>2. maj.minors[j + 1].at \in Nat BY <1>1, <3>1, MinorIs
    <3>3. QED BY <1>1, <2>2, <3>2 DEF GapEnd
  <2>3. QED BY <2>1, <2>2
<1>5. QED BY <1>3, <1>4

\* malloc keeps the order of a major in which it found a place.
LEMMA InsertedSound ==
  ASSUME NEW maj, Sound(maj), NEW j \in 0 .. Len(maj.minors), NEW req \in Nat,
         GapEnd(maj, j) - GapStart(maj, j) >= Padded(req) + MINOR
  PROVE  /\ Sound(Inserted(maj, j, req))
         /\ Inserted(maj, j, req).base = maj.base
         /\ Inserted(maj, j, req).minors # <<>>
<1>1. maj \in Major /\ Ordered(maj) /\ Roomy(maj) BY DEF Sound
<1>2. PICK s \in Seq(Minor) : s = maj.minors BY <1>1 DEF Major
<1>3. PICK n \in Nat : n = Len(s) BY LenProperties
<1>4. j \in 0 .. n BY <1>2, <1>3
<1>5. PICK g \in Nat, h \in Nat : g = GapStart(maj, j) /\ h = GapEnd(maj, j)
  BY <1>1, GapIs
<1>6. PICK e \in Minor : e = [at |-> g, size |-> Padded(req), req |-> req]
  <2>1. Padded(req) \in Nat BY SizesAre DEF Padded
  <2>2. [at |-> g, size |-> Padded(req), req |-> req] \in Minor BY <2>1 DEF Minor
  <2>3. QED BY <2>2, Zenon
<1>7. e.at = g /\ e.size = Padded(req) /\ e.req = req BY <1>6
<1>8. PICK t \in Seq(Minor) : t = InsertAt(s, j + 1, e) /\ Inserts(t, s, j + 1, e)
  <2>1. j + 1 \in 1 .. (Len(s) + 1) BY <1>3, <1>4
  <2>2. InsertAt(s, j + 1, e) \in Seq(Minor) /\ Inserts(InsertAt(s, j + 1, e), s, j + 1, e)
    BY <2>1, InsertAtIs
  <2>3. QED BY <2>2, Zenon
<1>9. /\ Len(t) = n + 1
      /\ \A k \in 1 .. (n + 1) :
            t[k] = IF k < j + 1 THEN s[k] ELSE IF k = j + 1 THEN e ELSE s[k - 1]
  BY <1>3, <1>8 DEF Inserts
<1>10. PICK m : m = Inserted(maj, j, req) OBVIOUS
<1>11. /\ m.base = maj.base /\ m.pages = maj.pages /\ m.minors = t /\ m \in Major
  <2>1. m = [maj EXCEPT !.usage = maj.usage + Padded(req) + MINOR, !.minors = t]
    BY <1>2, <1>5, <1>6, <1>8, <1>10 DEF Inserted
  <2>2. maj.usage + Padded(req) + MINOR \in Int BY <1>1, SizesAre DEF Major, Padded
  <2>3. QED BY <1>1, <2>1, <2>2 DEF Major
<1>12. Size(m) = Size(maj) /\ Size(maj) \in Nat /\ maj.base \in Nat
  BY <1>1, <1>11, SizesAre DEF Size, Major
<1>13. h - g >= Padded(req) + MINOR BY <1>5
<1>14. ASSUME NEW k \in 0 .. (n + 1) PROVE GapStart(m, k) <= GapEnd(m, k)
  <2>1. CASE k < j
    <3>1. GapStart(m, k) = GapStart(maj, k)
      BY <1>2, <1>4, <1>9, <1>11, <2>1 DEF GapStart
    <3>2. GapEnd(m, k) = GapEnd(maj, k)
      BY <1>2, <1>3, <1>4, <1>9, <1>11, <2>1 DEF GapEnd
    <3>3. k \in 0 .. Len(maj.minors) BY <1>2, <1>3, <1>4, <2>1
    <3>4. QED BY <1>1, <3>1, <3>2, <3>3 DEF Ordered
  <2>2. CASE k = j
    <3>1. GapStart(m, k) = g
      BY <1>2, <1>4, <1>5, <1>9, <1>11, <2>2 DEF GapStart
    <3>2. GapEnd(m, k) = g
      BY <1>4, <1>7, <1>9, <1>11, <2>2 DEF GapEnd
    <3>3. QED BY <3>1, <3>2
  <2>3. CASE k = j + 1
    <3>1. GapStart(m, k) = g + MINOR + Padded(req)
      BY <1>4, <1>7, <1>9, <1>11, <2>3 DEF GapStart
    <3>2. GapEnd(m, k) = h
      <4>1. CASE j = n
        BY <1>2, <1>3, <1>5, <1>9, <1>11, <1>12, <2>3, <4>1 DEF GapEnd
      <4>2. CASE j # n
        <5>1. k # n + 1 /\ k + 1 \in 1 .. (n + 1) /\ ~(k + 1 < j + 1) /\ k + 1 # j + 1
              /\ (k + 1) - 1 = j + 1
          BY <1>4, <2>3, <4>2
        <5>2. t[k + 1] = s[j + 1] BY <1>9, <5>1
        <5>3. GapEnd(m, k) = t[k + 1].at BY <1>9, <1>11, <5>1 DEF GapEnd
        <5>4. GapEnd(maj, j) = s[j + 1].at BY <1>2, <1>3, <4>2 DEF GapEnd
        <5>5. QED BY <1>5, <5>2, <5>3, <5>4
      <4>3. QED BY <4>1, <4>2
    <3>3. QED BY <1>13, <3>1, <3>2, SizesAre DEF Padded
  <2>4. CASE k > j + 1
    <3>0. /\ k \in 1 .. (n + 1) /\ k - 1 \in 1 .. n /\ k # 0 /\ k - 1 # 0
          /\ ~(k < j + 1) /\ k # j + 1 /\ k - 1 \in 0 .. n
      BY <1>4, <2>4
    <3>1. GapStart(m, k) = GapStart(maj, k - 1)
      <4>1. t[k] = s[k - 1] BY <1>9, <3>0
      <4>2. QED BY <1>2, <1>11, <3>0, <4>1 DEF GapStart
    <3>2. GapEnd(m, k) = GapEnd(maj, k - 1)
      <4>1. CASE k = n + 1
        BY <1>2, <1>3, <1>9, <1>11, <1>12, <4>1 DEF GapEnd
      <4>2. CASE k # n + 1
        <5>1. k + 1 \in 1 .. (n + 1) /\ ~(k + 1 < j + 1) /\ k + 1 # j + 1
              /\ (k + 1) - 1 = k /\ (k - 1) + 1 = k /\ k - 1 # n
          BY <1>4, <3>0, <4>2
        <5>2. t[k + 1] = s[k] BY <1>9, <5>1
        <5>3. GapEnd(m, k) = t[k + 1].at BY <1>9, <1>11, <4>2 DEF GapEnd
        <5>4. GapEnd(maj, k - 1) = s[k].at BY <1>2, <1>3, <5>1 DEF GapEnd
        <5>5. QED BY <5>2, <5>3, <5>4
      <4>3. QED BY <4>1, <4>2
    <3>3. k - 1 \in 0 .. Len(maj.minors) BY <1>2, <1>3, <3>0
    <3>4. QED BY <1>1, <3>1, <3>2, <3>3 DEF Ordered
  <2>5. QED BY <1>4, <2>1, <2>2, <2>3, <2>4
<1>15. ASSUME NEW k \in 1 .. (n + 1)
       PROVE  t[k].req + ALIGNMENT + ALIGN_INFO <= t[k].size
  <2>1. CASE k = j + 1
    BY <1>7, <1>9, <2>1, SizesAre DEF Padded
  <2>2. CASE k # j + 1
    <3>1. PICK l \in 1 .. n : t[k] = s[l]
      <4>1. CASE k < j + 1 BY <1>4, <1>9, <4>1
      <4>2. CASE k > j + 1
        <5>1. k - 1 \in 1 .. n /\ t[k] = s[k - 1] BY <1>4, <1>9, <4>2
        <5>2. QED BY <5>1
      <4>3. QED BY <1>4, <2>2, <4>1, <4>2
    <3>2. QED BY <1>1, <1>2, <1>3, <3>1 DEF Roomy
  <2>3. QED BY <2>1, <2>2
<1>16. Sound(m) BY <1>9, <1>11, <1>14, <1>15 DEF Sound, Ordered, Roomy
<1>17. t # <<>> BY <1>9, EmptySeq
<1>18. QED BY <1>10, <1>11, <1>16, <1>17

\* free keeps the order of the minors that stay.
LEMMA RemovedSound ==
  ASSUME NEW maj, Sound(maj), NEW j \in 1 .. Len(maj.minors), NEW u \in Int,
         NEW m, m = [maj EXCEPT !.usage = u, !.minors = RemoveAt(maj.minors, j)]
  PROVE  Sound(m) /\ m.base = maj.base
<1>1. maj \in Major /\ Ordered(maj) /\ Roomy(maj) BY DEF Sound
<1>2. PICK s \in Seq(Minor) : s = maj.minors BY <1>1 DEF Major
<1>3. PICK n \in Nat : n = Len(s) BY LenProperties
<1>4. j \in 1 .. n BY <1>2, <1>3
<1>5. PICK t \in Seq(Minor) : t = RemoveAt(s, j) /\ Removes(t, s, j)
  <2>1. j \in 1 .. Len(s) BY <1>3, <1>4
  <2>2. RemoveAt(s, j) \in Seq(Minor) /\ Removes(RemoveAt(s, j), s, j)
    BY <2>1, RemoveAtIs
  <2>3. QED BY <2>2, Zenon
<1>6. Len(t) = n - 1 /\ \A k \in 1 .. (n - 1) : t[k] = IF k < j THEN s[k] ELSE s[k + 1]
  BY <1>3, <1>5 DEF Removes
<1>7. m.base = maj.base /\ m.pages = maj.pages /\ m.minors = t /\ m \in Major
  BY <1>1, <1>2, <1>5 DEF Major
<1>8. Size(m) = Size(maj) BY <1>7 DEF Size
<1>9. ASSUME NEW k \in 0 .. (n - 1) PROVE GapStart(m, k) <= GapEnd(m, k)
  <2>1. /\ GapStart(m, k) = IF k < j THEN GapStart(maj, k) ELSE GapStart(maj, k + 1)
    <3>1. CASE k = 0 BY <1>4, <1>7, <3>1 DEF GapStart
    <3>2. CASE k # 0 /\ k < j
      <4>1. t[k] = s[k] BY <1>6, <3>2
      <4>2. QED BY <1>2, <1>7, <3>2, <4>1 DEF GapStart
    <3>3. CASE k # 0 /\ ~(k < j)
      <4>1. t[k] = s[k + 1] /\ k + 1 # 0 BY <1>6, <3>3
      <4>2. QED BY <1>2, <1>7, <3>3, <4>1 DEF GapStart
    <3>4. QED BY <3>1, <3>2, <3>3
  <2>2. GapEnd(m, k) = IF k + 1 < j THEN GapEnd(maj, k) ELSE GapEnd(maj, k + 1)
    <3>1. CASE k = n - 1
      BY <1>2, <1>3, <1>4, <1>6, <1>7, <1>8, <3>1 DEF GapEnd
    <3>2. CASE k # n - 1 /\ k + 1 < j
      <4>1. t[k + 1] = s[k + 1] /\ k # n BY <1>4, <1>6, <3>2
      <4>2. QED BY <1>2, <1>3, <1>6, <1>7, <3>2, <4>1 DEF GapEnd
    <3>3. CASE k # n - 1 /\ ~(k + 1 < j)
      <4>1. t[k + 1] = s[(k + 1) + 1] /\ k + 1 # n BY <1>4, <1>6, <3>3
      <4>2. GapEnd(m, k) = t[k + 1].at BY <1>6, <1>7, <3>3 DEF GapEnd
      <4>3. GapEnd(maj, k + 1) = s[(k + 1) + 1].at
        BY <1>2, <1>3, <4>1 DEF GapEnd
      <4>4. QED BY <3>3, <4>1, <4>2, <4>3
    <3>4. QED BY <3>1, <3>2, <3>3
  <2>3. \A l \in 0 .. n : /\ GapStart(maj, l) <= GapEnd(maj, l)
                          /\ GapStart(maj, l) \in Nat /\ GapEnd(maj, l) \in Nat
    BY <1>1, <1>2, <1>3, GapIs DEF Ordered
  <2>4. CASE k + 1 < j BY <1>4, <2>1, <2>2, <2>3, <2>4
  <2>5. CASE k + 1 = j
    <3>1. GapEnd(maj, k) = s[j].at
      BY <1>2, <1>3, <1>4, <2>5 DEF GapEnd
    <3>2. GapStart(maj, k + 1) = s[j].at + MINOR + s[j].size
      BY <1>2, <1>4, <2>5 DEF GapStart
    <3>3. s[j].at \in Nat /\ s[j].size \in Nat BY <1>1, <1>2, MinorIs
    <3>4. k \in 0 .. n /\ k + 1 \in 0 .. n /\ k < j /\ ~(k + 1 < j) BY <1>4, <2>5
    <3>5. GapStart(maj, k) <= s[j].at /\ s[j].at + MINOR + s[j].size <= GapEnd(maj, k + 1)
      BY <2>3, <3>1, <3>2, <3>4
    <3>6. GapStart(m, k) = GapStart(maj, k) /\ GapEnd(m, k) = GapEnd(maj, k + 1)
      BY <2>1, <2>2, <3>4
    <3>7. GapStart(maj, k) \in Nat /\ GapEnd(maj, k + 1) \in Nat BY <2>3, <3>4
    <3>8. \A x, y, a, z \in Nat : x <= a /\ a + MINOR + z <= y => x <= y
      BY OrderFacts
    <3>9. GapStart(maj, k) <= GapEnd(maj, k + 1) BY <3>3, <3>5, <3>7, <3>8
    <3>10. QED BY <3>6, <3>9
  <2>6. CASE k + 1 > j
    <3>1. k + 1 \in 0 .. n /\ ~(k < j) /\ ~(k + 1 < j) BY <1>4, <2>6
    <3>2. QED BY <2>1, <2>2, <2>3, <3>1
  <2>7. QED BY <1>4, <2>4, <2>5, <2>6
<1>10. ASSUME NEW k \in 1 .. (n - 1)
       PROVE  t[k].req + ALIGNMENT + ALIGN_INFO <= t[k].size
  <2>1. PICK l \in 1 .. n : t[k] = s[l]
    <3>1. CASE k < j BY <1>4, <1>6, <3>1
    <3>2. CASE k >= j
      <4>1. k + 1 \in 1 .. n /\ t[k] = s[k + 1] BY <1>4, <1>6, <3>2
      <4>2. QED BY <4>1
    <3>3. QED BY <1>4, <3>1, <3>2
  <2>2. QED BY <1>1, <1>2, <1>3, <2>1 DEF Roomy
<1>11. QED BY <1>6, <1>7, <1>9, <1>10 DEF Sound, Ordered, Roomy

\* krealloc to a smaller size leaves the order alone.
LEMMA ShrunkSound ==
  ASSUME NEW maj, Sound(maj), NEW j \in 1 .. Len(maj.minors), NEW req \in Nat,
         req < maj.minors[j].req,
         NEW m, m = [maj EXCEPT !.minors[j].req = req]
  PROVE  Sound(m) /\ m.base = maj.base /\ Len(m.minors) = Len(maj.minors)
<1>1. maj \in Major /\ Ordered(maj) /\ Roomy(maj) BY DEF Sound
<1>2. PICK s \in Seq(Minor) : s = maj.minors BY <1>1 DEF Major
<1>3. PICK n \in Nat : n = Len(s) /\ DOMAIN s = 1 .. n BY LenProperties
<1>4. j \in 1 .. n BY <1>2, <1>3
<1>5. s[j] \in Minor BY <1>1, <1>2, MinorIs
<1>6. PICK e \in Minor : e = [s[j] EXCEPT !.req = req]
  <2>1. [s[j] EXCEPT !.req = req] \in Minor BY <1>5 DEF Minor
  <2>2. QED BY <2>1, Zenon
<1>7. e.at = s[j].at /\ e.size = s[j].size /\ e.req = req
  BY <1>5, <1>6 DEF Minor
<1>8. PICK t : t = [s EXCEPT ![j] = e] OBVIOUS
<1>9. t \in Seq(Minor) /\ Len(t) = n
  BY <1>3, <1>4, <1>8, ExceptSeq
<1>10. t[j] = e /\ \A k \in 1 .. n : k # j => t[k] = s[k]
  BY <1>3, <1>4, <1>8
<1>11. m = [maj EXCEPT !.minors = t]
  BY <1>1, <1>2, <1>6, <1>8 DEF Major
<1>12. m.base = maj.base /\ m.pages = maj.pages /\ m.minors = t /\ m \in Major
  BY <1>1, <1>9, <1>11 DEF Major
<1>13. \A k \in 1 .. n : t[k].at = s[k].at /\ t[k].size = s[k].size
  BY <1>7, <1>10
<1>14. ASSUME NEW k \in 0 .. n PROVE GapStart(m, k) <= GapEnd(m, k)
  <2>1. GapStart(m, k) = GapStart(maj, k)
    <3>1. CASE k = 0 BY <1>12, <3>1 DEF GapStart
    <3>2. CASE k # 0
      <4>1. k \in 1 .. n BY <3>2
      <4>2. QED BY <1>2, <1>12, <1>13, <3>2, <4>1 DEF GapStart
    <3>3. QED BY <3>1, <3>2
  <2>2. GapEnd(m, k) = GapEnd(maj, k)
    <3>1. CASE k = n BY <1>2, <1>3, <1>9, <1>12, <3>1 DEF GapEnd, Size
    <3>2. CASE k # n
      <4>1. k + 1 \in 1 .. n BY <3>2
      <4>2. QED BY <1>2, <1>3, <1>9, <1>12, <1>13, <3>2, <4>1 DEF GapEnd
    <3>3. QED BY <3>1, <3>2
  <2>3. QED BY <1>1, <1>2, <1>3, <2>1, <2>2 DEF Ordered
<1>15. ASSUME NEW k \in 1 .. n
       PROVE  t[k].req + ALIGNMENT + ALIGN_INFO <= t[k].size
  <2>1. s[k].req + ALIGNMENT + ALIGN_INFO <= s[k].size
    BY <1>1, <1>2, <1>3 DEF Roomy
  <2>2. CASE k # j BY <1>10, <2>1, <2>2
  <2>3. CASE k = j
    <3>1. s[j].req \in Nat /\ s[j].size \in Nat BY <1>5 DEF Minor
    <3>2. req < s[j].req BY <1>2
    <3>3. \A x, y, z \in Nat : x < y /\ y + ALIGNMENT + ALIGN_INFO <= z
                            => x + ALIGNMENT + ALIGN_INFO <= z
      BY OrderFacts
    <3>4. req + ALIGNMENT + ALIGN_INFO <= s[j].size BY <2>1, <2>3, <3>1, <3>2, <3>3
    <3>5. QED BY <1>7, <1>10, <2>3, <3>4
  <2>4. QED BY <2>2, <2>3
<1>16. QED BY <1>2, <1>3, <1>9, <1>12, <1>14, <1>15 DEF Sound, Ordered, Roomy

-----------------------------------------------------------------------------
(* The inductive invariant.                                                *)

\* BlocksDisjoint does not say that a block has the room that ALIGN may use
\* up, without which a later step would break it.
IInv ==
    /\ majors \in Seq(Major)
    /\ \A i \in 1 .. Len(majors) : Sound(majors[i]) /\ majors[i].minors # <<>>
    /\ heap \in Nat
    /\ bestBet # NULL => \E i \in 1 .. Len(majors) : majors[i].base = bestBet

LEMMA MajorsAre ==
  ASSUME IInv
  PROVE  /\ Len(majors) \in Nat /\ DOMAIN majors = 1 .. Len(majors)
         /\ \A i \in 1 .. Len(majors) :
               /\ majors[i] \in Major /\ majors[i].minors \in Seq(Minor)
               /\ DOMAIN majors[i].minors = 1 .. Len(majors[i].minors)
<1>1. majors \in Seq(Major) BY DEF IInv
<1>2. Len(majors) \in Nat /\ DOMAIN majors = 1 .. Len(majors) BY <1>1, LenProperties
<1>3. ASSUME NEW i \in 1 .. Len(majors)
      PROVE  /\ majors[i] \in Major /\ majors[i].minors \in Seq(Minor)
             /\ DOMAIN majors[i].minors = 1 .. Len(majors[i].minors)
  <2>1. majors[i] \in Major BY <1>1, ElementOfSeq, Zenon
  <2>2. majors[i].minors \in Seq(Minor) BY <2>1 DEF Major
  <2>3. QED BY <2>1, <2>2, LenProperties
<1>4. QED BY <1>2, <1>3

LEMMA IndexOfIs ==
  ASSUME IInv, bestBet # NULL
  PROVE  IndexOf(bestBet) \in 1 .. Len(majors)
<1>1. \E i \in DOMAIN majors : majors[i].base = bestBet BY MajorsAre DEF IInv
<1>2. IndexOf(bestBet) \in DOMAIN majors BY <1>1, Zenon DEF IndexOf
<1>3. QED BY <1>2, MajorsAre

\* malloc's loop looks at majors of the list.
LEMMA PathIs ==
  ASSUME IInv, NEW need
  PROVE  SearchPath(need) \in Seq(1 .. Len(majors))
<1>1. PICK n \in Nat : n = Len(majors) /\ DOMAIN majors = 1 .. n BY MajorsAre
<1>2. PICK all \in Seq(1 .. n) : all = [i \in DOMAIN majors |-> i] /\ Len(all) = n
  <2>1. [i \in 1 .. n |-> i] \in Seq(1 .. n) /\ Len([i \in 1 .. n |-> i]) = n
    OBVIOUS
  <2>2. QED BY <1>1, <2>1, Zenon
<1>3. PICK bet : bet = IF bestBet = NULL THEN 0 ELSE IndexOf(bestBet) OBVIOUS
<1>4. bet # 0 => bet \in 1 .. n
  BY <1>1, <1>3, IndexOfIs
<1>5. SearchPath(need) = IF bet # 0 /\ FreeBytes(majors[bet]) > need
                         THEN SubSeq(all, bet, Len(all)) \o all ELSE all
  BY <1>2, <1>3, Zenon DEF SearchPath
<1>6. CASE bet # 0 /\ FreeBytes(majors[bet]) > need
  <2>1. bet \in 1 .. n BY <1>4, <1>6
  <2>2. SubSeq(all, bet, n) \in Seq(1 .. n) BY <1>2, <2>1, SubSeqIs
  <2>3. SubSeq(all, bet, n) \o all \in Seq(1 .. n) BY <2>2, ConcatProperties, Zenon
  <2>4. QED BY <1>1, <1>2, <1>5, <1>6, <2>3
<1>7. CASE ~(bet # 0 /\ FreeBytes(majors[bet]) > need)
  BY <1>1, <1>2, <1>5, <1>7
<1>8. QED BY <1>6, <1>7

\* The best bet is kept, or is one of the majors looked at.
LEMMA BetAfterIs ==
  ASSUME NEW seen, DOMAIN seen \subseteq Nat
  PROVE  \/ BetAfter(seen) = bestBet
         \/ \E k \in DOMAIN seen : BetAfter(seen) = seen[k].base
<1>1. PICK room : room = IF bestBet = NULL THEN 0 ELSE FreeBytes(majors[IndexOf(bestBet)])
  OBVIOUS
<1>2. PICK better :
        better = {k \in DOMAIN seen :
                    /\ FreeBytes(seen[k]) > room
                    /\ \A l \in DOMAIN seen : FreeBytes(seen[l]) <= FreeBytes(seen[k])}
  OBVIOUS
<1>3. BetAfter(seen) = IF better = {} THEN bestBet ELSE seen[Min(better)].base
  BY <1>1, <1>2, Zenon DEF BetAfter
<1>4. better \subseteq DOMAIN seen BY <1>2
<1>5. better # {} => Min(better) \in DOMAIN seen
  <2>1. better \subseteq Nat BY <1>4
  <2>2. QED BY <1>4, <2>1, MinIsLeast
<1>6. QED BY <1>3, <1>5

LEMMA InitIInv == Init => IInv
  BY EmptySeq DEF Init, IInv

\* malloc found a place in major i, the last one of those it looked at.
Found(i, j, need, seen) ==
    /\ i \in 1 .. Len(majors) /\ j \in 0 .. Len(majors[i].minors)
    /\ GapEnd(majors[i], j) - GapStart(majors[i], j) >= need
    /\ DOMAIN seen \subseteq Nat
    /\ \A k \in DOMAIN seen : \E l \in 1 .. Len(majors) : seen[k] = majors[l]

LEMMA MallocInsideIs ==
  ASSUME IInv, NEW req \in Nat, MallocInside(req)
  PROVE  \E i, j, seen :
            /\ Found(i, j, Padded(req) + MINOR, seen)
            /\ majors' = [majors EXCEPT ![i] = Inserted(majors[i], j, req)]
            /\ bestBet' = BetAfter(seen)
<1> DEFINE need == Padded(req) + MINOR
           hits == {k \in DOMAIN SearchPath(need) :
                      Places(majors[SearchPath(need)[k]], need) # {}}
<1>1. PICK n \in Nat : n = Len(majors) /\ DOMAIN majors = 1 .. n BY MajorsAre
<1>2. PICK path \in Seq(1 .. n) : path = SearchPath(need) BY <1>1, PathIs, Zenon
<1>3. /\ DOMAIN path = 1 .. Len(path) /\ Len(path) \in Nat
      /\ \A k \in DOMAIN path : path[k] \in 1 .. n
  BY <1>2, LenProperties, ElementOfSeq
<1>4. hits # {} /\ hits \subseteq DOMAIN path
  BY <1>2 DEF MallocInside
<1>5. PICK x \in DOMAIN path : x = Min(hits) /\ Places(majors[path[x]], need) # {}
  <2>1. hits \subseteq Nat BY <1>3, <1>4
  <2>2. Min(hits) \in hits BY <1>4, <2>1, MinIsLeast
  <2>3. QED BY <1>2, <2>2
<1>6. PICK i \in 1 .. n : i = path[x] BY <1>3
<1>7. PICK j \in 0 .. Len(majors[i].minors) :
          /\ j = Min(Places(majors[i], need))
          /\ GapEnd(majors[i], j) - GapStart(majors[i], j) >= need
  <2>1. Places(majors[i], need) \subseteq Nat
    BY <1>1, MajorsAre, LenProperties DEF Places
  <2>2. Min(Places(majors[i], need)) \in Places(majors[i], need)
    BY <1>5, <1>6, <2>1, MinIsLeast
  <2>3. QED BY <2>2 DEF Places
<1>8. majors' = [majors EXCEPT ![i] = Inserted(majors[i], j, req)]
  BY <1>2, <1>5, <1>6, <1>7 DEF MallocInside
<1>9. PICK seen : seen = [k \in 1 .. x |-> majors[path[k]]] OBVIOUS
<1>10. bestBet' = BetAfter(seen)
  BY <1>2, <1>5, <1>9 DEF MallocInside
<1>11. DOMAIN seen \subseteq Nat /\ \A k \in DOMAIN seen : \E l \in 1 .. n : seen[k] = majors[l]
  <2>1. DOMAIN seen = 1 .. x BY <1>9
  <2>2. ASSUME NEW k \in 1 .. x PROVE \E l \in 1 .. n : seen[k] = majors[l]
    <3>1. k \in DOMAIN path BY <1>3
    <3>2. seen[k] = majors[path[k]] /\ path[k] \in 1 .. n BY <1>3, <1>9, <3>1
    <3>3. QED BY <3>2
  <2>3. x \in Nat BY <1>3
  <2>4. QED BY <2>1, <2>2, <2>3
<1> HIDE DEF need, hits
<1>12. Found(i, j, need, seen) BY <1>1, <1>7, <1>11 DEF Found
<1>13. Found(i, j, Padded(req) + MINOR, seen) BY <1>12 DEF need
<1>14. QED BY <1>8, <1>10, <1>13, Zenon

LEMMA MallocInsideStep ==
  ASSUME IInv, NEW req \in Nat, MallocInside(req)
  PROVE  IInv'
<1>1. PICK n \in Nat : n = Len(majors) /\ DOMAIN majors = 1 .. n BY MajorsAre
<1>2. PICK i, j, seen :
        /\ Found(i, j, Padded(req) + MINOR, seen)
        /\ majors' = [majors EXCEPT ![i] = Inserted(majors[i], j, req)]
        /\ bestBet' = BetAfter(seen)
  BY MallocInsideIs
<1>7. /\ i \in 1 .. n /\ j \in 0 .. Len(majors[i].minors)
      /\ GapEnd(majors[i], j) - GapStart(majors[i], j) >= Padded(req) + MINOR
      /\ DOMAIN seen \subseteq Nat
      /\ \A k \in DOMAIN seen : \E l \in 1 .. n : seen[k] = majors[l]
  BY <1>1, <1>2 DEF Found
<1>8. PICK m : m = Inserted(majors[i], j, req) OBVIOUS
<1>9. majors' = [majors EXCEPT ![i] = m] BY <1>2, <1>8
<1>10. Sound(m) /\ m.base = majors[i].base /\ m.minors # <<>>
  BY <1>1, <1>7, <1>8, InsertedSound DEF IInv
<1>11. PICK ms \in Seq(Major) : /\ ms = majors' /\ Len(ms) = n
                                /\ \A k \in 1 .. n : ms[k] = IF k = i THEN m ELSE majors[k]
  <2>1. majors \in Seq(Major) /\ m \in Major BY <1>10 DEF IInv, Sound
  <2>2. /\ [majors EXCEPT ![i] = m] \in Seq(Major) /\ Len([majors EXCEPT ![i] = m]) = n
        /\ \A k \in 1 .. n : [majors EXCEPT ![i] = m][k] = IF k = i THEN m ELSE majors[k]
    BY <1>1, <1>7, <2>1, ExceptSeq
  <2>3. QED BY <1>9, <2>2, Zenon
<1>12. \A k \in 1 .. n : Sound(ms[k]) /\ ms[k].minors # <<>> /\ ms[k].base = majors[k].base
  BY <1>1, <1>10, <1>11 DEF IInv
<1>15. bestBet' # NULL => \E k \in 1 .. n : ms[k].base = bestBet'
  <2>1. CASE bestBet' = bestBet
    BY <1>1, <1>12, <2>1 DEF IInv
  <2>2. CASE bestBet' # bestBet
    <3>1. PICK k \in DOMAIN seen : bestBet' = seen[k].base
      BY <1>2, <1>7, <2>2, BetAfterIs
    <3>2. QED BY <1>7, <1>12, <3>1
  <2>3. QED BY <2>1, <2>2
<1>16. heap' \in Nat BY DEF IInv, MallocInside
<1>17. QED BY <1>11, <1>12, <1>15, <1>16 DEF IInv

\* The pages of a new major hold the headers and the allocation.
LEMMA NewMajorIs ==
  ASSUME heap \in Nat, NEW size \in Nat
  PROVE  /\ Sound(NewMajor(size))
         /\ Len(NewMajor(size).minors) = 0
         /\ GapEnd(NewMajor(size), 0) - GapStart(NewMajor(size), 0) >= size + MINOR
         /\ NewMajor(size).base \in Nat /\ NewMajor(size).pages \in Nat
<1>1. PICK new : new = NewMajor(size) OBVIOUS
<1>2. PICK need \in Nat : need = size + MAJOR + MINOR BY SizesAre
<1>3. PICK c \in Int : /\ c = CeilDiv(need, PageSize) /\ need <= c * PageSize
  BY CeilDivIs, SizesAre
<1>4. PICK pages \in Nat : pages = NewPages(size) /\ c <= pages
  <2>1. NewPages(size) = Max({c, PageCount}) BY <1>2, <1>3 DEF NewPages
  <2>2. Max({c, PageCount}) \in Int /\ Max({c, PageCount}) >= c /\ Max({c, PageCount}) >= PageCount
    BY MaxOfTwo, SizesAre
  <2>3. PICK p \in Int : p = Max({c, PageCount}) /\ p >= c /\ p >= PageCount
    BY <2>2, Zenon
  <2>4. p \in Nat BY <2>3, SizesAre
  <2>5. QED BY <2>1, <2>3, <2>4
<1>5. c * PageSize <= pages * PageSize BY <1>4, SizesAre, TimesMonotone
<1>6. PICK room \in Nat : room = pages * PageSize /\ need <= room
  <2>1. pages * PageSize \in Nat /\ c * PageSize \in Int BY SizesAre
  <2>2. need <= pages * PageSize BY <1>3, <1>5, <2>1
  <2>3. QED BY <2>1, <2>2
<1>7. heap * PageSize \in Nat BY SizesAre
<1>8. /\ new.base = heap * PageSize /\ new.pages = pages /\ new.usage = MAJOR
      /\ new.minors = <<>> /\ new \in Major
  <2>1. new = [base |-> heap * PageSize, pages |-> pages, usage |-> MAJOR, minors |-> <<>>]
    BY <1>1, <1>4 DEF NewMajor
  <2>2. <<>> \in Seq(Minor) BY EmptySeq
  <2>3. QED BY <1>7, <2>1, <2>2, SizesAre DEF Major
<1>9. Len(new.minors) = 0 BY <1>8, EmptySeq
<1>10. GapStart(new, 0) = new.base + MAJOR BY DEF GapStart
<1>11. GapEnd(new, 0) = new.base + room
  BY <1>6, <1>8, <1>9 DEF GapEnd, Size
<1>12. new.base \in Nat BY <1>7, <1>8
<1>13. GapEnd(new, 0) - GapStart(new, 0) >= size + MINOR
  BY <1>2, <1>6, <1>10, <1>11, <1>12, SizesAre
<1>14. GapStart(new, 0) <= GapEnd(new, 0)
  BY <1>2, <1>6, <1>10, <1>11, <1>12, SizesAre
<1>15. Ordered(new) BY <1>9, <1>14 DEF Ordered
<1>16. Roomy(new) BY <1>9 DEF Roomy
<1>17. QED BY <1>1, <1>8, <1>9, <1>12, <1>13, <1>15, <1>16 DEF Sound

LEMMA MallocNewMajorStep ==
  ASSUME IInv, NEW req \in Nat, MallocNewMajor(req)
  PROVE  IInv'
<1> DEFINE need == Padded(req) + MINOR
<1>1. PICK n \in Nat : n = Len(majors) /\ DOMAIN majors = 1 .. n BY MajorsAre
<1>2. PICK path \in Seq(1 .. n) : path = SearchPath(need) BY <1>1, PathIs, Zenon
<1>3. DOMAIN path = 1 .. Len(path) /\ Len(path) \in Nat /\ \A k \in DOMAIN path : path[k] \in 1 .. n
  BY <1>2, LenProperties, ElementOfSeq
<1>4. PICK new : new = NewMajor(Padded(req)) OBVIOUS
<1>5. /\ Sound(new) /\ Len(new.minors) = 0
      /\ GapEnd(new, 0) - GapStart(new, 0) >= Padded(req) + MINOR
      /\ new.base \in Nat /\ new.pages \in Nat
  <2>1. Padded(req) \in Nat BY SizesAre DEF Padded
  <2>2. heap \in Nat BY DEF IInv
  <2>3. QED BY <1>4, <2>1, <2>2, NewMajorIs
<1>6. PICK m : m = Inserted(new, 0, req) OBVIOUS
<1>7. Sound(m) /\ m.base = new.base /\ m.minors # <<>>
  <2>1. 0 \in 0 .. Len(new.minors) BY <1>5
  <2>2. QED BY <1>5, <1>6, <2>1, InsertedSound
<1>8. majors' = Append(majors, m) BY <1>4, <1>6 DEF MallocNewMajor
<1>9. PICK ms \in Seq(Major) : /\ ms = majors' /\ Len(ms) = n + 1
                               /\ \A k \in 1 .. n : ms[k] = majors[k]
                               /\ ms[n + 1] = m
  <2>1. majors \in Seq(Major) /\ m \in Major BY <1>7 DEF IInv, Sound
  <2>2. /\ Append(majors, m) \in Seq(Major) /\ Len(Append(majors, m)) = n + 1
        /\ \A k \in 1 .. n : Append(majors, m)[k] = majors[k]
        /\ Append(majors, m)[n + 1] = m
    BY <1>1, <2>1, AppendProperties
  <2>3. QED BY <1>8, <2>2, Zenon
<1>10. \A k \in 1 .. (n + 1) : Sound(ms[k]) /\ ms[k].minors # <<>>
  <2>1. ASSUME NEW k \in 1 .. (n + 1) PROVE Sound(ms[k]) /\ ms[k].minors # <<>>
    <3>1. CASE k = n + 1 BY <1>7, <1>9, <3>1
    <3>2. CASE k # n + 1
      <4>1. k \in 1 .. n BY <3>2
      <4>2. QED BY <1>1, <1>9, <4>1 DEF IInv
    <3>3. QED BY <3>1, <3>2
  <2>2. QED BY <2>1
<1>11. PICK seen : seen = [k \in DOMAIN path |-> majors[path[k]]] OBVIOUS
<1>12. PICK last : /\ last = seen \/ last = Append(seen, new)
                   /\ bestBet' = BetAfter(last)
  <2>1. bestBet' = BetAfter(IF majors = <<>> \/ FreeBytes(Last(majors)) >= need
                            THEN Append(seen, new) ELSE seen)
    BY <1>2, <1>4, <1>11 DEF MallocNewMajor
  <2>2. QED BY <2>1
<1>13. /\ DOMAIN last \subseteq Nat
       /\ \A k \in DOMAIN last : last[k] = new \/ \E l \in 1 .. n : last[k] = majors[l]
  <2>1. seen \in Seq(Major) /\ Len(seen) = Len(path)
    <3>1. \A k \in 1 .. Len(path) : majors[path[k]] \in Major BY <1>1, <1>3, MajorsAre
    <3>2. QED BY <1>3, <1>11, <3>1
  <2>2. CASE last = seen BY <1>3, <1>11, <2>2
  <2>3. CASE last = Append(seen, new)
    <3>1. new \in Major BY <1>5 DEF Sound
    <3>2. PICK a \in Seq(Major) :
            /\ a = last /\ Len(a) = Len(path) + 1
            /\ \A k \in 1 .. Len(path) : a[k] = seen[k]
            /\ a[Len(path) + 1] = new
      <4>1. /\ Append(seen, new) \in Seq(Major) /\ Len(Append(seen, new)) = Len(path) + 1
            /\ \A k \in 1 .. Len(path) : Append(seen, new)[k] = seen[k]
            /\ Append(seen, new)[Len(path) + 1] = new
        BY <2>1, <3>1, AppendProperties
      <4>2. QED BY <2>3, <4>1, Zenon
    <3>3. DOMAIN a = 1 .. (Len(path) + 1) BY <3>2, LenProperties
    <3>4. ASSUME NEW k \in 1 .. (Len(path) + 1)
          PROVE  a[k] = new \/ \E l \in 1 .. n : a[k] = majors[l]
      <4>1. CASE k = Len(path) + 1 BY <3>2, <4>1
      <4>2. CASE k # Len(path) + 1
        <5>1. k \in 1 .. Len(path) BY <1>3, <4>2
        <5>2. QED BY <1>3, <1>11, <3>2, <5>1
      <4>3. QED BY <4>1, <4>2
    <3>5. DOMAIN a \subseteq Nat BY <1>3, <3>3
    <3>6. \A k \in DOMAIN a : a[k] = new \/ \E l \in 1 .. n : a[k] = majors[l]
      BY <3>3, <3>4
    <3>7. QED BY <3>2, <3>5, <3>6, Zenon
  <2>4. QED BY <1>12, <2>2, <2>3
<1>14. bestBet' # NULL => \E k \in 1 .. (n + 1) : ms[k].base = bestBet'
  <2>1. CASE bestBet' = bestBet
    <3>1. bestBet # NULL => \E k \in 1 .. n : ms[k].base = bestBet
      BY <1>1, <1>9 DEF IInv
    <3>2. QED BY <2>1, <3>1
  <2>2. CASE bestBet' # bestBet
    <3>1. PICK k \in DOMAIN last : bestBet' = last[k].base
      BY <1>12, <1>13, <2>2, BetAfterIs
    <3>2. CASE last[k] = new
      <4>1. ms[n + 1].base = bestBet' BY <1>7, <1>9, <3>1, <3>2
      <4>2. QED BY <4>1
    <3>3. CASE \E l \in 1 .. n : last[k] = majors[l]
      <4>1. PICK l \in 1 .. n : last[k] = majors[l] BY <3>3
      <4>2. l \in 1 .. (n + 1) /\ ms[l].base = bestBet' BY <1>9, <3>1, <4>1
      <4>3. QED BY <4>2
    <3>4. QED BY <1>13, <3>2, <3>3
  <2>3. QED BY <2>1, <2>2
<1>15. heap' \in Nat BY <1>4, <1>5 DEF IInv, MallocNewMajor
<1>16. QED BY <1>9, <1>10, <1>14, <1>15 DEF IInv

LEMMA FreeStep ==
  ASSUME IInv, NEW p, Free(p)
  PROVE  IInv'
<1>1. PICK n \in Nat : n = Len(majors) /\ DOMAIN majors = 1 .. n BY MajorsAre
<1> DEFINE Freed(i, j, maj) ==
        /\ maj = [majors[i] EXCEPT !.usage = @ - (majors[i].minors[j].size + MINOR),
                                   !.minors = RemoveAt(@, j)]
        /\ bestBet' = BetAfterFree(i, maj)
        /\ IF maj.minors = <<>> THEN majors' = RemoveAt(majors, i)
           ELSE majors' = [majors EXCEPT ![i] = maj]
        /\ heap' = heap
<1>a. PICK i \in DOMAIN majors : \E j \in DOMAIN majors[i].minors : \E maj : Freed(i, j, maj)
  BY Zenon DEF Free
<1>b. PICK j \in DOMAIN majors[i].minors : \E maj : Freed(i, j, maj) BY <1>a
<1>2. PICK maj : Freed(i, j, maj) BY <1>b
<1>3. i \in 1 .. n /\ j \in 1 .. Len(majors[i].minors) BY <1>1, MajorsAre
<1>4. Sound(maj) /\ maj.base = majors[i].base
  <2>1. PICK u \in Int : u = majors[i].usage - (majors[i].minors[j].size + MINOR)
    <3>1. majors[i].usage \in Int BY <1>1, <1>3, MajorsAre DEF Major
    <3>2. majors[i].minors[j].size \in Nat BY <1>1, <1>3, MajorsAre, MinorIs
    <3>3. QED BY <3>1, <3>2, SizesAre
  <2>2. maj = [majors[i] EXCEPT !.usage = u, !.minors = RemoveAt(majors[i].minors, j)]
    BY <1>2, <2>1
  <2>3. Sound(majors[i]) BY <1>1, <1>3 DEF IInv
  <2>4. PICK b : b = majors[i] OBVIOUS
  <2>5. Sound(b) /\ j \in 1 .. Len(b.minors) BY <1>3, <2>3, <2>4
  <2>6. maj = [b EXCEPT !.usage = u, !.minors = RemoveAt(b.minors, j)] BY <2>2, <2>4
  <2>7. Sound(maj) /\ maj.base = b.base BY <2>5, <2>6, RemovedSound
  <2>8. QED BY <2>4, <2>7
<1>5. CASE maj.minors = <<>>
  <2>1. PICK ms \in Seq(Major) : ms = majors' /\ Removes(ms, majors, i)
    <3>1. majors \in Seq(Major) BY DEF IInv
    <3>2. RemoveAt(majors, i) \in Seq(Major) /\ Removes(RemoveAt(majors, i), majors, i)
      BY <1>1, <1>3, <3>1, RemoveAtIs
    <3>3. QED BY <1>2, <1>5, <3>2, Zenon
  <2>2. Len(ms) = n - 1 /\ \A k \in 1 .. (n - 1) : ms[k] = IF k < i THEN majors[k] ELSE majors[k + 1]
    BY <1>1, <2>1 DEF Removes
  <2>3. ASSUME NEW k \in 1 .. (n - 1) PROVE Sound(ms[k]) /\ ms[k].minors # <<>>
    <3>1. CASE k < i BY <1>1, <1>3, <2>2, <3>1 DEF IInv
    <3>2. CASE ~(k < i)
      <4>1. k + 1 \in 1 .. n /\ ms[k] = majors[k + 1] BY <2>2, <3>2
      <4>2. QED BY <1>1, <4>1 DEF IInv
    <3>3. QED BY <3>1, <3>2
  <2>4. bestBet' = IF bestBet = maj.base THEN NULL ELSE bestBet
    BY <1>2, <1>5 DEF BetAfterFree
  <2>5. ASSUME bestBet' # NULL PROVE \E k \in 1 .. (n - 1) : ms[k].base = bestBet'
    <3>1. bestBet' = bestBet /\ bestBet # maj.base BY <2>4, <2>5
    <3>2. PICK k \in 1 .. n : majors[k].base = bestBet
      BY <1>1, <2>5, <3>1 DEF IInv
    <3>3. k # i BY <1>4, <3>1, <3>2
    <3>4. CASE k < i
      <4>1. k \in 1 .. (n - 1) /\ ms[k] = majors[k] BY <1>3, <2>2, <3>4
      <4>2. QED BY <3>1, <3>2, <4>1
    <3>5. CASE k > i
      <4>1. k - 1 \in 1 .. (n - 1) /\ ~(k - 1 < i) /\ (k - 1) + 1 = k BY <1>3, <3>5
      <4>2. ms[k - 1] = majors[k] BY <2>2, <4>1
      <4>3. QED BY <3>1, <3>2, <4>1, <4>2
    <3>6. QED BY <1>3, <3>3, <3>4, <3>5
  <2>6. heap' \in Nat BY <1>2 DEF IInv
  <2>7. QED BY <2>1, <2>2, <2>3, <2>5, <2>6 DEF IInv
<1>6. CASE maj.minors # <<>>
  <2>1. PICK ms \in Seq(Major) : /\ ms = majors' /\ Len(ms) = n
                                 /\ \A k \in 1 .. n : ms[k] = IF k = i THEN maj ELSE majors[k]
    <3>1. majors \in Seq(Major) /\ maj \in Major BY <1>4 DEF IInv, Sound
    <3>2. /\ [majors EXCEPT ![i] = maj] \in Seq(Major) /\ Len([majors EXCEPT ![i] = maj]) = n
          /\ \A k \in 1 .. n : [majors EXCEPT ![i] = maj][k] = IF k = i THEN maj ELSE majors[k]
      BY <1>1, <1>3, <3>1, ExceptSeq
    <3>3. QED BY <1>2, <1>6, <3>2, Zenon
  <2>2. \A k \in 1 .. n : Sound(ms[k]) /\ ms[k].minors # <<>> /\ ms[k].base = majors[k].base
    BY <1>1, <1>4, <1>6, <2>1 DEF IInv
  <2>3. bestBet' = bestBet \/ bestBet' = maj.base
    BY <1>2, <1>6 DEF BetAfterFree
  <2>4. bestBet' # NULL => \E k \in 1 .. n : ms[k].base = bestBet'
    <3>1. CASE bestBet' = bestBet BY <1>1, <2>2, <3>1 DEF IInv
    <3>2. CASE bestBet' = maj.base BY <1>3, <1>4, <2>2, <3>2
    <3>3. QED BY <2>3, <3>1, <3>2
  <2>5. heap' \in Nat BY <1>2 DEF IInv
  <2>6. QED BY <2>1, <2>2, <2>4, <2>5 DEF IInv
<1>7. QED BY <1>5, <1>6

LEMMA ReallocInPlaceStep ==
  ASSUME IInv, NEW p, NEW req \in Nat, ReallocInPlace(p, req)
  PROVE  IInv'
<1>1. PICK n \in Nat : n = Len(majors) /\ DOMAIN majors = 1 .. n BY MajorsAre
<1>a. PICK i \in DOMAIN majors : \E j \in DOMAIN majors[i].minors :
        /\ majors[i].minors[j].req > req
        /\ majors' = [majors EXCEPT ![i].minors[j].req = req]
  BY DEF ReallocInPlace
<1>2. PICK j \in DOMAIN majors[i].minors :
        /\ majors[i].minors[j].req > req
        /\ majors' = [majors EXCEPT ![i].minors[j].req = req]
  BY <1>a
<1>3. i \in 1 .. n /\ j \in 1 .. Len(majors[i].minors) BY <1>1, MajorsAre
<1>4. PICK m : m = [majors[i] EXCEPT !.minors[j].req = req] OBVIOUS
<1>5. majors' = [majors EXCEPT ![i] = m] BY <1>2, <1>4
<1>6. Sound(m) /\ m.base = majors[i].base /\ Len(m.minors) = Len(majors[i].minors)
  <2>1. Sound(majors[i]) BY <1>1, <1>3 DEF IInv
  <2>2. req < majors[i].minors[j].req
    <3>1. majors[i].minors[j].req \in Nat BY <1>1, <1>3, MajorsAre, MinorIs
    <3>2. QED BY <1>2, <3>1
  <2>3. QED BY <1>3, <1>4, <2>1, <2>2, ShrunkSound
<1>7. m.minors # <<>>
  <2>1. Len(m.minors) # 0 BY <1>1, <1>3, <1>6, MajorsAre, LenProperties
  <2>2. QED BY <2>1, EmptySeq
<1>8. PICK ms \in Seq(Major) : /\ ms = majors' /\ Len(ms) = n
                               /\ \A k \in 1 .. n : ms[k] = IF k = i THEN m ELSE majors[k]
  <2>1. majors \in Seq(Major) /\ m \in Major BY <1>6 DEF IInv, Sound
  <2>2. /\ [majors EXCEPT ![i] = m] \in Seq(Major) /\ Len([majors EXCEPT ![i] = m]) = n
        /\ \A k \in 1 .. n : [majors EXCEPT ![i] = m][k] = IF k = i THEN m ELSE majors[k]
    BY <1>1, <1>3, <2>1, ExceptSeq
  <2>3. QED BY <1>5, <2>2, Zenon
<1>9. \A k \in 1 .. n : Sound(ms[k]) /\ ms[k].minors # <<>> /\ ms[k].base = majors[k].base
  BY <1>1, <1>6, <1>7, <1>8 DEF IInv
<1>10. bestBet' = bestBet /\ heap' = heap BY DEF ReallocInPlace
<1>11. QED BY <1>1, <1>8, <1>9, <1>10 DEF IInv

LEMMA NextIInv == IInv /\ [Next]_vars => IInv'
<1> SUFFICES ASSUME IInv, [Next]_vars PROVE IInv'
  OBVIOUS
<1>1. \A req \in Requests : req \in Nat BY SizesAssumption
<1>2. ASSUME NEW req \in Requests, Malloc(req) PROVE IInv'
  BY <1>1, <1>2, MallocInsideStep, MallocNewMajorStep DEF Malloc
<1>3. ASSUME NEW p \in Live, Kfree(p) PROVE IInv'
  BY <1>3, FreeStep DEF Kfree
<1>4. ASSUME NEW p \in Live, NEW req \in Requests, ReallocInPlace(p, req) PROVE IInv'
  BY <1>1, <1>4, ReallocInPlaceStep
<1>5. ASSUME NEW p \in Live, NEW req \in Requests, ReallocGrow(p, req) PROVE IInv'
  BY <1>1, <1>5, MallocInsideStep, MallocNewMajorStep DEF ReallocGrow
<1>6. ASSUME NEW m \in moving, ReallocFinish(m) PROVE IInv'
  BY <1>6, FreeStep DEF ReallocFinish
<1>7. CASE UNCHANGED vars BY <1>7 DEF vars, IInv
<1>8. QED BY <1>2, <1>3, <1>4, <1>5, <1>6, <1>7 DEF Next

-----------------------------------------------------------------------------
(* The counters.                                                           *)

LEMMA BytesInserted ==
  ASSUME NEW maj \in Major, NEW j \in 0 .. Len(maj.minors), NEW req \in Nat, NEW x \in Nat
  PROVE  /\ Bytes(maj, x) \in Int
         /\ Bytes(Inserted(maj, j, req), x) = Bytes(maj, x) + Padded(req) + x
<1>1. PICK s \in Seq(Minor) : s = maj.minors BY DEF Major
<1>2. PICK n \in Nat : n = Len(s) /\ DOMAIN s = 1 .. n BY LenProperties
<1>3. PICK p \in Nat : p = Padded(req) BY SizesAre DEF Padded
<1>4. PICK e \in Minor : e = [at |-> GapStart(maj, j), size |-> p, req |-> req]
  <2>1. [at |-> GapStart(maj, j), size |-> p, req |-> req] \in Minor BY GapIs DEF Minor
  <2>2. QED BY <2>1, Zenon
<1>5. PICK t \in Seq(Minor) : t = InsertAt(s, j + 1, e) /\ Inserts(t, s, j + 1, e)
  <2>1. j + 1 \in 1 .. (Len(s) + 1) BY <1>1, <1>2
  <2>2. InsertAt(s, j + 1, e) \in Seq(Minor) /\ Inserts(InsertAt(s, j + 1, e), s, j + 1, e)
    BY <2>1, InsertAtIs
  <2>3. QED BY <2>2, Zenon
<1>6. Inserted(maj, j, req).minors = t
  <2>1. Inserted(maj, j, req) = [maj EXCEPT !.usage = maj.usage + p + MINOR, !.minors = t]
    BY <1>1, <1>3, <1>4, <1>5 DEF Inserted
  <2>2. QED BY <2>1 DEF Major
<1>7. Len(t) = n + 1 /\ DOMAIN t = 1 .. (n + 1)
  BY <1>2, <1>5, LenProperties DEF Inserts
<1>8. \A k \in 1 .. (n + 1) :
         t[k] = IF k < j + 1 THEN s[k] ELSE IF k = j + 1 THEN e ELSE s[k - 1]
  BY <1>5, <1>7 DEF Inserts
<1>9. PICK a : a = [k \in 1 .. n |-> s[k].size + x] OBVIOUS
<1>10. PICK b : b = [k \in 1 .. (n + 1) |-> t[k].size + x] OBVIOUS
<1>11. Ints(a, n)
  <2>1. \A k \in 1 .. n : s[k].size + x \in Int
    <3>1. \A k \in 1 .. n : s[k] \in Minor BY <1>2, ElementOfSeq
    <3>2. QED BY <3>1 DEF Minor
  <2>2. Len(a) = n BY <1>9
  <2>3. QED BY <1>9, <2>1, <2>2 DEF Ints
<1>12. Inserts(b, a, j + 1, p + x)
  <2>0. j \in 0 .. n BY <1>1, <1>2
  <2>1. Len(b) = n + 1 /\ Len(a) = n BY <1>9, <1>10
  <2>2. ASSUME NEW k \in 1 .. (n + 1)
        PROVE  b[k] = IF k < j + 1 THEN a[k] ELSE IF k = j + 1 THEN p + x ELSE a[k - 1]
    <3>0. b[k] = t[k].size + x BY <1>10
    <3>1. CASE k < j + 1
      <4>1. k \in 1 .. n BY <2>0, <3>1
      <4>2. t[k] = s[k] /\ a[k] = s[k].size + x BY <1>8, <1>9, <3>1, <4>1
      <4>3. QED BY <3>0, <3>1, <4>2
    <3>2. CASE k = j + 1 BY <1>4, <1>8, <2>0, <3>0, <3>2
    <3>3. CASE k > j + 1
      <4>1. k - 1 \in 1 .. n /\ ~(k < j + 1) /\ k # j + 1 BY <2>0, <3>3
      <4>2. t[k] = s[k - 1] /\ a[k - 1] = s[k - 1].size + x BY <1>8, <1>9, <4>1
      <4>3. QED BY <3>0, <4>1, <4>2
    <3>4. QED BY <2>0, <3>1, <3>2, <3>3
  <2>3. QED BY <2>1, <2>2 DEF Inserts
<1>13. Total(a) \in Int /\ Total(b) = Total(a) + (p + x)
  <2>1. j + 1 \in 1 .. (n + 1) /\ p + x \in Int BY <1>1, <1>2
  <2>2. QED BY <1>11, <1>12, <2>1, TotalInsert
<1>14. Bytes(maj, x) = Total(a) BY <1>1, <1>2, <1>9 DEF Bytes
<1>15. Bytes(Inserted(maj, j, req), x) = Total(b) BY <1>6, <1>7, <1>10 DEF Bytes
<1>16. QED BY <1>3, <1>13, <1>14, <1>15

LEMMA BytesAre ==
  ASSUME NEW maj \in Major, NEW x \in Nat
  PROVE  Bytes(maj, x) \in Int
<1>1. 0 \in 0 .. Len(maj.minors)
  <2>1. maj.minors \in Seq(Minor) BY DEF Major
  <2>2. Len(maj.minors) \in Nat BY <2>1, LenProperties
  <2>3. QED BY <2>2
<1>2. QED BY <1>1, BytesInserted

LEMMA BytesRemoved ==
  ASSUME NEW maj \in Major, NEW j \in 1 .. Len(maj.minors), NEW m, NEW x \in Nat,
         m.minors = RemoveAt(maj.minors, j)
  PROVE  Bytes(m, x) = Bytes(maj, x) - (maj.minors[j].size + x)
<1>1. PICK s \in Seq(Minor) : s = maj.minors BY DEF Major
<1>2. PICK n \in Nat : n = Len(s) /\ DOMAIN s = 1 .. n BY LenProperties
<1>3. j \in 1 .. n BY <1>1, <1>2
<1>4. PICK t \in Seq(Minor) : t = m.minors /\ Removes(t, s, j)
  <2>1. RemoveAt(s, j) \in Seq(Minor) /\ Removes(RemoveAt(s, j), s, j)
    BY <1>2, <1>3, RemoveAtIs
  <2>2. QED BY <1>1, <2>1
<1>5. Len(t) = n - 1 /\ DOMAIN t = 1 .. (n - 1)
  BY <1>2, <1>4, LenProperties DEF Removes
<1>6. \A k \in 1 .. (n - 1) : t[k] = IF k < j THEN s[k] ELSE s[k + 1]
  BY <1>4, <1>5 DEF Removes
<1>7. PICK a : a = [k \in 1 .. n |-> s[k].size + x] OBVIOUS
<1>8. PICK b : b = [k \in 1 .. (n - 1) |-> t[k].size + x] OBVIOUS
<1>9. n - 1 \in Nat BY <1>3
<1>10. Len(a) = n /\ Len(b) = n - 1 BY <1>7, <1>8, <1>9
<1>11. Ints(b, n - 1)
  <2>1. \A k \in 1 .. (n - 1) : t[k] \in Minor BY <1>5, ElementOfSeq
  <2>2. \A k \in 1 .. (n - 1) : t[k].size + x \in Int BY <2>1 DEF Minor
  <2>3. QED BY <1>8, <1>9, <1>10, <2>2 DEF Ints
<1>12. PICK z \in Int : z = s[j].size + x
  <2>1. s[j] \in Minor BY <1>2, <1>3, ElementOfSeq
  <2>2. QED BY <2>1 DEF Minor
<1>13. Inserts(a, b, j, z)
  <2>1. ASSUME NEW k \in 1 .. n
        PROVE  a[k] = IF k < j THEN b[k] ELSE IF k = j THEN z ELSE b[k - 1]
    <3>0. a[k] = s[k].size + x BY <1>7
    <3>1. CASE k < j
      <4>1. k \in 1 .. (n - 1) BY <1>3, <3>1
      <4>2. b[k] = s[k].size + x BY <1>6, <1>8, <3>1, <4>1
      <4>3. QED BY <3>0, <3>1, <4>2
    <3>2. CASE k = j BY <1>3, <1>12, <3>0, <3>2
    <3>3. CASE k > j
      <4>1. k - 1 \in 1 .. (n - 1) /\ ~(k - 1 < j) /\ ~(k < j) /\ k # j /\ (k - 1) + 1 = k
        BY <1>3, <3>3
      <4>2. t[k - 1] = s[k] BY <1>6, <4>1
      <4>3. b[k - 1] = s[k].size + x BY <1>8, <4>1, <4>2
      <4>4. QED BY <3>0, <4>1, <4>3
    <3>4. QED BY <1>3, <3>1, <3>2, <3>3
  <2>2. Len(a) = Len(b) + 1 BY <1>10
  <2>3. QED BY <1>10, <2>1, <2>2 DEF Inserts
<1>14. Total(b) \in Int /\ Total(a) = Total(b) + z
  <2>1. j \in 1 .. ((n - 1) + 1) BY <1>3
  <2>2. QED BY <1>11, <1>13, <2>1, TotalInsert
<1>15. Bytes(maj, x) = Total(a) BY <1>1, <1>2, <1>7 DEF Bytes
<1>16. Bytes(m, x) = Total(b) BY <1>4, <1>5, <1>8 DEF Bytes
<1>17. QED BY <1>1, <1>12, <1>14, <1>15, <1>16

LEMMA BytesOfNone ==
  ASSUME NEW maj, NEW x \in Nat, maj.minors = <<>>
  PROVE  Bytes(maj, x) = 0
<1>1. PICK a : a = [j \in DOMAIN maj.minors |-> maj.minors[j].size + x] OBVIOUS
<1>2. DOMAIN maj.minors = 1 .. 0 BY EmptySeq
<1>3. a = [j \in 1 .. 0 |-> maj.minors[j].size + x] BY <1>1, <1>2
<1>4. Len(a) = 0 BY <1>3
<1>5. Ints(a, 0) BY <1>4 DEF Ints
<1>6. PICK f : Sums(f, a, 0) /\ Total(a) = f[0] BY <1>5, TotalIs
<1>7. Total(a) = 0 BY <1>6 DEF Sums
<1>8. QED BY <1>1, <1>7 DEF Bytes

\* The counters agree with the list ms.
Accounts(ms, alloc, use) ==
    /\ \A i \in DOMAIN ms : ms[i].usage = MAJOR + Bytes(ms[i], MINOR)
    /\ alloc = Total([i \in DOMAIN ms |-> Size(ms[i])])
    /\ use = Total([i \in DOMAIN ms |-> Bytes(ms[i], 0)])

\* The elements that l_allocated and l_inuse sum up.
LEMMA MajorBytes ==
  ASSUME NEW ms \in Seq(Major)
  PROVE  \E n \in Nat :
            /\ n = Len(ms) /\ DOMAIN ms = 1 .. n
            /\ \A k \in 1 .. n : /\ ms[k] \in Major
                                 /\ Size(ms[k]) \in Int /\ Bytes(ms[k], 0) \in Int
            /\ Ints([k \in DOMAIN ms |-> Size(ms[k])], n)
            /\ Ints([k \in DOMAIN ms |-> Bytes(ms[k], 0)], n)
<1>1. PICK n \in Nat : n = Len(ms) /\ DOMAIN ms = 1 .. n BY LenProperties
<1>2. \A k \in 1 .. n : ms[k] \in Major BY <1>1, ElementOfSeq
<1>3. ASSUME NEW k \in 1 .. n
      PROVE  Size(ms[k]) \in Int /\ Bytes(ms[k], 0) \in Int
  <2>1. ms[k] \in Major BY <1>2
  <2>2. Bytes(ms[k], 0) \in Int BY <2>1, BytesAre
  <2>3. ms[k].pages \in Nat BY <2>1 DEF Major
  <2>4. QED BY <2>2, <2>3, SizesAre DEF Size
<1>4. PICK a : a = [k \in 1 .. n |-> Size(ms[k])] OBVIOUS
<1>5. PICK b : b = [k \in 1 .. n |-> Bytes(ms[k], 0)] OBVIOUS
<1>6. Len(a) = n /\ Len(b) = n BY <1>4, <1>5
<1>7. Ints(a, n) BY <1>3, <1>4, <1>6 DEF Ints
<1>8. Ints(b, n) BY <1>3, <1>5, <1>6 DEF Ints
<1>9. QED BY <1>1, <1>2, <1>3, <1>4, <1>5, <1>7, <1>8

LEMMA AccountsExcept ==
  ASSUME NEW ms \in Seq(Major), NEW i \in DOMAIN ms, NEW m \in Major, NEW alloc, NEW use,
         Accounts(ms, alloc, use), m.pages = ms[i].pages,
         m.usage = MAJOR + Bytes(m, MINOR)
  PROVE  Accounts([ms EXCEPT ![i] = m], alloc, use + Bytes(m, 0) - Bytes(ms[i], 0))
<1>1. PICK n \in Nat :
        /\ n = Len(ms) /\ DOMAIN ms = 1 .. n
        /\ \A k \in 1 .. n : Size(ms[k]) \in Int /\ Bytes(ms[k], 0) \in Int
        /\ Ints([k \in DOMAIN ms |-> Size(ms[k])], n)
        /\ Ints([k \in DOMAIN ms |-> Bytes(ms[k], 0)], n)
  BY MajorBytes
<1>2. PICK t : t = [ms EXCEPT ![i] = m] OBVIOUS
<1>3. DOMAIN t = 1 .. n /\ \A k \in 1 .. n : t[k] = IF k = i THEN m ELSE ms[k]
  BY <1>1, <1>2
<1>4. \A k \in 1 .. n : t[k].usage = MAJOR + Bytes(t[k], MINOR)
  BY <1>1, <1>3 DEF Accounts
<1>5. [k \in DOMAIN t |-> Size(t[k])] = [k \in DOMAIN ms |-> Size(ms[k])]
  <2>1. \A k \in 1 .. n : Size(t[k]) = Size(ms[k]) BY <1>3 DEF Size
  <2>2. QED BY <1>1, <1>3, <2>1
<1>6. PICK a : a = [k \in 1 .. n |-> Bytes(ms[k], 0)] OBVIOUS
<1>7. PICK b : b = [k \in 1 .. n |-> Bytes(t[k], 0)] OBVIOUS
<1>8. Ints(a, n) BY <1>1, <1>6
<1>9. i \in 1 .. n /\ Bytes(m, 0) \in Int BY <1>1, BytesAre
<1>10. Len(b) = n /\ \A k \in 1 .. n : b[k] = IF k = i THEN Bytes(m, 0) ELSE a[k]
  BY <1>3, <1>6, <1>7
<1>11. Total(b) = Total(a) + Bytes(m, 0) - a[i] BY <1>8, <1>9, <1>10, TotalExcept
<1>12. use = Total(a) /\ a[i] = Bytes(ms[i], 0) BY <1>1, <1>6, <1>9 DEF Accounts
<1>13. alloc = Total([k \in DOMAIN t |-> Size(t[k])]) BY <1>5 DEF Accounts
<1>14. Accounts(t, alloc, use + Bytes(m, 0) - Bytes(ms[i], 0))
  BY <1>3, <1>4, <1>7, <1>11, <1>12, <1>13 DEF Accounts
<1>15. QED BY <1>2, <1>14

LEMMA AccountsAppend ==
  ASSUME NEW ms \in Seq(Major), NEW m \in Major, NEW alloc, NEW use,
         Accounts(ms, alloc, use), m.usage = MAJOR + Bytes(m, MINOR)
  PROVE  Accounts(Append(ms, m), alloc + Size(m), use + Bytes(m, 0))
<1>1. PICK n \in Nat :
        /\ n = Len(ms) /\ DOMAIN ms = 1 .. n
        /\ Ints([k \in DOMAIN ms |-> Size(ms[k])], n)
        /\ Ints([k \in DOMAIN ms |-> Bytes(ms[k], 0)], n)
  BY MajorBytes
<1>2. PICK t \in Seq(Major) :
        /\ t = Append(ms, m) /\ Len(t) = n + 1
        /\ \A k \in 1 .. n : t[k] = ms[k]
        /\ t[n + 1] = m
  <2>1. /\ Append(ms, m) \in Seq(Major) /\ Len(Append(ms, m)) = n + 1
        /\ \A k \in 1 .. n : Append(ms, m)[k] = ms[k]
        /\ Append(ms, m)[n + 1] = m
    BY <1>1, AppendProperties
  <2>2. QED BY <2>1, Zenon
<1>3. DOMAIN t = 1 .. (n + 1) /\ \A k \in 1 .. (n + 1) : t[k] = IF k < n + 1 THEN ms[k] ELSE m
  <2>1. \A k \in 1 .. (n + 1) : k < n + 1 => k \in 1 .. n OBVIOUS
  <2>2. \A k \in 1 .. (n + 1) : ~(k < n + 1) => k = n + 1 OBVIOUS
  <2>3. QED BY <1>2, <2>1, <2>2, LenProperties
<1>4. ASSUME NEW k \in 1 .. (n + 1) PROVE t[k].usage = MAJOR + Bytes(t[k], MINOR)
  <2>1. CASE k = n + 1 BY <1>2, <2>1
  <2>2. CASE k # n + 1
    <3>1. k \in 1 .. n BY <2>2
    <3>2. QED BY <1>1, <1>2, <3>1 DEF Accounts
  <2>3. QED BY <2>1, <2>2
<1>5. Size(m) \in Int /\ Bytes(m, 0) \in Int
  <2>1. m.pages \in Nat BY DEF Major
  <2>2. QED BY <2>1, BytesAre, SizesAre DEF Size
<1>6. n + 1 \in 1 .. (n + 1) OBVIOUS
<1>7. Total([k \in DOMAIN t |-> Size(t[k])]) = alloc + Size(m)
  <2>1. PICK a : a = [k \in 1 .. n |-> Size(ms[k])] OBVIOUS
  <2>2. PICK b : b = [k \in 1 .. (n + 1) |-> Size(t[k])] OBVIOUS
  <2>3. Len(a) = n /\ Len(b) = n + 1 BY <2>1, <2>2
  <2>4. \A k \in 1 .. (n + 1) :
           b[k] = IF k < n + 1 THEN a[k] ELSE IF k = n + 1 THEN Size(m) ELSE a[k - 1]
    BY <1>3, <2>1, <2>2
  <2>5. Inserts(b, a, n + 1, Size(m)) BY <2>3, <2>4 DEF Inserts
  <2>6. Ints(a, n) /\ alloc = Total(a) BY <1>1, <2>1 DEF Accounts
  <2>7. Total(b) = Total(a) + Size(m) BY <1>5, <1>6, <2>5, <2>6, TotalInsert
  <2>8. QED BY <1>3, <2>2, <2>6, <2>7
<1>8. Total([k \in DOMAIN t |-> Bytes(t[k], 0)]) = use + Bytes(m, 0)
  <2>1. PICK a : a = [k \in 1 .. n |-> Bytes(ms[k], 0)] OBVIOUS
  <2>2. PICK b : b = [k \in 1 .. (n + 1) |-> Bytes(t[k], 0)] OBVIOUS
  <2>3. Len(a) = n /\ Len(b) = n + 1 BY <2>1, <2>2
  <2>4. \A k \in 1 .. (n + 1) :
           b[k] = IF k < n + 1 THEN a[k] ELSE IF k = n + 1 THEN Bytes(m, 0) ELSE a[k - 1]
    BY <1>3, <2>1, <2>2
  <2>5. Inserts(b, a, n + 1, Bytes(m, 0)) BY <2>3, <2>4 DEF Inserts
  <2>6. Ints(a, n) /\ use = Total(a) BY <1>1, <2>1 DEF Accounts
  <2>7. Total(b) = Total(a) + Bytes(m, 0) BY <1>5, <1>6, <2>5, <2>6, TotalInsert
  <2>8. QED BY <1>3, <2>2, <2>6, <2>7
<1>9. Accounts(t, alloc + Size(m), use + Bytes(m, 0))
  BY <1>3, <1>4, <1>7, <1>8 DEF Accounts
<1>10. QED BY <1>2, <1>9

\* b is a without its element at i.
LEMMA TotalRemove ==
  ASSUME NEW a, NEW n \in Nat, NEW b, NEW i \in 1 .. n, Ints(b, n - 1), Len(a) = n,
         a[i] \in Int, \A k \in 1 .. (n - 1) : b[k] = IF k < i THEN a[k] ELSE a[k + 1]
  PROVE  Total(b) = Total(a) - a[i]
<1>1. Len(b) = n - 1 BY DEF Ints
<1>2. ASSUME NEW k \in 1 .. n
      PROVE  a[k] = IF k < i THEN b[k] ELSE IF k = i THEN a[i] ELSE b[k - 1]
  <2>1. CASE k < i
    <3>1. k \in 1 .. (n - 1) BY <2>1
    <3>2. QED BY <2>1, <3>1
  <2>2. CASE k = i BY <2>2
  <2>3. CASE k > i
    <3>1. k - 1 \in 1 .. (n - 1) /\ ~(k - 1 < i) /\ ~(k < i) /\ k # i /\ (k - 1) + 1 = k
      BY <2>3
    <3>2. b[k - 1] = a[k] BY <3>1
    <3>3. QED BY <3>1, <3>2
  <2>4. QED BY <2>1, <2>2, <2>3
<1>3. Inserts(a, b, i, a[i]) BY <1>1, <1>2 DEF Inserts
<1>4. i \in 1 .. ((n - 1) + 1) OBVIOUS
<1>5. Total(b) \in Int /\ Total(a) = Total(b) + a[i] BY <1>3, <1>4, TotalInsert
<1>6. QED BY <1>5

LEMMA AccountsRemove ==
  ASSUME NEW ms \in Seq(Major), NEW i \in DOMAIN ms, NEW alloc, NEW use,
         Accounts(ms, alloc, use)
  PROVE  Accounts(RemoveAt(ms, i), alloc - Size(ms[i]), use - Bytes(ms[i], 0))
<1>1. PICK n \in Nat :
        /\ n = Len(ms) /\ DOMAIN ms = 1 .. n
        /\ \A k \in 1 .. n : Size(ms[k]) \in Int /\ Bytes(ms[k], 0) \in Int
  BY MajorBytes
<1>2. i \in 1 .. n BY <1>1
<1>3. PICK t \in Seq(Major) : t = RemoveAt(ms, i) /\ Removes(t, ms, i)
  BY <1>1, <1>2, RemoveAtIs
<1>4. Len(t) = n - 1 /\ \A k \in 1 .. (n - 1) : t[k] = IF k < i THEN ms[k] ELSE ms[k + 1]
  BY <1>1, <1>3 DEF Removes
<1>5. PICK l \in Nat :
        /\ l = Len(t) /\ DOMAIN t = 1 .. l
        /\ Ints([k \in DOMAIN t |-> Size(t[k])], l)
        /\ Ints([k \in DOMAIN t |-> Bytes(t[k], 0)], l)
  BY MajorBytes
<1>6. l = n - 1 BY <1>4, <1>5
<1>7. ASSUME NEW k \in 1 .. (n - 1) PROVE k \in 1 .. n /\ k + 1 \in 1 .. n
  OBVIOUS
<1>8. \A k \in 1 .. (n - 1) : t[k].usage = MAJOR + Bytes(t[k], MINOR)
  BY <1>1, <1>4, <1>7 DEF Accounts
<1>9. Total([k \in DOMAIN t |-> Size(t[k])]) = alloc - Size(ms[i])
  <2>1. PICK a : a = [k \in 1 .. n |-> Size(ms[k])] OBVIOUS
  <2>2. PICK b : b = [k \in 1 .. (n - 1) |-> Size(t[k])] OBVIOUS
  <2>3. Ints(b, n - 1) BY <1>5, <1>6, <2>2
  <2>4. \A k \in 1 .. (n - 1) : b[k] = IF k < i THEN a[k] ELSE a[k + 1]
    BY <1>4, <1>7, <2>1, <2>2
  <2>5. Len(a) = n /\ a[i] = Size(ms[i]) /\ a[i] \in Int BY <1>1, <1>2, <2>1
  <2>6. Total(b) = Total(a) - a[i] BY <1>2, <2>3, <2>4, <2>5, TotalRemove
  <2>7. QED BY <1>1, <1>5, <1>6, <2>1, <2>2, <2>5, <2>6 DEF Accounts
<1>10. Total([k \in DOMAIN t |-> Bytes(t[k], 0)]) = use - Bytes(ms[i], 0)
  <2>1. PICK a : a = [k \in 1 .. n |-> Bytes(ms[k], 0)] OBVIOUS
  <2>2. PICK b : b = [k \in 1 .. (n - 1) |-> Bytes(t[k], 0)] OBVIOUS
  <2>3. Ints(b, n - 1) BY <1>5, <1>6, <2>2
  <2>4. \A k \in 1 .. (n - 1) : b[k] = IF k < i THEN a[k] ELSE a[k + 1]
    BY <1>4, <1>7, <2>1, <2>2
  <2>5. Len(a) = n /\ a[i] = Bytes(ms[i], 0) /\ a[i] \in Int BY <1>1, <1>2, <2>1
  <2>6. Total(b) = Total(a) - a[i] BY <1>2, <2>3, <2>4, <2>5, TotalRemove
  <2>7. QED BY <1>1, <1>5, <1>6, <2>1, <2>2, <2>5, <2>6 DEF Accounts
<1>11. Accounts(t, alloc - Size(ms[i]), use - Bytes(ms[i], 0))
  BY <1>5, <1>6, <1>8, <1>9, <1>10 DEF Accounts
<1>12. QED BY <1>3, <1>11

LEMMA CountersAre ==
  ASSUME NEW ms \in Seq(Major), NEW alloc, NEW use, Accounts(ms, alloc, use)
  PROVE  use \in Int
<1>1. PICK n \in Nat : Ints([k \in DOMAIN ms |-> Bytes(ms[k], 0)], n) BY MajorBytes
<1>2. PICK a : a = [k \in DOMAIN ms |-> Bytes(ms[k], 0)] OBVIOUS
<1>3. Ints(a, n) BY <1>1, <1>2
<1>4. PICK f : Sums(f, a, n) /\ Total(a) = f[n] BY <1>3, TotalIs
<1>5. f[n] \in Int BY <1>4 DEF Sums
<1>6. QED BY <1>2, <1>4, <1>5 DEF Accounts

LEMMA MallocInsideAccounts ==
  ASSUME IInv, Accounting, NEW req \in Nat, MallocInside(req)
  PROVE  Accounting'
<1>1. PICK i, j, seen :
        /\ Found(i, j, Padded(req) + MINOR, seen)
        /\ majors' = [majors EXCEPT ![i] = Inserted(majors[i], j, req)]
        /\ bestBet' = BetAfter(seen)
  BY MallocInsideIs
<1>2. /\ i \in DOMAIN majors /\ j \in 0 .. Len(majors[i].minors)
      /\ GapEnd(majors[i], j) - GapStart(majors[i], j) >= Padded(req) + MINOR
  BY <1>1, MajorsAre DEF Found
<1>3. Sound(majors[i]) BY <1>2, MajorsAre DEF IInv
<1>4. PICK maj \in Major : maj = majors[i] BY <1>3 DEF Sound
<1>5. PICK m : m = Inserted(maj, j, req) OBVIOUS
<1>6. m \in Major BY <1>2, <1>3, <1>4, <1>5, InsertedSound DEF Sound
<1>7. m.pages = maj.pages /\ m.usage = maj.usage + Padded(req) + MINOR
  BY <1>5 DEF Inserted, Major
<1>8. PICK p \in Nat : p = Padded(req) BY SizesAre DEF Padded
<1>9. /\ Bytes(maj, MINOR) \in Int /\ Bytes(m, MINOR) = Bytes(maj, MINOR) + p + MINOR
      /\ Bytes(maj, 0) \in Int /\ Bytes(m, 0) = Bytes(maj, 0) + p + 0
  BY <1>2, <1>4, <1>5, <1>8, BytesInserted, SizesAre
<1>10. Accounts(majors, allocated, inuse) BY DEF Accounting, Accounts
<1>11. maj.usage = MAJOR + Bytes(maj, MINOR) BY <1>2, <1>4 DEF Accounting
<1>12. m.usage = MAJOR + Bytes(m, MINOR) BY <1>7, <1>8, <1>9, <1>11, SizesAre
<1>13. majors \in Seq(Major) BY DEF IInv
<1>14. Accounts([majors EXCEPT ![i] = m], allocated, inuse + Bytes(m, 0) - Bytes(majors[i], 0))
  BY <1>2, <1>4, <1>6, <1>7, <1>10, <1>12, <1>13, AccountsExcept
<1>15. inuse \in Int BY <1>10, <1>13, CountersAre
<1>16. inuse + Bytes(m, 0) - Bytes(majors[i], 0) = inuse + p BY <1>4, <1>9, <1>15
<1>17. majors' = [majors EXCEPT ![i] = m] /\ allocated' = allocated /\ inuse' = inuse + p
  BY <1>1, <1>4, <1>5, <1>8 DEF MallocInside
<1>18. Accounts(majors', allocated', inuse') BY <1>14, <1>16, <1>17
<1>19. QED BY <1>18 DEF Accounting, Accounts

LEMMA MallocNewMajorAccounts ==
  ASSUME IInv, Accounting, NEW req \in Nat, MallocNewMajor(req)
  PROVE  Accounting'
<1>1. PICK p \in Nat : p = Padded(req) BY SizesAre DEF Padded
<1>2. PICK new : new = NewMajor(p) OBVIOUS
<1>3. /\ Sound(new) /\ Len(new.minors) = 0
      /\ GapEnd(new, 0) - GapStart(new, 0) >= p + MINOR
  <2>1. heap \in Nat BY DEF IInv
  <2>2. QED BY <1>2, <2>1, NewMajorIs
<1>4. new \in Major /\ new.minors = <<>> /\ new.usage = MAJOR
  BY <1>2, <1>3 DEF Sound, NewMajor
<1>5. PICK m : m = Inserted(new, 0, req) OBVIOUS
<1>6. 0 \in 0 .. Len(new.minors) BY <1>3
<1>7. m \in Major BY <1>1, <1>3, <1>5, <1>6, InsertedSound DEF Sound
<1>8. m.pages = new.pages /\ m.usage = new.usage + p + MINOR
  BY <1>1, <1>4, <1>5 DEF Inserted, Major
<1>9. Bytes(m, MINOR) = p + MINOR /\ Bytes(m, 0) = p
  <2>1. Bytes(new, MINOR) = 0 /\ Bytes(new, 0) = 0 BY <1>4, BytesOfNone, SizesAre
  <2>2. /\ Bytes(m, MINOR) = Bytes(new, MINOR) + p + MINOR
        /\ Bytes(m, 0) = Bytes(new, 0) + p + 0
    BY <1>1, <1>4, <1>5, <1>6, BytesInserted, SizesAre
  <2>3. QED BY <2>1, <2>2, SizesAre
<1>10. m.usage = MAJOR + Bytes(m, MINOR) BY <1>4, <1>8, <1>9, SizesAre
<1>11. Accounts(majors, allocated, inuse) BY DEF Accounting, Accounts
<1>12. majors \in Seq(Major) BY DEF IInv
<1>13. Accounts(Append(majors, m), allocated + Size(m), inuse + Bytes(m, 0))
  BY <1>7, <1>10, <1>11, <1>12, AccountsAppend
<1>14. /\ majors' = Append(majors, m) /\ allocated' = allocated + Size(m)
       /\ inuse' = inuse + Bytes(m, 0)
  <2>1. Size(m) = Size(new) BY <1>8 DEF Size
  <2>2. QED BY <1>1, <1>2, <1>5, <1>9, <2>1 DEF MallocNewMajor
<1>15. Accounts(majors', allocated', inuse') BY <1>13, <1>14
<1>16. QED BY <1>15 DEF Accounting, Accounts

LEMMA FreeAccounts ==
  ASSUME IInv, Accounting, NEW p, Free(p)
  PROVE  Accounting'
<1> DEFINE Freed(i, j, m) ==
        /\ m = [majors[i] EXCEPT !.usage = @ - (majors[i].minors[j].size + MINOR),
                                 !.minors = RemoveAt(@, j)]
        /\ inuse' = inuse - majors[i].minors[j].size
        /\ IF m.minors = <<>>
           THEN majors' = RemoveAt(majors, i) /\ allocated' = allocated - Size(m)
           ELSE majors' = [majors EXCEPT ![i] = m] /\ allocated' = allocated
<1>a. PICK i \in DOMAIN majors : \E j \in DOMAIN majors[i].minors : \E m : Freed(i, j, m)
  BY Zenon DEF Free
<1>b. PICK j \in DOMAIN majors[i].minors : \E m : Freed(i, j, m) BY <1>a
<1>1. PICK m : Freed(i, j, m) BY <1>b
<1>2. Sound(majors[i]) BY MajorsAre DEF IInv
<1>3. PICK maj \in Major : maj = majors[i] BY <1>2 DEF Sound
<1>4. j \in 1 .. Len(maj.minors) BY <1>3, MajorsAre
<1>5. PICK z \in Nat : z = maj.minors[j].size BY <1>4, MinorIs
<1>6. m = [maj EXCEPT !.usage = maj.usage - (z + MINOR), !.minors = RemoveAt(maj.minors, j)]
  BY <1>1, <1>3, <1>5
<1>7. PICK u \in Int : u = maj.usage - (z + MINOR) BY SizesAre DEF Major
<1>8. m \in Major
  <2>1. m = [maj EXCEPT !.usage = u, !.minors = RemoveAt(maj.minors, j)] BY <1>6, <1>7
  <2>2. QED BY <1>2, <1>3, <1>4, <2>1, RemovedSound DEF Sound
<1>9. /\ m.pages = maj.pages /\ m.usage = u
      /\ m.minors = RemoveAt(maj.minors, j)
  BY <1>6, <1>7 DEF Major
<1>10. /\ Bytes(m, MINOR) = Bytes(maj, MINOR) - (z + MINOR) /\ Bytes(m, 0) = Bytes(maj, 0) - (z + 0)
       /\ Bytes(maj, MINOR) \in Int /\ Bytes(maj, 0) \in Int
  <2>1. MINOR \in Nat /\ 0 \in Nat BY SizesAre
  <2>2. Bytes(maj, MINOR) \in Int /\ Bytes(maj, 0) \in Int BY <2>1, BytesAre
  <2>3. Bytes(m, MINOR) = Bytes(maj, MINOR) - (maj.minors[j].size + MINOR)
    BY <1>4, <1>9, <2>1, BytesRemoved
  <2>4. Bytes(m, 0) = Bytes(maj, 0) - (maj.minors[j].size + 0)
    BY <1>4, <1>9, <2>1, BytesRemoved
  <2>5. QED BY <1>5, <2>2, <2>3, <2>4
<1>11. Accounts(majors, allocated, inuse) BY DEF Accounting, Accounts
<1>12. majors \in Seq(Major) BY DEF IInv
<1>13. inuse \in Int BY <1>11, <1>12, CountersAre
<1>14. inuse' = inuse - z BY <1>1, <1>3, <1>5
<1>15. CASE m.minors = <<>>
  <2>1. Bytes(majors[i], 0) = z
    <3>1. Bytes(m, 0) = 0 BY <1>15, BytesOfNone
    <3>2. QED BY <1>3, <1>10, <3>1
  <2>2. Size(m) = Size(majors[i]) BY <1>3, <1>9 DEF Size
  <2>3. Accounts(RemoveAt(majors, i), allocated - Size(majors[i]), inuse - Bytes(majors[i], 0))
    BY <1>11, <1>12, AccountsRemove
  <2>4. majors' = RemoveAt(majors, i) /\ allocated' = allocated - Size(m) BY <1>1, <1>15
  <2>5. Accounts(majors', allocated', inuse') BY <1>14, <2>1, <2>2, <2>3, <2>4
  <2>6. QED BY <2>5 DEF Accounting, Accounts
<1>16. CASE m.minors # <<>>
  <2>1. maj.usage = MAJOR + Bytes(maj, MINOR) BY <1>3 DEF Accounting
  <2>2. m.usage = MAJOR + Bytes(m, MINOR) BY <1>7, <1>9, <1>10, <2>1, SizesAre
  <2>3. Accounts([majors EXCEPT ![i] = m], allocated, inuse + Bytes(m, 0) - Bytes(majors[i], 0))
    BY <1>3, <1>8, <1>9, <1>11, <1>12, <2>2, AccountsExcept
  <2>4. inuse + Bytes(m, 0) - Bytes(majors[i], 0) = inuse - z BY <1>3, <1>10, <1>13
  <2>5. majors' = [majors EXCEPT ![i] = m] /\ allocated' = allocated BY <1>1, <1>16
  <2>6. Accounts(majors', allocated', inuse') BY <1>14, <2>3, <2>4, <2>5
  <2>7. QED BY <2>6 DEF Accounting, Accounts
<1>17. QED BY <1>15, <1>16

LEMMA ReallocInPlaceAccounts ==
  ASSUME IInv, Accounting, NEW p, NEW req \in Nat, ReallocInPlace(p, req)
  PROVE  Accounting'
<1>a. PICK i \in DOMAIN majors : \E j \in DOMAIN majors[i].minors :
        /\ majors[i].minors[j].req > req
        /\ majors' = [majors EXCEPT ![i].minors[j].req = req]
  BY DEF ReallocInPlace
<1>1. PICK j \in DOMAIN majors[i].minors :
        /\ majors[i].minors[j].req > req
        /\ majors' = [majors EXCEPT ![i].minors[j].req = req]
  BY <1>a
<1>2. Sound(majors[i]) BY MajorsAre DEF IInv
<1>3. PICK maj \in Major : maj = majors[i] BY <1>2 DEF Sound
<1>4. j \in 1 .. Len(maj.minors) BY <1>3, MajorsAre
<1>5. PICK m : m = [maj EXCEPT !.minors[j].req = req] OBVIOUS
<1>6. majors' = [majors EXCEPT ![i] = m] BY <1>1, <1>3, <1>5
<1>7. m \in Major
  <2>1. maj.minors[j].req \in Nat BY <1>4, MinorIs
  <2>2. req < maj.minors[j].req BY <1>1, <1>3, <2>1
  <2>3. QED BY <1>2, <1>3, <1>4, <1>5, <2>2, ShrunkSound DEF Sound
<1>8. /\ m.pages = maj.pages /\ m.usage = maj.usage
      /\ m.minors = [maj.minors EXCEPT ![j].req = req]
  BY <1>5 DEF Major
<1>9. DOMAIN m.minors = DOMAIN maj.minors BY <1>8
<1>10. \A k \in DOMAIN maj.minors : m.minors[k].size = maj.minors[k].size
  <2>1. ASSUME NEW k \in DOMAIN maj.minors PROVE m.minors[k].size = maj.minors[k].size
    <3>1. CASE k = j
      <4>1. maj.minors[j] \in Minor BY <1>4, MinorIs
      <4>2. m.minors[j] = [maj.minors[j] EXCEPT !.req = req] BY <1>8, <2>1, <3>1
      <4>3. QED BY <3>1, <4>1, <4>2 DEF Minor
    <3>2. CASE k # j BY <1>8, <3>2
    <3>3. QED BY <3>1, <3>2
  <2>2. QED BY <2>1
<1>11. \A x : Bytes(m, x) = Bytes(maj, x)
  <2>1. ASSUME NEW x PROVE [k \in DOMAIN m.minors |-> m.minors[k].size + x]
                         = [k \in DOMAIN maj.minors |-> maj.minors[k].size + x]
    BY <1>9, <1>10
  <2>2. QED BY <2>1 DEF Bytes
<1>12. Accounts(majors, allocated, inuse) BY DEF Accounting, Accounts
<1>13. majors \in Seq(Major) BY DEF IInv
<1>14. m.usage = MAJOR + Bytes(m, MINOR) BY <1>3, <1>8, <1>11 DEF Accounting
<1>15. Accounts([majors EXCEPT ![i] = m], allocated, inuse + Bytes(m, 0) - Bytes(majors[i], 0))
  BY <1>3, <1>7, <1>8, <1>12, <1>13, <1>14, AccountsExcept
<1>16. inuse + Bytes(m, 0) - Bytes(majors[i], 0) = inuse
  <2>1. inuse \in Int BY <1>12, <1>13, CountersAre
  <2>2. Bytes(maj, 0) \in Int BY BytesAre
  <2>3. QED BY <1>3, <1>11, <2>1, <2>2
<1>17. allocated' = allocated /\ inuse' = inuse BY DEF ReallocInPlace
<1>18. Accounts(majors', allocated', inuse') BY <1>6, <1>15, <1>16, <1>17
<1>19. QED BY <1>18 DEF Accounting, Accounts

-----------------------------------------------------------------------------
(* The theorems.                                                           *)

\* The lists of malloc and free are in order after any sequence of kmalloc,
\* kfree and krealloc.
THEOREM HeapInvariance == Spec => []IInv
  BY InitIInv, NextIInv, PTL DEF Spec

\* What malloc returned is aligned, lies inside its major and overlaps neither
\* a header nor the bytes of another caller.
THEOREM BlocksStayDisjoint == Spec => []BlocksDisjoint
<1>1. ASSUME IInv, NEW i \in DOMAIN majors, NEW j \in DOMAIN majors[i].minors
      PROVE  LET maj == majors[i]
                 min == maj.minors[j]
                 p   == AlignedPtr(min)
             IN  /\ min.at >= GapStart(maj, j - 1)
                 /\ p - ALIGN_INFO >= min.at + MINOR
                 /\ p % ALIGNMENT = 0
                 /\ p + min.req <= GapEnd(maj, j)
  <2>1. i \in 1 .. Len(majors) /\ j \in 1 .. Len(majors[i].minors)
    BY <1>1, MajorsAre
  <2>2. PICK maj : maj = majors[i] OBVIOUS
  <2>3. Sound(maj) /\ maj \in Major BY <1>1, <2>1, <2>2 DEF IInv, Sound
  <2>4. PICK n \in Nat : n = Len(maj.minors)
    BY <1>1, <2>1, <2>2, MajorsAre, LenProperties
  <2>5. j \in 1 .. n BY <2>1, <2>2, <2>4
  <2>6. PICK a \in Nat, z \in Nat, r \in Nat :
          a = maj.minors[j].at /\ z = maj.minors[j].size /\ r = maj.minors[j].req
    BY <2>3, <2>4, <2>5, MinorIs
  <2>7. r + ALIGNMENT + ALIGN_INFO <= z
    BY <2>3, <2>4, <2>5, <2>6 DEF Sound, Roomy
  <2>8. a >= GapStart(maj, j - 1)
    <3>1. j - 1 \in 0 .. n /\ j - 1 # n /\ (j - 1) + 1 = j BY <2>5
    <3>2. GapEnd(maj, j - 1) = a BY <2>4, <2>6, <3>1 DEF GapEnd
    <3>3. GapStart(maj, j - 1) \in Nat BY <2>3, <2>4, <3>1, GapIs
    <3>4. QED BY <2>3, <2>4, <3>1, <3>2, <3>3 DEF Sound, Ordered
  <2>9. PICK g \in Nat : g = GapEnd(maj, j) /\ a + MINOR + z <= g
    <3>1. j \in 0 .. n /\ j # 0 BY <2>5
    <3>2. GapStart(maj, j) = a + MINOR + z BY <2>6, <3>1 DEF GapStart
    <3>3. GapEnd(maj, j) \in Nat BY <2>3, <2>4, <3>1, GapIs
    <3>4. GapStart(maj, j) <= GapEnd(maj, j) BY <2>3, <2>4, <3>1 DEF Sound, Ordered
    <3>5. QED BY <3>2, <3>3, <3>4
  <2>10. PICK q \in Int : /\ q = CeilDiv(a + MINOR + ALIGN_INFO, ALIGNMENT)
                          /\ a + MINOR + ALIGN_INFO <= q * ALIGNMENT
                          /\ q * ALIGNMENT <= a + MINOR + ALIGN_INFO + ALIGNMENT - 1
    <3>1. a + MINOR + ALIGN_INFO \in Int BY SizesAre
    <3>2. QED BY <3>1, CeilDivIs, SizesAre
  <2>11. PICK p \in Int : p = q * ALIGNMENT /\ p % ALIGNMENT = 0
    BY MultipleIs, SizesAre
  <2>12. p = AlignedPtr(maj.minors[j]) BY <2>6, <2>10, <2>11 DEF AlignedPtr
  <2>13. /\ a + MINOR + ALIGN_INFO <= p
         /\ p <= a + MINOR + ALIGN_INFO + ALIGNMENT - 1
    BY <2>10, <2>11
  <2>14. p - ALIGN_INFO >= a + MINOR BY <2>13, SizesAre
  <2>15. p + r <= g BY <2>7, <2>9, <2>13, SizesAre
  <2>16. QED BY <2>2, <2>6, <2>8, <2>9, <2>11, <2>12, <2>14, <2>15
<1>2. IInv => BlocksDisjoint BY <1>1 DEF BlocksDisjoint
<1>3. QED BY <1>2, HeapInvariance, PTL

\* l_bestBet points at a major of the list, and free has given back every
\* major without minors.
THEOREM BestBetStaysLive == Spec => []BestBetLive
<1>1. IInv => BestBetLive
  <2> SUFFICES ASSUME IInv PROVE BestBetLive OBVIOUS
  <2>1. DOMAIN majors = 1 .. Len(majors) BY MajorsAre
  <2>2. QED BY <2>1 DEF IInv, BestBetLive
<1>2. QED BY <1>1, HeapInvariance, PTL

\* The usage of every major, l_allocated and l_inuse agree with the lists after
\* any sequence of kmalloc, kfree and krealloc.
THEOREM AlwaysAccounted == Spec => []Accounting
<1>1. Init => Accounting
  <2> SUFFICES ASSUME Init PROVE Accounting OBVIOUS
  <2>1. majors = <<>> /\ allocated = 0 /\ inuse = 0 BY DEF Init
  <2>2. DOMAIN majors = 1 .. 0 BY <2>1, EmptySeq
  <2>3. PICK a : a = [i \in DOMAIN majors |-> Size(majors[i])] OBVIOUS
  <2>4. PICK b : b = [i \in DOMAIN majors |-> Bytes(majors[i], 0)] OBVIOUS
  <2>5. Len(a) = 0 /\ Len(b) = 0
    <3>1. a = [i \in 1 .. 0 |-> Size(majors[i])] BY <2>2, <2>3
    <3>2. b = [i \in 1 .. 0 |-> Bytes(majors[i], 0)] BY <2>2, <2>4
    <3>3. QED BY <3>1, <3>2
  <2>6. Total(a) = 0 /\ Total(b) = 0
    <3>1. Ints(a, 0) /\ Ints(b, 0) BY <2>5 DEF Ints
    <3>2. PICK f : Sums(f, a, 0) /\ Total(a) = f[0] BY <3>1, TotalIs
    <3>3. PICK g : Sums(g, b, 0) /\ Total(b) = g[0] BY <3>1, TotalIs
    <3>4. QED BY <3>2, <3>3 DEF Sums
  <2>7. QED BY <2>1, <2>2, <2>3, <2>4, <2>6 DEF Accounting
<1>2. IInv /\ Accounting /\ [Next]_vars => Accounting'
  <2> SUFFICES ASSUME IInv, Accounting, [Next]_vars PROVE Accounting' OBVIOUS
  <2>1. \A req \in Requests : req \in Nat BY SizesAssumption
  <2>2. ASSUME NEW req \in Requests, Malloc(req) PROVE Accounting'
    BY <2>1, <2>2, MallocInsideAccounts, MallocNewMajorAccounts DEF Malloc
  <2>3. ASSUME NEW p \in Live, Kfree(p) PROVE Accounting'
    BY <2>3, FreeAccounts DEF Kfree
  <2>4. ASSUME NEW p \in Live, NEW req \in Requests, ReallocInPlace(p, req)
        PROVE  Accounting'
    BY <2>1, <2>4, ReallocInPlaceAccounts
  <2>5. ASSUME NEW p \in Live, NEW req \in Requests, ReallocGrow(p, req)
        PROVE  Accounting'
    BY <2>1, <2>5, MallocInsideAccounts, MallocNewMajorAccounts DEF ReallocGrow
  <2>6. ASSUME NEW m \in moving, ReallocFinish(m) PROVE Accounting'
    BY <2>6, FreeAccounts DEF ReallocFinish
  <2>7. CASE UNCHANGED vars
    <3>1. majors' = majors /\ allocated' = allocated /\ inuse' = inuse BY <2>7 DEF vars
    <3>2. Accounts(majors', allocated', inuse') BY <3>1 DEF Accounting, Accounts
    <3>3. QED BY <3>2 DEF Accounting, Accounts
  <2>8. QED BY <2>2, <2>3, <2>4, <2>5, <2>6, <2>7 DEF Next
<1>3. QED BY <1>1, <1>2, HeapInvariance, PTL DEF Spec

=============================================================================
