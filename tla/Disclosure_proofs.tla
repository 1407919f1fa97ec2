--------------------------- MODULE Disclosure_proofs ---------------------------
(***************************************************************************)
(* Proofs about Disclosure and the ring arithmetic of Lattice, for every   *)
(* degree, rank and modulus, every hash function, and any number of        *)
(* commitments and restarts.                                               *)
(*                                                                         *)
(* Sums are recursive functions: what is said of them is proved by         *)
(* induction over a set of naturals.                                       *)
(***************************************************************************)
EXTENDS Disclosure, SequenceTheorems, WellFoundedInduction, TLAPS

-----------------------------------------------------------------------------
(* Induction: a set of naturals has a least element.                       *)
LEMMA LeastNat ==
  ASSUME NEW T, T \subseteq Nat, T # {}
  PROVE  \E x \in T : \A y \in T : x <= y
<1> DEFINE R == OpToRel(<, Nat)
<1>1. \A x, y \in Nat : <<x, y>> \in R <=> x < y
  BY DEF OpToRel
<1>2. IsWellFoundedOn(R, Nat)
  BY NatLessThanWellFounded
<1> HIDE DEF R
<1>3. PICK x \in T : \A y \in T : ~(<<y, x>> \in R)
  BY <1>2, WFMin
<1>4. ASSUME NEW y \in T PROVE x <= y
  <2>1. x \in Nat /\ y \in Nat
    OBVIOUS
  <2>2. ~(y < x)
    BY <1>1, <1>3, <2>1
  <2> QED BY <2>1, <2>2
<1> QED BY <1>4

LEMMA NatInduct ==
  ASSUME NEW S, 0 \in S, \A n \in Nat : n \in S => n + 1 \in S
  PROVE  Nat \subseteq S
<1> SUFFICES ASSUME Nat \ S # {} PROVE FALSE
  OBVIOUS
<1>1. PICK m \in Nat \ S : \A y \in Nat \ S : m <= y
  BY LeastNat
<1>2. m - 1 \in Nat /\ m - 1 \notin Nat \ S /\ m = (m - 1) + 1
  BY <1>1
<1> QED BY <1>1, <1>2

-----------------------------------------------------------------------------
(* Sums.                                                                   *)
Sums(f, sum, n) ==
  sum = [i \in 0 .. n |-> f[i] + (IF i = 0 THEN 0 ELSE sum[i - 1])]

LEMMA SumExists ==
  ASSUME NEW f, NEW n \in Nat
  PROVE  \E sum : Sums(f, sum, n)
<1> DEFINE S == {m \in Nat : \E sum : Sums(f, sum, m)}
<1>1. 0 \in S
  <2> DEFINE sum == [i \in 0 .. 0 |-> f[i] + 0]
  <2>1. sum = [i \in 0 .. 0 |-> f[i] + (IF i = 0 THEN 0 ELSE sum[i - 1])]
    OBVIOUS
  <2> QED BY <2>1 DEF Sums
<1>2. ASSUME NEW m \in Nat, m \in S PROVE m + 1 \in S
  <2>1. PICK s : Sums(f, s, m)
    BY <1>2
  <2> DEFINE next(i) == f[i] + (IF i = 0 THEN 0 ELSE s[i - 1])
             g == [i \in 0 .. m + 1 |-> IF i \in 0 .. m THEN s[i] ELSE next(i)]
             h == [i \in 0 .. m + 1 |-> f[i] + (IF i = 0 THEN 0 ELSE g[i - 1])]
  <2>2. \A i \in 0 .. m : g[i] = s[i]
    OBVIOUS
  <2>3. \A i \in 0 .. m : s[i] = next(i)
    BY <2>1 DEF Sums
  <2>4. ASSUME NEW i \in 0 .. m + 1 PROVE g[i] = h[i]
    <3>1. (IF i = 0 THEN 0 ELSE g[i - 1]) = (IF i = 0 THEN 0 ELSE s[i - 1])
      BY <2>2
    <3>2. h[i] = next(i)
      BY <3>1
    <3>3. CASE i \in 0 .. m
      BY <2>2, <2>3, <3>2, <3>3
    <3>4. CASE i \notin 0 .. m
      BY <3>2, <3>4
    <3> QED BY <3>3, <3>4
  <2>5. g = h
    <3>1. g = [i \in 0 .. m + 1 |-> g[i]] /\ h = [i \in 0 .. m + 1 |-> h[i]]
      OBVIOUS
    <3> HIDE DEF g, h
    <3> QED BY <2>4, <3>1, Zenon
  <2>6. Sums(f, g, m + 1)
    BY <2>5, Zenon DEF Sums
  <2> QED BY <2>6
<1> HIDE DEF S
<1>3. n \in S
  BY <1>1, <1>2, NatInduct
<1> QED BY <1>3 DEF S

SumUp(f, sum, n) ==
  /\ SumOver(f, n) = sum[n] /\ sum[0] = f[0] + 0
  /\ \A i \in 1 .. n : sum[i] = f[i] + sum[i - 1]

LEMMA SumRecursion ==
  ASSUME NEW f, NEW n \in Nat
  PROVE  \E sum : SumUp(f, sum, n)
<1> DEFINE s == CHOOSE sum : sum = [i \in 0 .. n |->
                  f[i] + (IF i = 0 THEN 0 ELSE sum[i - 1])]
<1>1. s = [i \in 0 .. n |-> f[i] + (IF i = 0 THEN 0 ELSE s[i - 1])]
  <2>1. \E sum : sum = [i \in 0 .. n |-> f[i] + (IF i = 0 THEN 0 ELSE sum[i - 1])]
    BY SumExists, Zenon DEF Sums
  <2> QED BY <2>1, Zenon
<1>2. SumOver(f, n) = s[n]
  BY DEF SumOver
<1> HIDE DEF s
<1>3. \A i \in 0 .. n : s[i] = f[i] + (IF i = 0 THEN 0 ELSE s[i - 1])
  BY <1>1
<1>4. s[0] = f[0] + 0 /\ \A i \in 1 .. n : s[i] = f[i] + s[i - 1]
  BY <1>3
<1> QED BY <1>2, <1>4 DEF SumUp

LEMMA SumIsInt ==
  ASSUME NEW n \in Nat, NEW f, \A i \in 0 .. n : f[i] \in Int
  PROVE  SumOver(f, n) \in Int
<1>1. PICK sum : SumUp(f, sum, n)
  BY SumRecursion
<1> DEFINE S == {i \in Nat : i \in 0 .. n => sum[i] \in Int}
<1>2. 0 \in S
  BY <1>1 DEF SumUp
<1>3. ASSUME NEW i \in Nat, i \in S PROVE i + 1 \in S
  <2> SUFFICES ASSUME i + 1 \in 0 .. n PROVE sum[i + 1] \in Int
    OBVIOUS
  <2>1. i + 1 \in 1 .. n /\ (i + 1) - 1 = i /\ sum[i] \in Int
    BY <1>3
  <2>2. sum[i + 1] = f[i + 1] + sum[i]
    BY <1>1, <2>1 DEF SumUp
  <2> QED BY <2>1, <2>2
<1> HIDE DEF S
<1>4. n \in S
  BY <1>2, <1>3, NatInduct
<1> QED BY <1>1, <1>4 DEF S, SumUp

(* The sum of differences is the difference of the sums.                   *)
LEMMA SumOfDifferences ==
  ASSUME NEW n \in Nat, NEW f, NEW g, NEW h,
         \A i \in 0 .. n : g[i] \in Int /\ h[i] \in Int /\ f[i] = g[i] - h[i]
  PROVE  SumOver(f, n) = SumOver(g, n) - SumOver(h, n)
<1>1. PICK sf : SumUp(f, sf, n)
  BY SumRecursion
<1>2. PICK sg : SumUp(g, sg, n)
  BY SumRecursion
<1>3. PICK sh : SumUp(h, sh, n)
  BY SumRecursion
<1> DEFINE S == {i \in Nat : i \in 0 .. n =>
                   /\ sg[i] \in Int /\ sh[i] \in Int
                   /\ sf[i] = sg[i] - sh[i]}
<1>4. 0 \in S
  <2>1. /\ sf[0] = f[0] + 0 /\ sg[0] = g[0] + 0 /\ sh[0] = h[0] + 0
    BY <1>1, <1>2, <1>3 DEF SumUp
  <2>2. g[0] \in Int /\ h[0] \in Int /\ f[0] = g[0] - h[0]
    OBVIOUS
  <2> QED BY <2>1, <2>2
<1>5. ASSUME NEW i \in Nat, i \in S PROVE i + 1 \in S
  <2> SUFFICES ASSUME i + 1 \in 0 .. n
               PROVE  /\ sg[i + 1] \in Int /\ sh[i + 1] \in Int
                      /\ sf[i + 1] = sg[i + 1] - sh[i + 1]
    OBVIOUS
  <2>1. /\ i + 1 \in 1 .. n /\ (i + 1) - 1 = i
        /\ sg[i] \in Int /\ sh[i] \in Int /\ sf[i] = sg[i] - sh[i]
    BY <1>5
  <2>2. /\ sf[i + 1] = f[i + 1] + sf[i]
        /\ sg[i + 1] = g[i + 1] + sg[i]
        /\ sh[i + 1] = h[i + 1] + sh[i]
    BY <1>1, <1>2, <1>3, <2>1 DEF SumUp
  <2>3. /\ g[i + 1] \in Int /\ h[i + 1] \in Int
        /\ f[i + 1] = g[i + 1] - h[i + 1]
    OBVIOUS
  <2> QED BY <2>1, <2>2, <2>3
<1> HIDE DEF S
<1>6. n \in S
  BY <1>4, <1>5, NatInduct
<1> QED BY <1>1, <1>2, <1>3, <1>6 DEF S, SumUp

-----------------------------------------------------------------------------
(* The two multiplications.                                                *)
IntPoly(a) == \A c \in Exponents : a[c] \in Int

LEMMA DegreeIsNatural == N - 1 \in Nat /\ N \in Nat /\ Exponents = 0 .. N - 1
BY RingAssumption DEF Exponents

LEMMA ProductIsInt == \A x, y \in Int : x * y \in Int /\ -(x * y) = 0 - (x * y)
OBVIOUS

(* Folding back the high half of the convolution negates exactly the       *)
(* products that the schoolbook negates.                                   *)
LEMMA FoldedCoefficient ==
  ASSUME NEW a, NEW b, IntPoly(a), IntPoly(b), NEW c \in Exponents
  PROVE  MulNumpy(a, b)[c] = MulSchoolbook(a, b)[c]
<1> DEFINE term == [i \in Exponents |->
                     IF i <= c THEN a[i] * b[c - i] ELSE -(a[i] * b[c - i + N])]
           conv(n) == [i \in Exponents |->
                     IF n - i \in Exponents THEN a[i] * b[n - i] ELSE 0]
           folded == [i \in Exponents |-> IF c < N - 1 THEN conv(c + N)[i] ELSE 0]
           low == SumOver(conv(c), N - 1)
           high == SumOver(conv(c + N), N - 1)
<1>1. N - 1 \in Nat /\ N \in Nat /\ Exponents = 0 .. N - 1
  BY DegreeIsNatural
<1>2. ASSUME NEW n \in Int, NEW i \in Exponents PROVE conv(n)[i] \in Int
  <2>1. n - i \in Exponents => a[i] * b[n - i] \in Int
    BY ProductIsInt DEF IntPoly
  <2> QED BY <2>1
<1>3. ASSUME NEW i \in Exponents, i <= c
      PROVE  term[i] = conv(c)[i] /\ conv(c + N)[i] = 0
  <2>1. c - i \in Exponents /\ (c + N) - i \notin Exponents
    BY <1>1, <1>3
  <2> QED BY <1>3, <2>1
<1>4. ASSUME NEW i \in Exponents, ~(i <= c)
      PROVE  /\ c < N - 1 /\ conv(c)[i] = 0
             /\ term[i] = 0 - conv(c + N)[i]
  <2>1. c < N - 1 /\ c - i \notin Exponents /\ (c + N) - i \in Exponents
    BY <1>1, <1>4
  <2>2. c - i + N = (c + N) - i
    BY <1>1
  <2>3. conv(c)[i] = 0 /\ conv(c + N)[i] = a[i] * b[(c + N) - i]
    BY <2>1
  <2>4. term[i] = -(a[i] * b[c - i + N])
    BY <1>4
  <2>5. a[i] \in Int /\ b[(c + N) - i] \in Int
    BY <2>1 DEF IntPoly
  <2>6. -(a[i] * b[(c + N) - i]) = 0 - (a[i] * b[(c + N) - i])
    BY <2>5, ProductIsInt
  <2> QED BY <2>1, <2>2, <2>3, <2>4, <2>6
<1>5. c \in Int /\ c + N \in Int
  BY <1>1
<1>6. MulSchoolbook(a, b)[c] = SumOver(term, N - 1) % Q
  BY DEF MulSchoolbook
<1>7. /\ Convolve(a, b)[c] = low
      /\ c < N - 1 => Convolve(a, b)[c + N] = high
  <2>1. c \in 0 .. 2 * N - 2 /\ (c < N - 1 => c + N \in 0 .. 2 * N - 2)
    BY <1>1
  <2> QED BY <2>1 DEF Convolve
<1>8. MulNumpy(a, b)[c]
        = (Convolve(a, b)[c] - (IF c < N - 1 THEN Convolve(a, b)[c + N] ELSE 0)) % Q
  BY DEF MulNumpy
<1>9. ASSUME NEW i \in 0 .. N - 1
      PROVE  /\ conv(c)[i] \in Int /\ folded[i] \in Int
             /\ term[i] = conv(c)[i] - folded[i]
  <2>1. i \in Exponents
    BY <1>1
  <2>2. conv(c)[i] \in Int /\ conv(c + N)[i] \in Int
    BY <1>2, <1>5, <2>1
  <2>3. folded[i] = IF c < N - 1 THEN conv(c + N)[i] ELSE 0
    BY <2>1
  <2>4. CASE i <= c
    <3>1. term[i] = conv(c)[i] /\ conv(c + N)[i] = 0
      BY <1>3, <2>1, <2>4
    <3> HIDE DEF term, conv, folded
    <3> QED BY <2>2, <2>3, <3>1
  <2>5. CASE ~(i <= c)
    <3>1. c < N - 1 /\ conv(c)[i] = 0 /\ term[i] = 0 - conv(c + N)[i]
      BY <1>4, <2>1, <2>5
    <3> HIDE DEF term, conv, folded
    <3> QED BY <2>2, <2>3, <3>1
  <2> QED BY <2>4, <2>5
<1> HIDE DEF term, conv
<1>10. SumOver(term, N - 1) = low - SumOver(folded, N - 1)
  <2> HIDE DEF folded
  <2> QED BY <1>1, <1>9, SumOfDifferences
<1>11. SumOver(folded, N - 1) = IF c < N - 1 THEN high ELSE 0
  <2>1. CASE c < N - 1
    <3>1. conv(c + N) = [i \in Exponents |-> conv(c + N)[i]]
      BY DEF conv
    <3>2. folded = conv(c + N)
      BY <2>1, <3>1
    <3> QED BY <2>1, <3>2
  <2>2. CASE ~(c < N - 1)
    <3>1. \A i \in 0 .. N - 1 : folded[i] = 0
      BY <1>1, <2>2
    <3> HIDE DEF folded
    <3>2. \A i \in 0 .. N - 1 : folded[i] \in Int /\ folded[i] = folded[i] - folded[i]
      BY <3>1
    <3>3. SumOver(folded, N - 1) = SumOver(folded, N - 1) - SumOver(folded, N - 1)
      BY <1>1, <3>2, SumOfDifferences
    <3>4. SumOver(folded, N - 1) \in Int
      BY <1>1, <3>2, SumIsInt
    <3> QED BY <2>2, <3>3, <3>4
  <2> QED BY <2>1, <2>2
<1> HIDE DEF low, high, folded
<1>12. (Convolve(a, b)[c] - (IF c < N - 1 THEN Convolve(a, b)[c + N] ELSE 0))
         = low - (IF c < N - 1 THEN high ELSE 0)
  BY <1>7
<1> QED BY <1>6, <1>8, <1>10, <1>11, <1>12

(* The two multiplications agree on all polynomials with integer           *)
(* coefficients: whether NumPy is installed cannot change a commitment     *)
(* (lwe.py:93-128).                                                        *)
THEOREM MultiplicationsAgree ==
  ASSUME NEW a, NEW b, IntPoly(a), IntPoly(b)
  PROVE  MulNumpy(a, b) = MulSchoolbook(a, b)
<1>1. \A c \in Exponents : MulNumpy(a, b)[c] = MulSchoolbook(a, b)[c]
  BY FoldedCoefficient
<1>2. /\ MulNumpy(a, b) = [c \in Exponents |-> MulNumpy(a, b)[c]]
      /\ MulSchoolbook(a, b) = [c \in Exponents |-> MulSchoolbook(a, b)[c]]
  BY DEF MulNumpy, MulSchoolbook
<1> QED BY <1>1, <1>2, Zenon

-----------------------------------------------------------------------------
(* Keys and commitments do not depend on the multiplication.               *)
IntVector(v) == \A j \in Rank : IntPoly(v[j])
IntMatrix(A) == \A i \in Rank : IntVector(A[i])

LEMMA PolyMulAgrees ==
  ASSUME NEW a, NEW b, IntPoly(a), IntPoly(b), NEW np \in BOOLEAN
  PROVE  PolyMul(np, a, b) = MulSchoolbook(a, b)
BY MultiplicationsAgree DEF PolyMul

LEMMA InnerProductAgrees ==
  ASSUME NEW t, NEW r, IntVector(t), IntVector(r), NEW np \in BOOLEAN
  PROVE  InnerProduct(np, t, r) = InnerProduct(TRUE, t, r)
<1> DEFINE product(x) == [j \in Rank |-> PolyMul(x, t[j], r[j])]
<1>1. \A j \in Rank : PolyMul(np, t[j], r[j]) = PolyMul(TRUE, t[j], r[j])
  BY PolyMulAgrees DEF IntVector
<1>2. product(np) = product(TRUE)
  BY <1>1
<1>3. ASSUME NEW x \in BOOLEAN
      PROVE  InnerProduct(x, t, r)
               = [c \in Exponents |->
                    SumOver([j \in 0 .. K - 1 |-> product(x)[j + 1][c]], K - 1) % Q]
  BY DEF InnerProduct
<1> HIDE DEF product
<1> QED BY <1>2, <1>3

LEMMA RemainderIsInt == \A x \in Int : x % Q \in 0 .. Q - 1 /\ x % Q \in Int
<1>1. Q \in Nat /\ Q > 0
  BY RingAssumption
<1> QED BY <1>1

LEMMA MulSchoolbookIsInt ==
  ASSUME NEW a, NEW b, IntPoly(a), IntPoly(b)
  PROVE  IntPoly(MulSchoolbook(a, b))
<1> SUFFICES ASSUME NEW c \in Exponents PROVE MulSchoolbook(a, b)[c] \in Int
  BY DEF IntPoly
<1> DEFINE term == [i \in Exponents |->
                     IF i <= c THEN a[i] * b[c - i] ELSE -(a[i] * b[c - i + N])]
<1>1. N - 1 \in Nat /\ N \in Nat /\ Exponents = 0 .. N - 1
  BY DegreeIsNatural
<1>2. ASSUME NEW i \in 0 .. N - 1 PROVE term[i] \in Int
  <2>1. i \in Exponents /\ a[i] \in Int
    BY <1>1 DEF IntPoly
  <2>2. CASE i <= c
    <3>1. c - i \in Exponents
      BY <1>1, <2>2
    <3>2. term[i] = a[i] * b[c - i] /\ b[c - i] \in Int
      BY <2>1, <2>2, <3>1 DEF IntPoly
    <3> QED BY <2>1, <3>2, ProductIsInt
  <2>3. CASE ~(i <= c)
    <3>1. c - i + N \in Exponents
      BY <1>1, <2>3
    <3>2. term[i] = -(a[i] * b[c - i + N]) /\ b[c - i + N] \in Int
      BY <2>1, <2>3, <3>1 DEF IntPoly
    <3>3. a[i] * b[c - i + N] \in Int
      BY <2>1, <3>2, ProductIsInt
    <3> QED BY <3>2, <3>3
  <2> QED BY <2>2, <2>3
<1>3. MulSchoolbook(a, b)[c] = SumOver(term, N - 1) % Q
  BY DEF MulSchoolbook
<1> HIDE DEF term
<1>4. SumOver(term, N - 1) \in Int
  BY <1>1, <1>2, SumIsInt
<1> QED BY <1>3, <1>4, RemainderIsInt

LEMMA InnerProductIsInt ==
  ASSUME NEW t, NEW r, IntVector(t), IntVector(r), NEW np \in BOOLEAN
  PROVE  IntPoly(InnerProduct(np, t, r))
<1> SUFFICES ASSUME NEW c \in Exponents PROVE InnerProduct(np, t, r)[c] \in Int
  BY DEF IntPoly
<1> DEFINE product == [j \in Rank |-> PolyMul(np, t[j], r[j])]
           column == [j \in 0 .. K - 1 |-> product[j + 1][c]]
<1>1. K - 1 \in Nat /\ K \in Nat
  BY RingAssumption
<1>2. InnerProduct(np, t, r)[c] = SumOver(column, K - 1) % Q
  BY DEF InnerProduct
<1>3. ASSUME NEW j \in 0 .. K - 1 PROVE column[j] \in Int
  <2>1. j + 1 \in Rank
    BY <1>1 DEF Rank
  <2>2. IntPoly(t[j + 1]) /\ IntPoly(r[j + 1])
    BY <2>1 DEF IntVector
  <2>3. PolyMul(np, t[j + 1], r[j + 1]) = MulSchoolbook(t[j + 1], r[j + 1])
    BY <2>2, PolyMulAgrees
  <2>4. IntPoly(MulSchoolbook(t[j + 1], r[j + 1]))
    BY <2>2, MulSchoolbookIsInt
  <2>5. column[j] = MulSchoolbook(t[j + 1], r[j + 1])[c]
    BY <2>1, <2>3
  <2> HIDE DEF column
  <2> QED BY <2>4, <2>5 DEF IntPoly
<1> HIDE DEF column
<1>4. SumOver(column, K - 1) \in Int
  BY <1>1, <1>3, SumIsInt
<1> QED BY <1>2, <1>4, RemainderIsInt

LEMMA PolyAddIsInt ==
  ASSUME NEW a, NEW b, IntPoly(a), IntPoly(b)
  PROVE  IntPoly(PolyAdd(a, b))
<1> SUFFICES ASSUME NEW c \in Exponents PROVE PolyAdd(a, b)[c] \in Int
  BY DEF IntPoly
<1>1. a[c] + b[c] \in Int
  BY DEF IntPoly
<1>2. PolyAdd(a, b)[c] = (a[c] + b[c]) % Q
  BY DEF PolyAdd
<1> QED BY <1>1, <1>2, RemainderIsInt

LEMMA ModuleMulAddAgrees ==
  ASSUME NEW A, NEW s, NEW e, IntMatrix(A), IntVector(s), IntVector(e), NEW np \in BOOLEAN
  PROVE  /\ ModuleMulAdd(np, A, s, e) = ModuleMulAdd(TRUE, A, s, e)
         /\ IntVector(ModuleMulAdd(np, A, s, e))
<1>1. \A i \in Rank : InnerProduct(np, A[i], s) = InnerProduct(TRUE, A[i], s)
  BY InnerProductAgrees DEF IntMatrix
<1>2. \A i \in Rank : PolyAdd(InnerProduct(np, A[i], s), e[i])
                        = PolyAdd(InnerProduct(TRUE, A[i], s), e[i])
  BY <1>1
<1>3. ModuleMulAdd(np, A, s, e) = ModuleMulAdd(TRUE, A, s, e)
  BY <1>2 DEF ModuleMulAdd
<1>4. ASSUME NEW i \in Rank PROVE IntPoly(ModuleMulAdd(np, A, s, e)[i])
  <2>1. IntPoly(InnerProduct(np, A[i], s)) /\ IntPoly(e[i])
    BY InnerProductIsInt DEF IntMatrix, IntVector
  <2>2. IntPoly(PolyAdd(InnerProduct(np, A[i], s), e[i]))
    BY <2>1, PolyAddIsInt
  <2>3. ModuleMulAdd(np, A, s, e)[i] = PolyAdd(InnerProduct(np, A[i], s), e[i])
    BY DEF ModuleMulAdd
  <2> QED BY <2>2, <2>3
<1> QED BY <1>3, <1>4 DEF IntVector

(* The samplers.                                                           *)
Seeds == LatticeSeeds \cup BlindingSeeds

LEMMA NibbleDifference ==
  ASSUME NEW n \in 0 .. 15
  PROVE  Ones(n % 4) - Ones(n \div 4) \in Int
<1>1. n % 4 \in Int /\ n \div 4 \in Int
  OBVIOUS
<1>2. \A x \in Int : Ones(x) \in Int
  BY DEF Ones
<1> QED BY <1>1, <1>2

LEMMA CbdIsInt ==
  ASSUME NEW seed \in Seeds, NEW nonce \in 0 .. 2 * K
  PROVE  IntPoly(Cbd(seed, nonce))
<1> SUFFICES ASSUME NEW c \in Exponents PROVE Cbd(seed, nonce)[c] \in Int
  BY DEF IntPoly
<1>1. Nibbles(seed, nonce, c) \in 0 .. 15
  BY HashAssumption DEF Seeds
<1>2. PICK n \in 0 .. 15 : n = Nibbles(seed, nonce, c)
  BY <1>1
<1>3. Cbd(seed, nonce)[c] = (Ones(n % 4) - Ones(n \div 4)) % Q
  BY <1>2 DEF Cbd
<1> QED BY <1>3, NibbleDifference, RemainderIsInt

LEMMA CbdVectorIsInt ==
  ASSUME NEW seed \in Seeds, NEW from \in {0, K}
  PROVE  IntVector(CbdVector(seed, from))
<1> SUFFICES ASSUME NEW i \in Rank PROVE IntPoly(CbdVector(seed, from)[i])
  BY DEF IntVector
<1>1. from + i - 1 \in 0 .. 2 * K
  BY RingAssumption DEF Rank
<1>2. CbdVector(seed, from)[i] = Cbd(seed, from + i - 1)
  BY DEF CbdVector
<1> QED BY <1>1, <1>2, CbdIsInt

Accepts(candidates, accepted, n) ==
  accepted = [k \in 0 .. n |->
                IF k = 0 THEN << >>
                ELSE IF candidates[k] < Q THEN Append(accepted[k - 1], candidates[k])
                ELSE accepted[k - 1]]

LEMMA AcceptedExists ==
  ASSUME NEW candidates, NEW n \in Nat
  PROVE  \E accepted : Accepts(candidates, accepted, n)
<1> DEFINE next(f, k) == IF k = 0 THEN << >>
                         ELSE IF candidates[k] < Q THEN Append(f[k - 1], candidates[k])
                         ELSE f[k - 1]
           S == {m \in Nat : \E f : f = [k \in 0 .. m |-> next(f, k)]}
<1>1. 0 \in S
  <2> DEFINE f == [k \in 0 .. 0 |-> << >>]
  <2>1. f = [k \in 0 .. 0 |-> next(f, k)]
    OBVIOUS
  <2> HIDE DEF f, next
  <2> QED BY <2>1
<1>2. ASSUME NEW m \in Nat, m \in S PROVE m + 1 \in S
  <2>1. PICK s : s = [k \in 0 .. m |-> next(s, k)]
    BY <1>2
  <2> DEFINE g == [k \in 0 .. m + 1 |-> IF k \in 0 .. m THEN s[k] ELSE next(s, k)]
             h == [k \in 0 .. m + 1 |-> next(g, k)]
  <2>2. \A k \in 0 .. m : g[k] = s[k]
    OBVIOUS
  <2>3. \A k \in 0 .. m : s[k] = next(s, k)
    <3> HIDE DEF next
    <3> QED BY <2>1
  <2>4. ASSUME NEW k \in 0 .. m + 1 PROVE g[k] = h[k]
    <3>1. next(g, k) = next(s, k)
      <4>1. k # 0 => g[k - 1] = s[k - 1]
        BY <2>2
      <4> HIDE DEF g
      <4> QED BY <4>1
    <3>2. h[k] = next(g, k)
      OBVIOUS
    <3>3. g[k] = IF k \in 0 .. m THEN s[k] ELSE next(s, k)
      OBVIOUS
    <3> HIDE DEF g, h, next
    <3> QED BY <2>3, <3>1, <3>2, <3>3
  <2>5. g = h
    <3>1. g = [k \in 0 .. m + 1 |-> g[k]] /\ h = [k \in 0 .. m + 1 |-> h[k]]
      OBVIOUS
    <3> HIDE DEF g, h
    <3> QED BY <2>4, <3>1, Zenon
  <2>6. \E f : f = [k \in 0 .. m + 1 |-> next(f, k)]
    <3>1. g = [k \in 0 .. m + 1 |-> next(g, k)]
      BY <2>5, Zenon
    <3> HIDE DEF g, next
    <3> QED BY <3>1, Zenon
  <2> HIDE DEF next
  <2> QED BY <2>6
<1> HIDE DEF S
<1>3. n \in S
  BY <1>1, <1>2, NatInduct
<1> QED BY <1>3, Zenon DEF S, Accepts

LEMMA AcceptedIsSequence ==
  ASSUME NEW candidates \in Seq(Nat)
  PROVE  Accepted(candidates) \in Seq(Nat)
<1> DEFINE n == Len(candidates)
           s == CHOOSE f : f = [k \in 0 .. n |->
                  IF k = 0 THEN << >>
                  ELSE IF candidates[k] < Q THEN Append(f[k - 1], candidates[k])
                  ELSE f[k - 1]]
<1>1. n \in Nat
  OBVIOUS
<1>2. s = [k \in 0 .. n |->
             IF k = 0 THEN << >>
             ELSE IF candidates[k] < Q THEN Append(s[k - 1], candidates[k])
             ELSE s[k - 1]]
  <2> HIDE DEF n
  <2>1. \E f : f = [k \in 0 .. n |->
                  IF k = 0 THEN << >>
                  ELSE IF candidates[k] < Q THEN Append(f[k - 1], candidates[k])
                  ELSE f[k - 1]]
    <3>1. PICK f : Accepts(candidates, f, n)
      BY <1>1, AcceptedExists
    <3> QED BY <3>1, Zenon DEF Accepts
  <2> QED BY <2>1, Zenon
<1>3. Accepted(candidates) = s[n]
  BY DEF Accepted
<1>4. \A k \in 1 .. n : candidates[k] \in Nat
  OBVIOUS
<1> HIDE DEF s, n
<1>5. \A k \in 0 .. n : s[k] = IF k = 0 THEN << >>
             ELSE IF candidates[k] < Q THEN Append(s[k - 1], candidates[k])
             ELSE s[k - 1]
  BY <1>2
<1> DEFINE S == {k \in Nat : k \in 0 .. n => s[k] \in Seq(Nat)}
<1>6. 0 \in S
  <2>1. 0 \in 0 .. n
    BY <1>1
  <2>2. s[0] = << >>
    BY <1>5, <2>1
  <2>3. << >> \in Seq(Nat)
    OBVIOUS
  <2> QED BY <2>2, <2>3
<1>7. ASSUME NEW k \in Nat, k \in S PROVE k + 1 \in S
  <2> SUFFICES ASSUME k + 1 \in 0 .. n PROVE s[k + 1] \in Seq(Nat)
    OBVIOUS
  <2>1. /\ k + 1 \in 1 .. n /\ (k + 1) - 1 = k /\ k + 1 # 0
        /\ s[k] \in Seq(Nat)
    BY <1>1, <1>7
  <2>2. candidates[k + 1] \in Nat
    BY <1>4, <2>1
  <2>3. s[k + 1] \in {Append(s[k], candidates[k + 1]), s[k]}
    BY <1>5, <2>1
  <2>4. Append(s[k], candidates[k + 1]) \in Seq(Nat)
    BY <2>1, <2>2
  <2> QED BY <2>1, <2>3, <2>4
<1> HIDE DEF S
<1>8. n \in S
  BY <1>1, <1>6, <1>7, NatInduct
<1>9. s[n] \in Seq(Nat)
  BY <1>1, <1>8 DEF S
<1> QED BY <1>3, <1>9

LEMMA GenMatrixAIsInt ==
  ASSUME NEW seed \in LatticeSeeds
  PROVE  IntMatrix(GenMatrixA(seed)) /\ IntMatrix(Transposed(GenMatrixA(seed)))
<1>1. ASSUME NEW i \in Rank, NEW j \in Rank PROVE IntPoly(GenMatrixA(seed)[i][j])
  <2> SUFFICES ASSUME NEW c \in Exponents PROVE GenMatrixA(seed)[i][j][c] \in Int
    BY DEF IntPoly
  <2>1. PICK accepted \in Seq(Nat) : accepted = Accepted(Candidates(seed, i, j))
    BY HashAssumption, AcceptedIsSequence
  <2>2. GenMatrixA(seed)[i][j][c] = IF c < Len(accepted) THEN accepted[c + 1] ELSE 0
    BY <2>1 DEF GenMatrixA
  <2>3. c \in Nat
    BY DegreeIsNatural
  <2>4. CASE c < Len(accepted)
    <3>1. c + 1 \in 1 .. Len(accepted)
      BY <2>3, <2>4
    <3>2. accepted[c + 1] \in Nat
      BY <3>1
    <3> QED BY <2>2, <2>4, <3>2
  <2>5. CASE ~(c < Len(accepted))
    BY <2>2, <2>5
  <2> QED BY <2>4, <2>5
<1>2. \A i \in Rank, j \in Rank :
         Transposed(GenMatrixA(seed))[i][j] = GenMatrixA(seed)[j][i]
  BY DEF Transposed
<1> QED BY <1>1, <1>2 DEF IntMatrix, IntVector

LEMMA PublicKeyAgrees ==
  ASSUME NEW np \in BOOLEAN, NEW seed \in LatticeSeeds
  PROVE  /\ PublicKey(np, seed) = PublicKey(TRUE, seed)
         /\ PublicKey(np, seed) \in Keys
         /\ PublicKey(np, seed).seed = seed
         /\ IntVector(PublicKey(np, seed).t)
<1>1. /\ IntMatrix(GenMatrixA(seed)) /\ IntVector(CbdVector(seed, 0))
      /\ IntVector(CbdVector(seed, K))
  BY GenMatrixAIsInt, CbdVectorIsInt DEF Seeds
<1>2. /\ ModuleMulAdd(np, GenMatrixA(seed), CbdVector(seed, 0), CbdVector(seed, K))
           = ModuleMulAdd(TRUE, GenMatrixA(seed), CbdVector(seed, 0), CbdVector(seed, K))
      /\ IntVector(ModuleMulAdd(np, GenMatrixA(seed), CbdVector(seed, 0), CbdVector(seed, K)))
  BY <1>1, ModuleMulAddAgrees
<1>3. PublicKey(np, seed) \in Keys
  BY DEF Keys
<1> QED BY <1>2, <1>3 DEF PublicKey

LEMMA KeysAreInt ==
  ASSUME NEW key \in Keys
  PROVE  key.seed \in LatticeSeeds /\ IntVector(key.t)
<1>1. PICK np \in BOOLEAN, seed \in LatticeSeeds : key = PublicKey(np, seed)
  BY DEF Keys
<1> QED BY <1>1, PublicKeyAgrees

(* A commitment is the same with either multiplication.                    *)
LEMMA RecommitAgrees ==
  ASSUME NEW key \in Keys, NEW seed \in BlindingSeeds, NEW amount, NEW np \in BOOLEAN
  PROVE  Recommit(np, key, amount, seed) = Recommit(TRUE, key, amount, seed)
<1> DEFINE A == Transposed(GenMatrixA(key.seed))
           r == CbdVector(seed, 0)
           e == CbdVector(seed, K)
<1>1. key.seed \in LatticeSeeds /\ IntVector(key.t)
  BY KeysAreInt
<1>2. IntMatrix(A)
  BY <1>1, GenMatrixAIsInt
<1>3. IntVector(r) /\ IntVector(e)
  BY CbdVectorIsInt DEF Seeds
<1>4. Recommit(np, key, amount, seed)
        = [u |-> ModuleMulAdd(np, A, r, e),
           v |-> PolyAdd(PolyAdd(InnerProduct(np, key.t, r), Cbd(seed, 2 * K)),
                         Encode(amount))]
  BY DEF Recommit, CommitCore
<1>5. Recommit(TRUE, key, amount, seed)
        = [u |-> ModuleMulAdd(TRUE, A, r, e),
           v |-> PolyAdd(PolyAdd(InnerProduct(TRUE, key.t, r), Cbd(seed, 2 * K)),
                         Encode(amount))]
  BY DEF Recommit, CommitCore
<1> HIDE DEF A, r, e
<1>6. ModuleMulAdd(np, A, r, e) = ModuleMulAdd(TRUE, A, r, e)
  BY <1>2, <1>3, ModuleMulAddAgrees
<1>7. InnerProduct(np, key.t, r) = InnerProduct(TRUE, key.t, r)
  BY <1>1, <1>3, InnerProductAgrees
<1> QED BY <1>4, <1>5, <1>6, <1>7

LEMMA OpensIs ==
  ASSUME NEW np, NEW key, NEW commitment, NEW amount, NEW seed
  PROVE  Opens(np, key, commitment, amount, seed)
           <=> /\ amount \in Domain /\ seed \in BlindingSeeds
               /\ np \in BOOLEAN /\ key \in Keys
               /\ commitment = Recommit(np, key, amount, seed)
BY DEF Opens, Openings

LEMMA OpensAgrees ==
  ASSUME NEW np \in BOOLEAN, NEW mp \in BOOLEAN, NEW key, NEW commitment,
         NEW amount, NEW seed
  PROVE  Opens(np, key, commitment, amount, seed) <=> Opens(mp, key, commitment, amount, seed)
<1>1. key \in Keys /\ seed \in BlindingSeeds =>
        Recommit(np, key, amount, seed) = Recommit(mp, key, amount, seed)
  BY RecommitAgrees
<1> QED BY <1>1, OpensIs

-----------------------------------------------------------------------------
(* The encoding of an amount.  Halving and doubling are iterated: there is *)
(* a function that does it, and it is the one the definition chooses.      *)
Iterated(base, step, n, f) ==
  /\ f \in [0 .. n -> Nat]
  /\ f[0] = base /\ \A c \in 1 .. n : f[c] = step[f[c - 1]]

LEMMA Iterates ==
  ASSUME NEW base \in Nat, NEW step \in [Nat -> Nat], NEW n \in Nat
  PROVE  \E f : Iterated(base, step, n, f)
<1> DEFINE S == {m \in Nat : \E f : Iterated(base, step, m, f)}
<1>1. 0 \in S
  <2> DEFINE f == [c \in 0 .. 0 |-> base]
  <2>1. Iterated(base, step, 0, f)
    BY DEF Iterated
  <2> QED BY <2>1
<1>2. ASSUME NEW m \in Nat, m \in S PROVE m + 1 \in S
  <2>1. PICK f : Iterated(base, step, m, f)
    BY <1>2
  <2> DEFINE g == [c \in 0 .. m + 1 |-> IF c \in 0 .. m THEN f[c] ELSE step[f[m]]]
  <2>2. g \in [0 .. m + 1 -> Nat]
    <3>1. f \in [0 .. m -> Nat]
      BY <2>1 DEF Iterated
    <3>2. f[m] \in Nat /\ step[f[m]] \in Nat
      BY <3>1
    <3> QED BY <3>1, <3>2
  <2>3. (\A c \in 0 .. m : g[c] = f[c]) /\ g[m + 1] = step[f[m]]
    <3>1. m + 1 \notin 0 .. m /\ m + 1 \in 0 .. m + 1 /\ \A c \in 0 .. m : c \in 0 .. m + 1
      OBVIOUS
    <3> QED BY <3>1
  <2> HIDE DEF g
  <2>4. g[0] = base
    <3>1. 0 \in 0 .. m
      OBVIOUS
    <3> QED BY <2>1, <2>3, <3>1 DEF Iterated
  <2>5. ASSUME NEW c \in 1 .. m + 1 PROVE g[c] = step[g[c - 1]]
    <3>1. CASE c \in 1 .. m
      <4>1. c \in 0 .. m /\ c - 1 \in 0 .. m
        BY <3>1
      <4> QED BY <2>1, <2>3, <3>1, <4>1 DEF Iterated
    <3>2. CASE c = m + 1
      <4>1. c - 1 = m /\ m \in 0 .. m
        BY <3>2
      <4> QED BY <2>3, <3>2, <4>1
    <3> QED BY <3>1, <3>2
  <2>6. Iterated(base, step, m + 1, g)
    BY <2>2, <2>4, <2>5 DEF Iterated
  <2> QED BY <2>6
<1> HIDE DEF S
<1>3. n \in S
  BY <1>1, <1>2, NatInduct
<1> QED BY <1>3 DEF S

LEMMA WidthIsNatural ==
  /\ AmountBits \in Nat /\ N \in Nat /\ Exponents = 0 .. N - 1
  /\ AmountBits \in 1 .. N /\ Q \div 2 \in 1 .. Q - 1 /\ Q \in Nat
BY RingAssumption DEF Exponents

LEMMA PowersDouble ==
  /\ PowersOfTwo[0] = 1
  /\ \A c \in 1 .. AmountBits : PowersOfTwo[c] = 2 * PowersOfTwo[c - 1]
  /\ \A c \in 0 .. AmountBits : PowersOfTwo[c] \in Nat
<1> DEFINE step == [x \in Nat |-> 2 * x]
<1>1. AmountBits \in Nat
  BY WidthIsNatural
<1>2. PICK f : Iterated(1, step, AmountBits, f)
  <2>1. step \in [Nat -> Nat] /\ 1 \in Nat
    OBVIOUS
  <2> HIDE DEF step
  <2> QED BY <1>1, <2>1, Iterates
<1>3. f = [c \in 0 .. AmountBits |-> IF c = 0 THEN 1 ELSE 2 * f[c - 1]]
  <2>1. ASSUME NEW c \in 0 .. AmountBits
        PROVE  f[c] = IF c = 0 THEN 1 ELSE 2 * f[c - 1]
    <3>1. CASE c = 0
      BY <1>2, <3>1 DEF Iterated
    <3>2. CASE c # 0
      <4>1. c \in 1 .. AmountBits /\ c - 1 \in 0 .. AmountBits
        BY <1>1, <3>2
      <4> QED BY <1>2, <3>2, <4>1 DEF Iterated
    <3> QED BY <3>1, <3>2
  <2>2. f = [c \in 0 .. AmountBits |-> f[c]]
    BY <1>2 DEF Iterated
  <2> HIDE DEF step
  <2> QED BY <2>1, <2>2
<1>4. PowersOfTwo
        = [c \in 0 .. AmountBits |-> IF c = 0 THEN 1 ELSE 2 * PowersOfTwo[c - 1]]
  <2>1. \E p : p = [c \in 0 .. AmountBits |-> IF c = 0 THEN 1 ELSE 2 * p[c - 1]]
    BY <1>3, Zenon
  <2> QED BY <2>1, Zenon DEF PowersOfTwo
<1> DEFINE p == PowersOfTwo
           S == {c \in Nat : c \in 0 .. AmountBits => p[c] \in Nat}
<1> HIDE DEF p
<1>5. p = [c \in 0 .. AmountBits |-> IF c = 0 THEN 1 ELSE 2 * p[c - 1]]
  BY <1>4 DEF p
<1>6. p[0] = 1 /\ \A c \in 1 .. AmountBits : p[c] = 2 * p[c - 1]
  BY <1>1, <1>5
<1>7. 0 \in S
  BY <1>6
<1>8. ASSUME NEW c \in Nat, c \in S PROVE c + 1 \in S
  <2> SUFFICES ASSUME c + 1 \in 0 .. AmountBits PROVE p[c + 1] \in Nat
    OBVIOUS
  <2>1. c + 1 \in 1 .. AmountBits /\ (c + 1) - 1 = c /\ p[c] \in Nat
    BY <1>1, <1>8
  <2>2. p[c + 1] = 2 * p[c]
    BY <1>6, <2>1
  <2> QED BY <2>1, <2>2
<1> HIDE DEF S
<1>9. Nat \subseteq S
  BY <1>7, <1>8, NatInduct
<1>10. ASSUME NEW c \in 0 .. AmountBits PROVE p[c] \in Nat
  <2>1. c \in S
    BY <1>1, <1>9
  <2> QED BY <2>1 DEF S
<1> QED BY <1>6, <1>10 DEF p

LEMMA ShiftedHalves ==
  ASSUME NEW amount \in Nat
  PROVE  /\ Shifted(amount)[0] = amount
         /\ \A c \in 1 .. AmountBits : Shifted(amount)[c] = Shifted(amount)[c - 1] \div 2
<1> DEFINE step == [x \in Nat |-> x \div 2]
           s == CHOOSE f : f = [c \in 0 .. AmountBits |->
                  IF c = 0 THEN amount ELSE f[c - 1] \div 2]
<1>1. AmountBits \in Nat
  BY WidthIsNatural
<1>2. PICK f : Iterated(amount, step, AmountBits, f)
  <2>1. step \in [Nat -> Nat]
    OBVIOUS
  <2> HIDE DEF step
  <2> QED BY <1>1, <2>1, Iterates
<1>3. f = [c \in 0 .. AmountBits |-> IF c = 0 THEN amount ELSE f[c - 1] \div 2]
  <2>1. ASSUME NEW c \in 0 .. AmountBits
        PROVE  f[c] = IF c = 0 THEN amount ELSE f[c - 1] \div 2
    <3>1. CASE c = 0
      BY <1>2, <3>1 DEF Iterated
    <3>2. CASE c # 0
      <4>1. c \in 1 .. AmountBits /\ c - 1 \in 0 .. AmountBits
        BY <1>1, <3>2
      <4> QED BY <1>2, <3>2, <4>1 DEF Iterated
    <3> QED BY <3>1, <3>2
  <2>2. f = [c \in 0 .. AmountBits |-> f[c]]
    BY <1>2 DEF Iterated
  <2> HIDE DEF step
  <2> QED BY <2>1, <2>2
<1>4. s = [c \in 0 .. AmountBits |-> IF c = 0 THEN amount ELSE s[c - 1] \div 2]
  <2>1. \E h : h = [c \in 0 .. AmountBits |-> IF c = 0 THEN amount ELSE h[c - 1] \div 2]
    BY <1>3, Zenon
  <2> QED BY <2>1, Zenon
<1>5. Shifted(amount) = s
  BY DEF Shifted
<1> HIDE DEF s
<1>6. s[0] = amount /\ \A c \in 1 .. AmountBits : s[c] = s[c - 1] \div 2
  BY <1>1, <1>4
<1> QED BY <1>5, <1>6

(* After c shifts an amount of the domain has at most the remaining bits.  *)
LEMMA ShiftedBounded ==
  ASSUME NEW amount \in Domain, NEW c \in 0 .. AmountBits
  PROVE  /\ Shifted(amount)[c] \in Nat
         /\ Shifted(amount)[c] < PowersOfTwo[AmountBits - c]
<1> DEFINE s == Shifted(amount)
           p == PowersOfTwo
           S == {m \in Nat : m \in 0 .. AmountBits =>
                   s[m] \in Nat /\ s[m] < p[AmountBits - m]}
<1>1. AmountBits \in Nat
  BY WidthIsNatural
<1>2. /\ \A m \in 1 .. AmountBits : p[m] = 2 * p[m - 1]
      /\ \A m \in 0 .. AmountBits : p[m] \in Nat
  BY PowersDouble
<1>3. amount \in Nat /\ amount < p[AmountBits]
  BY <1>1, <1>2 DEF Domain
<1>4. s[0] = amount /\ \A m \in 1 .. AmountBits : s[m] = s[m - 1] \div 2
  BY <1>3, ShiftedHalves
<1> HIDE DEF s, p
<1>5. 0 \in S
  <2>1. AmountBits - 0 = AmountBits
    BY <1>1
  <2> QED BY <1>3, <1>4, <2>1
<1>6. ASSUME NEW m \in Nat, m \in S PROVE m + 1 \in S
  <2> SUFFICES ASSUME m + 1 \in 0 .. AmountBits
               PROVE  s[m + 1] \in Nat /\ s[m + 1] < p[AmountBits - (m + 1)]
    OBVIOUS
  <2>1. /\ m + 1 \in 1 .. AmountBits /\ (m + 1) - 1 = m
        /\ s[m] \in Nat /\ s[m] < p[AmountBits - m]
    BY <1>1, <1>6
  <2>2. s[m + 1] = s[m] \div 2
    BY <1>4, <2>1
  <2>3. /\ AmountBits - m \in 1 .. AmountBits
        /\ (AmountBits - m) - 1 = AmountBits - (m + 1)
        /\ AmountBits - (m + 1) \in 0 .. AmountBits
    BY <1>1, <2>1
  <2>4. p[AmountBits - m] = 2 * p[AmountBits - (m + 1)]
    BY <1>2, <2>3
  <2>5. p[AmountBits - (m + 1)] \in Nat
    BY <1>2, <2>3
  <2> QED BY <2>1, <2>2, <2>4, <2>5
<1> HIDE DEF S
<1>7. c \in S
  BY <1>1, <1>5, <1>6, NatInduct
<1> QED BY <1>7 DEF S, s, p

(* Amounts that agree in every bit are the same amount.                    *)
LEMMA BitsDetermine ==
  ASSUME NEW a \in Domain, NEW b \in Domain,
         \A c \in 0 .. AmountBits - 1 : Shifted(a)[c] % 2 = Shifted(b)[c] % 2
  PROVE  a = b
<1> DEFINE sa == Shifted(a)
           sb == Shifted(b)
           S == {d \in Nat : d \in 0 .. AmountBits => sa[AmountBits - d] = sb[AmountBits - d]}
<1>1. AmountBits \in Nat
  BY WidthIsNatural
<1>2. a \in Nat /\ b \in Nat
  BY DEF Domain
<1>3. /\ sa[0] = a /\ \A c \in 1 .. AmountBits : sa[c] = sa[c - 1] \div 2
      /\ sb[0] = b /\ \A c \in 1 .. AmountBits : sb[c] = sb[c - 1] \div 2
  BY <1>2, ShiftedHalves
<1>4. \A c \in 0 .. AmountBits : sa[c] \in Nat /\ sb[c] \in Nat
  BY ShiftedBounded
<1>5. sa[AmountBits] = 0 /\ sb[AmountBits] = 0
  <2>1. AmountBits \in 0 .. AmountBits /\ AmountBits - AmountBits = 0
    BY <1>1
  <2>2. /\ sa[AmountBits] \in Nat /\ sa[AmountBits] < PowersOfTwo[0]
        /\ sb[AmountBits] \in Nat /\ sb[AmountBits] < PowersOfTwo[0]
    BY <2>1, ShiftedBounded
  <2> HIDE DEF sa, sb
  <2> QED BY <2>2, PowersDouble
<1>6. \A c \in 0 .. AmountBits - 1 : sa[c] % 2 = sb[c] % 2
  OBVIOUS
<1> HIDE DEF sa, sb
<1>7. 0 \in S
  <2>1. AmountBits - 0 = AmountBits
    BY <1>1
  <2> QED BY <1>5, <2>1
<1>8. ASSUME NEW d \in Nat, d \in S PROVE d + 1 \in S
  <2> SUFFICES ASSUME d + 1 \in 0 .. AmountBits
               PROVE  sa[AmountBits - (d + 1)] = sb[AmountBits - (d + 1)]
    OBVIOUS
  <2> DEFINE c == AmountBits - (d + 1)
  <2>1. /\ c \in 0 .. AmountBits - 1 /\ c + 1 \in 1 .. AmountBits /\ (c + 1) - 1 = c
        /\ c + 1 = AmountBits - d /\ c \in 0 .. AmountBits /\ d \in 0 .. AmountBits
    BY <1>1
  <2> HIDE DEF c
  <2>2. sa[c + 1] = sb[c + 1]
    BY <1>8, <2>1
  <2>3. sa[c + 1] = sa[c] \div 2 /\ sb[c + 1] = sb[c] \div 2
    BY <1>3, <2>1
  <2>4. sa[c] % 2 = sb[c] % 2 /\ sa[c] \in Nat /\ sb[c] \in Nat
    BY <1>4, <1>6, <2>1
  <2>5. \A x, y \in Nat : x \div 2 = y \div 2 /\ x % 2 = y % 2 => x = y
    OBVIOUS
  <2>6. sa[c] = sb[c]
    BY <2>2, <2>3, <2>4, <2>5
  <2> QED BY <2>6 DEF c
<1> HIDE DEF S
<1>9. AmountBits \in S
  BY <1>1, <1>7, <1>8, NatInduct
<1>10. sa[AmountBits - AmountBits] = sb[AmountBits - AmountBits]
  BY <1>1, <1>9 DEF S
<1>11. AmountBits - AmountBits = 0
  BY <1>1
<1> QED BY <1>3, <1>10, <1>11

(* "Distinct amounts differ in at least one coefficient by floor(q/2)"     *)
(* (lwe.py:263-266): what makes the encoding one-to-one on the whole of    *)
(* its domain, whatever the modulus.                                       *)
THEOREM EncodingsDiffer ==
  ASSUME NEW a \in Domain, NEW b \in Domain, a # b
  PROVE  \E c \in Exponents : \/ (Encode(a)[c] = 0 /\ Encode(b)[c] = Q \div 2)
                              \/ (Encode(a)[c] = Q \div 2 /\ Encode(b)[c] = 0)
<1>1. PICK c \in 0 .. AmountBits - 1 : Shifted(a)[c] % 2 # Shifted(b)[c] % 2
  BY BitsDetermine
<1>2. c \in Exponents /\ c < AmountBits /\ c \in 0 .. AmountBits
  BY WidthIsNatural
<1>3. /\ Encode(a)[c] = IF Shifted(a)[c] % 2 = 1 THEN Q \div 2 ELSE 0
      /\ Encode(b)[c] = IF Shifted(b)[c] % 2 = 1 THEN Q \div 2 ELSE 0
  BY <1>2 DEF Encode
<1>4. Shifted(a)[c] \in Nat /\ Shifted(b)[c] \in Nat
  BY <1>2, ShiftedBounded
<1>5. \A x, y \in Nat : x % 2 # y % 2 => (x % 2 = 1 /\ y % 2 # 1) \/ (x % 2 # 1 /\ y % 2 = 1)
  OBVIOUS
<1>6. \/ (Shifted(a)[c] % 2 = 1 /\ Shifted(b)[c] % 2 # 1)
      \/ (Shifted(a)[c] % 2 # 1 /\ Shifted(b)[c] % 2 = 1)
  BY <1>1, <1>4, <1>5
<1> QED BY <1>2, <1>3, <1>6

LEMMA ShiftedResidue ==
  ASSUME NEW x \in 0 .. Q - 1, NEW h \in 1 .. Q - 1
  PROVE  (x + h) % Q # (x + 0) % Q
<1>1. Q \in Nat /\ Q > 1
  BY RingAssumption
<1>2. (x + 0) % Q = x
  BY <1>1
<1>3. CASE x + h < Q
  <2>1. (x + h) % Q = x + h
    BY <1>1, <1>3
  <2> QED BY <1>2, <2>1
<1>4. CASE x + h >= Q
  <2>1. (x + h) % Q = (x + h) - Q
    BY <1>1, <1>4
  <2> QED BY <1>1, <1>2, <2>1
<1> QED BY <1>1, <1>3, <1>4

(* With one key and one blinding no two amounts have the same commitment:  *)
(* the amount is added to the same polynomial (_commit_core).              *)
THEOREM BlindingBinds ==
  ASSUME NEW key \in Keys, NEW seed \in BlindingSeeds, NEW a \in Domain, NEW b \in Domain,
         Recommit(TRUE, key, a, seed) = Recommit(TRUE, key, b, seed)
  PROVE  a = b
<1> DEFINE r == CbdVector(seed, 0)
           x == InnerProduct(TRUE, key.t, r)
           y == Cbd(seed, 2 * K)
           w == PolyAdd(x, y)
<1>1. /\ Recommit(TRUE, key, a, seed).v = PolyAdd(w, Encode(a))
      /\ Recommit(TRUE, key, b, seed).v = PolyAdd(w, Encode(b))
  BY DEF Recommit, CommitCore
<1>2. IntPoly(x) /\ IntPoly(y)
  <2>1. IntVector(key.t) /\ IntVector(r)
    BY KeysAreInt, CbdVectorIsInt DEF Seeds
  <2>2. 2 * K \in 0 .. 2 * K
    BY RingAssumption
  <2>3. IntPoly(y)
    BY <2>2, CbdIsInt DEF Seeds
  <2> HIDE DEF r, y
  <2> QED BY <2>1, <2>3, InnerProductIsInt
<1> HIDE DEF x, y
<1>3. ASSUME NEW c \in Exponents PROVE w[c] \in 0 .. Q - 1
  <2>1. x[c] \in Int /\ y[c] \in Int
    BY <1>2 DEF IntPoly
  <2>2. w[c] = (x[c] + y[c]) % Q
    BY DEF PolyAdd
  <2>3. x[c] + y[c] \in Int
    BY <2>1
  <2> HIDE DEF w
  <2> QED BY <2>2, <2>3, RemainderIsInt
<1> HIDE DEF w
<1>4. PolyAdd(w, Encode(a)) = PolyAdd(w, Encode(b))
  BY <1>1
<1>5. ASSUME NEW c \in Exponents
      PROVE  (w[c] + Encode(a)[c]) % Q = (w[c] + Encode(b)[c]) % Q
  <2>1. /\ PolyAdd(w, Encode(a))[c] = (w[c] + Encode(a)[c]) % Q
        /\ PolyAdd(w, Encode(b))[c] = (w[c] + Encode(b)[c]) % Q
    BY DEF PolyAdd
  <2> QED BY <1>4, <2>1
<1> SUFFICES ASSUME a # b PROVE FALSE
  OBVIOUS
<1>6. PICK c \in Exponents : \/ (Encode(a)[c] = 0 /\ Encode(b)[c] = Q \div 2)
                              \/ (Encode(a)[c] = Q \div 2 /\ Encode(b)[c] = 0)
  BY EncodingsDiffer
<1>7. (w[c] + (Q \div 2)) % Q # (w[c] + 0) % Q
  BY <1>3, WidthIsNatural, ShiftedResidue
<1> QED BY <1>5, <1>6, <1>7

-----------------------------------------------------------------------------
(* Secrets, keys and commitments of the processes.                         *)
LEMMA LivesAreNaturals == 0 \in Lives /\ \A n \in Lives : n \in Nat
BY BoundsAssumption DEF Lives

LEMMA SecretIsLife ==
  ASSUME NEW name, NEW n \in Lives
  PROVE  Secret(name, n) \in Lives
BY LivesAreNaturals DEF Secret

LEMMA SeedsOfLife ==
  ASSUME NEW n \in Lives, NEW txn \in Txns
  PROVE  BlindingSeed(n, txn) \in BlindingSeeds
BY SecretIsLife DEF BlindingSeed, BlindingSeeds

LEMMA KeyOfLife ==
  ASSUME NEW n \in Lives
  PROVE  /\ PublicKeys(n) \in [lattice : Keys, signing : Lives]
         /\ PublicKeys(n).lattice = PublicKey("prover" \in hasNumpy, LatticeSeed(n))
         /\ PublicKeys(n).lattice \in Keys
         /\ PublicKeys(n).signing = Secret("SGX_SIGNING_KEY_B64", n)
<1>1. LatticeSeed(n) \in LatticeSeeds
  BY SecretIsLife DEF LatticeSeed, LatticeSeeds
<1>2. ("prover" \in hasNumpy) \in BOOLEAN
  OBVIOUS
<1>3. PublicKey("prover" \in hasNumpy, LatticeSeed(n)) \in Keys
  BY <1>1, <1>2, PublicKeyAgrees
<1>4. Secret("SGX_SIGNING_KEY_B64", n) \in Lives
  BY SecretIsLife
<1> QED BY <1>3, <1>4 DEF PublicKeys

Published == [txn : Txns, commitment : {o[5] : o \in Openings}, signer : Lives, life : Lives]

LEMMA CommitmentOfLife ==
  ASSUME NEW n \in Lives, NEW txn \in Txns, amounts[txn] \in Domain
  PROVE  /\ Commitment(n, txn) \in Published
         /\ Commitment(n, txn).txn = txn /\ Commitment(n, txn).life = n
         /\ Commitment(n, txn).signer = PublicKeys(n).signing
         /\ Opens("prover" \in hasNumpy, PublicKeys(n).lattice,
                  Commitment(n, txn).commitment, amounts[txn], BlindingSeed(n, txn))
<1> DEFINE np == "prover" \in hasNumpy
           key == PublicKeys(n).lattice
           amount == amounts[txn]
           seed == BlindingSeed(n, txn)
           opened == Recommit(np, key, amount, seed)
           o == <<amount, seed, np, key, opened>>
<1>1. /\ key \in Keys /\ seed \in BlindingSeeds /\ np \in BOOLEAN /\ amount \in Domain
      /\ PublicKeys(n).signing = Secret("SGX_SIGNING_KEY_B64", n)
      /\ Secret("SGX_SIGNING_KEY_B64", n) \in Lives
  BY KeyOfLife, SeedsOfLife, SecretIsLife
<1>2. /\ Commitment(n, txn) = [txn |-> txn, commitment |-> opened,
                               signer |-> Secret("SGX_SIGNING_KEY_B64", n), life |-> n]
  BY DEF Commitment
<1> HIDE DEF np, key, amount, seed
<1>3. o \in Openings
  BY <1>1 DEF Openings
<1>4. o[5] = opened
  OBVIOUS
<1> HIDE DEF o
<1>5. opened \in {x[5] : x \in Openings}
  BY <1>3, <1>4
<1>6. Opens(np, key, opened, amount, seed)
  BY <1>1, OpensIs
<1> HIDE DEF opened
<1>7. Commitment(n, txn) \in Published
  BY <1>1, <1>2, <1>5 DEF Published
<1> QED BY <1>1, <1>2, <1>6, <1>7 DEF np, key, amount, seed

LEMMA SettingFixes ==
  ASSUME setting' = setting
  PROVE  /\ amounts' = amounts /\ fromEnv' = fromEnv /\ hasNumpy' = hasNumpy
         /\ durable' = durable
         /\ \A n : PublicKeys(n)' = PublicKeys(n)
         /\ \A n, txn : Commitment(n, txn)' = Commitment(n, txn)
<1>1. /\ amounts' = amounts /\ fromEnv' = fromEnv /\ hasNumpy' = hasNumpy
      /\ durable' = durable
  BY DEF setting
<1>2. \A name, n : Secret(name, n)' = Secret(name, n)
  BY <1>1 DEF Secret
<1>3. \A n : LatticeSeed(n)' = LatticeSeed(n)
  BY <1>2 DEF LatticeSeed
<1>4. \A n, txn : BlindingSeed(n, txn)' = BlindingSeed(n, txn)
  BY <1>2 DEF BlindingSeed
<1>5. \A n : PublicKeys(n)' = PublicKeys(n)
  BY <1>1, <1>2, <1>3 DEF PublicKeys
<1>6. \A n, txn : Commitment(n, txn)' = Commitment(n, txn)
  BY <1>1, <1>2, <1>4, <1>5 DEF Commitment
<1> QED BY <1>1, <1>5, <1>6

-----------------------------------------------------------------------------
(* The inductive invariant: every record is a commitment of a process that *)
(* has lived, the keys are those of one, and a signature that passed did   *)
(* so with the keys that are still there.                                  *)
Committed(recs, last) ==
  \A i \in 1 .. Len(recs) :
    /\ recs[i].life \in 0 .. last /\ recs[i].txn \in Txns
    /\ amounts[recs[i].txn] \in Domain
    /\ recs[i] = Commitment(recs[i].life, recs[i].txn)

KeysOf(ks, last) == ks = {} \/ \E n \in 0 .. last : ks = {PublicKeys(n)}

PassedWith(ks) ==
  \A i \in 1 .. received :
    reports[i] = "PASS" => \E k \in ks : k.signing = published[i].signer

DisclosureInv ==
  /\ TypeOK /\ life <= restarts
  /\ Committed(published, life)
  /\ KeysOf(keys, life)
  /\ PassedWith(keys)

LEMMA DisclosureInit == Init => DisclosureInv
<1> SUFFICES ASSUME Init PROVE DisclosureInv
  OBVIOUS
<1>1. /\ amounts \in [Txns -> Amounts] /\ fromEnv \in SUBSET Secrets
      /\ durable \in BOOLEAN /\ hasNumpy \in SUBSET {"prover", "verifier"}
      /\ life = 0 /\ published = << >> /\ received = 0 /\ reports = << >>
      /\ keys = {} /\ restarts = 0
  BY DEF Init
<1>2. /\ published \in Seq(Published) /\ Len(published) = 0
  BY <1>1
<1>3. reports \in [1 .. received -> {"PASS", "FAIL", "SKIP"}]
  BY <1>1
<1>4. restarts \in 0 .. MaxRestarts /\ received \in 0 .. Len(published)
  BY <1>1, <1>2, BoundsAssumption
<1>5. TypeOK
  BY <1>1, <1>2, <1>3, <1>4, LivesAreNaturals DEF TypeOK, Published
<1>6. Committed(published, life) /\ KeysOf(keys, life) /\ PassedWith(keys)
  BY <1>1, <1>2 DEF Committed, KeysOf, PassedWith
<1> QED BY <1>1, <1>5, <1>6 DEF DisclosureInv

LEMMA CommitKeeps ==
  ASSUME DisclosureInv, NEW txn \in Txns, Commit(txn)
  PROVE  DisclosureInv'
<1>1. /\ amounts[txn] \in Domain /\ published' = Append(published, Commitment(life, txn))
      /\ setting' = setting /\ life' = life /\ received' = received
      /\ reports' = reports /\ keys' = keys /\ restarts' = restarts
  BY DEF Commit
<1>2. /\ TypeOK /\ life \in Lives /\ life \in Nat /\ published \in Seq(Published)
      /\ received \in 0 .. Len(published)
      /\ Committed(published, life) /\ KeysOf(keys, life) /\ PassedWith(keys)
      /\ life <= restarts
  BY LivesAreNaturals DEF DisclosureInv, TypeOK, Published
<1>3. /\ amounts' = amounts /\ fromEnv' = fromEnv /\ hasNumpy' = hasNumpy
      /\ durable' = durable
      /\ \A n : PublicKeys(n)' = PublicKeys(n)
      /\ \A n, x : Commitment(n, x)' = Commitment(n, x)
  BY <1>1, SettingFixes
<1>4. PICK rec \in Published : /\ rec = Commitment(life, txn)
                               /\ rec.txn = txn /\ rec.life = life
  BY <1>1, <1>2, CommitmentOfLife
<1>5. /\ published' \in Seq(Published) /\ Len(published') = Len(published) + 1
      /\ published'[Len(published) + 1] = rec
      /\ \A i \in 1 .. Len(published) : published'[i] = published[i]
  BY <1>1, <1>2, <1>4
<1>6. TypeOK'
  <2>1. received' \in 0 .. Len(published')
    BY <1>1, <1>2, <1>5
  <2> QED BY <1>1, <1>2, <1>3, <1>5, <2>1 DEF TypeOK, Published
<1>7. Committed(published, life)'
  <2> SUFFICES ASSUME NEW i \in 1 .. Len(published')
               PROVE  /\ published'[i].life \in 0 .. life /\ published'[i].txn \in Txns
                      /\ amounts[published'[i].txn] \in Domain
                      /\ published'[i] = Commitment(published'[i].life, published'[i].txn)
    BY <1>1, <1>3 DEF Committed
  <2>1. CASE i \in 1 .. Len(published)
    BY <1>2, <1>5, <2>1 DEF Committed
  <2>2. CASE i \notin 1 .. Len(published)
    <3>1. published'[i] = rec
      BY <1>2, <1>5, <2>2
    <3> QED BY <1>1, <1>2, <1>4, <3>1
  <2> QED BY <2>1, <2>2
<1>8. KeysOf(keys, life)'
  BY <1>1, <1>2, <1>3 DEF KeysOf
<1>9. PassedWith(keys)'
  <2>1. \A i \in 1 .. received : published'[i] = published[i]
    BY <1>2, <1>5
  <2> QED BY <1>1, <1>2, <2>1 DEF PassedWith
<1> QED BY <1>1, <1>2, <1>6, <1>7, <1>8, <1>9 DEF DisclosureInv

(* What does not publish keeps the commitments.                            *)
LEMMA CommittedKeeps ==
  ASSUME DisclosureInv, setting' = setting, published' = published,
         life' \in Nat, life <= life'
  PROVE  Committed(published, life)'
<1>1. /\ Committed(published, life) /\ life \in Nat
  BY LivesAreNaturals DEF DisclosureInv, TypeOK
<1>2. /\ amounts' = amounts /\ \A n, x : Commitment(n, x)' = Commitment(n, x)
  BY SettingFixes
<1> SUFFICES ASSUME NEW i \in 1 .. Len(published)
             PROVE  /\ published[i].life \in 0 .. life' /\ published[i].txn \in Txns
                    /\ amounts[published[i].txn] \in Domain
                    /\ published[i] = Commitment(published[i].life, published[i].txn)
  BY <1>2 DEF Committed
<1>3. /\ published[i].life \in 0 .. life /\ published[i].txn \in Txns
      /\ amounts[published[i].txn] \in Domain
      /\ published[i] = Commitment(published[i].life, published[i].txn)
  BY <1>1 DEF Committed
<1>4. published[i].life \in 0 .. life'
  BY <1>1, <1>3
<1> QED BY <1>3, <1>4

LEMMA ProverRestartKeeps ==
  ASSUME DisclosureInv, ProverRestart
  PROVE  DisclosureInv'
<1>1. /\ restarts < MaxRestarts /\ restarts' = restarts + 1 /\ life' = life + 1
      /\ setting' = setting /\ published' = published /\ received' = received
      /\ reports' = reports /\ keys' = keys
  BY DEF ProverRestart
<1>2. /\ TypeOK /\ life \in Nat /\ restarts \in 0 .. MaxRestarts /\ MaxRestarts \in Nat
      /\ KeysOf(keys, life) /\ PassedWith(keys) /\ life <= restarts
  BY LivesAreNaturals, BoundsAssumption DEF DisclosureInv, TypeOK
<1>3. /\ amounts' = amounts /\ fromEnv' = fromEnv /\ hasNumpy' = hasNumpy
      /\ durable' = durable /\ \A n : PublicKeys(n)' = PublicKeys(n)
  BY <1>1, SettingFixes
<1>4. /\ life' \in Nat /\ life <= life' /\ life' <= restarts'
      /\ restarts' \in 0 .. MaxRestarts /\ life' \in Lives
  BY <1>1, <1>2 DEF Lives
<1>5. Committed(published, life)'
  BY <1>1, <1>4, CommittedKeeps
<1>6. KeysOf(keys, life)'
  <2>1. \A n \in 0 .. life : n \in 0 .. life'
    BY <1>2, <1>4
  <2> QED BY <1>1, <1>2, <1>3, <2>1 DEF KeysOf
<1>7. TypeOK'
  BY <1>1, <1>2, <1>3, <1>4 DEF TypeOK
<1>8. PassedWith(keys)'
  BY <1>1, <1>2 DEF PassedWith
<1> QED BY <1>4, <1>5, <1>6, <1>7, <1>8 DEF DisclosureInv

LEMMA FetchKeysKeeps ==
  ASSUME DisclosureInv, FetchKeys
  PROVE  DisclosureInv'
<1>1. /\ keys = {} /\ keys' = {PublicKeys(life)} /\ restarts' = restarts /\ life' = life
      /\ setting' = setting /\ published' = published /\ received' = received
      /\ reports' = reports
  BY DEF FetchKeys
<1>2. /\ TypeOK /\ life \in Nat /\ life \in Lives
      /\ PassedWith(keys) /\ life <= restarts
  BY LivesAreNaturals DEF DisclosureInv, TypeOK
<1>3. /\ amounts' = amounts /\ fromEnv' = fromEnv /\ hasNumpy' = hasNumpy
      /\ durable' = durable /\ \A n : PublicKeys(n)' = PublicKeys(n)
  BY <1>1, SettingFixes
<1>4. Committed(published, life)'
  <2>1. life' \in Nat /\ life <= life'
    BY <1>1, <1>2
  <2> QED BY <1>1, <2>1, CommittedKeeps
<1>5. KeysOf(keys, life)'
  <2>1. life \in 0 .. life'
    BY <1>1, <1>2
  <2> QED BY <1>1, <1>3, <2>1 DEF KeysOf
<1>6. TypeOK'
  <2>1. keys' \subseteq [lattice : Keys, signing : Lives]
    BY <1>1, <1>2, KeyOfLife
  <2> QED BY <1>1, <1>2, <1>3, <2>1 DEF TypeOK
<1>7. PassedWith(keys)'
  <2>1. \A i \in 1 .. received : reports[i] # "PASS"
    BY <1>1, <1>2 DEF PassedWith
  <2> QED BY <1>1, <2>1 DEF PassedWith
<1> QED BY <1>1, <1>2, <1>4, <1>5, <1>6, <1>7 DEF DisclosureInv

LEMMA ReceiveKeeps ==
  ASSUME DisclosureInv, Receive
  PROVE  DisclosureInv'
<1> DEFINE Status == {"PASS", "FAIL", "SKIP"}
           status == SignatureStatus(published[received + 1])
<1>1. /\ received < Len(published) /\ received' = received + 1
      /\ reports' = Append(reports, status)
      /\ setting' = setting /\ published' = published /\ keys' = keys
      /\ restarts' = restarts /\ life' = life
  BY DEF Receive
<1>2. /\ TypeOK /\ life \in Nat /\ life <= restarts
      /\ KeysOf(keys, life) /\ PassedWith(keys)
      /\ published \in Seq(Published) /\ received \in 0 .. Len(published)
      /\ reports \in [1 .. received -> Status]
  BY LivesAreNaturals DEF DisclosureInv, TypeOK, Published
<1>3. /\ amounts' = amounts /\ fromEnv' = fromEnv /\ hasNumpy' = hasNumpy
      /\ durable' = durable /\ \A n : PublicKeys(n)' = PublicKeys(n)
  BY <1>1, SettingFixes
<1>4. /\ status \in Status
      /\ status = "PASS" => \E k \in keys : k.signing = published[received + 1].signer
  BY DEF SignatureStatus
<1> HIDE DEF status
<1>5. PICK n \in Nat : n = received
  BY <1>2
<1>6. /\ reports' \in [1 .. n + 1 -> Status] /\ reports'[n + 1] = status
      /\ \A i \in 1 .. n : reports'[i] = reports[i]
  <2>1. reports \in Seq(Status) /\ Len(reports) = n
    BY <1>2, <1>5
  <2> HIDE DEF Status
  <2>2. /\ reports' \in Seq(Status) /\ Len(reports') = n + 1
    BY <1>1, <1>4, <2>1
  <2>3. reports'[n + 1] = status
    BY <1>1, <2>1
  <2>4. \A i \in 1 .. n : reports'[i] = reports[i]
    BY <1>1, <2>1
  <2> QED BY <2>2, <2>3, <2>4
<1>7. Committed(published, life)'
  <2>1. life' \in Nat /\ life <= life'
    BY <1>1, <1>2
  <2> QED BY <1>1, <2>1, CommittedKeeps
<1>8. KeysOf(keys, life)'
  BY <1>1, <1>2, <1>3 DEF KeysOf
<1>9. TypeOK'
  <2>1. received' \in 0 .. Len(published') /\ reports' \in [1 .. received' -> Status]
    BY <1>1, <1>2, <1>5, <1>6
  <2> QED BY <1>1, <1>2, <1>3, <2>1 DEF TypeOK
<1>10. PassedWith(keys)'
  <2> SUFFICES ASSUME NEW i \in 1 .. n + 1, reports'[i] = "PASS"
               PROVE  \E k \in keys : k.signing = published[i].signer
    BY <1>1, <1>5 DEF PassedWith
  <2>1. CASE i = n + 1
    BY <1>4, <1>5, <1>6, <2>1
  <2>2. CASE i # n + 1
    <3>1. i \in 1 .. n
      BY <2>2
    <3> QED BY <1>2, <1>5, <1>6, <3>1 DEF PassedWith
  <2> QED BY <2>1, <2>2
<1> QED BY <1>1, <1>2, <1>7, <1>8, <1>9, <1>10 DEF DisclosureInv

LEMMA VerifierRestartKeeps ==
  ASSUME DisclosureInv, VerifierRestart
  PROVE  DisclosureInv'
<1>1. /\ restarts < MaxRestarts /\ restarts' = restarts + 1 /\ received' = 0
      /\ reports' = << >> /\ keys' = {}
      /\ setting' = setting /\ published' = published /\ life' = life
  BY DEF VerifierRestart
<1>2. /\ TypeOK /\ life \in Nat /\ life <= restarts
      /\ restarts \in 0 .. MaxRestarts /\ MaxRestarts \in Nat
      /\ published \in Seq(Published)
  BY LivesAreNaturals, BoundsAssumption DEF DisclosureInv, TypeOK, Published
<1>3. /\ amounts' = amounts /\ fromEnv' = fromEnv /\ hasNumpy' = hasNumpy
      /\ durable' = durable
  BY <1>1, SettingFixes
<1>4. Committed(published, life)'
  <2>1. life' \in Nat /\ life <= life'
    BY <1>1, <1>2
  <2> QED BY <1>1, <2>1, CommittedKeeps
<1>5. TypeOK'
  <2>1. /\ received' \in 0 .. Len(published') /\ restarts' \in 0 .. MaxRestarts
    BY <1>1, <1>2
  <2>2. reports' \in [1 .. received' -> {"PASS", "FAIL", "SKIP"}]
    BY <1>1
  <2> QED BY <1>1, <1>2, <1>3, <2>1, <2>2 DEF TypeOK
<1>6. KeysOf(keys, life)' /\ PassedWith(keys)'
  BY <1>1 DEF KeysOf, PassedWith
<1>7. life' <= restarts'
  BY <1>1, <1>2
<1> QED BY <1>4, <1>5, <1>6, <1>7 DEF DisclosureInv

LEMMA DisclosureNext == DisclosureInv /\ [Next]_vars => DisclosureInv'
<1> SUFFICES ASSUME DisclosureInv, [Next]_vars PROVE DisclosureInv'
  OBVIOUS
<1>1. ASSUME NEW txn \in Txns, Commit(txn) PROVE DisclosureInv'
  BY <1>1, CommitKeeps
<1>2. CASE ProverRestart
  BY <1>2, ProverRestartKeeps
<1>3. CASE FetchKeys
  BY <1>3, FetchKeysKeeps
<1>4. CASE Receive
  BY <1>4, ReceiveKeeps
<1>5. CASE VerifierRestart
  BY <1>5, VerifierRestartKeeps
<1>6. CASE UNCHANGED vars
  <2>1. /\ setting' = setting /\ life' = life /\ published' = published
        /\ received' = received /\ reports' = reports /\ keys' = keys
        /\ restarts' = restarts
    BY <1>6 DEF vars
  <2>2. /\ amounts' = amounts /\ fromEnv' = fromEnv /\ hasNumpy' = hasNumpy
        /\ durable' = durable /\ \A n : PublicKeys(n)' = PublicKeys(n)
    BY <2>1, SettingFixes
  <2>3. Committed(published, life)'
    <3>1. life' \in Nat /\ life <= life'
      BY <2>1, LivesAreNaturals DEF DisclosureInv, TypeOK
    <3> QED BY <2>1, <3>1, CommittedKeeps
  <2>4. TypeOK'
    BY <2>1, <2>2 DEF DisclosureInv, TypeOK
  <2>5. KeysOf(keys, life)' /\ PassedWith(keys)'
    BY <2>1, <2>2 DEF DisclosureInv, KeysOf, PassedWith
  <2> QED BY <2>1, <2>3, <2>4, <2>5 DEF DisclosureInv
<1> QED BY <1>1, <1>2, <1>3, <1>4, <1>5, <1>6 DEF Next

-----------------------------------------------------------------------------
(* What the requests find.                                                 *)
LEMMA LastOf ==
  ASSUME NEW T, NEW n \in Nat, T \subseteq 1 .. n, T # {}
  PROVE  \E x \in T : \A y \in T : x >= y
<1> DEFINE D == {d \in Nat : \E x \in T : d = n - x}
<1>1. D \subseteq Nat /\ D # {}
  <2>1. PICK x \in T : TRUE
    OBVIOUS
  <2>2. n - x \in Nat
    OBVIOUS
  <2> QED BY <2>2
<1>2. PICK d \in D : \A e \in D : d <= e
  BY <1>1, LeastNat
<1>3. PICK x \in T : d = n - x
  BY <1>2
<1>4. ASSUME NEW y \in T PROVE x >= y
  <2>1. n - y \in D /\ x \in Nat /\ y \in Nat
    OBVIOUS
  <2>2. n - x <= n - y
    BY <1>2, <1>3, <2>1
  <2> QED BY <2>1, <2>2
<1> QED BY <1>4

LEMMA NewestHas ==
  ASSUME NEW recs, NEW txn, Len(recs) \in Nat
  PROVE  /\ Newest(recs, txn) \in 0 .. Len(recs)
         /\ Newest(recs, txn) # 0 => recs[Newest(recs, txn)].txn = txn
<1> DEFINE I == {i \in 1 .. Len(recs) : recs[i].txn = txn}
<1>1. Newest(recs, txn) = IF I # {} THEN Max(I) ELSE 0
  BY DEF Newest, SelectLastInSeq
<1>2. ASSUME I # {} PROVE Max(I) \in I
  <2>1. \E x \in I : \A y \in I : x >= y
    BY <1>2, LastOf
  <2> HIDE DEF I
  <2> QED BY <2>1 DEF Max
<1>3. CASE I = {}
  BY <1>1, <1>3
<1>4. CASE I # {}
  <2>1. Newest(recs, txn) \in I
    BY <1>1, <1>2, <1>4
  <2> QED BY <2>1
<1> QED BY <1>3, <1>4

LEMMA BufferIs ==
  ASSUME TypeOK
  PROVE  /\ Len(Buffer) \in Nat
         /\ \A i \in 1 .. Len(Buffer) : \E j \in 1 .. received : Buffer[i] = published[j]
<1> DEFINE from == IF received > BufferSize THEN received - BufferSize + 1 ELSE 1
<1>1. /\ published \in Seq(Published) /\ Len(published) \in Nat
      /\ received \in 0 .. Len(published) /\ BufferSize \in Nat \ {0}
  BY BufferAssumption DEF TypeOK, Published
<1>2. from \in 1 .. received + 1
  BY <1>1
<1>3. Buffer = SubSeq(published, from, received)
  BY DEF Buffer
<1> HIDE DEF from
<1>4. \A i \in from .. received : published[i] \in Published
  BY <1>1, <1>2, ElementOfSeq
<1>5. /\ Len(Buffer) = IF from <= received THEN received - from + 1 ELSE 0
      /\ \A i \in 1 .. received - from + 1 : Buffer[i] = published[from + i - 1]
  BY <1>1, <1>2, <1>3, <1>4, SubSeqProperties
<1>6. Len(Buffer) = received - from + 1 /\ Len(Buffer) \in Nat
  BY <1>1, <1>2, <1>5
<1>7. ASSUME NEW i \in 1 .. Len(Buffer)
      PROVE  \E j \in 1 .. received : Buffer[i] = published[j]
  <2>1. from + i - 1 \in 1 .. received /\ i \in 1 .. received - from + 1
    BY <1>1, <1>2, <1>6
  <2> QED BY <1>5, <2>1
<1> QED BY <1>6, <1>7

(* A record that is found is the only one, one that was received, and one  *)
(* of the transaction that was asked for.                                  *)
LEMMA FoundIs ==
  ASSUME TypeOK, NEW txn, NEW rec \in Found(txn)
  PROVE  /\ Found(txn) = {rec} /\ rec.txn = txn
         /\ \E j \in 1 .. received : rec = published[j]
<1> DEFINE i == Newest(Buffer, txn)
<1>1. Found(txn) = {Buffer[k] : k \in {i} \ {0}}
  BY DEF Found
<1>2. i \in 0 .. Len(Buffer) /\ (i # 0 => Buffer[i].txn = txn) /\ Len(Buffer) \in Nat
  BY BufferIs, NewestHas
<1> HIDE DEF i
<1>3. i # 0 /\ rec = Buffer[i] /\ Found(txn) = {rec}
  BY <1>1
<1>4. i \in 1 .. Len(Buffer)
  BY <1>2, <1>3
<1> QED BY <1>2, <1>3, <1>4, BufferIs

LEMMA StoredIs ==
  ASSUME TypeOK, NEW txn, NEW rec \in Stored(txn)
  PROVE  rec.txn = txn
<1> DEFINE i == Newest(published, txn)
<1>1. Len(published) \in Nat
  BY DEF TypeOK
<1>2. i # 0 => published[i].txn = txn
  BY <1>1, NewestHas
<1>3. PICK k \in {i} \ {0} : rec = published[k]
  BY DEF Stored
<1> QED BY <1>2, <1>3

(* There is one verdict when there is a key and a record.                  *)
LEMMA VerdictIs ==
  ASSUME TypeOK, NEW o, NEW k, NEW rec, keys = {k}, Found(o.txn) = {rec}
  PROVE  VerifyOpening(o)
           = {Opens("verifier" \in hasNumpy, k.lattice, rec.commitment, o.amount, o.seed)}
BY DEF VerifyOpening

-----------------------------------------------------------------------------
(* The properties.                                                         *)
LEMMA InvTraceAgrees == DisclosureInv => TraceAgrees
<1> SUFFICES ASSUME DisclosureInv, NEW txn \in Txns, NEW amount \in Amounts,
                    NEW rec \in Stored(txn), NEW found \in Found(txn),
                    keys = {PublicKeys(life)}, rec.commitment = found.commitment
             PROVE  VerifyOpening(OpeningFor(life, txn, amount)) = {VerifyTxn(rec, amount)}
  BY DEF TraceAgrees
<1> DEFINE o == OpeningFor(life, txn, amount)
           lattice == PublicKeys(life).lattice
<1>1. TypeOK
  BY DEF DisclosureInv
<1>2. rec.txn = txn /\ Found(txn) = {found}
  BY <1>1, FoundIs, StoredIs
<1>3. o.txn = txn /\ o.amount = amount /\ o.seed = BlindingSeed(life, txn)
  BY DEF OpeningFor
<1> HIDE DEF o
<1>4. VerifyOpening(o) = {Opens("verifier" \in hasNumpy, lattice, found.commitment, amount,
                                BlindingSeed(life, txn))}
  BY <1>1, <1>2, <1>3, VerdictIs
<1>5. VerifyTxn(rec, amount)
        = Opens("prover" \in hasNumpy, lattice, found.commitment, amount,
                BlindingSeed(life, txn))
  BY <1>2 DEF VerifyTxn
<1> HIDE DEF lattice
<1>6. Opens("verifier" \in hasNumpy, lattice, found.commitment, amount,
            BlindingSeed(life, txn))
        <=> Opens("prover" \in hasNumpy, lattice, found.commitment, amount,
                  BlindingSeed(life, txn))
  <2> DEFINE vnp == "verifier" \in hasNumpy
             pnp == "prover" \in hasNumpy
  <2>1. vnp \in BOOLEAN /\ pnp \in BOOLEAN
    OBVIOUS
  <2> HIDE DEF vnp, pnp
  <2>2. Opens(vnp, lattice, found.commitment, amount, BlindingSeed(life, txn))
          <=> Opens(pnp, lattice, found.commitment, amount, BlindingSeed(life, txn))
    BY <2>1, OpensAgrees
  <2> QED BY <2>2, Zenon DEF vnp, pnp
<1>7. Opens("verifier" \in hasNumpy, lattice, found.commitment, amount,
            BlindingSeed(life, txn))
        = Opens("prover" \in hasNumpy, lattice, found.commitment, amount,
                BlindingSeed(life, txn))
  BY <1>6 DEF Opens
<1> QED BY <1>4, <1>5, <1>7, Zenon DEF o

(* The half of HonestOpeningAccepted that is not about the hash functions: *)
(* an opening of the amount that was committed is accepted whenever the    *)
(* verifier's key and the blinding are those of the commitment.            *)
HonestAlwaysOpens ==
  \A txn \in Txns, n \in 0 .. life : \A rec \in Found(txn), k \in keys :
    (/\ BlindingSeed(n, txn) = BlindingSeed(rec.life, txn)
     /\ k.lattice.seed = LatticeSeed(rec.life))
      => VerifyOpening(OpeningFor(n, txn, amounts[txn])) = {TRUE}

LEMMA InvHonestOpens == DisclosureInv => HonestAlwaysOpens
<1> SUFFICES ASSUME DisclosureInv, NEW txn \in Txns, NEW n \in 0 .. life,
                    NEW rec \in Found(txn), NEW k \in keys,
                    BlindingSeed(n, txn) = BlindingSeed(rec.life, txn),
                    k.lattice.seed = LatticeSeed(rec.life)
             PROVE  VerifyOpening(OpeningFor(n, txn, amounts[txn])) = {TRUE}
  BY DEF HonestAlwaysOpens
<1> DEFINE o == OpeningFor(n, txn, amounts[txn])
           vnp == "verifier" \in hasNumpy
           pnp == "prover" \in hasNumpy
<1>1. TypeOK /\ Committed(published, life) /\ KeysOf(keys, life) /\ life \in Lives
  BY DEF DisclosureInv, TypeOK
<1>2. PICK j \in 1 .. received : rec = published[j] /\ rec.txn = txn /\ Found(txn) = {rec}
  BY <1>1, FoundIs
<1>3. j \in 1 .. Len(published)
  BY <1>1 DEF TypeOK
<1>4. /\ rec.life \in 0 .. life /\ amounts[txn] \in Domain
      /\ rec = Commitment(rec.life, txn)
  BY <1>1, <1>2, <1>3 DEF Committed
<1>5. \A m \in 0 .. life : m \in Lives
  BY <1>1, BoundsAssumption DEF Lives
<1>6. PICK m \in 0 .. life : keys = {PublicKeys(m)}
  BY <1>1 DEF KeysOf
<1>7. k = PublicKeys(m) /\ keys = {k}
  BY <1>6
<1>8. k.lattice = PublicKeys(rec.life).lattice
  <2>1. /\ PublicKeys(m).lattice = PublicKey(pnp, LatticeSeed(m))
        /\ PublicKeys(rec.life).lattice = PublicKey(pnp, LatticeSeed(rec.life))
    BY <1>4, <1>5, <1>6, KeyOfLife
  <2>2. LatticeSeed(m) \in LatticeSeeds /\ pnp \in BOOLEAN
    BY <1>5, SecretIsLife DEF LatticeSeed, LatticeSeeds
  <2> HIDE DEF pnp
  <2>3. PublicKey(pnp, LatticeSeed(m)).seed = LatticeSeed(m)
    BY <2>2, PublicKeyAgrees
  <2> QED BY <1>7, <2>1, <2>3
<1>9. Opens(pnp, PublicKeys(rec.life).lattice, rec.commitment, amounts[txn],
            BlindingSeed(rec.life, txn))
  BY <1>4, <1>5, CommitmentOfLife
<1>10. o.txn = txn /\ o.amount = amounts[txn] /\ o.seed = BlindingSeed(n, txn)
  BY DEF OpeningFor
<1>11. VerifyOpening(o) = {Opens(vnp, k.lattice, rec.commitment, o.amount, o.seed)}
  <2> HIDE DEF o
  <2> QED BY <1>1, <1>2, <1>7, <1>10, VerdictIs
<1>12. vnp \in BOOLEAN /\ pnp \in BOOLEAN
  OBVIOUS
<1> HIDE DEF o, vnp, pnp
<1>13. Opens(vnp, k.lattice, rec.commitment, o.amount, o.seed)
  BY <1>8, <1>9, <1>10, <1>12, OpensAgrees
<1>14. VerifyOpening(o) = {TRUE}
  <2>1. Opens(vnp, k.lattice, rec.commitment, o.amount, o.seed) = TRUE
    BY <1>13 DEF Opens
  <2> QED BY <1>11, <2>1, Zenon
<1> QED BY <1>14 DEF o

(* What an opening that is accepted says: the verifier found the same      *)
(* commitment as the process that made the record.                         *)
MadeOf(rec, txn) == Recommit(TRUE, PublicKeys(rec.life).lattice, amounts[txn],
                             BlindingSeed(rec.life, txn))

LEMMA FoundIsMade ==
  ASSUME DisclosureInv, NEW txn \in Txns, NEW rec \in Found(txn), NEW k \in keys
  PROVE  /\ rec.commitment = MadeOf(rec, txn)
         /\ rec.life \in 0 .. life /\ rec.life \in Lives /\ amounts[txn] \in Domain
         /\ PublicKeys(rec.life).lattice \in Keys
         /\ PublicKeys(rec.life).lattice.seed = LatticeSeed(rec.life)
         /\ BlindingSeed(rec.life, txn) \in BlindingSeeds
         /\ Found(txn) = {rec} /\ keys = {k}
         /\ k.lattice.seed = LatticeSeed(rec.life) => k.lattice = PublicKeys(rec.life).lattice
<1> DEFINE pnp == "prover" \in hasNumpy
<1>1. TypeOK /\ Committed(published, life) /\ KeysOf(keys, life) /\ life \in Lives
  BY DEF DisclosureInv, TypeOK
<1>2. PICK j \in 1 .. received : rec = published[j] /\ rec.txn = txn /\ Found(txn) = {rec}
  BY <1>1, FoundIs
<1>3. j \in 1 .. Len(published)
  BY <1>1 DEF TypeOK
<1>4. /\ rec.life \in 0 .. life /\ amounts[txn] \in Domain
      /\ rec = Commitment(rec.life, txn)
  BY <1>1, <1>2, <1>3 DEF Committed
<1>5. \A n \in 0 .. life : n \in Lives
  BY <1>1, BoundsAssumption DEF Lives
<1>6. PICK m \in 0 .. life : k = PublicKeys(m) /\ keys = {k}
  BY <1>1 DEF KeysOf
<1>7. \A n \in 0 .. life : /\ PublicKeys(n).lattice = PublicKey(pnp, LatticeSeed(n))
                           /\ PublicKeys(n).lattice \in Keys
  BY <1>5, KeyOfLife
<1>8. \A n \in 0 .. life : LatticeSeed(n) \in LatticeSeeds
  BY <1>5, SecretIsLife DEF LatticeSeed, LatticeSeeds
<1>9. pnp \in BOOLEAN
  OBVIOUS
<1>10. Opens(pnp, PublicKeys(rec.life).lattice, rec.commitment, amounts[txn],
             BlindingSeed(rec.life, txn))
  BY <1>4, <1>5, CommitmentOfLife
<1> HIDE DEF pnp
<1>11. \A n \in 0 .. life : PublicKeys(n).lattice.seed = LatticeSeed(n)
  BY <1>7, <1>8, <1>9, PublicKeyAgrees
<1>12. k.lattice.seed = LatticeSeed(rec.life) => k.lattice = PublicKeys(rec.life).lattice
  BY <1>4, <1>6, <1>7, <1>11
<1>13. BlindingSeed(rec.life, txn) \in BlindingSeeds
  BY <1>4, <1>5, SeedsOfLife
<1>14. rec.commitment = MadeOf(rec, txn)
  <2>1. rec.commitment = Recommit(pnp, PublicKeys(rec.life).lattice, amounts[txn],
                                  BlindingSeed(rec.life, txn))
    BY <1>10, OpensIs
  <2>2. PublicKeys(rec.life).lattice \in Keys
    BY <1>4, <1>7
  <2> QED BY <1>9, <1>13, <2>1, <2>2, RecommitAgrees DEF MadeOf
<1> QED BY <1>2, <1>4, <1>5, <1>6, <1>7, <1>11, <1>12, <1>13, <1>14

LEMMA AcceptedMeans ==
  ASSUME DisclosureInv, NEW txn \in Txns, NEW rec \in Found(txn), NEW k \in keys,
         NEW np \in BOOLEAN, NEW amount, NEW seed \in BlindingSeeds, k.lattice \in Keys,
         rec.commitment = Recommit(np, k.lattice, amount, seed)
  PROVE  Recommit(TRUE, k.lattice, amount, seed) = MadeOf(rec, txn)
<1>1. Recommit(np, k.lattice, amount, seed) = Recommit(TRUE, k.lattice, amount, seed)
  BY RecommitAgrees
<1>2. rec.commitment = MadeOf(rec, txn)
  BY FoundIsMade
<1> QED BY <1>1, <1>2

(* With the verifier's key and the blinding those of the commitment, an    *)
(* opening is accepted exactly when it states the amount committed.        *)
OpensOnlyTheCommitted ==
  \A txn \in Txns, n \in 0 .. life, amount \in Amounts : \A rec \in Found(txn), k \in keys :
    (/\ BlindingSeed(n, txn) = BlindingSeed(rec.life, txn)
     /\ k.lattice.seed = LatticeSeed(rec.life))
      => VerifyOpening(OpeningFor(n, txn, amount)) = {amount = amounts[txn]}

LEMMA InvOpensOnlyTheCommitted == DisclosureInv => OpensOnlyTheCommitted
<1> SUFFICES ASSUME DisclosureInv, NEW txn \in Txns, NEW n \in 0 .. life,
                    NEW amount \in Amounts, NEW rec \in Found(txn), NEW k \in keys,
                    BlindingSeed(n, txn) = BlindingSeed(rec.life, txn),
                    k.lattice.seed = LatticeSeed(rec.life)
             PROVE  VerifyOpening(OpeningFor(n, txn, amount)) = {amount = amounts[txn]}
  BY DEF OpensOnlyTheCommitted
<1> DEFINE o == OpeningFor(n, txn, amount)
           vnp == "verifier" \in hasNumpy
           seed == BlindingSeed(n, txn)
<1>1. o.txn = txn /\ o.amount = amount /\ o.seed = seed
  BY DEF OpeningFor
<1>2. CASE amount = amounts[txn]
  BY <1>2, InvHonestOpens DEF HonestAlwaysOpens
<1>3. CASE amount # amounts[txn]
  <2>1. vnp \in BOOLEAN
    OBVIOUS
  <2>2. TypeOK /\ Found(txn) = {rec} /\ keys = {k}
    BY FoundIsMade DEF DisclosureInv
  <2> HIDE DEF o, vnp
  <2>3. VerifyOpening(o) = {Opens(vnp, k.lattice, rec.commitment, amount, seed)}
    BY <1>1, <2>2, VerdictIs DEF vnp
  <2>4. ~Opens(vnp, k.lattice, rec.commitment, amount, seed)
    <3> SUFFICES ASSUME Opens(vnp, k.lattice, rec.commitment, amount, seed) PROVE FALSE
      OBVIOUS
    <3>0. /\ amount \in Domain /\ seed \in BlindingSeeds /\ k.lattice \in Keys
          /\ rec.commitment = Recommit(vnp, k.lattice, amount, seed)
      BY OpensIs
    <3>1. Recommit(TRUE, k.lattice, amount, seed) = MadeOf(rec, txn)
      <4> HIDE DEF seed
      <4> QED BY <2>1, <3>0, AcceptedMeans
    <3>2. /\ MadeOf(rec, txn) = Recommit(TRUE, k.lattice, amounts[txn], seed)
          /\ amounts[txn] \in Domain
      BY FoundIsMade DEF MadeOf
    <3> HIDE DEF seed
    <3> QED BY <1>3, <3>0, <3>1, <3>2, BlindingBinds
  <2>5. Opens(vnp, k.lattice, rec.commitment, amount, seed) = FALSE
    BY <2>4 DEF Opens
  <2>6. (amount = amounts[txn]) = FALSE
    BY <1>3
  <2>7. VerifyOpening(o) = {amount = amounts[txn]}
    BY <2>3, <2>5, <2>6, Zenon
  <2> QED BY <2>7 DEF o
<1> QED BY <1>2, <1>3

(* Commitments that are equal were made with the same seeds.               *)
Made(key, amount, seed) == Recommit(TRUE, key, amount, seed)

LEMMA SameSeeds ==
  ASSUME SeedsDoNotCollide,
         NEW key \in Keys, NEW other \in Keys, NEW seed \in BlindingSeeds,
         NEW another \in BlindingSeeds, NEW amount \in Domain, NEW stated \in Domain,
         Made(key, amount, seed) = Made(other, stated, another)
  PROVE  seed = another /\ key.seed = other.seed
<1>1. PICK np \in BOOLEAN : TRUE
  OBVIOUS
<1>2. /\ Recommit(np, key, amount, seed) = Made(key, amount, seed)
      /\ Recommit(np, other, stated, another) = Made(other, stated, another)
  BY RecommitAgrees DEF Made
<1>3. Recommit(np, key, amount, seed) = Recommit(np, other, stated, another)
  BY <1>2
<1> QED BY <1>3 DEF SeedsDoNotCollide

LEMMA InvAcceptedIsCommitted ==
  ASSUME SeedsDoNotCollide
  PROVE  DisclosureInv => AcceptedIsCommitted
<1> SUFFICES ASSUME DisclosureInv, NEW txn \in Txns, NEW amount \in Amounts,
                    NEW seed \in BlindingSeeds,
                    TRUE \in VerifyOpening([txn |-> txn, amount |-> amount, seed |-> seed])
             PROVE  amount = amounts[txn]
  BY DEF AcceptedIsCommitted
<1> DEFINE o == [txn |-> txn, amount |-> amount, seed |-> seed]
           vnp == "verifier" \in hasNumpy
<1>1. o.txn = txn /\ o.amount = amount /\ o.seed = seed
  OBVIOUS
<1>2. vnp \in BOOLEAN
  OBVIOUS
<1>3. TRUE \in VerifyOpening(o)
  OBVIOUS
<1> HIDE DEF vnp, o
<1>4. PICK k \in keys, rec \in Found(txn) : TRUE
  <2>1. \E v : v \in VerifyOpening(o)
    BY <1>3
  <2>2. \E k \in keys, rec \in Found(o.txn) : TRUE
    BY <2>1 DEF VerifyOpening
  <2> QED BY <1>1, <2>2
<1>5. Opens(vnp, k.lattice, rec.commitment, amount, seed)
  <2>1. TypeOK /\ Found(txn) = {rec} /\ keys = {k}
    BY <1>4, FoundIsMade DEF DisclosureInv
  <2>2. VerifyOpening(o) = {Opens(vnp, k.lattice, rec.commitment, amount, seed)}
    BY <1>1, <2>1, VerdictIs DEF vnp
  <2> SUFFICES ASSUME ~Opens(vnp, k.lattice, rec.commitment, amount, seed) PROVE FALSE
    OBVIOUS
  <2>3. Opens(vnp, k.lattice, rec.commitment, amount, seed) = FALSE
    BY DEF Opens
  <2>4. VerifyOpening(o) = {FALSE}
    BY <2>2, <2>3, Zenon
  <2> QED BY <1>3, <2>4
<1>6. /\ amount \in Domain /\ k.lattice \in Keys
      /\ Recommit(TRUE, k.lattice, amount, seed) = MadeOf(rec, txn)
  <2>1. /\ amount \in Domain /\ k.lattice \in Keys
        /\ rec.commitment = Recommit(vnp, k.lattice, amount, seed)
    BY <1>5, OpensIs
  <2> QED BY <1>2, <1>4, <2>1, AcceptedMeans
<1> DEFINE key == PublicKeys(rec.life).lattice
           own == BlindingSeed(rec.life, txn)
<1>7. /\ MadeOf(rec, txn) = Recommit(TRUE, key, amounts[txn], own)
      /\ key \in Keys /\ own \in BlindingSeeds /\ amounts[txn] \in Domain
      /\ key.seed = LatticeSeed(rec.life)
      /\ (k.lattice.seed = LatticeSeed(rec.life) => k.lattice = key)
  BY <1>4, FoundIsMade DEF MadeOf
<1> HIDE DEF key, own
<1>8. seed = own /\ k.lattice.seed = key.seed
  <2>1. Made(k.lattice, amount, seed) = Made(key, amounts[txn], own)
    BY <1>6, <1>7 DEF Made
  <2> QED BY <1>6, <1>7, <2>1, SameSeeds
<1>9. Recommit(TRUE, key, amount, own) = Recommit(TRUE, key, amounts[txn], own)
  BY <1>6, <1>7, <1>8
<1> QED BY <1>6, <1>7, <1>9, BlindingBinds

LEMMA InvHonestOpening ==
  ASSUME SeedsDoNotCollide
  PROVE  DisclosureInv => HonestOpeningAccepted
<1> SUFFICES ASSUME DisclosureInv, NEW txn \in Txns, NEW n \in 0 .. life,
                    NEW rec \in Found(txn), NEW k \in keys
             PROVE  VerifyOpening(OpeningFor(n, txn, amounts[txn]))
                      = {/\ BlindingSeed(n, txn) = BlindingSeed(rec.life, txn)
                         /\ k.lattice.seed = LatticeSeed(rec.life)}
  BY DEF HonestOpeningAccepted
<1> DEFINE amount == amounts[txn]
           o == OpeningFor(n, txn, amount)
           vnp == "verifier" \in hasNumpy
           seed == BlindingSeed(n, txn)
           same == /\ BlindingSeed(n, txn) = BlindingSeed(rec.life, txn)
                   /\ k.lattice.seed = LatticeSeed(rec.life)
<1>1. CASE same
  <2>1. VerifyOpening(o) = {TRUE}
    BY <1>1, InvHonestOpens DEF HonestAlwaysOpens
  <2>2. same = TRUE
    BY <1>1
  <2> HIDE DEF o, same
  <2>3. VerifyOpening(o) = {same}
    BY <2>1, <2>2, Zenon
  <2> QED BY <2>3, Zenon DEF o, same, amount
<1>2. CASE ~same
  <2>1. o.txn = txn /\ o.amount = amount /\ o.seed = seed
    BY DEF OpeningFor
  <2>2. vnp \in BOOLEAN
    OBVIOUS
  <2>3. TypeOK /\ Found(txn) = {rec} /\ keys = {k}
    BY FoundIsMade DEF DisclosureInv
  <2> HIDE DEF o, vnp, amount
  <2>4. VerifyOpening(o) = {Opens(vnp, k.lattice, rec.commitment, amount, seed)}
    BY <2>1, <2>3, VerdictIs DEF vnp
  <2>5. ~Opens(vnp, k.lattice, rec.commitment, amount, seed)
    <3> SUFFICES ASSUME Opens(vnp, k.lattice, rec.commitment, amount, seed) PROVE FALSE
      OBVIOUS
    <3>0. /\ amount \in Domain /\ seed \in BlindingSeeds /\ k.lattice \in Keys
          /\ rec.commitment = Recommit(vnp, k.lattice, amount, seed)
      BY OpensIs
    <3>1. Recommit(TRUE, k.lattice, amount, seed) = MadeOf(rec, txn)
      <4> HIDE DEF seed
      <4> QED BY <2>2, <3>0, AcceptedMeans
    <3>2. /\ MadeOf(rec, txn) = Recommit(TRUE, PublicKeys(rec.life).lattice, amounts[txn],
                                        BlindingSeed(rec.life, txn))
          /\ PublicKeys(rec.life).lattice \in Keys /\ amounts[txn] \in Domain
          /\ BlindingSeed(rec.life, txn) \in BlindingSeeds
          /\ PublicKeys(rec.life).lattice.seed = LatticeSeed(rec.life)
      BY FoundIsMade DEF MadeOf
    <3>3. seed = BlindingSeed(rec.life, txn) /\ k.lattice.seed = LatticeSeed(rec.life)
      <4> HIDE DEF seed
      <4>1. Made(k.lattice, amount, seed) = Made(PublicKeys(rec.life).lattice, amounts[txn],
                                                BlindingSeed(rec.life, txn))
        BY <3>1, <3>2 DEF Made
      <4> QED BY <3>0, <3>2, <4>1, SameSeeds
    <3> QED BY <1>2, <3>3
  <2>6. Opens(vnp, k.lattice, rec.commitment, amount, seed) = FALSE
    BY <2>5 DEF Opens
  <2>7. same = FALSE
    BY <1>2
  <2> HIDE DEF same, seed
  <2>8. VerifyOpening(o) = {same}
    BY <2>4, <2>6, <2>7, Zenon
  <2> QED BY <2>8, Zenon DEF o, same, amount
<1> QED BY <1>1, <1>2

LEMMA InvPassedOpens == DisclosureInv => PassedCanBeOpened
<1> SUFFICES ASSUME DisclosureInv, fromEnv \in {{}, Secrets}, NEW i \in 1 .. received,
                    reports[i] = "PASS", published[i] \in Found(published[i].txn)
             PROVE  VerifyOpening(OpeningFor(published[i].life, published[i].txn,
                                             amounts[published[i].txn])) = {TRUE}
  BY DEF PassedCanBeOpened
<1> DEFINE rec == published[i]
<1>1. /\ TypeOK /\ Committed(published, life) /\ KeysOf(keys, life) /\ PassedWith(keys)
      /\ life \in Lives /\ i \in 1 .. Len(published)
  BY DEF DisclosureInv, TypeOK
<1>2. /\ rec.life \in 0 .. life /\ rec.txn \in Txns /\ amounts[rec.txn] \in Domain
      /\ rec = Commitment(rec.life, rec.txn)
  BY <1>1 DEF Committed
<1>3. PICK k \in keys : k.signing = rec.signer
  BY <1>1 DEF PassedWith
<1>4. PICK m \in 0 .. life : k = PublicKeys(m)
  BY <1>1, <1>3 DEF KeysOf
<1>5. \A n \in 0 .. life : n \in Lives
  BY <1>1, BoundsAssumption DEF Lives
<1>6. rec.signer = PublicKeys(rec.life).signing
  <2> HIDE DEF rec
  <2> QED BY <1>2, <1>5, CommitmentOfLife
<1>7. Secret("SGX_SIGNING_KEY_B64", m) = Secret("SGX_SIGNING_KEY_B64", rec.life)
  <2> HIDE DEF rec
  <2> QED BY <1>2, <1>3, <1>4, <1>5, <1>6, KeyOfLife
<1>8. Secret("LWE_SEED_HEX", m) = Secret("LWE_SEED_HEX", rec.life)
  BY <1>7 DEF Secret, Secrets
<1>9. k.lattice.seed = LatticeSeed(rec.life)
  <2> HIDE DEF rec
  <2> DEFINE pnp == "prover" \in hasNumpy
  <2>1. LatticeSeed(m) = LatticeSeed(rec.life)
    BY <1>8 DEF LatticeSeed
  <2>2. LatticeSeed(m) \in LatticeSeeds /\ pnp \in BOOLEAN /\ m \in Lives
    BY <1>5, SecretIsLife DEF LatticeSeed, LatticeSeeds
  <2>3. k.lattice = PublicKey(pnp, LatticeSeed(m))
    BY <1>4, <2>2, KeyOfLife
  <2> HIDE DEF pnp
  <2>4. PublicKey(pnp, LatticeSeed(m)).seed = LatticeSeed(m)
    BY <2>2, PublicKeyAgrees
  <2> QED BY <2>1, <2>3, <2>4
<1> HIDE DEF rec
<1>10. rec \in Found(rec.txn)
  BY DEF rec
<1>11. VerifyOpening(OpeningFor(rec.life, rec.txn, amounts[rec.txn])) = {TRUE}
  BY <1>2, <1>3, <1>9, <1>10, InvHonestOpens DEF HonestAlwaysOpens
<1> QED BY <1>11 DEF rec

-----------------------------------------------------------------------------
(* Theorems.                                                               *)

(* Every record on the topic is the commitment of a process that has run,  *)
(* the keys a verifier holds are those of one, and a signature passed with *)
(* them (get_keypair, get_signing_key, _fetch_prover_keys).                *)
THEOREM DisclosureInvariance == Spec => []DisclosureInv
BY DisclosureInit, DisclosureNext, PTL DEF Spec

(* Type correctness of the commitments, reports and keys.                  *)
THEOREM DisclosureTypeCorrect == Spec => []TypeOK
<1>1. DisclosureInv => TypeOK
  BY DEF DisclosureInv
<1> QED BY <1>1, DisclosureInvariance, PTL

(* The bank's own trace and the auditor's verdict agree, whichever of the  *)
(* two multiplications either of them uses (verify_txn, verify_opening).   *)
THEOREM BankAndAuditorAgree == Spec => []TraceAgrees
BY InvTraceAgrees, DisclosureInvariance, PTL

(* An honest opening is accepted by a verifier that has the key of the     *)
(* commitment, across every restart (open_commitment).                     *)
THEOREM HonestOpens == Spec => []HonestAlwaysOpens
BY InvHonestOpens, DisclosureInvariance, PTL

(* Under the blinding of a commitment no other amount can be stated: an    *)
(* opening under the blinding of the commitment is accepted exactly when   *)
(* it states the amount committed, whatever the hash functions return      *)
(* (encode_amount, verify_opening).                                        *)
THEOREM OpeningIsOfTheAmount == Spec => []OpensOnlyTheCommitted
BY InvOpensOnlyTheCommitted, DisclosureInvariance, PTL

(* When commitments under different seeds differ, an opening under any     *)
(* blinding a prover has ever had states the amount committed              *)
(* (dashboard.py:343-344).                                                 *)
THEOREM AcceptedStatesTheAmount ==
  ASSUME SeedsDoNotCollide
  PROVE  Spec => []AcceptedIsCommitted
<1>1. DisclosureInv => AcceptedIsCommitted
  BY InvAcceptedIsCommitted
<1> QED BY <1>1, DisclosureInvariance, PTL

(* And then an honest opening is accepted exactly when the verifier's key  *)
(* and the blinding are those of the commitment (dashboard.py:337-362).    *)
THEOREM HonestOpeningIff ==
  ASSUME SeedsDoNotCollide
  PROVE  Spec => []HonestOpeningAccepted
<1>1. DisclosureInv => HonestOpeningAccepted
  BY InvHonestOpening
<1> QED BY <1>1, DisclosureInvariance, PTL

(* A record whose signature passed can be opened by the process that       *)
(* committed it, when all of the secrets outlive a process or none does    *)
(* (public_keys, opening_for).                                             *)
THEOREM PassedIsOpenable == Spec => []PassedCanBeOpened
BY InvPassedOpens, DisclosureInvariance, PTL
=============================================================================
