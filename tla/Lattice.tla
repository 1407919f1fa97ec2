------------------------------- MODULE Lattice -------------------------------
(***************************************************************************)
(* The Module-LWE commitment of prover/crypto/lwe.py over the ring         *)
(* Z_q[X]/(X^N + 1): the two multiplications, the samplers, the encoding   *)
(* of an amount and the kernel that prover and verifier share.             *)
(*                                                                         *)
(* A polynomial is the function from its exponents to its coefficients.    *)
(* The hash functions are external: what SHAKE and HMAC return for a seed  *)
(* are the constants Nibbles and Candidates, and a hash of a commitment is *)
(* represented by the commitment.                                          *)
(***************************************************************************)
EXTENDS Integers, Sequences

CONSTANTS N,                 \* polynomial degree (256)
          K,                 \* module rank (2)
          Q,                 \* modulus (3329)
          AmountBits,        \* width of a committed amount (64)
          Nibbles(_, _, _),  \* SHAKE-256 of a seed and a nonce: nibble i
          Candidates(_, _, _) \* SHAKE-128 of a seed, row and column: the
                             \*   candidates for coefficients, in order

ASSUME RingAssumption ==
  /\ N \in Nat \ {0} /\ K \in Nat \ {0} /\ Q \in Nat /\ Q > 1
  /\ AmountBits \in 1 .. N

Exponents == 0 .. N - 1
Rank == 1 .. K

Poly == [Exponents -> 0 .. Q - 1]
Vector == [Rank -> Poly]

-----------------------------------------------------------------------------
(* Ring arithmetic.                                                        *)
SumOver(f, n) ==
  LET sum[i \in 0 .. n] == f[i] + (IF i = 0 THEN 0 ELSE sum[i - 1])
  IN  sum[n]

PolyAdd(a, b) == [c \in Exponents |-> (a[c] + b[c]) % Q]

(* mutant: X^N = 1 instead of X^N = -1                                     *)
MulSchoolbookCyclic(a, b) ==
  [c \in Exponents |-> SumOver([i \in Exponents |-> a[i] * b[(c - i) % N]], N - 1) % Q]

(* _poly_mul_schoolbook: a product of exponents i and j counts at i + j,   *)
(* or, negated, at i + j - N.                                              *)
MulSchoolbook(a, b) ==
  [c \in Exponents |->
     LET term == [i \in Exponents |->
                   IF i <= c THEN a[i] * b[c - i] ELSE -(a[i] * b[c - i + N])]
     IN  SumOver(term, N - 1) % Q]

(* _poly_mul_numpy: the full convolution, its high half folded back.       *)
Convolve(a, b) ==
  [n \in 0 .. 2 * N - 2 |->
     LET term == [i \in Exponents |->
                   IF n - i \in Exponents THEN a[i] * b[n - i] ELSE 0]
     IN  SumOver(term, N - 1)]

MulNumpy(a, b) ==
  LET conv == Convolve(a, b)
  IN  [c \in Exponents |->
         (conv[c] - (IF c < N - 1 THEN conv[c + N] ELSE 0)) % Q]

(* Which one a process uses is decided when it is started.                 *)
PolyMul(numpy, a, b) == IF numpy THEN MulNumpy(a, b) ELSE MulSchoolbook(a, b)

InnerProduct(numpy, t, r) ==
  LET product == [j \in Rank |-> PolyMul(numpy, t[j], r[j])]
  IN  [c \in Exponents |-> SumOver([j \in 0 .. K - 1 |-> product[j + 1][c]], K - 1) % Q]

ModuleMulAdd(numpy, A, s, e) ==
  [i \in Rank |-> PolyAdd(InnerProduct(numpy, A[i], s), e[i])]

-----------------------------------------------------------------------------
(* Samplers and keys.                                                      *)

(* _cbd: the two low bits minus the two high bits, lifted to 0 .. q - 1.   *)
Ones(bits) == (bits % 2) + (bits \div 2)

Cbd(seed, nonce) ==
  [c \in Exponents |->
     LET nibble == Nibbles(seed, nonce, c)
     IN  (Ones(nibble % 4) - Ones(nibble \div 4)) % Q]

CbdVector(seed, from) == [i \in Rank |-> Cbd(seed, from + i - 1)]

(* _gen_matrix_A: rejection sampling, padded with zeros if it runs dry.    *)
Accepted(candidates) ==
  LET accepted[n \in 0 .. Len(candidates)] ==
        IF n = 0 THEN << >>
        ELSE IF candidates[n] < Q THEN Append(accepted[n - 1], candidates[n])
        ELSE accepted[n - 1]
  IN  accepted[Len(candidates)]

GenMatrixA(seed) ==
  [i \in Rank |-> [j \in Rank |->
     LET accepted == Accepted(Candidates(seed, i, j))
     IN  [c \in Exponents |-> IF c < Len(accepted) THEN accepted[c + 1] ELSE 0]]]

(* LWEKeyPair and what LWEPublicKey rebuilds from its bytes: seed and t.   *)
PublicKey(numpy, seed) ==
  [seed |-> seed,
   t |-> ModuleMulAdd(numpy, GenMatrixA(seed), CbdVector(seed, 0),
                      CbdVector(seed, K))]

-----------------------------------------------------------------------------
(* encode_amount: one bit for each coefficient; ValueError outside.        *)
PowersOfTwo[c \in 0 .. AmountBits] == IF c = 0 THEN 1 ELSE 2 * PowersOfTwo[c - 1]

Domain == 0 .. PowersOfTwo[AmountBits] - 1

(* amount >> c.                                                            *)
Shifted(amount) ==
  LET shifted[c \in 0 .. AmountBits] ==
        IF c = 0 THEN amount ELSE shifted[c - 1] \div 2
  IN  shifted

(* mutant: half of the width, as before the change the source mentions     *)
EncodeNarrow(amount) ==
  [c \in Exponents |->
     IF c < AmountBits \div 2 /\ Shifted(amount)[c] % 2 = 1 THEN Q \div 2 ELSE 0]

Encode(amount) ==
  [c \in Exponents |->
     IF c < AmountBits /\ Shifted(amount)[c] % 2 = 1 THEN Q \div 2 ELSE 0]

Transposed(A) == [i \in Rank |-> [j \in Rank |-> A[j][i]]]

(* _commit_core.                                                           *)
CommitCore(numpy, A, t, amount, seed) ==
  LET r == CbdVector(seed, 0)
      v == PolyAdd(InnerProduct(numpy, t, r), Cbd(seed, 2 * K))
  IN  [u |-> ModuleMulAdd(numpy, Transposed(A), r, CbdVector(seed, K)),
       v |-> PolyAdd(v, Encode(amount))]
=============================================================================
