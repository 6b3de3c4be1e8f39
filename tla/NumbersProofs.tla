--------------------------- MODULE NumbersProofs ---------------------------
(***************************************************************************)
(* Lemmas about Numbers, for any widths: powers of two, division, numbers  *)
(* as bits, and conversions.  The induction theorems of the library need   *)
(* an operator as a parameter; a set does as well, and what a recursive    *)
(* definition computes follows by induction from the function that it      *)
(* chooses.                                                                *)
(***************************************************************************)
EXTENDS Numbers, WellFoundedInduction, TLAPS

-----------------------------------------------------------------------------
(* Induction and recursion *)

(* A set with 0 and the successor of each of its numbers holds all numbers.   *)
LEMMA Induction ==
  ASSUME NEW P, 0 \in P, \A n \in Nat : n \in P => n + 1 \in P
  PROVE  Nat \subseteq P
<1>. SUFFICES ASSUME Nat \ P # {} PROVE FALSE
  OBVIOUS
<1>1. PICK x \in Nat \ P : \A y \in Nat \ P : <<y, x>> \notin OpToRel(<, Nat)
  BY WFMin, NatLessThanWellFounded
<1>2. x - 1 \in Nat /\ x - 1 < x
  OBVIOUS
<1>3. <<x - 1, x>> \in Nat \X Nat /\ <<x - 1, x>>[1] < <<x - 1, x>>[2]
  BY <1>2
<1>4. x - 1 \in P
  BY <1>1, <1>2, <1>3 DEF OpToRel
<1>. QED  BY <1>2, <1>4

IsRec(f, a, F) == f[0] = a /\ \A n \in Nat : f[n + 1] = F[<<n, f[n]>>]

(* A function can be defined by its first value and the next from each.       *)
LEMMA Recursion ==
  ASSUME NEW S, NEW a \in S, NEW F \in [Nat \X S -> S]
  PROVE  \E f \in [Nat -> S] : IsRec(f, a, F)
<1>. DEFINE G(n) == {g \in [0..n -> S] : g[0] = a /\ \A i \in 0..(n - 1) : g[i + 1] = F[<<i, g[i]>>]}
            P == {n \in Nat : G(n) # {}}
<1>1. Nat \subseteq P
  <2>1. 0 \in P
    <3>1. [i \in 0..0 |-> a] \in G(0)
      OBVIOUS
    <3>. QED  BY <3>1
  <2>2. ASSUME NEW n \in Nat, n \in P PROVE n + 1 \in P
    <3>1. PICK g \in [0..n -> S] : g[0] = a /\ \A i \in 0..(n - 1) : g[i + 1] = F[<<i, g[i]>>]
      BY <2>2
    <3>. DEFINE h == [i \in 0..(n + 1) |-> IF i = n + 1 THEN F[<<n, g[n]>>] ELSE g[i]]
    <3>2. h \in [0..(n + 1) -> S]
      OBVIOUS
    <3>3. h[0] = a
      BY <3>1
    <3>4. ASSUME NEW i \in 0..n PROVE h[i + 1] = F[<<i, h[i]>>]
      <4>1. h[i] = g[i] /\ i + 1 \in 0..(n + 1)
        OBVIOUS
      <4>2. CASE i = n
        BY <4>1, <4>2
      <4>3. CASE i # n
        <5>1. i \in 0..(n - 1) /\ h[i + 1] = g[i + 1]
          BY <4>1, <4>3
        <5>. QED  BY <3>1, <4>1, <5>1
      <4>. QED  BY <4>2, <4>3
    <3>. HIDE DEF h
    <3>5. \A i \in 0..(n + 1 - 1) : h[i + 1] = F[<<i, h[i]>>]
      <4>1. 0..(n + 1 - 1) = 0..n
        OBVIOUS
      <4>. QED  BY <3>4, <4>1
    <3>6. h \in G(n + 1)
      BY <3>2, <3>3, <3>5
    <3>. QED  BY <3>6
  <2>. HIDE DEF P
  <2>. QED  BY <2>1, <2>2, Induction
<1>. DEFINE g(n) == CHOOSE g \in G(n) : TRUE
            f == [n \in Nat |-> g(n)[n]]
<1>2. \A n \in Nat : g(n) \in G(n)
  <2>1. \A n \in Nat : G(n) # {}
    BY <1>1
  <2>. HIDE DEF G
  <2>. QED BY <2>1
<1>3. \A n \in Nat : /\ g(n) \in [0..n -> S] /\ g(n)[0] = a
                     /\ \A i \in 0..(n - 1) : g(n)[i + 1] = F[<<i, g(n)[i]>>]
  <2>. HIDE DEF g
  <2>. QED BY <1>2
<1>. HIDE DEF g, P
<1>4. ASSUME NEW n \in Nat PROVE \A i \in 0..n : g(n)[i] = g(n + 1)[i]
  <2>. DEFINE Q == {i \in Nat : i <= n => g(n)[i] = g(n + 1)[i]}
  <2>1. 0 \in Q
    BY <1>3
  <2>2. ASSUME NEW i \in Nat, i \in Q PROVE i + 1 \in Q
    <3>. SUFFICES ASSUME i + 1 <= n PROVE g(n)[i + 1] = g(n + 1)[i + 1]
      OBVIOUS
    <3>1. g(n)[i] = g(n + 1)[i]
      BY <2>2
    <3>2. i \in 0..(n - 1) /\ i \in 0..((n + 1) - 1) /\ n + 1 \in Nat
      OBVIOUS
    <3>3. g(n)[i + 1] = F[<<i, g(n)[i]>>]
      BY <1>3, <3>2
    <3>4. g(n + 1)[i + 1] = F[<<i, g(n + 1)[i]>>]
      BY <1>3, <3>2
    <3>. QED  BY <3>1, <3>3, <3>4
  <2>. HIDE DEF Q
  <2>3. Nat \subseteq Q
    BY <2>1, <2>2, Induction
  <2>. QED  BY <2>3 DEF Q
<1>5. f \in [Nat -> S] /\ f[0] = a
  BY <1>3
<1>6. ASSUME NEW n \in Nat PROVE f[n + 1] = F[<<n, f[n]>>]
  <2>1. f[n + 1] = g(n + 1)[n + 1] /\ f[n] = g(n)[n]
    OBVIOUS
  <2>2. g(n + 1)[n + 1] = F[<<n, g(n + 1)[n]>>]
    BY <1>3
  <2>. QED  BY <1>4, <2>1, <2>2
<1>. HIDE DEF f
<1>. QED  BY <1>5, <1>6 DEF IsRec

-----------------------------------------------------------------------------
(* Powers of two *)

(* Pow2 is what its definition says.                                          *)
LEMMA Powers ==
  /\ Pow2 \in [Nat -> Nat] /\ Pow2[0] = 1 /\ \A i \in Nat : Pow2[i + 1] = 2 * Pow2[i]
<1>. DEFINE F == [p \in Nat \X Nat |-> 2 * p[2]]
            Eq(f) == f = [i \in Nat |-> IF i = 0 THEN 1 ELSE 2 * f[i - 1]]
<1>1. PICK f \in [Nat -> Nat] : IsRec(f, 1, F)
  <2>1. F \in [Nat \X Nat -> Nat]
    OBVIOUS
  <2>. HIDE DEF F
  <2>. QED  BY <2>1, Recursion
<1>2. f[0] = 1 /\ \A n \in Nat : f[n + 1] = 2 * f[n]
  BY <1>1 DEF IsRec
<1>3. Eq(f)
  <2>1. \A i \in Nat : f[i] = IF i = 0 THEN 1 ELSE 2 * f[i - 1]
    <3>. TAKE i \in Nat
    <3>1. CASE i # 0
      <4>1. i - 1 \in Nat /\ (i - 1) + 1 = i
        BY <3>1
      <4>. QED  BY <1>2, <4>1, <3>1
    <3>. QED  BY <1>2, <3>1
  <2>. QED  BY <2>1
<1>4. Pow2 = CHOOSE h : Eq(h)
  BY DEF Pow2
<1>5. Eq(Pow2)
  <2>. HIDE DEF Eq
  <2>. QED BY <1>3, <1>4
<1>6. Pow2[0] = 1 /\ \A i \in Nat : Pow2[i + 1] = 2 * Pow2[i]
  BY <1>5
<1>7. Pow2 \in [Nat -> Nat]
  <2>. DEFINE Q == {i \in Nat : Pow2[i] \in Nat}
  <2>1. Nat \subseteq Q
    <3>1. 0 \in Q /\ \A n \in Nat : n \in Q => n + 1 \in Q
      BY <1>6
    <3>. HIDE DEF Q
    <3>. QED  BY <3>1, Induction
  <2>2. Pow2 = [i \in Nat |-> Pow2[i]]
    BY <1>5
  <2>. QED  BY <2>1, <2>2
<1>. QED  BY <1>6, <1>7

(* A power is a positive number, no smaller than that of a smaller exponent.  *)
LEMMA PowerTypes ==
  /\ \A i \in Nat : Pow2[i] \in Nat /\ Pow2[i] >= 1
  /\ \A i \in Nat \ {0} : Pow2[i] = 2 * Pow2[i - 1] /\ Pow2[i - 1] \in Nat /\ Pow2[i - 1] >= 1
<1>. DEFINE P == {i \in Nat : Pow2[i] \in Nat /\ Pow2[i] >= 1}
<1>1. 0 \in P /\ \A i \in Nat : i \in P => i + 1 \in P
  BY Powers
<1>. HIDE DEF P
<1>2. Nat \subseteq P
  BY <1>1, Induction
<1>3. \A i \in Nat : Pow2[i] \in Nat /\ Pow2[i] >= 1
  BY <1>2 DEF P
<1>4. ASSUME NEW i \in Nat \ {0} PROVE Pow2[i] = 2 * Pow2[i - 1] /\ i - 1 \in Nat
  <2>1. i - 1 \in Nat /\ (i - 1) + 1 = i
    OBVIOUS
  <2>. QED  BY <2>1, Powers
<1>. QED  BY <1>3, <1>4

(* The power of a sum is a product.                                           *)
LEMMA PowerOfSum ==
  ASSUME NEW i \in Nat, NEW j \in Nat
  PROVE  Pow2[i + j] = Pow2[i] * Pow2[j]
<1>. DEFINE P == {n \in Nat : Pow2[i + n] = Pow2[i] * Pow2[n]}
<1>1. 0 \in P
  BY Powers, PowerTypes
<1>2. ASSUME NEW n \in Nat, n \in P PROVE n + 1 \in P
  <2>1. Pow2[i + n] = Pow2[i] * Pow2[n]
    BY <1>2
  <2>2. Pow2[(i + n) + 1] = 2 * Pow2[i + n] /\ Pow2[n + 1] = 2 * Pow2[n]
    BY Powers
  <2>3. i + (n + 1) = (i + n) + 1
    OBVIOUS
  <2>4. \A a, b \in Nat : 2 * (a * b) = a * (2 * b)
    OBVIOUS
  <2>5. 2 * (Pow2[i] * Pow2[n]) = Pow2[i] * (2 * Pow2[n])
    BY <2>4, PowerTypes
  <2>6. Pow2[i + (n + 1)] = Pow2[i] * Pow2[n + 1]
    BY <2>1, <2>2, <2>3, <2>5
  <2>. QED  BY <2>6
<1>. HIDE DEF P
<1>3. Nat \subseteq P
  BY <1>1, <1>2, Induction
<1>. QED  BY <1>3 DEF P

LEMMA PowerGrows ==
  ASSUME NEW i \in Nat, NEW j \in Nat, i <= j
  PROVE  /\ Pow2[i] <= Pow2[j]
         /\ \E n \in Nat : n >= 1 /\ Pow2[j] = Pow2[i] * n
<1>1. j - i \in Nat /\ i + (j - i) = j
  OBVIOUS
<1>2. Pow2[j] = Pow2[i] * Pow2[j - i]
  BY <1>1, PowerOfSum
<1>3. Pow2[j - i] \in Nat /\ Pow2[j - i] >= 1 /\ Pow2[i] \in Nat
  BY <1>1, PowerTypes
<1>4. \A a \in Nat, n \in Nat : n >= 1 => a <= a * n
  OBVIOUS
<1>. QED  BY <1>2, <1>3, <1>4

-----------------------------------------------------------------------------
(* Division *)

(* Quotient and remainder of the division by a positive number, and what      *)
(* makes a pair of numbers these.                                             *)
LEMMA Division ==
  ASSUME NEW K \in Nat, K >= 1, NEW x \in Int
  PROVE  /\ x \div K \in Int /\ x % K \in 0..(K - 1)
         /\ x = (K * (x \div K)) + (x % K)
  OBVIOUS

LEMMA DivisionUnique ==
  ASSUME NEW K \in Nat, K >= 1, NEW q \in Int, NEW r \in 0..(K - 1)
  PROVE  ((K * q) + r) \div K = q /\ ((K * q) + r) % K = r
<1>. DEFINE x == (K * q) + r
<1>1. x \in Int
  OBVIOUS
<1>2. x \div K = q
  OBVIOUS
<1>3. x = (K * (x \div K)) + (x % K) /\ x % K \in Int
  BY <1>1, Division
<1>. HIDE DEF x
<1>4. K * q \in Int /\ r \in Int
  OBVIOUS
<1>5. x = (K * q) + (x % K)
  BY <1>2, <1>3
<1>6. x % K = r
  BY <1>4, <1>5, <1>3 DEF x
<1>. QED  BY <1>2, <1>6 DEF x

(* Multiples do not change a remainder.                                       *)
LEMMA Multiple ==
  ASSUME NEW K \in Nat, K >= 1, NEW x \in Int, NEW n \in Int
  PROVE  (x + (K * n)) % K = x % K /\ (x + (K * n)) \div K = (x \div K) + n
<1>. DEFINE q == x \div K
            r == x % K
<1>1. q \in Int /\ r \in 0..(K - 1) /\ x = (K * q) + r
  BY Division
<1>. HIDE DEF q, r
<1>2. x + (K * n) = (K * (q + n)) + r
  BY <1>1
<1>3. q + n \in Int
  BY <1>1
<1>4. ((K * (q + n)) + r) \div K = q + n /\ ((K * (q + n)) + r) % K = r
  BY <1>1, <1>3, DivisionUnique
<1>. QED  BY <1>2, <1>4 DEF q, r

(* Remainders of the division by K and by a multiple of it.                   *)
LEMMA RemainderOfRemainder ==
  ASSUME NEW K \in Nat, K >= 1, NEW n \in Nat, n >= 1, NEW x \in Int
  PROVE  (x % (K * n)) % K = x % K
<1>1. PICK M \in Nat : M = K * n /\ M >= 1
  OBVIOUS
<1>. DEFINE q == x \div M
            r == x % M
<1>2. q \in Int /\ r \in Int /\ x = (M * q) + r
  <2>1. M >= 1
    BY <1>1
  <2>2. x \div M \in Int /\ x % M \in 0..(M - 1) /\ x = (M * (x \div M)) + (x % M)
    BY <2>1, Division
  <2>. QED  BY <2>2
<1>. HIDE DEF q, r
<1>3. M * q = K * (n * q) /\ n * q \in Int
  BY <1>1, <1>2
<1>4. (r + (K * (n * q))) % K = r % K
  BY <1>2, <1>3, Multiple
<1>5. x = r + (K * (n * q))
  <2>1. M * q \in Int
    BY <1>2
  <2>. QED  BY <1>2, <1>3, <2>1
<1>. QED  BY <1>1, <1>4, <1>5 DEF r

(* Numbers have the same remainder when and only when they differ by a        *)
(* multiple.                                                                  *)
LEMMA SameRemainder ==
  ASSUME NEW K \in Nat, K >= 1, NEW x \in Int, NEW y \in Int, x % K = y % K
  PROVE  \E n \in Int : x = y + (K * n)
<1>. DEFINE a == x \div K
            b == y \div K
            r == x % K
<1>1. a \in Int /\ b \in Int /\ r \in Int /\ x = (K * a) + r /\ y = (K * b) + r
  BY Division
<1>. HIDE DEF a, b, r
<1>2. x = y + (K * (a - b)) /\ a - b \in Int
  BY <1>1
<1>. QED  BY <1>2

-----------------------------------------------------------------------------
(* Numbers as bits *)

(* The recursion in ValueOf, whatever the bits, up to w of them.              *)
LEMMA ValueSteps ==
  ASSUME NEW w \in Nat, NEW b, \A i \in 1..w : b[i] \in Int
  PROVE  /\ ValueOf(b, 0) = 0
         /\ \A u \in 0..w : ValueOf(b, u) \in Int
         /\ \A u \in 1..w : ValueOf(b, u) = ValueOf(b, u - 1) + Pow2[u - 1] * b[u]
<1>. DEFINE F == [p \in Nat \X Int |-> IF p[1] < w THEN p[2] + Pow2[p[1]] * b[p[1] + 1] ELSE 0]
<1>1. PICK f \in [Nat -> Int] : IsRec(f, 0, F)
  <2>1. ASSUME NEW i \in Nat, NEW v \in Int, i < w PROVE v + Pow2[i] * b[i + 1] \in Int
    <3>1. Pow2[i] \in Int /\ b[i + 1] \in Int
      BY <2>1, PowerTypes
    <3>. QED  BY <3>1
  <2>2. F \in [Nat \X Int -> Int]
    BY <2>1
  <2>3. 0 \in Int
    OBVIOUS
  <2>. HIDE DEF F
  <2>. QED  BY <2>2, <2>3, Recursion, Zenon
<1>2. f[0] = 0
  BY <1>1 DEF IsRec
<1>3. ASSUME NEW u \in 1..w PROVE f[u] = f[u - 1] + Pow2[u - 1] * b[u]
  <2>1. u - 1 \in Nat /\ (u - 1) + 1 = u /\ u - 1 < w
    OBVIOUS
  <2>2. f[(u - 1) + 1] = F[<<u - 1, f[u - 1]>>]
    BY <1>1, <2>1 DEF IsRec
  <2>3. <<u - 1, f[u - 1]>> \in Nat \X Int
    BY <2>1
  <2>. QED  BY <2>1, <2>2, <2>3
<1>. HIDE DEF F
<1>4. ASSUME NEW u \in 0..w PROVE ValueOf(b, u) = f[u]
  <2>. DEFINE Eq(g) == g = [i \in 0..u |-> IF i = 0 THEN 0 ELSE g[i - 1] + Pow2[i - 1] * b[i]]
              low == CHOOSE g : Eq(g)
  <2>1. ValueOf(b, u) = low[u]
    BY DEF ValueOf
  <2>2. Eq([i \in 0..u |-> f[i]])
    <3>1. ASSUME NEW i \in 0..u
          PROVE  f[i] = IF i = 0 THEN 0 ELSE [j \in 0..u |-> f[j]][i - 1] + Pow2[i - 1] * b[i]
      <4>1. CASE i = 0
        BY <1>2, <4>1
      <4>2. CASE i # 0
        <5>1. i \in 1..w /\ i - 1 \in 0..u
          BY <4>2
        <5>. QED  BY <1>3, <4>2, <5>1
      <4>. QED  BY <4>1, <4>2
    <3>. QED  BY <3>1
  <2>3. Eq(low)
    <3>. HIDE DEF Eq
    <3>. QED  BY <2>2
  <2>. HIDE DEF low
  <2>. DEFINE P == {i \in Nat : i <= u => low[i] = f[i]}
  <2>4. 0 \in P
    BY <1>2, <2>3
  <2>5. ASSUME NEW i \in Nat, i \in P PROVE i + 1 \in P
    <3>. SUFFICES ASSUME i + 1 <= u PROVE low[i + 1] = f[i + 1]
      OBVIOUS
    <3>1. i + 1 \in 0..u /\ i + 1 \in 1..w /\ i + 1 # 0 /\ (i + 1) - 1 = i
      OBVIOUS
    <3>2. low[i + 1] = low[i] + Pow2[i] * b[i + 1]
      BY <2>3, <3>1
    <3>3. f[i + 1] = f[i] + Pow2[i] * b[i + 1]
      BY <1>3, <3>1
    <3>4. low[i] = f[i]
      BY <2>5
    <3>. QED  BY <3>2, <3>3, <3>4
  <2>. HIDE DEF P
  <2>6. Nat \subseteq P
    BY <2>4, <2>5, Induction
  <2>. QED  BY <2>1, <2>6 DEF P
<1>5. \A u \in 0..w : ValueOf(b, u) \in Int
  BY <1>4
<1>6. ASSUME NEW u \in 1..w PROVE ValueOf(b, u) = ValueOf(b, u - 1) + Pow2[u - 1] * b[u]
  <2>1. u \in 0..w /\ u - 1 \in 0..w
    OBVIOUS
  <2>. QED  BY <1>3, <1>4, <2>1
<1>7. ValueOf(b, 0) = 0
  BY <1>2, <1>4
<1>. QED  BY <1>5, <1>6, <1>7

(* Numbers whose lowest bits agree agree on them.                             *)
LEMMA ValueOfSame ==
  ASSUME NEW w \in Nat, NEW b, NEW c, \A i \in 1..w : b[i] \in Int /\ b[i] = c[i]
  PROVE  ValueOf(b, w) = ValueOf(c, w)
<1>. DEFINE P == {u \in Nat : u <= w => ValueOf(b, u) = ValueOf(c, u)}
<1>1. 0 \in P
  BY ValueSteps
<1>2. ASSUME NEW u \in Nat, u \in P PROVE u + 1 \in P
  <2>. SUFFICES ASSUME u + 1 <= w PROVE ValueOf(b, u + 1) = ValueOf(c, u + 1)
    OBVIOUS
  <2>1. u + 1 \in 1..w /\ (u + 1) - 1 = u
    OBVIOUS
  <2>2. ValueOf(b, u + 1) = ValueOf(b, u) + Pow2[u] * b[u + 1]
    BY <2>1, ValueSteps
  <2>3. ValueOf(c, u + 1) = ValueOf(c, u) + Pow2[u] * c[u + 1]
    BY <2>1, ValueSteps
  <2>4. ValueOf(b, u) = ValueOf(c, u) /\ b[u + 1] = c[u + 1]
    BY <1>2, <2>1
  <2>. QED  BY <2>2, <2>3, <2>4
<1>. HIDE DEF P
<1>3. Nat \subseteq P
  BY <1>1, <1>2, Induction
<1>. QED  BY <1>3 DEF P

(* A number of w bits is below the power of w, and its low bits are its       *)
(* remainder.                                                                 *)
LEMMA ValueRange ==
  ASSUME NEW w \in Nat, NEW b, \A i \in 1..w : b[i] \in {0, 1}
  PROVE  \A u \in 0..w : ValueOf(b, u) \in 0..(Pow2[u] - 1)
<1>. DEFINE P == {u \in Nat : u <= w => ValueOf(b, u) \in 0..(Pow2[u] - 1)}
<1>1. 0 \in P
  <2>1. ValueOf(b, 0) = 0
    BY ValueSteps
  <2>2. Pow2[0] - 1 = 0
    BY Powers
  <2>. QED  BY <2>1, <2>2
<1>2. ASSUME NEW u \in Nat, u \in P PROVE u + 1 \in P
  <2>. SUFFICES ASSUME u + 1 <= w PROVE ValueOf(b, u + 1) \in 0..(Pow2[u + 1] - 1)
    OBVIOUS
  <2>1. u + 1 \in 1..w /\ (u + 1) - 1 = u
    OBVIOUS
  <2>2. ValueOf(b, u + 1) = ValueOf(b, u) + Pow2[u] * b[u + 1]
    BY <2>1, ValueSteps
  <2>3. Pow2[u] \in Nat /\ Pow2[u + 1] = 2 * Pow2[u] /\ b[u + 1] \in {0, 1}
    BY <2>1, PowerTypes, Powers
  <2>4. ValueOf(b, u) \in 0..(Pow2[u] - 1)
    BY <1>2, <2>1
  <2>. QED  BY <2>2, <2>3, <2>4
<1>. HIDE DEF P
<1>3. Nat \subseteq P
  BY <1>1, <1>2, Induction
<1>. QED  BY <1>3 DEF P

LEMMA LowBits ==
  ASSUME NEW w \in Nat, NEW b, \A i \in 1..w : b[i] \in {0, 1}, NEW u \in 0..w
  PROVE  ValueOf(b, u) = ValueOf(b, w) % Pow2[u]
<1>. DEFINE P == {n \in Nat : u + n <= w => ValueOf(b, u) = ValueOf(b, u + n) % Pow2[u]}
<1>1. \A n \in 0..w : ValueOf(b, n) \in 0..(Pow2[n] - 1) /\ ValueOf(b, n) \in Int
  BY ValueRange
<1>2. Pow2[u] \in Nat /\ Pow2[u] >= 1
  BY PowerTypes
<1>3. 0 \in P
  <2>1. \A K \in Nat : \A v \in 0..(K - 1) : v % K = v
    OBVIOUS
  <2>. QED  BY <1>1, <1>2, <2>1
<1>4. ASSUME NEW n \in Nat, n \in P PROVE n + 1 \in P
  <2>. SUFFICES ASSUME u + (n + 1) <= w PROVE ValueOf(b, u) = ValueOf(b, u + (n + 1)) % Pow2[u]
    OBVIOUS
  <2>1. u + (n + 1) \in 1..w /\ u + n \in 0..w /\ (u + (n + 1)) - 1 = u + n
    OBVIOUS
  <2>2. ValueOf(b, u + (n + 1)) = ValueOf(b, u + n) + Pow2[u + n] * b[u + (n + 1)]
    BY <2>1, ValueSteps
  <2>3. Pow2[u + n] = Pow2[u] * Pow2[n] /\ Pow2[n] \in Nat
    BY PowerOfSum, PowerTypes
  <2>4. PICK d \in {0, 1} : d = b[u + (n + 1)]
    BY <2>1
  <2>5. (Pow2[u] * Pow2[n]) * d = Pow2[u] * (Pow2[n] * d) /\ Pow2[n] * d \in Int
    BY <1>2, <2>3
  <2>6. (ValueOf(b, u + n) + (Pow2[u] * (Pow2[n] * d))) % Pow2[u] = ValueOf(b, u + n) % Pow2[u]
    BY <1>1, <1>2, <2>1, <2>5, Multiple
  <2>7. ValueOf(b, u) = ValueOf(b, u + n) % Pow2[u]
    BY <1>4, <2>1
  <2>. QED  BY <2>2, <2>3, <2>4, <2>5, <2>6, <2>7
<1>. HIDE DEF P
<1>5. Nat \subseteq P
  BY <1>3, <1>4, Induction
<1>6. w - u \in Nat /\ u + (w - u) = w
  OBVIOUS
<1>. QED  BY <1>5, <1>6 DEF P

(* A bit is 0 or 1, and the bits of a number below w make its remainder.      *)
LEMMA BitType ==
  ASSUME NEW v \in Int, NEW i \in Nat
  PROVE  Bit(v, i) \in {0, 1}
<1>1. v \div Pow2[i] \in Int
  BY PowerTypes, Division
<1>. QED  BY <1>1 DEF Bit

LEMMA ValueOfBits ==
  ASSUME NEW w \in Nat, NEW v \in Int
  PROVE  ValueOf([i \in 1..w |-> Bit(v, i - 1)], w) = v % Pow2[w]
<1>. DEFINE b == [i \in 1..w |-> Bit(v, i - 1)]
            P == {u \in Nat : u <= w => ValueOf(b, u) = v % Pow2[u]}
<1>1. \A i \in 1..w : b[i] \in {0, 1} /\ b[i] \in Int
  BY BitType
<1>2. 0 \in P
  <2>1. v % 1 = 0
    OBVIOUS
  <2>. HIDE DEF b
  <2>. QED  BY <1>1, <2>1, ValueSteps, Powers
<1>3. ASSUME NEW u \in Nat, u \in P PROVE u + 1 \in P
  <2>. SUFFICES ASSUME u + 1 <= w PROVE ValueOf(b, u + 1) = v % Pow2[u + 1]
    OBVIOUS
  <2>1. u + 1 \in 1..w /\ (u + 1) - 1 = u
    OBVIOUS
  <2>2. b[u + 1] = (v \div Pow2[u]) % 2
    BY <2>1 DEF Bit
  <2>. HIDE DEF b
  <2>3. ValueOf(b, u + 1) = ValueOf(b, u) + Pow2[u] * b[u + 1]
    BY <1>1, <2>1, ValueSteps
  <2>4. ValueOf(b, u) = v % Pow2[u]
    BY <1>3, <2>1
  <2>. DEFINE K == Pow2[u]
              q == v \div K
  <2>5. K \in Nat /\ K >= 1 /\ Pow2[u + 1] = K * 2
    BY PowerTypes, Powers
  <2>. HIDE DEF K
  <2>6. q \in Int /\ v % K \in 0..(K - 1) /\ v = (K * q) + (v % K)
    BY <2>5, Division
  <2>. HIDE DEF q
  <2>7. q \div 2 \in Int /\ q % 2 \in {0, 1} /\ q = (2 * (q \div 2)) + (q % 2)
    BY <2>6
  <2>8. PICK h \in Int, d \in {0, 1}, r \in 0..(K - 1) :
          h = q \div 2 /\ d = q % 2 /\ r = v % K
    BY <2>6, <2>7
  <2>9. v = ((K * 2) * h) + ((K * d) + r)
    <3>1. v = (K * ((2 * h) + d)) + r
      BY <2>6, <2>7, <2>8
    <3>2. K * ((2 * h) + d) = ((K * 2) * h) + (K * d)
      BY <2>5
    <3>3. (K * 2) * h \in Int /\ K * d \in Int
      BY <2>5
    <3>. QED  BY <3>1, <3>2, <3>3
  <2>10. (K * d) + r \in 0..((K * 2) - 1) /\ K * 2 \in Nat /\ K * 2 >= 1
    BY <2>5
  <2>11. (((K * 2) * h) + ((K * d) + r)) % (K * 2) = (K * d) + r
    BY <2>10, DivisionUnique
  <2>12. v % Pow2[u + 1] = (K * d) + r
    BY <2>5, <2>9, <2>11
  <2>13. ValueOf(b, u + 1) = r + (K * d)
    BY <2>2, <2>3, <2>4, <2>8 DEF K, q
  <2>14. K * d \in Int
    BY <2>5
  <2>. QED  BY <2>12, <2>13, <2>14
<1>. HIDE DEF P
<1>4. Nat \subseteq P
  BY <1>2, <1>3, Induction
<1>. QED  BY <1>4 DEF P

-----------------------------------------------------------------------------
(* Conversions *)

(* A conversion to w bits yields a signed number of w bits with these bits.   *)
LEMMA ConvertFacts ==
  ASSUME NEW w \in Nat \ {0}, NEW v \in Int
  PROVE  /\ Convert(v, w) \in Int
         /\ -Pow2[w - 1] <= Convert(v, w) /\ Convert(v, w) < Pow2[w - 1]
         /\ Convert(v, w) % Pow2[w] = v % Pow2[w]
<1>. DEFINE H == Pow2[w - 1]
            K == Pow2[w]
            q == (v + H) \div K
            r == (v + H) % K
<1>1. H \in Nat /\ H >= 1 /\ K \in Nat /\ K >= 1 /\ K = 2 * H
  BY PowerTypes
<1>2. Convert(v, w) = r - H
  BY DEF Convert
<1>. HIDE DEF H, K
<1>3. q \in Int /\ r \in 0..(K - 1) /\ v + H = (K * q) + r
  <2>1. v + H \in Int
    BY <1>1
  <2>. QED  BY <1>1, <2>1, Division
<1>. HIDE DEF q, r
<1>4. K * (-q) = -(K * q) /\ K * q \in Int
  BY <1>1, <1>3
<1>5. r - H = v + (K * (-q)) /\ -q \in Int
  BY <1>1, <1>3, <1>4
<1>6. (v + (K * (-q))) % K = v % K
  BY <1>1, <1>5, Multiple
<1>7. r - H \in Int /\ -H <= r - H /\ r - H < H
  BY <1>1, <1>3
<1>. QED  BY <1>2, <1>5, <1>6, <1>7 DEF H, K

(* Numbers with the same low bits are converted to the same.                  *)
LEMMA ConvertSame ==
  ASSUME NEW w \in Nat \ {0}, NEW u \in Int, NEW v \in Int, u % Pow2[w] = v % Pow2[w]
  PROVE  Convert(u, w) = Convert(v, w)
<1>. DEFINE H == Pow2[w - 1]
            K == Pow2[w]
<1>1. H \in Nat /\ K \in Nat /\ K >= 1
  BY PowerTypes
<1>2. u % K = v % K
  OBVIOUS
<1>3. Convert(u, w) = ((u + H) % K) - H /\ Convert(v, w) = ((v + H) % K) - H
  BY DEF Convert
<1>. HIDE DEF H, K
<1>4. PICK n \in Int : u = v + (K * n)
  BY <1>1, <1>2, SameRemainder
<1>5. K * n \in Int
  BY <1>1
<1>6. u + H = (v + H) + (K * n)
  BY <1>1, <1>4, <1>5
<1>7. ((v + H) + (K * n)) % K = (v + H) % K
  <2>1. v + H \in Int
    BY <1>1
  <2>. QED  BY <1>1, <2>1, Multiple
<1>. QED  BY <1>3, <1>6, <1>7

(* A number fits when and only when it is in the range of its width.          *)
LEMMA FitsRange ==
  ASSUME NEW w \in Nat \ {0}, NEW v \in Int
  PROVE  Fits(v, w) <=> (-Pow2[w - 1] <= v /\ v < Pow2[w - 1])
<1>. DEFINE H == Pow2[w - 1]
            K == Pow2[w]
<1>1. H \in Nat /\ H >= 1 /\ K \in Nat /\ K >= 1 /\ K = 2 * H
  BY PowerTypes
<1>2. Convert(v, w) = ((v + H) % K) - H
  BY DEF Convert
<1>3. ASSUME Fits(v, w) PROVE -H <= v /\ v < H
  BY <1>3, ConvertFacts DEF Fits
<1>4. ASSUME -H <= v, v < H PROVE Fits(v, w)
  <2>. HIDE DEF H, K
  <2>1. v + H \in 0..(K - 1) /\ \A x \in 0..(K - 1) : x % K = x
    BY <1>1, <1>4
  <2>2. (v + H) % K = v + H
    BY <2>1
  <2>. QED  BY <1>1, <1>2, <2>2 DEF Fits
<1>. QED  BY <1>3, <1>4

(* Converting twice, to a narrower type at last.                              *)
LEMMA ConvertNarrower ==
  ASSUME NEW w \in Nat \ {0}, NEW n \in Nat, w <= n, NEW v \in Int
  PROVE  /\ Convert(Convert(v, n), w) = Convert(v, w)
         /\ Convert(v % Pow2[n], w) = Convert(v, w)
<1>1. Pow2[w] \in Nat /\ Pow2[w] >= 1 /\ Pow2[n] \in Nat /\ Pow2[n] >= 1
  BY PowerTypes
<1>2. PICK m \in Nat : m >= 1 /\ Pow2[n] = Pow2[w] * m
  BY PowerGrows
<1>3. ASSUME NEW u \in Int PROVE (u % Pow2[n]) % Pow2[w] = u % Pow2[w]
  BY <1>1, <1>2, RemainderOfRemainder
<1>4. Convert(v, n) \in Int /\ Convert(v, n) % Pow2[n] = v % Pow2[n]
  BY ConvertFacts
<1>5. Convert(v, n) % Pow2[w] = v % Pow2[w]
  <2>1. (Convert(v, n) % Pow2[n]) % Pow2[w] = Convert(v, n) % Pow2[w]
    BY <1>3, <1>4
  <2>2. (v % Pow2[n]) % Pow2[w] = v % Pow2[w]
    BY <1>3
  <2>. QED  BY <1>4, <2>1, <2>2
<1>6. Convert(Convert(v, n), w) = Convert(v, w)
  BY <1>4, <1>5, ConvertSame
<1>7. v % Pow2[n] \in Int
  BY <1>1, Division
<1>8. Convert(v % Pow2[n], w) = Convert(v, w)
  BY <1>3, <1>7, ConvertSame
<1>. QED  BY <1>6, <1>8

(* What fits in a type fits in a wider one, and a conversion fits in its own. *)
LEMMA FitsWider ==
  ASSUME NEW w \in Nat \ {0}, NEW n \in Nat, w <= n, NEW v \in Int, Fits(v, w)
  PROVE  Fits(v, n)
<1>1. w - 1 \in Nat /\ n - 1 \in Nat /\ w - 1 <= n - 1 /\ n \in Nat \ {0}
  OBVIOUS
<1>2. Pow2[w - 1] <= Pow2[n - 1] /\ Pow2[w - 1] \in Nat /\ Pow2[n - 1] \in Nat
  BY <1>1, PowerGrows, PowerTypes
<1>3. -Pow2[w - 1] <= v /\ v < Pow2[w - 1]
  BY FitsRange
<1>4. -Pow2[n - 1] <= v /\ v < Pow2[n - 1]
  BY <1>2, <1>3
<1>. QED  BY <1>1, <1>4, FitsRange

LEMMA ConvertFits ==
  ASSUME NEW w \in Nat \ {0}, NEW v \in Int
  PROVE  Fits(Convert(v, w), w)
BY ConvertFacts, ConvertSame DEF Fits

(* A number that is not negative fits in more bits than it has.               *)
LEMMA FitsNatural ==
  ASSUME NEW w \in Nat \ {0}, NEW n \in Nat, n < w, NEW v \in 0..(Pow2[n] - 1)
  PROVE  Fits(v, w)
<1>1. w - 1 \in Nat /\ n <= w - 1
  OBVIOUS
<1>2. Pow2[n] <= Pow2[w - 1] /\ Pow2[n] \in Nat /\ Pow2[w - 1] \in Nat
  BY <1>1, PowerGrows, PowerTypes
<1>3. v \in Int /\ -Pow2[w - 1] <= v /\ v < Pow2[w - 1]
  BY <1>2
<1>. QED  BY <1>3, FitsRange

-----------------------------------------------------------------------------
(* The arithmetic of C *)

(* Division yields integers, also where it rounds towards zero.               *)
LEMMA QuotientType ==
  ASSUME NEW a \in Int, NEW b \in Int, b # 0
  PROVE  Quotient(a, b) \in Int /\ Remainder(a, b) \in Int
<1>1. Abs(a) \in Nat /\ Abs(b) \in Nat /\ Abs(b) >= 1
  BY DEF Abs
<1>2. Abs(a) \div Abs(b) \in Int
  BY <1>1, Division
<1>3. Quotient(a, b) \in Int
  BY <1>2 DEF Quotient
<1>4. b * Quotient(a, b) \in Int
  BY <1>3
<1>. QED  BY <1>3, <1>4 DEF Remainder

(* So do the operators on bits.                                               *)
LEMMA BitwiseTypes ==
  ASSUME NEW a \in Int, NEW b \in Int
  PROVE  And(a, b) \in Int /\ Or(a, b) \in Int /\ Xor(a, b) \in Int
<1>1. Int64 \in Nat \ {0}
  BY TypesAssumption
<1>2. ASSUME NEW f, \A i \in 1..Int64 : f[i] \in Int
      PROVE  Convert(ValueOf(f, Int64), Int64) \in Int
  <2>1. ValueOf(f, Int64) \in Int
    BY <1>1, <1>2, ValueSteps
  <2>. QED  BY <1>1, <2>1, ConvertFacts
<1>3. ASSUME NEW i \in 1..Int64 PROVE Bit(a, i - 1) \in {0, 1} /\ Bit(b, i - 1) \in {0, 1}
  BY <1>1, BitType
<1>. DEFINE both == [i \in 1..Int64 |-> Bit(a, i - 1) * Bit(b, i - 1)]
            either == [i \in 1..Int64 |-> Bit(a, i - 1) + Bit(b, i - 1) - Bit(a, i - 1) * Bit(b, i - 1)]
            one == [i \in 1..Int64 |-> (Bit(a, i - 1) + Bit(b, i - 1)) % 2]
<1>4. \A i \in 1..Int64 : both[i] \in Int /\ either[i] \in Int /\ one[i] \in Int
  BY <1>3
<1>5. /\ And(a, b) = Convert(ValueOf(both, Int64), Int64)
      /\ Or(a, b) = Convert(ValueOf(either, Int64), Int64)
      /\ Xor(a, b) = Convert(ValueOf(one, Int64), Int64)
  BY DEF And, Or, Xor, Bitwise
<1>. HIDE DEF both, either, one
<1>. QED  BY <1>2, <1>4, <1>5

(* And so does every operator, where C defines it.                            *)
LEMMA ResultType ==
  ASSUME NEW op \in Arithmetic \union Tests, NEW a \in Int, NEW b \in Int,
         op \in Divisions => b # 0, op \in Shifts => b \in Nat
  PROVE  Result(op, a, b) \in Int
<1>1. CASE op \in {"+", "-", "*"}
  BY <1>1 DEF Result, Tests
<1>2. CASE op \in Divisions
  BY <1>2, QuotientType DEF Result, Divisions, Tests
<1>3. CASE op \in {"&", "|", "^"}
  BY <1>3, BitwiseTypes DEF Result, Tests
<1>4. CASE op \in Shifts
  <2>1. Pow2[b] \in Nat /\ Pow2[b] >= 1
    BY <1>4, PowerTypes
  <2>2. a * Pow2[b] \in Int /\ a \div Pow2[b] \in Int
    BY <2>1, Division
  <2>. QED  BY <1>4, <2>2 DEF Result, Shifts, Tests
<1>5. CASE op \in Tests
  BY <1>5 DEF Result, Truth, Tests
<1>. QED  BY <1>1, <1>2, <1>3, <1>4, <1>5 DEF Arithmetic
=============================================================================
