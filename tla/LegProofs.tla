----------------------------- MODULE LegProofs -----------------------------
(***************************************************************************)
(* Theorems about LegModel: its exact arithmetic (the greatest common      *)
(* divisor, the integer root, directions and points in lowest terms) and   *)
(* the kinematics of a leg built on it, for every leg and every target.    *)
(*                                                                         *)
(* A function defined by recursion is one that satisfies its equation if   *)
(* any does: what the recursion computes is shown to satisfy it, and then  *)
(* followed from the least argument for which a claim would not hold.      *)
(***************************************************************************)
EXTENDS LegModel, WellFoundedInduction, TLAPS

-----------------------------------------------------------------------------
(* Natural numbers *)

LEMMA LeastNat ==
  ASSUME NEW S, S \subseteq Nat, S # {}
  PROVE  \E m \in S : \A k \in S : m <= k
<1> DEFINE R == OpToRel(<, Nat)
<1>1. IsWellFoundedOn(R, Nat)
  BY NatLessThanWellFounded
<1> HIDE DEF R
<1>2. PICK m \in S : \A k \in S : ~ (<<k, m>> \in R)
  BY <1>1, WFMin
<1>3. ASSUME NEW k \in S PROVE m <= k
  <2>1. k \in Nat /\ m \in Nat
    OBVIOUS
  <2>2. <<k, m>> \in Nat \X Nat /\ ~ (<<k, m>> \in R)
    BY <1>2, <2>1
  <2>3. ~ (k < m)
    BY <2>2 DEF R, OpToRel
  <2>4. QED
    BY <2>1, <2>3
<1>4. QED
  BY <1>3

(* Induction, over the set of numbers for which a claim holds. *)
LEMMA Induction ==
  ASSUME NEW S, \A n \in Nat : 0 .. n - 1 \subseteq S => n \in S
  PROVE  Nat \subseteq S
<1> SUFFICES ASSUME Nat \ S # {} PROVE FALSE
  OBVIOUS
<1>1. PICK m \in Nat \ S : \A k \in Nat \ S : m <= k
  BY LeastNat
<1>2. 0 .. m - 1 \subseteq S
  BY <1>1
<1>3. QED
  BY <1>1, <1>2

Divides(d, n) == \E q \in Int : n = d * q

LEMMA DivideSum ==
  ASSUME NEW d \in Int, NEW m \in Int, NEW n \in Int, NEW k \in Int, Divides(d, m)
  PROVE  /\ Divides(d, n) => Divides(d, m + n) /\ Divides(d, n - m)
         /\ Divides(d, k * m)
         /\ Divides(d, -m)
<1>1. PICK q \in Int : m = d * q
  BY DEF Divides
<1>2. k * m = d * (k * q) /\ k * q \in Int /\ -m = d * (-q) /\ -q \in Int
  BY <1>1
<1>3. ASSUME Divides(d, n) PROVE Divides(d, m + n) /\ Divides(d, n - m)
  <2>1. PICK p \in Int : n = d * p
    BY <1>3 DEF Divides
  <2>2. m + n = d * (q + p) /\ n - m = d * (p - q)
    BY <1>1, <2>1
  <2>3. q + p \in Int /\ p - q \in Int
    OBVIOUS
  <2>4. QED
    BY <2>2, <2>3 DEF Divides
<1>4. QED
  BY <1>2, <1>3 DEF Divides

LEMMA Sums ==
  ASSUME NEW d \in Int, NEW m \in Int, NEW n \in Int, NEW s \in Int,
         s = m + n, Divides(d, m)
  PROVE  Divides(d, n) <=> Divides(d, s)
<1>1. n = s - m
  OBVIOUS
<1>2. QED
  BY <1>1, DivideSum

LEMMA DividesLess ==
  ASSUME NEW d \in Nat, NEW n \in Nat, n > 0, Divides(d, n)
  PROVE  d > 0 /\ d <= n
<1>1. PICK q \in Int : n = d * q
  BY DEF Divides
<1>2. d # 0 /\ q > 0
  BY <1>1
<1>3. d * q >= d
  BY <1>2
<1>4. QED
  BY <1>1, <1>2, <1>3

LEMMA DividesEachOther ==
  ASSUME NEW d \in Nat, NEW e \in Nat, Divides(d, e), Divides(e, d)
  PROVE  d = e
<1>1. CASE d = 0 \/ e = 0
  BY <1>1 DEF Divides
<1>2. CASE d > 0 /\ e > 0
  <2>1. d <= e /\ e <= d
    BY <1>2, DividesLess
  <2>2. QED
    BY <2>1
<1>3. QED
  BY <1>1, <1>2

LEMMA Remainder ==
  ASSUME NEW a \in Nat, NEW b \in Nat, b > 0
  PROVE  /\ a % b \in 0 .. b - 1 /\ a \div b \in Nat
         /\ a = b * (a \div b) + (a % b)
<1>1. a = b * (a \div b) + (a % b) /\ a % b \in 0 .. b - 1
  OBVIOUS
<1>2. a \div b \in Nat
  OBVIOUS
<1>3. QED
  BY <1>1, <1>2

LEMMA RemainderIs ==
  ASSUME NEW a \in Nat, NEW b \in Nat, b > 0, NEW q \in Nat, NEW r \in 0 .. b - 1,
         a = b * q + r
  PROVE  a % b = r /\ a \div b = q
OBVIOUS

IsGcd(g, a, b) ==
  /\ Divides(g, a) /\ Divides(g, b)
  /\ \A e \in Nat : Divides(e, a) /\ Divides(e, b) => Divides(e, g)

(* The divisors a pair has in common are those of the next pair. *)
LEMMA EuclidStep ==
  ASSUME NEW a \in Nat, NEW b \in Nat, b > 0, NEW e \in Nat, Divides(e, b)
  PROVE  Divides(e, a) <=> Divides(e, a % b)
<1>1. PICK q \in Nat, r \in Nat : r = a % b /\ a = b * q + r
  BY Remainder
<1>2. PICK m \in Int : Divides(e, m) /\ a = m + r
  <2>1. Divides(e, q * b)
    BY DivideSum
  <2>2. QED
    BY <1>1, <2>1
<1>3. a \in Int /\ r \in Int /\ e \in Int
  OBVIOUS
<1>4. Divides(e, r) <=> Divides(e, a)
  BY <1>2, <1>3, Sums
<1>5. QED
  BY <1>1, <1>4

LEMMA GcdStep ==
  ASSUME NEW a \in Nat, NEW b \in Nat, b > 0, NEW g \in Nat
  PROVE  IsGcd(g, a, b) <=> IsGcd(g, b, a % b)
BY EuclidStep DEF IsGcd

LEMMA GcdOfZero ==
  ASSUME NEW a \in Nat, NEW g \in Nat
  PROVE  IsGcd(g, a, 0) <=> g = a
<1>1. Divides(a, a) /\ Divides(a, 0)
  <2>1. a = a * 1 /\ 0 = a * 0
    OBVIOUS
  <2>2. QED
    BY <2>1 DEF Divides
<1>2. IsGcd(a, a, 0)
  BY <1>1 DEF IsGcd
<1>3. IsGcd(g, a, 0) => g = a
  BY <1>1, DividesEachOther DEF IsGcd
<1>4. QED
  BY <1>2, <1>3

(* The recursion is satisfied by the greatest common divisor, hence by gcd. *)
LEMMA GcdEquation ==
  ASSUME NEW a \in Nat, NEW b \in Nat
  PROVE  gcd[<<a, b>>] = IF b = 0 THEN a ELSE gcd[<<b, a % b>>]
<1> DEFINE Gcds(p) == {g \in Nat : IsGcd(g, p[1], p[2])}
           F == [p \in Nat \X Nat |-> CHOOSE g : g \in Gcds(p)]
           E(f) == f = [p \in Nat \X Nat |->
                          IF p[2] = 0 THEN p[1] ELSE f[<<p[2], p[1] % p[2]>>]]
<1>1. E(F)
  <2>1. ASSUME NEW p \in Nat \X Nat
        PROVE  F[p] = IF p[2] = 0 THEN p[1] ELSE F[<<p[2], p[1] % p[2]>>]
    <3>1. p[1] \in Nat /\ p[2] \in Nat
      OBVIOUS
    <3>2. CASE p[2] = 0
      <4>1. Gcds(p) = {p[1]}
        BY <3>1, <3>2, GcdOfZero
      <4>2. QED
        BY <3>2, <4>1
    <3>3. CASE p[2] # 0
      <4> DEFINE n == <<p[2], p[1] % p[2]>>
      <4>1. n \in Nat \X Nat
        BY <3>1, <3>3, Remainder
      <4>2. Gcds(p) = Gcds(n)
        BY <3>1, <3>3, GcdStep
      <4>3. F[p] = F[n]
        BY <4>1, <4>2
      <4>4. QED
        BY <3>3, <4>3
    <3>4. QED
      BY <3>2, <3>3
  <2> HIDE DEF Gcds
  <2>2. QED
    BY <2>1, ZenonT(60)
<1>2. gcd = CHOOSE f : E(f)
  BY DEF gcd
<1> HIDE DEF F
<1>3. E(gcd)
  <2> HIDE DEF E
  <2>1. QED
    BY <1>1, <1>2
<1>4. <<a, b>> \in Nat \X Nat
  OBVIOUS
<1>5. QED
  BY <1>3, <1>4

LEMMA GcdIs ==
  ASSUME NEW a \in Nat, NEW b \in Nat
  PROVE  gcd[<<a, b>>] \in Nat /\ IsGcd(gcd[<<a, b>>], a, b)
<1> DEFINE Right(m, n) == gcd[<<n, m>>] \in Nat /\ IsGcd(gcd[<<n, m>>], n, m)
           S == {m \in Nat : \A n \in Nat : Right(m, n)}
<1>1. ASSUME NEW m \in Nat, 0 .. m - 1 \subseteq S PROVE m \in S
  <2>1. ASSUME NEW n \in Nat PROVE Right(m, n)
    <3>1. CASE m = 0
      <4>1. gcd[<<n, m>>] = n
        BY <3>1, GcdEquation
      <4>2. QED
        BY <3>1, <4>1, GcdOfZero
    <3>2. CASE m > 0
      <4>1. n % m \in 0 .. m - 1 /\ n % m \in Nat
        BY <3>2, Remainder
      <4>2. Right(n % m, m)
        BY <1>1, <4>1
      <4>3. gcd[<<n, m>>] = gcd[<<m, n % m>>]
        BY <3>2, GcdEquation
      <4>4. QED
        BY <3>2, <4>2, <4>3, GcdStep
    <3>3. QED
      BY <3>1, <3>2
  <2>2. QED
    BY <2>1
<1> HIDE DEF S
<1>2. Nat \subseteq S
  BY <1>1, Induction
<1>3. QED
  BY <1>2 DEF S

LEMMA GcdScale ==
  ASSUME NEW a \in Nat, NEW b \in Nat, NEW k \in Nat, k > 0
  PROVE  gcd[<<k * a, k * b>>] = k * gcd[<<a, b>>]
<1> DEFINE Right(m, n) == gcd[<<k * n, k * m>>] = k * gcd[<<n, m>>]
           S == {m \in Nat : \A n \in Nat : Right(m, n)}
<1>1. ASSUME NEW m \in Nat, 0 .. m - 1 \subseteq S PROVE m \in S
  <2>1. ASSUME NEW n \in Nat PROVE Right(m, n)
    <3>1. k * n \in Nat /\ k * m \in Nat
      OBVIOUS
    <3>2. CASE m = 0
      <4>1. k * m = 0
        BY <3>2
      <4>2. gcd[<<k * n, k * m>>] = k * n /\ gcd[<<n, m>>] = n
        BY <3>1, <3>2, <4>1, GcdEquation
      <4>3. QED
        BY <4>2
    <3>3. CASE m > 0
      <4>1. PICK q \in Nat, r \in 0 .. m - 1 : r = n % m /\ n = m * q + r
        BY <3>3, Remainder
      <4>2. k * m > 0 /\ k * n = (k * m) * q + k * r
        BY <3>3, <4>1
      <4>3. k * r \in Nat /\ k * r <= k * (m - 1)
        BY <4>1
      <4>4. k * r \in 0 .. k * m - 1
        BY <4>3
      <4>5. (k * n) % (k * m) = k * r
        BY <3>1, <4>2, <4>4, RemainderIs
      <4>6. gcd[<<k * n, k * m>>] = gcd[<<k * m, k * r>>]
        BY <3>1, <4>2, <4>5, GcdEquation
      <4>7. gcd[<<n, m>>] = gcd[<<m, r>>]
        BY <3>3, <4>1, GcdEquation
      <4>8. Right(r, m)
        BY <1>1, <4>1
      <4>9. QED
        BY <4>6, <4>7, <4>8
    <3>4. QED
      BY <3>2, <3>3
  <2>2. QED
    BY <2>1
<1> HIDE DEF S
<1>2. Nat \subseteq S
  BY <1>1, Induction
<1>3. QED
  BY <1>2 DEF S

-----------------------------------------------------------------------------
(* Integers *)

LEMMA AbsIs ==
  ASSUME NEW n \in Int
  PROVE  /\ Abs(n) \in Nat /\ Abs(n) \in {n, -n} /\ Abs(-n) = Abs(n)
         /\ n >= 0 => Abs(n) = n
         /\ Abs(n) = 0 => n = 0
         /\ Abs(n) * Abs(n) = n * n
         /\ \A d \in Int : Divides(d, Abs(n)) <=> Divides(d, n)
<1>1. /\ Abs(n) \in Nat /\ Abs(n) \in {n, -n} /\ Abs(-n) = Abs(n)
      /\ n >= 0 => Abs(n) = n
      /\ Abs(n) = 0 => n = 0
  BY DEF Abs
<1>2. Abs(n) * Abs(n) = n * n
  BY DEF Abs
<1>3. ASSUME NEW d \in Int PROVE Divides(d, Abs(n)) <=> Divides(d, n)
  <2>1. Divides(d, n) => Divides(d, -n)
    BY DivideSum
  <2>2. Divides(d, -n) => Divides(d, n)
    <3>1. -n \in Int /\ -(-n) = n
      OBVIOUS
    <3>2. QED
      BY <3>1, DivideSum
  <2>3. QED
    BY <1>1, <2>1, <2>2
<1>4. QED
  BY <1>1, <1>2, <1>3

LEMMA AbsProduct ==
  ASSUME NEW k \in Nat, k > 0, NEW n \in Int
  PROVE  Abs(k * n) = k * Abs(n)
<1>1. CASE n >= 0
  <2>1. k * n >= 0 /\ k * n \in Int
    BY <1>1
  <2>2. QED
    BY <1>1, <2>1 DEF Abs
<1>2. CASE n < 0
  <2>1. k * n < 0 /\ k * n \in Int
    BY <1>2
  <2>2. QED
    BY <1>2, <2>1 DEF Abs
<1>3. QED
  BY <1>1, <1>2

LEMMA CommonIs ==
  ASSUME NEW a \in Int, NEW b \in Int
  PROVE  /\ Common(a, b) \in Nat
         /\ Divides(Common(a, b), a) /\ Divides(Common(a, b), b)
         /\ \A e \in Nat : Divides(e, a) /\ Divides(e, b) => Divides(e, Common(a, b))
         /\ a # 0 \/ b # 0 => Common(a, b) > 0
         /\ a = 0 /\ b = 0 => Common(a, b) = 0
<1>1. Common(a, b) \in Nat /\ IsGcd(Common(a, b), Abs(a), Abs(b))
  BY AbsIs, GcdIs DEF Common
<1>2. /\ Divides(Common(a, b), a) /\ Divides(Common(a, b), b)
      /\ \A e \in Nat : Divides(e, a) /\ Divides(e, b) => Divides(e, Common(a, b))
  BY <1>1, AbsIs DEF IsGcd
<1>3. a # 0 \/ b # 0 => Common(a, b) > 0
  BY <1>1, <1>2 DEF Divides
<1>4. a = 0 /\ b = 0 => Common(a, b) = 0
  <2>1. Abs(0) = 0
    BY DEF Abs
  <2>2. gcd[<<0, 0>>] = 0
    BY GcdEquation
  <2>3. QED
    BY <2>1, <2>2 DEF Common
<1>5. QED
  BY <1>1, <1>2, <1>3, <1>4

LEMMA CommonScale ==
  ASSUME NEW a \in Int, NEW b \in Int, NEW k \in Nat, k > 0
  PROVE  Common(k * a, k * b) = k * Common(a, b)
<1>1. Abs(a) \in Nat /\ Abs(b) \in Nat
  BY AbsIs
<1>2. gcd[<<k * Abs(a), k * Abs(b)>>] = k * gcd[<<Abs(a), Abs(b)>>]
  BY <1>1, GcdScale
<1>3. Abs(k * a) = k * Abs(a) /\ Abs(k * b) = k * Abs(b)
  BY AbsProduct
<1>4. QED
  BY <1>2, <1>3 DEF Common

-----------------------------------------------------------------------------
(* The integer root *)

IsRoot(r, n) == r * r <= n /\ n < (r + 1) * (r + 1)

LEMMA Smaller ==
  ASSUME NEW r \in Nat, NEW s \in Nat, r <= s
  PROVE  r * r <= s * s
<1>1. r * r <= r * s /\ r * s <= s * s
  OBVIOUS
<1>2. QED
  BY <1>1

LEMMA RootsAgree ==
  ASSUME NEW n \in Nat, NEW r \in Nat, NEW s \in Nat, IsRoot(r, n), IsRoot(s, n)
  PROVE  r = s
<1>1. ASSUME NEW a \in Nat, NEW b \in Nat, IsRoot(a, n), IsRoot(b, n), a + 1 <= b
      PROVE  FALSE
  <2>1. (a + 1) * (a + 1) <= b * b
    BY <1>1, Smaller
  <2>2. /\ n < (a + 1) * (a + 1) /\ b * b <= n
        /\ (a + 1) * (a + 1) \in Nat /\ b * b \in Nat
    BY <1>1 DEF IsRoot
  <2>3. QED
    BY <2>1, <2>2
<1>2. ~ (r + 1 <= s) /\ ~ (s + 1 <= r)
  BY <1>1
<1>3. QED
  BY <1>2

LEMMA RootExists ==
  ASSUME NEW n \in Nat
  PROVE  \E r \in Nat : IsRoot(r, n)
<1> DEFINE S == {m \in Nat : m * m > n}
<1>1. n + 1 \in S
  OBVIOUS
<1>2. PICK m \in S : \A k \in S : m <= k
  BY <1>1, LeastNat
<1>3. m \in Nat /\ m * m > n /\ m > 0
  <2>1. m \in Nat /\ m * m > n
    OBVIOUS
  <2>2. QED
    BY <2>1
<1>4. m - 1 \in Nat /\ m - 1 \notin S /\ (m - 1) + 1 = m
  BY <1>2, <1>3
<1>5. (m - 1) * (m - 1) <= n
  BY <1>4
<1>6. QED
  BY <1>3, <1>4, <1>5 DEF IsRoot

(* Two more bits. *)
LEMMA RootStep ==
  ASSUME NEW n \in Nat, NEW h \in Nat, IsRoot(h, n \div 4)
  PROVE  LET half == 2 * h
             r == IF (half + 1) * (half + 1) <= n THEN half + 1 ELSE half
         IN  r \in Nat /\ IsRoot(r, n)
<1>1. PICK q \in Nat, r \in 0 .. 3 : q = n \div 4 /\ n = 4 * q + r
  BY Remainder
<1>2. h * h <= q /\ q < (h + 1) * (h + 1)
  BY <1>1 DEF IsRoot
<1>3. (h + 1) * (h + 1) = h * h + 2 * h + 1 /\ h * h \in Nat
  OBVIOUS
<1>4. 4 * (h * h) <= n /\ n < 4 * (h * h) + 8 * h + 4
  BY <1>1, <1>2, <1>3
<1>5. /\ (2 * h) * (2 * h) = 4 * (h * h)
      /\ (2 * h + 1 + 1) * (2 * h + 1 + 1) = 4 * (h * h) + 8 * h + 4
  OBVIOUS
<1>6. (2 * h) * (2 * h) <= n /\ n < (2 * h + 1 + 1) * (2 * h + 1 + 1)
  BY <1>4, <1>5
<1>7. 2 * h \in Nat /\ 2 * h + 1 \in Nat /\ (2 * h + 1) * (2 * h + 1) \in Nat
  OBVIOUS
<1>8. CASE (2 * h + 1) * (2 * h + 1) <= n
  BY <1>6, <1>7, <1>8 DEF IsRoot
<1>9. CASE ~ ((2 * h + 1) * (2 * h + 1) <= n)
  <2>1. n < (2 * h + 1) * (2 * h + 1)
    BY <1>7, <1>9
  <2>2. QED
    BY <1>6, <1>7, <1>9, <2>1 DEF IsRoot
<1>10. QED
  BY <1>8, <1>9

LEMMA RootEquation ==
  ASSUME NEW n \in Nat
  PROVE  Root[n] = IF n = 0 THEN 0
                   ELSE LET half == 2 * Root[n \div 4]
                        IN  IF (half + 1) * (half + 1) <= n THEN half + 1 ELSE half
<1> DEFINE F == [m \in Nat |-> CHOOSE r \in Nat : IsRoot(r, m)]
           E(f) == f = [m \in Nat |->
                          IF m = 0 THEN 0
                          ELSE LET half == 2 * f[m \div 4]
                               IN  IF (half + 1) * (half + 1) <= m
                                   THEN half + 1 ELSE half]
<1>1. \A m \in Nat : F[m] \in Nat /\ IsRoot(F[m], m)
  <2>1. ASSUME NEW m \in Nat PROVE F[m] \in Nat /\ IsRoot(F[m], m)
    <3>1. \E r \in Nat : IsRoot(r, m)
      BY RootExists
    <3>2. QED
      BY <3>1
  <2>2. QED
    BY <2>1
<1>2. ASSUME NEW m \in Nat
      PROVE  F[m] = IF m = 0 THEN 0
                    ELSE LET half == 2 * F[m \div 4]
                         IN  IF (half + 1) * (half + 1) <= m THEN half + 1 ELSE half
  <2> HIDE DEF F
  <2>1. CASE m = 0
    <3>1. IsRoot(0, 0)
      BY DEF IsRoot
    <3>2. QED
      BY <1>1, <2>1, <3>1, RootsAgree
  <2>2. CASE m # 0
    <3> DEFINE half == 2 * F[m \div 4]
               r == IF (half + 1) * (half + 1) <= m THEN half + 1 ELSE half
    <3>1. m \div 4 \in Nat
      BY Remainder
    <3>2. F[m \div 4] \in Nat /\ IsRoot(F[m \div 4], m \div 4)
      BY <1>1, <3>1
    <3>3. r \in Nat /\ IsRoot(r, m)
      BY <3>2, RootStep
    <3> HIDE DEF r
    <3>4. F[m] = r
      BY <1>1, <3>3, RootsAgree
    <3>5. QED
      BY <2>2, <3>4 DEF r
  <2>3. QED
    BY <2>1, <2>2
<1>3. F = [m \in Nat |-> F[m]]
  OBVIOUS
<1> HIDE DEF F
<1>4. E(F)
  BY <1>2, <1>3
<1>5. Root = CHOOSE f : E(f)
  BY DEF Root
<1>6. E(Root)
  <2> HIDE DEF E
  <2>1. QED
    BY <1>4, <1>5
<1>7. QED
  BY <1>6

LEMMA RootIs ==
  ASSUME NEW n \in Nat
  PROVE  Root[n] \in Nat /\ IsRoot(Root[n], n)
<1> DEFINE S == {m \in Nat : Root[m] \in Nat /\ IsRoot(Root[m], m)}
<1>1. ASSUME NEW m \in Nat, 0 .. m - 1 \subseteq S PROVE m \in S
  <2>1. CASE m = 0
    <3>1. Root[m] = 0
      BY <2>1, RootEquation
    <3>2. QED
      BY <2>1, <3>1 DEF IsRoot
  <2>2. CASE m > 0
    <3>1. m \div 4 \in 0 .. m - 1
      BY <2>2
    <3>2. Root[m \div 4] \in Nat /\ IsRoot(Root[m \div 4], m \div 4)
      BY <1>1, <3>1
    <3>3. Root[m] = LET half == 2 * Root[m \div 4]
                    IN  IF (half + 1) * (half + 1) <= m THEN half + 1 ELSE half
      BY <2>2, RootEquation
    <3>4. QED
      BY <3>2, <3>3, RootStep
  <2>3. QED
    BY <2>1, <2>2
<1> HIDE DEF S
<1>2. Nat \subseteq S
  BY <1>1, Induction
<1>3. QED
  BY <1>2 DEF S

LEMMA RootOfSquare ==
  ASSUME NEW r \in Nat
  PROVE  Root[r * r] = r
<1>1. r * r \in Nat /\ IsRoot(r, r * r)
  BY DEF IsRoot
<1>2. QED
  BY <1>1, RootIs, RootsAgree

(* The root of a whole number is whole, or no fraction.                    *)
LEMMA RootIsNoFraction ==
  ASSUME NEW n \in Nat, NEW g \in Nat, g > 0, NEW r \in Nat, r * r = n * (g * g)
  PROVE  Divides(g, r)
<1> DEFINE h == gcd[<<r, g>>]
<1>1. /\ h \in Nat /\ Divides(h, r) /\ Divides(h, g)
      /\ \A e \in Nat : Divides(e, r) /\ Divides(e, g) => Divides(e, h)
  BY GcdIs DEF IsGcd
<1> HIDE DEF h
<1>2. h > 0
  BY <1>1, DividesLess
<1>3. PICK a \in Nat, b \in Nat : r = h * a /\ g = h * b
  <2>1. PICK a \in Int, b \in Int : r = h * a /\ g = h * b
    BY <1>1 DEF Divides
  <2>2. a >= 0 /\ b >= 0
    <3>1. \A c \in Int : c < 0 => h * c < 0
      BY <1>1, <1>2
    <3>2. QED
      BY <2>1, <3>1
  <2>3. QED
    BY <2>1, <2>2
<1>4. gcd[<<a, b>>] = 1
  <2>1. h * gcd[<<a, b>>] = gcd[<<r, g>>] /\ gcd[<<a, b>>] \in Nat
    BY <1>1, <1>2, <1>3, GcdScale, GcdIs
  <2>2. h * gcd[<<a, b>>] = h
    BY <2>1 DEF h
  <2>3. QED
    BY <1>1, <1>2, <2>1, <2>2
<1>5. a * a = n * (b * b)
  <2>1. (h * h) * (a * a) = (h * h) * (n * (b * b))
    <3>1. (h * a) * (h * a) = n * ((h * b) * (h * b))
      BY <1>3
    <3>2. /\ (h * a) * (h * a) = (h * h) * (a * a)
          /\ n * ((h * b) * (h * b)) = (h * h) * (n * (b * b))
      BY <1>1
    <3>3. QED
      BY <3>1, <3>2
  <2>2. h * h > 0 /\ h * h \in Nat /\ a * a \in Nat /\ n * (b * b) \in Nat
    BY <1>1, <1>2
  <2>3. QED
    BY <2>1, <2>2
<1>6. gcd[<<a * a, a * b>>] = a
  <2>1. CASE a = 0
    <3>1. gcd[<<0, 0>>] = 0
      BY GcdEquation
    <3>2. a * a = 0 /\ a * b = 0
      BY <2>1
    <3>3. QED
      BY <2>1, <3>1, <3>2
  <2>2. CASE a > 0
    BY <1>4, <2>2, GcdScale
  <2>3. QED
    BY <2>1, <2>2
<1>7. Divides(b, a)
  <2>1. Divides(b, a * a) /\ Divides(b, a * b)
    <3>1. n * (b * b) = b * (n * b) /\ n * b \in Int /\ a * b = b * a
      OBVIOUS
    <3>2. QED
      BY <1>5, <3>1 DEF Divides
  <2>2. a * a \in Nat /\ a * b \in Nat
    OBVIOUS
  <2>3. QED
    BY <1>6, <2>1, <2>2, GcdIs DEF IsGcd
<1>8. PICK q \in Int : a = b * q
  BY <1>7 DEF Divides
<1>9. r = g * q
  <2>1. h * (b * q) = (h * b) * q
    BY <1>1
  <2>2. QED
    BY <1>3, <1>8, <2>1
<1>10. QED
  BY <1>9 DEF Divides

-----------------------------------------------------------------------------
(* Directions *)

LEMMA Cancel ==
  ASSUME NEW k \in Int, k # 0, NEW a \in Int, NEW b \in Int, k * a = k * b
  PROVE  a = b
OBVIOUS

LEMMA NotZero ==
  ASSUME NEW k \in Int, k # 0, NEW m \in Int, m # 0
  PROVE  k * m \in Int /\ k * m # 0
OBVIOUS

LEMMA Quotient ==
  ASSUME NEW d \in Nat, d > 0, NEW n \in Int, NEW q \in Int, n = d * q
  PROVE  n \div d = q
OBVIOUS

(* p is to r as P is to R. *)
Ratio(p, r, P, R) == p * R = P * r

LEMMA RatioScale ==
  ASSUME NEW p \in Int, NEW r \in Int, NEW k \in Int, NEW P \in Int, NEW R \in Int,
         Ratio(p, r, P, R)
  PROVE  Ratio(p, r, k * P, k * R) /\ Ratio(P, R, p, r)
<1>1. p * (k * R) = k * (p * R) /\ (k * P) * r = k * (P * r)
  OBVIOUS
<1>2. QED
  BY <1>1 DEF Ratio

LEMMA RatioReduce ==
  ASSUME NEW p \in Int, NEW r \in Int, NEW k \in Int, k # 0, NEW P \in Int, NEW R \in Int,
         Ratio(p, r, k * P, k * R)
  PROVE  Ratio(p, r, P, R)
<1>1. p * (k * R) = k * (p * R) /\ (k * P) * r = k * (P * r)
  OBVIOUS
<1>2. k * (p * R) = k * (P * r)
  BY <1>1 DEF Ratio
<1>3. p * R \in Int /\ P * r \in Int
  OBVIOUS
<1>4. p * R = P * r
  BY <1>2, <1>3, Cancel
<1>5. QED
  BY <1>4 DEF Ratio

LEMMA RatioTimes ==
  ASSUME NEW p \in Int, NEW r \in Int, NEW P \in Int, NEW R \in Int, Ratio(p, r, P, R),
         NEW q \in Int, NEW s \in Int, NEW Q \in Int, NEW S \in Int, Ratio(q, s, Q, S)
  PROVE  Ratio(p * q, r * s, P * Q, R * S)
<1>1. /\ (p * q) * (R * S) = (p * R) * (q * S)
      /\ (P * Q) * (r * s) = (P * r) * (Q * s)
  OBVIOUS
<1>2. QED
  BY <1>1 DEF Ratio

LEMMA RatioPlus ==
  ASSUME NEW p \in Int, NEW r \in Int, NEW P \in Int, NEW R \in Int, Ratio(p, r, P, R),
         NEW q \in Int, NEW Q \in Int, Ratio(q, r, Q, R)
  PROVE  Ratio(p + q, r, P + Q, R) /\ Ratio(p - q, r, P - Q, R)
<1>1. /\ (p + q) * R = p * R + q * R /\ (P + Q) * r = P * r + Q * r
      /\ (p - q) * R = p * R - q * R /\ (P - Q) * r = P * r - Q * r
  OBVIOUS
<1>2. QED
  BY <1>1 DEF Ratio

LEMMA RatioTrans ==
  ASSUME NEW p \in Int, NEW r \in Int, NEW q \in Int, NEW s \in Int, s # 0,
         NEW P \in Int, NEW R \in Int, Ratio(p, r, q, s), Ratio(q, s, P, R)
  PROVE  Ratio(p, r, P, R)
<1>1. s * (p * R) = (p * s) * R /\ s * (P * r) = (P * s) * r
  OBVIOUS
<1>2. (p * s) * R = (q * r) * R /\ (P * s) * r = (q * R) * r
  BY DEF Ratio
<1>3. (q * r) * R = (q * R) * r
  OBVIOUS
<1>4. s * (p * R) = s * (P * r) /\ p * R \in Int /\ P * r \in Int
  BY <1>1, <1>2, <1>3
<1>5. p * R = P * r
  BY <1>4, Cancel
<1>6. QED
  BY <1>5 DEF Ratio

LEMMA RatioAgree ==
  ASSUME NEW p \in Int, NEW r \in Int, NEW q \in Int, NEW s \in Int,
         NEW P \in Int, NEW R \in Int, R # 0, Ratio(p, r, P, R), Ratio(q, s, P, R)
  PROVE  s * p = r * q
<1>1. Ratio(P, R, q, s)
  BY DEF Ratio
<1>2. Ratio(p, r, q, s)
  BY <1>1, RatioTrans
<1>3. QED
  BY <1>2 DEF Ratio

LEMMA PrimitiveIs ==
  ASSUME NEW x \in Int, NEW y \in Int, x # 0 \/ y # 0
  PROVE  \E g \in Nat : \E a \in Int : \E b \in Int :
           /\ g > 0
           /\ Primitive(x, y) = <<a, b>>
           /\ x = g * a /\ y = g * b
           /\ Common(a, b) = 1
<1> DEFINE g == Common(x, y)
<1>1. g \in Nat /\ g > 0 /\ Divides(g, x) /\ Divides(g, y)
  BY CommonIs
<1>2. PICK a \in Int, b \in Int : x = g * a /\ y = g * b
  BY <1>1 DEF Divides
<1>3. Primitive(x, y) = <<a, b>>
  <2>1. x \div g = a /\ y \div g = b
    <3> HIDE DEF g
    <3>1. QED
      BY <1>1, <1>2, Quotient
  <2>2. QED
    BY <1>1, <2>1 DEF Primitive
<1>4. Common(a, b) = 1
  <2>1. Common(g * a, g * b) = g * Common(a, b) /\ Common(a, b) \in Nat
    BY <1>1, CommonScale, CommonIs
  <2>2. g * Common(a, b) = g * 1
    <3>1. Common(g * a, g * b) = g
      BY <1>2
    <3> HIDE DEF g
    <3>2. QED
      BY <1>1, <2>1, <3>1
  <2> HIDE DEF g
  <2>3. g \in Int /\ g # 0 /\ Common(a, b) \in Int /\ 1 \in Int
    BY <1>1, <2>1
  <2>4. QED
    BY <2>2, <2>3, Cancel
<1> HIDE DEF g
<1>5. QED
  BY <1>1, <1>2, <1>3, <1>4

LEMMA AngleType ==
  ASSUME NEW a \in Angles
  PROVE  /\ a.x \in Int /\ a.y \in Int /\ a.r \in Nat /\ a.r > 0 /\ a.r \in Int
         /\ a.x * a.x + a.y * a.y = a.r * a.r
         /\ Common(a.x, a.y) = 1
         /\ a = [x |-> a.x, y |-> a.y, r |-> a.r]
BY DEF Angles

HasLength(X, Y, R) == R \in Nat /\ R > 0 /\ X * X + Y * Y = R * R

(* The direction of X, Y, whose length is R. *)
Towards(a, X, Y, R) ==
  a \in Angles /\ Ratio(a.x, a.r, X, R) /\ Ratio(a.y, a.r, Y, R)

LEMMA DirectionIs ==
  ASSUME NEW X \in Int, NEW Y \in Int, NEW R \in Nat, HasLength(X, Y, R)
  PROVE  Towards(Direction(X, Y), X, Y, R)
<1>1. X # 0 \/ Y # 0
  <2>1. R * R > 0 /\ X * X + Y * Y = R * R
    BY DEF HasLength
  <2>2. QED
    BY <2>1
<1>2. PICK g \in Nat : \E a \in Int : \E b \in Int :
           /\ g > 0
           /\ Primitive(X, Y) = <<a, b>>
           /\ X = g * a /\ Y = g * b
           /\ Common(a, b) = 1
  BY <1>1, PrimitiveIs, Zenon
<1>12. PICK a \in Int : \E b \in Int :
           /\ g > 0
           /\ Primitive(X, Y) = <<a, b>>
           /\ X = g * a /\ Y = g * b
           /\ Common(a, b) = 1
  BY <1>2, Zenon
<1>13. PICK b \in Int :
           /\ g > 0
           /\ Primitive(X, Y) = <<a, b>>
           /\ X = g * a /\ Y = g * b
           /\ Common(a, b) = 1
  BY <1>12, Zenon
<1>3. PICK n \in Nat : n = a * a + b * b
  <2>1. a * a >= 0 /\ b * b >= 0
    OBVIOUS
  <2>2. QED
    BY <2>1
<1>4. R * R = n * (g * g)
  <2>1. (g * a) * (g * a) + (g * b) * (g * b) = (a * a + b * b) * (g * g)
    OBVIOUS
  <2>2. QED
    BY <1>13, <1>3, <2>1 DEF HasLength
<1>5. PICK q \in Int : R = g * q
  <2>1. g > 0
    BY <1>13
  <2>2. Divides(g, R)
    BY <1>4, <2>1, RootIsNoFraction
  <2>3. QED
    BY <2>2 DEF Divides
<1>6. q > 0 /\ q \in Nat
  <2>1. \A c \in Int : c <= 0 => g * c <= 0
    BY <1>13
  <2>2. QED
    BY <1>5, <2>1 DEF HasLength
<1>7. q * q = n
  <2>1. (g * q) * (g * q) = (g * g) * (q * q) /\ n * (g * g) = (g * g) * n
    OBVIOUS
  <2>2. (g * g) * (q * q) = (g * g) * n
    BY <1>4, <1>5, <2>1
  <2>3. g * g \in Int /\ g * g # 0 /\ q * q \in Int /\ n \in Int
    BY <1>13
  <2>4. QED
    BY <2>2, <2>3, Cancel
<1>8. Direction(X, Y) = [x |-> a, y |-> b, r |-> q]
  <2>1. Root[n] = q
    BY <1>6, <1>7, RootOfSquare
  <2>2. QED
    BY <1>13, <1>3, <2>1 DEF Direction
<1>9. [x |-> a, y |-> b, r |-> q] \in Angles
  <2>1. a * a + b * b = q * q /\ Common(a, b) = 1 /\ q \in Nat \ {0}
    BY <1>13, <1>3, <1>6, <1>7
  <2>2. QED
    BY <2>1 DEF Angles
<1>10. a * R = X * q /\ b * R = Y * q
  <2>1. a * (g * q) = (g * a) * q /\ b * (g * q) = (g * b) * q
    OBVIOUS
  <2>2. QED
    BY <1>13, <1>5, <2>1
<1>11. QED
  BY <1>8, <1>9, <1>10 DEF Towards, Ratio

LEMMA AngleUnique ==
  ASSUME NEW a \in Angles, NEW b \in Angles,
         a.x * b.r = b.x * a.r, a.y * b.r = b.y * a.r
  PROVE  a = b
<1>1. Common(b.r * a.x, b.r * a.y) = b.r * 1
  BY AngleType, CommonScale
<1>2. Common(a.r * b.x, a.r * b.y) = a.r * 1
  BY AngleType, CommonScale
<1>3. b.r * a.x = a.r * b.x /\ b.r * a.y = a.r * b.y
  BY AngleType
<1>4. a.r = b.r
  BY <1>1, <1>2, <1>3, AngleType
<1>5. a.x = b.x /\ a.y = b.y
  <2>1. a.r * a.x = a.r * b.x /\ a.r * a.y = a.r * b.y /\ a.r # 0 /\ a.r \in Int
    BY <1>3, <1>4, AngleType
  <2>2. a.x \in Int /\ a.y \in Int /\ b.x \in Int /\ b.y \in Int
    BY AngleType
  <2>3. QED
    BY <2>1, <2>2, Cancel
<1>6. QED
  BY <1>4, <1>5, AngleType

LEMMA TowardsUnique ==
  ASSUME NEW X \in Int, NEW Y \in Int, NEW R \in Int, R # 0,
         NEW a, Towards(a, X, Y, R), NEW b, Towards(b, X, Y, R)
  PROVE  a = b
<1>1. /\ a.x \in Int /\ a.y \in Int /\ a.r \in Int
      /\ b.x \in Int /\ b.y \in Int /\ b.r \in Int
  BY AngleType DEF Towards
<1>2. Ratio(X, R, b.x, b.r) /\ Ratio(Y, R, b.y, b.r)
  BY <1>1, RatioScale DEF Towards
<1>3. Ratio(a.x, a.r, b.x, b.r) /\ Ratio(a.y, a.r, b.y, b.r)
  BY <1>1, <1>2, RatioTrans DEF Towards
<1>4. QED
  BY <1>3, AngleUnique DEF Towards, Ratio

LEMMA TowardsScale ==
  ASSUME NEW a, NEW X \in Int, NEW Y \in Int, NEW R \in Int, NEW k \in Int, k # 0
  PROVE  Towards(a, X, Y, R) <=> Towards(a, k * X, k * Y, k * R)
<1>1. a \in Angles => a.x \in Int /\ a.y \in Int /\ a.r \in Int
  BY AngleType
<1>2. Towards(a, X, Y, R) => Towards(a, k * X, k * Y, k * R)
  BY <1>1, RatioScale DEF Towards
<1>3. Towards(a, k * X, k * Y, k * R) => Towards(a, X, Y, R)
  BY <1>1, RatioReduce DEF Towards
<1>4. QED
  BY <1>2, <1>3

LEMMA Itself ==
  ASSUME NEW a \in Angles
  PROVE  Towards(a, a.x, a.y, a.r)
BY DEF Towards, Ratio

(* Of any fraction of its length, too. *)
LEMMA DirectionOver ==
  ASSUME NEW X \in Int, NEW Y \in Int, NEW K \in Nat, K > 0, NEW R \in Nat, R > 0,
         (X * X + Y * Y) * (K * K) = R * R
  PROVE  Towards(Direction(X, Y), K * X, K * Y, R)
<1>1. PICK n \in Nat : n = X * X + Y * Y
  <2>1. X * X >= 0 /\ Y * Y >= 0
    OBVIOUS
  <2>2. QED
    BY <2>1
<1>2. Divides(K, R)
  BY <1>1, RootIsNoFraction
<1>3. PICK q \in Int : R = K * q
  BY <1>2 DEF Divides
<1>4. q > 0 /\ q \in Nat
  <2>1. \A c \in Int : c <= 0 => K * c <= 0
    OBVIOUS
  <2>2. QED
    BY <1>3, <2>1
<1>5. n = q * q
  <2>1. (K * q) * (K * q) = (K * K) * (q * q) /\ n * (K * K) = (K * K) * n
    OBVIOUS
  <2>2. (K * K) * (q * q) = (K * K) * n
    BY <1>1, <1>3, <2>1
  <2>3. K * K \in Int /\ K * K # 0 /\ q * q \in Int /\ n \in Int
    OBVIOUS
  <2>4. QED
    BY <2>2, <2>3, Cancel
<1>6. Towards(Direction(X, Y), X, Y, q)
  BY <1>1, <1>4, <1>5, DirectionIs DEF HasLength
<1>7. Towards(Direction(X, Y), K * X, K * Y, K * q)
  <2>1. K \in Int /\ K # 0 /\ q \in Int
    BY <1>4
  <2>2. QED
    BY <1>6, <2>1, TowardsScale
<1>8. QED
  BY <1>3, <1>7

LEMMA OppositeIs ==
  ASSUME NEW a, NEW X \in Int, NEW Y \in Int, NEW R \in Int, Towards(a, X, Y, R)
  PROVE  /\ Opposite(a).x = a.x /\ Opposite(a).y = -a.y /\ Opposite(a).r = a.r
         /\ Opposite(a) \in Angles
         /\ Opposite(Opposite(a)) = a
         /\ Towards(Opposite(a), X, -Y, R)
<1>1. /\ a = [x |-> a.x, y |-> a.y, r |-> a.r] /\ a.r \in Nat \ {0}
      /\ a.x \in Int /\ a.y \in Int /\ a.r \in Int /\ -(-a.y) = a.y /\ -a.y \in Int
      /\ a.x * a.x + a.y * a.y = a.r * a.r /\ Common(a.x, a.y) = 1
  BY AngleType DEF Towards
<1>2. Opposite(a) = [x |-> a.x, y |-> -a.y, r |-> a.r]
  BY <1>1 DEF Opposite
<1>3. Opposite([x |-> a.x, y |-> -a.y, r |-> a.r]) = [x |-> a.x, y |-> -(-a.y), r |-> a.r]
  BY DEF Opposite
<1>4. Common(a.x, -a.y) = 1
  BY <1>1, AbsIs DEF Common
<1>5. (-a.y) * (-a.y) = a.y * a.y
  BY <1>1
<1>6. Opposite(a) \in Angles
  BY <1>1, <1>2, <1>4, <1>5 DEF Angles
<1>7. a.y * R = Y * a.r => (-a.y) * R = (-Y) * a.r
  BY <1>1
<1>8. QED
  BY <1>1, <1>2, <1>3, <1>6, <1>7 DEF Towards, Ratio

(* The product of X + iY and U + iV. *)
Re(X, Y, U, V) == X * U - Y * V
Im(X, Y, U, V) == X * V + Y * U

LEMMA ProductType ==
  ASSUME NEW X \in Int, NEW Y \in Int, NEW U \in Int, NEW V \in Int
  PROVE  Re(X, Y, U, V) \in Int /\ Im(X, Y, U, V) \in Int
BY DEF Re, Im

LEMMA ProductLength ==
  ASSUME NEW X \in Int, NEW Y \in Int, NEW U \in Int, NEW V \in Int,
         NEW R \in Int, NEW S \in Int, X * X + Y * Y = R * R, U * U + V * V = S * S
  PROVE  Re(X, Y, U, V) * Re(X, Y, U, V) + Im(X, Y, U, V) * Im(X, Y, U, V)
           = (R * S) * (R * S)
<1>1. (X * U - Y * V) * (X * U - Y * V) + (X * V + Y * U) * (X * V + Y * U)
        = (X * X + Y * Y) * (U * U + V * V)
  OBVIOUS
<1>2. (R * R) * (S * S) = (R * S) * (R * S)
  OBVIOUS
<1>3. QED
  BY <1>1, <1>2 DEF Re, Im

LEMMA ProductRatio ==
  ASSUME NEW x \in Int, NEW y \in Int, NEW r \in Int,
         NEW X \in Int, NEW Y \in Int, NEW R \in Int, Ratio(x, r, X, R), Ratio(y, r, Y, R),
         NEW u \in Int, NEW v \in Int, NEW s \in Int,
         NEW U \in Int, NEW V \in Int, NEW S \in Int, Ratio(u, s, U, S), Ratio(v, s, V, S)
  PROVE  /\ Ratio(Re(x, y, u, v), r * s, Re(X, Y, U, V), R * S)
         /\ Ratio(Im(x, y, u, v), r * s, Im(X, Y, U, V), R * S)
<1>1. /\ x * u \in Int /\ y * v \in Int /\ x * v \in Int /\ y * u \in Int
      /\ X * U \in Int /\ Y * V \in Int /\ X * V \in Int /\ Y * U \in Int
      /\ r * s \in Int /\ R * S \in Int
  OBVIOUS
<1>2. Ratio(x * u, r * s, X * U, R * S)
  BY RatioTimes
<1>3. Ratio(y * v, r * s, Y * V, R * S)
  BY RatioTimes
<1>4. Ratio(x * v, r * s, X * V, R * S)
  BY RatioTimes
<1>5. Ratio(y * u, r * s, Y * U, R * S)
  BY RatioTimes
<1>6. Ratio(x * u - y * v, r * s, X * U - Y * V, R * S)
  BY <1>1, <1>2, <1>3, RatioPlus
<1>7. Ratio(x * v + y * u, r * s, X * V + Y * U, R * S)
  BY <1>1, <1>4, <1>5, RatioPlus
<1>8. QED
  BY <1>6, <1>7 DEF Re, Im

Associate(p, q, e, f, g, h) ==
  /\ Re(Re(p, q, e, f), Im(p, q, e, f), g, h) = Re(p, q, Re(e, f, g, h), Im(e, f, g, h))
  /\ Im(Re(p, q, e, f), Im(p, q, e, f), g, h) = Im(p, q, Re(e, f, g, h), Im(e, f, g, h))

LEMMA ProductAssociates ==
  ASSUME NEW p \in Int, NEW q \in Int, NEW e \in Int, NEW f \in Int,
         NEW g \in Int, NEW h \in Int
  PROVE  Associate(p, q, e, f, g, h)
BY DEF Associate, Re, Im

ProductScales(k, p, q, l, e, f) ==
  /\ Re(k * p, k * q, l * e, l * f) = (k * l) * Re(p, q, e, f)
  /\ Im(k * p, k * q, l * e, l * f) = (k * l) * Im(p, q, e, f)

LEMMA ProductScale ==
  ASSUME NEW k \in Int, NEW p \in Int, NEW q \in Int,
         NEW l \in Int, NEW e \in Int, NEW f \in Int
  PROVE  ProductScales(k, p, q, l, e, f)
BY DEF ProductScales, Re, Im

LEMMA ProductCommutes ==
  ASSUME NEW p \in Int, NEW q \in Int, NEW e \in Int, NEW f \in Int
  PROVE  Re(p, q, e, f) = Re(e, f, p, q) /\ Im(p, q, e, f) = Im(e, f, p, q)
BY DEF Re, Im

TurnBack(p, q, e, f, k) ==
  /\ Re(Re(p, q, e, -f), Im(p, q, e, -f), e, f) = k * p
  /\ Im(Re(p, q, e, -f), Im(p, q, e, -f), e, f) = k * q
  /\ Re(Re(p, q, e, f), Im(p, q, e, f), e, -f) = k * p
  /\ Im(Re(p, q, e, f), Im(p, q, e, f), e, -f) = k * q

LEMMA TurnedBack ==
  ASSUME NEW p \in Int, NEW q \in Int, NEW e \in Int, NEW f \in Int, NEW k \in Int,
         k = e * e + f * f
  PROVE  TurnBack(p, q, e, f, k)
<1>1. /\ (p * e - q * (-f)) * e - (p * (-f) + q * e) * f = (e * e + f * f) * p
      /\ (p * e - q * (-f)) * f + (p * (-f) + q * e) * e = (e * e + f * f) * q
      /\ (p * e - q * f) * e - (p * f + q * e) * (-f) = (e * e + f * f) * p
      /\ (p * e - q * f) * (-f) + (p * f + q * e) * e = (e * e + f * f) * q
  OBVIOUS
<1>2. QED
  BY <1>1 DEF TurnBack, Re, Im

LEMMA PlusTowards ==
  ASSUME NEW a, NEW X \in Int, NEW Y \in Int, NEW R \in Int, Towards(a, X, Y, R),
         NEW b, NEW U \in Int, NEW V \in Int, NEW S \in Int, Towards(b, U, V, S)
  PROVE  Towards(Plus(a, b), Re(X, Y, U, V), Im(X, Y, U, V), R * S)
<1> DEFINE A == Re(a.x, a.y, b.x, b.y)
           B == Im(a.x, a.y, b.x, b.y)
           r == a.r * b.r
           p == Plus(a, b)
<1>1. /\ a.x \in Int /\ a.y \in Int /\ a.r \in Int /\ a.r > 0
      /\ b.x \in Int /\ b.y \in Int /\ b.r \in Int /\ b.r > 0
  BY AngleType DEF Towards
<1>2. a.x * a.x + a.y * a.y = a.r * a.r /\ b.x * b.x + b.y * b.y = b.r * b.r
  BY AngleType DEF Towards
<1>3. A \in Int /\ B \in Int
  BY <1>1, ProductType
<1>4. r \in Nat /\ r > 0 /\ r \in Int /\ r # 0
  BY <1>1
<1>5. A * A + B * B = r * r
  BY <1>1, <1>2, ProductLength
<1>6. p = Direction(A, B)
  BY DEF Plus, Re, Im
<1>7. /\ Ratio(A, r, Re(X, Y, U, V), R * S)
      /\ Ratio(B, r, Im(X, Y, U, V), R * S)
  <2>1. /\ Ratio(a.x, a.r, X, R) /\ Ratio(a.y, a.r, Y, R)
        /\ Ratio(b.x, b.r, U, S) /\ Ratio(b.y, b.r, V, S)
    BY DEF Towards
  <2>2. QED
    BY <1>1, <2>1, ProductRatio
<1> HIDE DEF A, B, r, p
<1>8. p \in Angles /\ Ratio(p.x, p.r, A, r) /\ Ratio(p.y, p.r, B, r)
  <2>1. HasLength(A, B, r)
    BY <1>4, <1>5 DEF HasLength
  <2>2. QED
    BY <1>3, <1>4, <1>6, <2>1, DirectionIs DEF Towards
<1>9. p.x \in Int /\ p.y \in Int /\ p.r \in Int
  BY <1>8, AngleType
<1> DEFINE C == Re(X, Y, U, V)
           D == Im(X, Y, U, V)
           s == R * S
<1>10. C \in Int /\ D \in Int /\ s \in Int
  BY ProductType
<1> HIDE DEF C, D, s
<1>11. Ratio(p.x, p.r, C, s) /\ Ratio(p.y, p.r, D, s)
  <2>1. Ratio(A, r, C, s) /\ Ratio(B, r, D, s)
    BY <1>7 DEF C, D, s
  <2>2. QED
    BY <1>3, <1>4, <1>8, <1>9, <1>10, <2>1, RatioTrans
<1>12. QED
  BY <1>8, <1>11 DEF Towards, p, C, D, s

(* Angles are added like complex numbers of length one. *)
LEMMA PlusAssociates ==
  ASSUME NEW a \in Angles, NEW b \in Angles, NEW c \in Angles
  PROVE  Plus(Plus(a, b), c) = Plus(a, Plus(b, c))
<1>1. /\ a.x \in Int /\ a.y \in Int /\ a.r \in Int /\ a.r # 0
      /\ b.x \in Int /\ b.y \in Int /\ b.r \in Int /\ b.r # 0
      /\ c.x \in Int /\ c.y \in Int /\ c.r \in Int /\ c.r # 0
  BY AngleType
<1> DEFINE x == Re(a.x, a.y, b.x, b.y)
           y == Im(a.x, a.y, b.x, b.y)
           r == a.r * b.r
           u == Re(b.x, b.y, c.x, c.y)
           v == Im(b.x, b.y, c.x, c.y)
           s == b.r * c.r
           X == Re(x, y, c.x, c.y)
           Y == Im(x, y, c.x, c.y)
<1>2. Towards(a, a.x, a.y, a.r) /\ Towards(b, b.x, b.y, b.r) /\ Towards(c, c.x, c.y, c.r)
  BY Itself
<1>3. x \in Int /\ y \in Int /\ u \in Int /\ v \in Int
  BY <1>1, ProductType
<1>4. r \in Int /\ r # 0 /\ s \in Int
  BY <1>1, NotZero
<1>5. Towards(Plus(a, b), x, y, r)
  BY <1>1, <1>2, PlusTowards
<1>6. Towards(Plus(b, c), u, v, s)
  BY <1>1, <1>2, PlusTowards
<1>7. X = Re(a.x, a.y, u, v) /\ Y = Im(a.x, a.y, u, v)
  <2>1. Associate(a.x, a.y, b.x, b.y, c.x, c.y)
    BY <1>1, ProductAssociates
  <2>2. QED
    BY <2>1 DEF Associate
<1>8. r * c.r = a.r * s
  BY <1>1
<1> HIDE DEF x, y, r, u, v, s
<1>9. X \in Int /\ Y \in Int
  BY <1>1, <1>3, ProductType
<1>10. r * c.r \in Int /\ r * c.r # 0
  BY <1>1, <1>4, NotZero
<1>11. Towards(Plus(Plus(a, b), c), X, Y, r * c.r)
  BY <1>1, <1>2, <1>3, <1>4, <1>5, PlusTowards
<1>12. Towards(Plus(a, Plus(b, c)), Re(a.x, a.y, u, v), Im(a.x, a.y, u, v), a.r * s)
  BY <1>1, <1>2, <1>3, <1>4, <1>6, PlusTowards
<1> HIDE DEF X, Y
<1>13. QED
  BY <1>7, <1>8, <1>9, <1>10, <1>11, <1>12, TowardsUnique

LEMMA PlusLaws ==
  ASSUME NEW a \in Angles, NEW b \in Angles
  PROVE  /\ Plus(a, b) \in Angles
         /\ Plus(a, b) = Plus(b, a)
         /\ Opposite(a) \in Angles /\ Opposite(Opposite(a)) = a
         /\ Minus(a, b) \in Angles
         /\ Plus(Minus(a, b), b) = a
         /\ Minus(Plus(a, b), b) = a
<1>1. /\ a.x \in Int /\ a.y \in Int /\ a.r \in Int /\ a.r # 0
      /\ b.x \in Int /\ b.y \in Int /\ b.r \in Int /\ b.r # 0 /\ -b.y \in Int
  BY AngleType
<1> DEFINE x == Re(a.x, a.y, b.x, b.y)
           y == Im(a.x, a.y, b.x, b.y)
           u == Re(a.x, a.y, b.x, -b.y)
           v == Im(a.x, a.y, b.x, -b.y)
           r == a.r * b.r
           k == b.r * b.r
<1>2. Towards(a, a.x, a.y, a.r) /\ Towards(b, b.x, b.y, b.r)
  BY Itself
<1>3. /\ Opposite(b) \in Angles /\ Towards(Opposite(b), b.x, -b.y, b.r)
      /\ Opposite(a) \in Angles /\ Opposite(Opposite(a)) = a
  BY <1>1, <1>2, OppositeIs
<1>4. x \in Int /\ y \in Int /\ u \in Int /\ v \in Int
  BY <1>1, ProductType
<1>5. r \in Int /\ r # 0 /\ k \in Int /\ k # 0
  BY <1>1, NotZero
<1>6. Towards(Plus(a, b), x, y, r)
  BY <1>1, <1>2, PlusTowards
<1>7. Towards(Minus(a, b), u, v, r)
  BY <1>1, <1>2, <1>3, PlusTowards DEF Minus
<1>8. Plus(a, b) = Plus(b, a)
  <2>1. /\ Plus(a, b) = Direction(Re(a.x, a.y, b.x, b.y), Im(a.x, a.y, b.x, b.y))
        /\ Plus(b, a) = Direction(Re(b.x, b.y, a.x, a.y), Im(b.x, b.y, a.x, a.y))
    BY DEF Plus, Re, Im
  <2>2. QED
    BY <1>1, <2>1, ProductCommutes
<1>9. /\ Re(u, v, b.x, b.y) = k * a.x /\ Im(u, v, b.x, b.y) = k * a.y
      /\ Re(x, y, b.x, -b.y) = k * a.x /\ Im(x, y, b.x, -b.y) = k * a.y
  <2>1. k = b.x * b.x + b.y * b.y
    BY AngleType
  <2> HIDE DEF k
  <2>2. TurnBack(a.x, a.y, b.x, b.y, k)
    BY <1>1, <1>5, <2>1, TurnedBack
  <2>3. QED
    BY <2>2 DEF TurnBack
<1>10. r * b.r = k * a.r
  BY <1>1
<1> HIDE DEF x, y, r, u, v, k
<1>11. Towards(Plus(Minus(a, b), b), k * a.x, k * a.y, k * a.r)
  <2>1. Towards(Plus(Minus(a, b), b), Re(u, v, b.x, b.y), Im(u, v, b.x, b.y), r * b.r)
    BY <1>1, <1>2, <1>4, <1>5, <1>7, PlusTowards
  <2>2. QED
    BY <1>9, <1>10, <2>1
<1>12. Towards(Minus(Plus(a, b), b), k * a.x, k * a.y, k * a.r)
  <2>1. Towards(Minus(Plus(a, b), b), Re(x, y, b.x, -b.y), Im(x, y, b.x, -b.y), r * b.r)
    BY <1>1, <1>3, <1>4, <1>5, <1>6, PlusTowards DEF Minus
  <2>2. QED
    BY <1>9, <1>10, <2>1
<1>13. Towards(a, k * a.x, k * a.y, k * a.r)
  BY <1>1, <1>2, <1>5, TowardsScale
<1>14. k * a.x \in Int /\ k * a.y \in Int /\ k * a.r \in Int /\ k * a.r # 0
  BY <1>1, <1>5, NotZero
<1>15. Plus(Minus(a, b), b) = a /\ Minus(Plus(a, b), b) = a
  BY <1>11, <1>12, <1>13, <1>14, TowardsUnique
<1>16. QED
  BY <1>3, <1>6, <1>7, <1>8, <1>15 DEF Towards

LEMMA SignedIs ==
  ASSUME NEW sigma \in Int, NEW a \in Angles
  PROVE  Signed(sigma, a) \in Angles /\ Signed(sigma, Signed(sigma, a)) = a
BY PlusLaws DEF Signed

LegTriples == Angles \X Angles \X Angles

IsTurned(angles) ==
  angles.coxa \in Angles /\ angles.femur \in Angles /\ angles.tibia \in Angles

(* The joints that the angles of the links and the bend between them call  *)
(* for.                                                                    *)
JointsFor(geometry, coxa, femur, bend) ==
  << Signed(geometry.sigma_coxa, coxa), Signed(SigmaFemur, femur),
     Signed(SigmaTibia, Minus(bend, geometry.tibia_offset)) >>

LEMMA JointsGiveAngles ==
  ASSUME NEW geometry, geometry.sigma_coxa \in Int, geometry.tibia_offset \in Angles,
         NEW coxa \in Angles, NEW femur \in Angles, NEW bend \in Angles
  PROVE  LET q == JointsFor(geometry, coxa, femur, bend)
             angles == ToLegAngles(geometry, q)
         IN  /\ q \in LegTriples
             /\ angles.coxa = coxa /\ angles.femur = femur
             /\ angles.tibia = Plus(femur, bend)
<1> DEFINE rest == Minus(bend, geometry.tibia_offset)
           q == JointsFor(geometry, coxa, femur, bend)
           angles == ToLegAngles(geometry, q)
<1>1. rest \in Angles /\ Plus(rest, geometry.tibia_offset) = bend
  BY PlusLaws
<1>2. SigmaFemur \in Int /\ SigmaTibia \in Int
  BY DEF SigmaFemur, SigmaTibia
<1>3. /\ q[1] = Signed(geometry.sigma_coxa, coxa)
      /\ q[2] = Signed(SigmaFemur, femur) /\ q[3] = Signed(SigmaTibia, rest)
      /\ q \in LegTriples
  BY <1>1, <1>2, SignedIs DEF JointsFor, LegTriples
<1> HIDE DEF rest, q
<1>4. /\ Signed(geometry.sigma_coxa, q[1]) = coxa
      /\ Signed(SigmaFemur, q[2]) = femur /\ Signed(SigmaTibia, q[3]) = rest
  BY <1>1, <1>2, <1>3, SignedIs
<1>5. /\ angles.coxa = coxa /\ angles.femur = femur
      /\ angles.tibia = Plus(Plus(femur, rest), geometry.tibia_offset)
  BY <1>4 DEF ToLegAngles
<1>6. Plus(Plus(femur, rest), geometry.tibia_offset) = Plus(femur, bend)
  <2>1. Plus(Plus(femur, rest), geometry.tibia_offset)
          = Plus(femur, Plus(rest, geometry.tibia_offset))
    BY <1>1, PlusAssociates
  <2>2. QED
    BY <1>1, <2>1
<1>7. QED
  BY <1>3, <1>5, <1>6 DEF q

LEMMA AnglesGiveJoints ==
  ASSUME NEW geometry, geometry.sigma_coxa \in Int, geometry.tibia_offset \in Angles,
         NEW q \in LegTriples
  PROVE  LET angles == ToLegAngles(geometry, q)
             bend == Minus(angles.tibia, angles.femur)
         IN  /\ IsTurned(angles) /\ bend \in Angles
             /\ q = JointsFor(geometry, angles.coxa, angles.femur, bend)
             /\ angles.tibia = Plus(angles.femur, bend)
<1> DEFINE angles == ToLegAngles(geometry, q)
           bend == Minus(angles.tibia, angles.femur)
           offset == geometry.tibia_offset
           rest == Signed(SigmaTibia, q[3])
<1>1. SigmaFemur \in Int /\ SigmaTibia \in Int
  BY DEF SigmaFemur, SigmaTibia
<1>2. q = <<q[1], q[2], q[3]>> /\ q[1] \in Angles /\ q[2] \in Angles /\ q[3] \in Angles
  BY DEF LegTriples
<1>3. /\ angles.coxa = Signed(geometry.sigma_coxa, q[1])
      /\ angles.femur = Signed(SigmaFemur, q[2])
      /\ angles.tibia = Plus(Plus(angles.femur, rest), offset)
  BY DEF ToLegAngles
<1>4. rest \in Angles /\ angles.coxa \in Angles /\ angles.femur \in Angles
  BY <1>1, <1>2, <1>3, SignedIs
<1>5. /\ Signed(geometry.sigma_coxa, angles.coxa) = q[1]
      /\ Signed(SigmaFemur, angles.femur) = q[2]
      /\ Signed(SigmaTibia, rest) = q[3]
  BY <1>1, <1>2, <1>3, SignedIs
<1> HIDE DEF angles, rest
<1>6. /\ angles.tibia = Plus(Plus(rest, offset), angles.femur)
      /\ Plus(rest, offset) \in Angles /\ angles.tibia \in Angles
  <2>1. Plus(rest, offset) \in Angles /\ Plus(angles.femur, rest) \in Angles
    BY <1>4, PlusLaws
  <2>2. Plus(Plus(angles.femur, rest), offset) = Plus(angles.femur, Plus(rest, offset))
    BY <1>4, PlusAssociates
  <2>3. Plus(angles.femur, Plus(rest, offset)) = Plus(Plus(rest, offset), angles.femur)
    BY <1>4, <2>1, PlusLaws
  <2>4. Plus(Plus(angles.femur, rest), offset) \in Angles
    BY <2>1, PlusLaws
  <2>5. QED
    BY <1>3, <2>1, <2>2, <2>3, <2>4
<1>7. bend = Plus(rest, offset)
  <2>1. Minus(Plus(Plus(rest, offset), angles.femur), angles.femur) = Plus(rest, offset)
    BY <1>4, <1>6, PlusLaws
  <2>2. QED
    BY <1>6, <2>1
<1>8. Minus(bend, offset) = rest
  BY <1>4, <1>7, PlusLaws
<1>9. angles.tibia = Plus(angles.femur, bend)
  BY <1>4, <1>6, <1>7, PlusLaws
<1>10. QED
  BY <1>2, <1>4, <1>5, <1>6, <1>7, <1>8, <1>9 DEF IsTurned, JointsFor, angles

-----------------------------------------------------------------------------
(* Points *)

(* p is x, y, z over D. *)
At(p, x, y, z, D) ==
  /\ p \in Points
  /\ Ratio(p.v[1], p.d, x, D) /\ Ratio(p.v[2], p.d, y, D) /\ Ratio(p.v[3], p.d, z, D)

Divisor(x, y, z, D) == Common(Common(x, y), Common(z, D))

LEMMA DividesTrans ==
  ASSUME NEW a \in Int, NEW b \in Int, NEW c \in Int, Divides(a, b), Divides(b, c)
  PROVE  Divides(a, c)
<1>1. PICK q \in Int : b = a * q
  BY DEF Divides
<1>2. PICK p \in Int : c = b * p
  BY DEF Divides
<1>3. c = a * (q * p) /\ q * p \in Int
  BY <1>1, <1>2
<1>4. QED
  BY <1>3 DEF Divides

LEMMA DivisorIs ==
  ASSUME NEW x \in Int, NEW y \in Int, NEW z \in Int, NEW D \in Int, D # 0
  PROVE  LET g == Divisor(x, y, z, D)
         IN  /\ g \in Nat /\ g > 0
             /\ Divides(g, x) /\ Divides(g, y) /\ Divides(g, z) /\ Divides(g, D)
<1> DEFINE a == Common(x, y)
           b == Common(z, D)
           g == Divisor(x, y, z, D)
<1>1. /\ a \in Int /\ b \in Int /\ b # 0
      /\ Divides(a, x) /\ Divides(a, y) /\ Divides(b, z) /\ Divides(b, D)
  BY CommonIs
<1>2. g \in Nat /\ g \in Int /\ g > 0 /\ Divides(g, a) /\ Divides(g, b)
  <2>1. g = Common(a, b)
    BY DEF Divisor
  <2> HIDE DEF a, b, g
  <2>2. QED
    BY <1>1, <2>1, CommonIs
<1> HIDE DEF a, b
<1>3. Divides(g, x) /\ Divides(g, y) /\ Divides(g, z) /\ Divides(g, D)
  <2> HIDE DEF g
  <2>1. QED
    BY <1>1, <1>2, DividesTrans
<1>4. QED
  BY <1>2, <1>3

DivisorScales(k, x, y, z, D) ==
  Divisor(k * x, k * y, k * z, k * D) = k * Divisor(x, y, z, D)

LEMMA DivisorScale ==
  ASSUME NEW x \in Int, NEW y \in Int, NEW z \in Int, NEW D \in Int,
         NEW k \in Nat, k > 0
  PROVE  DivisorScales(k, x, y, z, D)
<1> DEFINE a == Common(x, y)
           b == Common(z, D)
<1>1. a \in Int /\ b \in Int
  BY CommonIs
<1>2. Common(k * x, k * y) = k * a /\ Common(k * z, k * D) = k * b
  BY CommonScale
<1>3. Common(k * a, k * b) = k * Common(a, b)
  <2> HIDE DEF a, b
  <2>1. QED
    BY <1>1, CommonScale
<1>4. QED
  BY <1>2, <1>3 DEF Divisor, DivisorScales

LEMMA PointIs ==
  ASSUME NEW v, NEW x \in Int, NEW y \in Int, NEW z \in Int, NEW D \in Nat, D > 0,
         v[1] = x, v[2] = y, v[3] = z
  PROVE  At(Point(v, D), x, y, z, D)
<1> DEFINE g == Divisor(x, y, z, D)
<1>1. /\ g \in Nat /\ g > 0
      /\ Divides(g, x) /\ Divides(g, y) /\ Divides(g, z) /\ Divides(g, D)
  <2>1. D # 0 /\ D \in Int
    OBVIOUS
  <2>2. QED
    BY <2>1, DivisorIs
<1>2. Point(v, D) = [v |-> <<x \div g, y \div g, z \div g>>, d |-> D \div g]
  BY DEF Point, Divisor
<1> HIDE DEF g
<1>3. PICK a \in Int, b \in Int, c \in Int, e \in Int :
        x = g * a /\ y = g * b /\ z = g * c /\ D = g * e
  BY <1>1 DEF Divides
<1>4. e > 0 /\ e \in Nat
  <2>1. \A k \in Int : k <= 0 => g * k <= 0
    BY <1>1
  <2>2. QED
    BY <1>3, <2>1
<1>5. Point(v, D) = [v |-> <<a, b, c>>, d |-> e]
  <2>1. x \div g = a /\ y \div g = b /\ z \div g = c /\ D \div g = e
    BY <1>1, <1>3, Quotient
  <2>2. QED
    BY <1>2, <2>1
<1>6. Divisor(a, b, c, e) = 1
  <2>1. /\ Divisor(a, b, c, e) \in Nat
        /\ Divisor(g * a, g * b, g * c, g * e) = g * Divisor(a, b, c, e)
    <3>1. e # 0
      BY <1>4
    <3>2. Divisor(a, b, c, e) \in Nat
      BY <3>1, DivisorIs
    <3>3. DivisorScales(g, a, b, c, e)
      BY <1>1, DivisorScale
    <3>4. QED
      BY <3>2, <3>3 DEF DivisorScales
  <2>2. g = g * Divisor(a, b, c, e)
    BY <1>3, <2>1 DEF g
  <2>3. g * Divisor(a, b, c, e) = g * 1 /\ g \in Int /\ g # 0
    BY <1>1, <2>2
  <2>4. QED
    BY <2>1, <2>3, Cancel
<1>7. Point(<<a, b, c>>, e) = [v |-> <<a, b, c>>, d |-> e]
  <2>1. a \div 1 = a /\ b \div 1 = b /\ c \div 1 = c /\ e \div 1 = e
    OBVIOUS
  <2>2. QED
    BY <1>6, <2>1 DEF Point, Divisor
<1>8. Point(v, D) \in Points
  BY <1>4, <1>5, <1>7 DEF Points
<1>9. Ratio(a, e, x, D) /\ Ratio(b, e, y, D) /\ Ratio(c, e, z, D)
  <2>1. Ratio(a, e, a, e) /\ Ratio(b, e, b, e) /\ Ratio(c, e, c, e)
    BY DEF Ratio
  <2>2. g \in Int
    BY <1>1
  <2>3. Ratio(a, e, g * a, g * e) /\ Ratio(b, e, g * b, g * e) /\ Ratio(c, e, g * c, g * e)
    BY <2>1, <2>2, RatioScale
  <2>4. QED
    BY <1>3, <2>3
<1>10. QED
  BY <1>5, <1>8, <1>9 DEF At

LEMMA PointType ==
  ASSUME NEW p \in Points
  PROVE  /\ p = [v |-> p.v, d |-> p.d] /\ p.v = <<p.v[1], p.v[2], p.v[3]>>
         /\ p.v[1] \in Int /\ p.v[2] \in Int /\ p.v[3] \in Int
         /\ p.d \in Nat /\ p.d > 0 /\ p.d \in Int /\ p.d # 0
         /\ Divisor(p.v[1], p.v[2], p.v[3], p.d) = 1
         /\ At(p, p.v[1], p.v[2], p.v[3], p.d)
<1>1. /\ p = [v |-> p.v, d |-> p.d] /\ p.v = <<p.v[1], p.v[2], p.v[3]>>
      /\ p.v[1] \in Int /\ p.v[2] \in Int /\ p.v[3] \in Int
      /\ p.d \in Nat /\ p.d > 0 /\ p.d \in Int /\ p.d # 0
  BY DEF Points
<1> DEFINE g == Divisor(p.v[1], p.v[2], p.v[3], p.d)
<1>2. g \in Nat /\ g > 0 /\ Divides(g, p.d)
  BY <1>1, DivisorIs
<1>3. p.d = p.d \div g
  <2>1. p = Point(p.v, p.d)
    BY DEF Points
  <2>2. Point(p.v, p.d).d = p.d \div g
    BY DEF Point, Divisor
  <2> HIDE DEF g
  <2>3. QED
    BY <2>1, <2>2
<1> HIDE DEF g
<1>4. PICK k \in Int : p.d = g * k
  BY <1>2 DEF Divides
<1>5. p.d = k
  BY <1>2, <1>3, <1>4, Quotient
<1>6. g = 1
  <2>1. k * g = k * 1 /\ k # 0
    BY <1>1, <1>2, <1>4, <1>5
  <2>2. g \in Int /\ 1 \in Int
    BY <1>2
  <2>3. QED
    BY <2>1, <2>2, Cancel
<1>7. QED
  BY <1>1, <1>6 DEF g, At, Ratio

LEMMA PointUnique ==
  ASSUME NEW x \in Int, NEW y \in Int, NEW z \in Int, NEW D \in Int, D # 0,
         NEW p, At(p, x, y, z, D), NEW q, At(q, x, y, z, D)
  PROVE  p = q
<1>1. /\ p.v[1] \in Int /\ p.v[2] \in Int /\ p.v[3] \in Int /\ p.d \in Int /\ p.d # 0
      /\ q.v[1] \in Int /\ q.v[2] \in Int /\ q.v[3] \in Int /\ q.d \in Int /\ q.d # 0
      /\ p.d \in Nat /\ p.d > 0 /\ q.d \in Nat /\ q.d > 0
  BY PointType DEF At
<1>2. Ratio(p.v[1], p.d, x, D) /\ Ratio(p.v[2], p.d, y, D) /\ Ratio(p.v[3], p.d, z, D)
  BY DEF At
<1>3. Ratio(q.v[1], q.d, x, D) /\ Ratio(q.v[2], q.d, y, D) /\ Ratio(q.v[3], q.d, z, D)
  BY DEF At
<1>4. /\ q.d * p.v[1] = p.d * q.v[1] /\ q.d * p.v[2] = p.d * q.v[2]
      /\ q.d * p.v[3] = p.d * q.v[3] /\ q.d * p.d = p.d * q.d
  <2>1. q.d * p.v[1] = p.d * q.v[1]
    BY <1>1, <1>2, <1>3, RatioAgree
  <2>2. q.d * p.v[2] = p.d * q.v[2]
    BY <1>1, <1>2, <1>3, RatioAgree
  <2>3. q.d * p.v[3] = p.d * q.v[3]
    BY <1>1, <1>2, <1>3, RatioAgree
  <2>4. QED
    BY <1>1, <2>1, <2>2, <2>3
<1>5. Divisor(q.d * p.v[1], q.d * p.v[2], q.d * p.v[3], q.d * p.d) = q.d * 1
  <2>1. Divisor(p.v[1], p.v[2], p.v[3], p.d) = 1
    BY PointType DEF At
  <2>2. DivisorScales(q.d, p.v[1], p.v[2], p.v[3], p.d)
    BY <1>1, DivisorScale
  <2>3. QED
    BY <2>1, <2>2 DEF DivisorScales
<1>6. Divisor(p.d * q.v[1], p.d * q.v[2], p.d * q.v[3], p.d * q.d) = p.d * 1
  <2>1. Divisor(q.v[1], q.v[2], q.v[3], q.d) = 1
    BY PointType DEF At
  <2>2. DivisorScales(p.d, q.v[1], q.v[2], q.v[3], q.d)
    BY <1>1, DivisorScale
  <2>3. QED
    BY <2>1, <2>2 DEF DivisorScales
<1>7. p.d = q.d
  BY <1>1, <1>4, <1>5, <1>6
<1>8. p.v[1] = q.v[1] /\ p.v[2] = q.v[2] /\ p.v[3] = q.v[3]
  BY <1>1, <1>4, <1>7, Cancel, ZenonT(60)
<1>9. QED
  BY <1>7, <1>8, PointType DEF At

LEMMA AtScale ==
  ASSUME NEW p, NEW x \in Int, NEW y \in Int, NEW z \in Int, NEW D \in Int,
         NEW k \in Int, k # 0
  PROVE  At(p, x, y, z, D) <=> At(p, k * x, k * y, k * z, k * D)
<1>1. p \in Points => p.v[1] \in Int /\ p.v[2] \in Int /\ p.v[3] \in Int /\ p.d \in Int
  BY PointType
<1>2. At(p, x, y, z, D) => At(p, k * x, k * y, k * z, k * D)
  BY <1>1, RatioScale DEF At
<1>3. At(p, k * x, k * y, k * z, k * D) => At(p, x, y, z, D)
  BY <1>1, RatioReduce DEF At
<1>4. QED
  BY <1>2, <1>3

LEMMA AtTrans ==
  ASSUME NEW p, NEW x \in Int, NEW y \in Int, NEW z \in Int, NEW D \in Int, D # 0,
         At(p, x, y, z, D), NEW X \in Int, NEW Y \in Int, NEW Z \in Int, NEW E \in Int,
         Ratio(x, D, X, E), Ratio(y, D, Y, E), Ratio(z, D, Z, E)
  PROVE  At(p, X, Y, Z, E)
<1>1. /\ p \in Points /\ p.v[1] \in Int /\ p.v[2] \in Int /\ p.v[3] \in Int /\ p.d \in Int
      /\ Ratio(p.v[1], p.d, x, D) /\ Ratio(p.v[2], p.d, y, D) /\ Ratio(p.v[3], p.d, z, D)
  BY PointType DEF At
<1>2. Ratio(p.v[1], p.d, X, E)
  BY <1>1, RatioTrans
<1>3. Ratio(p.v[2], p.d, Y, E)
  BY <1>1, RatioTrans
<1>4. Ratio(p.v[3], p.d, Z, E)
  BY <1>1, RatioTrans
<1>5. QED
  BY <1>1, <1>2, <1>3, <1>4 DEF At

-----------------------------------------------------------------------------
(* The angles that the inverse kinematics takes *)

(* A root of n g g is a multiple of a root of n. *)
HasRoot(n, g, s) == n \in Nat /\ \E w \in Nat : s = g * w /\ w * w = n /\ Root[n] = w

LEMMA RootOver ==
  ASSUME NEW n \in Int, NEW g \in Nat, g > 0, NEW s \in Nat, s * s = n * (g * g)
  PROVE  HasRoot(n, g, s)
<1>1. n \in Nat
  <2>1. g * g > 0 /\ g * g \in Int /\ s * s >= 0
    OBVIOUS
  <2>2. \A k \in Int : k > 0 /\ n < 0 => n * k < 0
    OBVIOUS
  <2>3. ~ (n < 0)
    BY <2>1, <2>2
  <2>4. QED
    BY <2>3
<1>2. PICK w \in Int : s = g * w
  BY <1>1, RootIsNoFraction DEF Divides
<1>3. w \in Nat
  <2>1. \A k \in Int : k < 0 => g * k < 0
    OBVIOUS
  <2>2. QED
    BY <1>2, <2>1
<1>4. w * w = n
  <2>1. (g * w) * (g * w) = (g * g) * (w * w) /\ n * (g * g) = (g * g) * n
    OBVIOUS
  <2>2. (g * g) * (w * w) = (g * g) * n
    BY <1>2, <2>1
  <2>3. g * g \in Int /\ g * g # 0 /\ w * w \in Int
    OBVIOUS
  <2>4. QED
    BY <2>2, <2>3, Cancel
<1>5. Root[n] = w
  BY <1>3, <1>4, RootOfSquare
<1>6. QED
  BY <1>1, <1>2, <1>3, <1>4, <1>5 DEF HasRoot

(* The angle with the cosine p / q, bent the negative way. *)
LEMMA InteriorIs ==
  ASSUME NEW p \in Int, NEW q \in Int, q > 0, NEW s \in Nat, s * s = q * q - p * p
  PROVE  Towards(Interior(p, q), p, -s, q)
<1>1. PICK g \in Nat : \E a \in Int : \E b \in Int :
        /\ g > 0
        /\ Primitive(p, q) = <<a, b>>
        /\ p = g * a /\ q = g * b
        /\ Common(a, b) = 1
  <2>1. p # 0 \/ q # 0
    OBVIOUS
  <2>2. QED
    BY <2>1, PrimitiveIs, Zenon
<1>2. PICK a \in Int : \E b \in Int :
        g > 0 /\ Primitive(p, q) = <<a, b>> /\ p = g * a /\ q = g * b
  BY <1>1
<1>3. PICK b \in Int : g > 0 /\ Primitive(p, q) = <<a, b>> /\ p = g * a /\ q = g * b
  BY <1>2
<1>4. b > 0 /\ b \in Nat
  <2>1. \A k \in Int : k <= 0 => g * k <= 0
    BY <1>3
  <2>2. QED
    BY <1>3, <2>1
<1> DEFINE n == b * b - a * a
<1>5. s * s = n * (g * g)
  <2>1. (g * b) * (g * b) - (g * a) * (g * a) = (b * b - a * a) * (g * g)
    OBVIOUS
  <2>2. QED
    BY <1>3, <2>1
<1>6. n \in Int
  OBVIOUS
<1> HIDE DEF n
<1>7. PICK w \in Nat : s = g * w /\ w * w = n /\ Root[n] = w
  <2>1. g > 0
    BY <1>3
  <2>2. HasRoot(n, g, s)
    BY <1>5, <1>6, <2>1, RootOver
  <2>3. QED
    BY <2>2 DEF HasRoot
<1>8. Interior(p, q) = Direction(a, -w)
  BY <1>3, <1>7 DEF Interior, n
<1>9. HasLength(a, -w, b)
  <2>1. (-w) * (-w) = w * w
    OBVIOUS
  <2>2. QED
    BY <1>4, <1>7, <2>1 DEF HasLength, n
<1>10. Towards(Direction(a, -w), a, -w, b)
  BY <1>4, <1>9, DirectionIs
<1>11. Towards(Direction(a, -w), g * a, g * (-w), g * b)
  <2>1. g \in Int /\ g # 0 /\ -w \in Int
    BY <1>3
  <2>2. QED
    BY <1>10, <2>1, TowardsScale
<1>12. g * (-w) = -s
  BY <1>7
<1>13. QED
  BY <1>3, <1>8, <1>11, <1>12

(* The angle turns u, v over M into X, Y over N. *)
Turns(a, u, v, M, X, Y, N) ==
  /\ a \in Angles
  /\ Ratio(Re(a.x, a.y, u, v), a.r * M, X, N)
  /\ Ratio(Im(a.x, a.y, u, v), a.r * M, Y, N)

LEMMA Lengths ==
  ASSUME NEW x \in Int, NEW y \in Int
  PROVE  /\ x * x + y * y \in Nat
         /\ x # 0 \/ y # 0 => x * x + y * y > 0
<1>1. \A k \in Int : k * k >= 0 /\ (k # 0 => k * k > 0)
  OBVIOUS
<1>2. x * x \in Int /\ y * y \in Int /\ x * x >= 0 /\ y * y >= 0
  BY <1>1
<1>3. x # 0 \/ y # 0 => x * x > 0 \/ y * y > 0
  BY <1>1
<1>4. QED
  BY <1>2, <1>3

(* Two angles that turn one vector alike are the same. *)
LEMMA TurnsUnique ==
  ASSUME NEW a, NEW b, NEW u \in Int, NEW v \in Int, u # 0 \/ v # 0,
         NEW M \in Int, M # 0, NEW X \in Int, NEW Y \in Int, NEW N \in Int, N # 0,
         Turns(a, u, v, M, X, Y, N), Turns(b, u, v, M, X, Y, N)
  PROVE  a = b
<1>1. /\ a \in Angles /\ a.x \in Int /\ a.y \in Int /\ a.r \in Int /\ a.r # 0
      /\ b \in Angles /\ b.x \in Int /\ b.y \in Int /\ b.r \in Int /\ b.r # 0
  BY AngleType DEF Turns
<1> DEFINE A == Re(a.x, a.y, u, v)
           B == Im(a.x, a.y, u, v)
           C == Re(b.x, b.y, u, v)
           D == Im(b.x, b.y, u, v)
           p == a.x * b.r - b.x * a.r
           q == a.y * b.r - b.y * a.r
<1>2. A \in Int /\ B \in Int /\ C \in Int /\ D \in Int
  BY <1>1, ProductType
<1>3. a.r * M \in Int /\ b.r * M \in Int
  BY <1>1
<1>4. /\ Ratio(A, a.r * M, X, N) /\ Ratio(B, a.r * M, Y, N)
      /\ Ratio(C, b.r * M, X, N) /\ Ratio(D, b.r * M, Y, N)
  BY DEF Turns
<1>5. (b.r * M) * A = (a.r * M) * C /\ (b.r * M) * B = (a.r * M) * D
  <2> DEFINE r == a.r * M
             s == b.r * M
  <2>1. /\ Ratio(A, r, X, N) /\ Ratio(B, r, Y, N)
        /\ Ratio(C, s, X, N) /\ Ratio(D, s, Y, N)
    BY <1>4
  <2>2. r \in Int /\ s \in Int
    BY <1>3
  <2> HIDE DEF A, B, C, D, r, s
  <2>3. s * A = r * C
    BY <1>2, <2>1, <2>2, RatioAgree
  <2>4. s * B = r * D
    BY <1>2, <2>1, <2>2, RatioAgree
  <2>5. QED
    BY <2>3, <2>4 DEF r, s
<1>6. b.r * A = a.r * C /\ b.r * B = a.r * D
  <2> HIDE DEF A, B, C, D
  <2>1. \A r, K, s, L \in Int : (r * M) * K = (s * M) * L => M * (r * K) = M * (s * L)
    OBVIOUS
  <2>2. M * (b.r * A) = M * (a.r * C) /\ M * (b.r * B) = M * (a.r * D)
    BY <1>1, <1>2, <1>5, <2>1
  <2>3. b.r * A \in Int /\ a.r * C \in Int /\ b.r * B \in Int /\ a.r * D \in Int
    BY <1>1, <1>2
  <2>4. QED
    BY <2>2, <2>3, Cancel
<1>7. p \in Int /\ q \in Int
  BY <1>1
<1>8. p * u - q * v = 0 /\ p * v + q * u = 0
  <2>1. \A k, l, r, m, n, s \in Int :
          /\ (k * s - m * r) * u - (l * s - n * r) * v = s * (k * u - l * v) - r * (m * u - n * v)
          /\ (k * s - m * r) * v + (l * s - n * r) * u = s * (k * v + l * u) - r * (m * v + n * u)
    OBVIOUS
  <2>2. p * u - q * v = b.r * A - a.r * C /\ p * v + q * u = b.r * B - a.r * D
    BY <1>1, <2>1 DEF Re, Im
  <2> HIDE DEF A, B, C, D, p, q
  <2>3. b.r * A \in Int /\ b.r * B \in Int
    BY <1>1, <1>2
  <2>4. QED
    BY <1>6, <2>2, <2>3
<1> HIDE DEF p, q
<1>9. p = 0 /\ q = 0
  <2>1. (u * u + v * v) * p = 0 /\ (u * u + v * v) * q = 0
    <3>1. /\ (u * u + v * v) * p = u * (p * u - q * v) + v * (p * v + q * u)
          /\ (u * u + v * v) * q = u * (p * v + q * u) - v * (p * u - q * v)
      BY <1>7
    <3>2. QED
      BY <1>8, <3>1
  <2>2. u * u + v * v \in Int /\ u * u + v * v # 0
    BY Lengths
  <2>3. (u * u + v * v) * p = (u * u + v * v) * 0 /\ (u * u + v * v) * q = (u * u + v * v) * 0
    BY <2>1, <2>2
  <2>4. p = 0
    BY <1>7, <2>2, <2>3, Cancel
  <2>5. q = 0
    BY <1>7, <2>2, <2>3, Cancel
  <2>6. QED
    BY <2>4, <2>5
<1>10. a.x * b.r = b.x * a.r /\ a.y * b.r = b.y * a.r
  BY <1>1, <1>9 DEF p, q
<1>11. QED
  BY <1>1, <1>10, AngleUnique

LEMMA DirectionOfNothing == Direction(1, 0) \in Angles
<1>1. Towards(Direction(1, 0), 1, 0, 1)
  <2>1. HasLength(1, 0, 1)
    BY DEF HasLength
  <2>2. QED
    BY <2>1, DirectionIs
<1>2. QED
  BY <1>1 DEF Towards

(* What atan2 - atan2 does, where the two vectors are equally long. *)
LEMMA BetweenIs ==
  ASSUME NEW u \in Int, NEW v \in Int, NEW X \in Int, NEW Y \in Int,
         NEW M \in Nat, M > 0, NEW N \in Nat, N > 0,
         (u * u + v * v) * (N * N) = (X * X + Y * Y) * (M * M)
  PROVE  Turns(Between(<<u, v>>, <<X, Y>>), u, v, M, X, Y, N)
<1> DEFINE F == Between(<<u, v>>, <<X, Y>>)
<1>1. CASE u = 0 /\ v = 0
  <2>1. X = 0 /\ Y = 0
    <3>1. (X * X + Y * Y) * (M * M) = 0
      BY <1>1
    <3>2. M * M > 0 /\ M * M \in Int
      OBVIOUS
    <3>3. X * X + Y * Y = 0
      BY <3>1, <3>2
    <3>4. QED
      BY <3>3, Lengths
  <2>2. Primitive(0, 0) = <<1, 0>>
    <3>1. Common(0, 0) = 0
      BY CommonIs
    <3>2. QED
      BY <3>1 DEF Primitive
  <2>3. F = Direction(1, 0)
    BY <1>1, <2>1, <2>2 DEF Between
  <2>4. F \in Angles /\ F.x \in Int /\ F.y \in Int /\ F.r \in Int
    BY <2>3, DirectionOfNothing, AngleType
  <2> HIDE DEF F
  <2>5. Re(F.x, F.y, 0, 0) = 0 /\ Im(F.x, F.y, 0, 0) = 0
    BY <2>4 DEF Re, Im
  <2>6. F.r * M \in Int
    BY <2>4
  <2>7. Ratio(0, F.r * M, 0, N)
    BY <2>6 DEF Ratio
  <2>8. QED
    BY <1>1, <2>1, <2>4, <2>5, <2>7 DEF Turns, F
<1>2. CASE u # 0 \/ v # 0
  <2>1. X # 0 \/ Y # 0
    <3>1. u * u + v * v > 0 /\ u * u + v * v \in Int /\ N * N > 0 /\ N * N \in Int
      BY <1>2, Lengths
    <3>2. (u * u + v * v) * (N * N) > 0
      BY <3>1
    <3>3. QED
      BY <3>2
  <2>2. PICK g \in Nat : \E a \in Int : \E b \in Int :
          /\ g > 0
          /\ Primitive(u, v) = <<a, b>>
          /\ u = g * a /\ v = g * b
          /\ Common(a, b) = 1
    BY <1>2, PrimitiveIs, Zenon
  <2>3. PICK a \in Int : \E b \in Int :
          g > 0 /\ Primitive(u, v) = <<a, b>> /\ u = g * a /\ v = g * b
    BY <2>2
  <2>4. PICK b \in Int : g > 0 /\ Primitive(u, v) = <<a, b>> /\ u = g * a /\ v = g * b
    BY <2>3
  <2>5. PICK h \in Nat : \E c \in Int : \E d \in Int :
          /\ h > 0
          /\ Primitive(X, Y) = <<c, d>>
          /\ X = h * c /\ Y = h * d
          /\ Common(c, d) = 1
    BY <2>1, PrimitiveIs, Zenon
  <2>6. PICK c \in Int : \E d \in Int :
          h > 0 /\ Primitive(X, Y) = <<c, d>> /\ X = h * c /\ Y = h * d
    BY <2>5
  <2>7. PICK d \in Int : h > 0 /\ Primitive(X, Y) = <<c, d>> /\ X = h * c /\ Y = h * d
    BY <2>6
  <2> DEFINE p == a * c + b * d
             q == a * d - b * c
             m == a * a + b * b
             n == c * c + d * d
             K == g * N
             R == n * (h * M)
  <2>8. F = Direction(p, q)
    BY <2>4, <2>7 DEF Between
  <2>9. n > 0 /\ n \in Nat /\ m \in Nat
    <3>1. c # 0 \/ d # 0
      BY <2>1, <2>7
    <3>2. QED
      BY <3>1, Lengths
  <2>10. K \in Nat /\ K > 0 /\ h * M \in Nat /\ h * M > 0
    BY <2>4, <2>7
  <2>11. m * (K * K) = n * ((h * M) * (h * M))
    <3>1. /\ ((g * a) * (g * a) + (g * b) * (g * b)) * (N * N) = m * (K * K)
          /\ ((h * c) * (h * c) + (h * d) * (h * d)) * (M * M) = n * ((h * M) * (h * M))
      OBVIOUS
    <3>2. QED
      BY <2>4, <2>7, <3>1
  <2>12. p * p + q * q = m * n
    OBVIOUS
  <2>13. p \in Int /\ q \in Int
    OBVIOUS
  <2>14. Re(p, q, a, b) = m * c /\ Im(p, q, a, b) = m * d
    BY DEF Re, Im
  <2>15. R \in Nat /\ R > 0
    <3> HIDE DEF n, K
    <3>1. QED
      BY <2>9, <2>10
  <2>16. (p * p + q * q) * (K * K) = R * R
    <3> DEFINE k == K * K
               l == h * M
    <3>1. k \in Int /\ l \in Int /\ m * k = n * (l * l) /\ m \in Int /\ n \in Int
      BY <2>9, <2>10, <2>11
    <3> HIDE DEF k, l, m, n
    <3>2. (m * n) * k = (n * l) * (n * l)
      <4>1. (m * n) * k = n * (m * k) /\ n * (n * (l * l)) = (n * l) * (n * l)
        BY <3>1
      <4>2. QED
        BY <3>1, <4>1
    <3>3. QED
      BY <2>12, <3>2 DEF k, l
  <2> HIDE DEF F, p, q, m, n, K, R
  <2>17. Towards(F, K * p, K * q, R)
    BY <2>8, <2>10, <2>13, <2>15, <2>16, DirectionOver
  <2>18. F \in Angles /\ F.x \in Int /\ F.y \in Int /\ F.r \in Int
    BY <2>17, AngleType DEF Towards
  <2> DEFINE S == Re(F.x, F.y, u, v)
             T == Im(F.x, F.y, u, v)
  <2>19. S \in Int /\ T \in Int
    BY <2>18, ProductType
  <2>20. Ratio(S, F.r, Re(K * p, K * q, u, v), R) /\ Ratio(T, F.r, Im(K * p, K * q, u, v), R)
    <3>1. Ratio(u, 1, u, 1) /\ Ratio(v, 1, v, 1)
      BY DEF Ratio
    <3>2. Ratio(F.x, F.r, K * p, R) /\ Ratio(F.y, F.r, K * q, R)
      BY <2>17 DEF Towards
    <3>3. K * p \in Int /\ K * q \in Int /\ R \in Int
      BY <2>10, <2>13, <2>15
    <3>4. /\ Ratio(S, F.r * 1, Re(K * p, K * q, u, v), R * 1)
          /\ Ratio(T, F.r * 1, Im(K * p, K * q, u, v), R * 1)
      BY <2>18, <3>1, <3>2, <3>3, ProductRatio
    <3>5. F.r * 1 = F.r /\ R * 1 = R
      BY <2>15, <2>18
    <3>6. QED
      BY <3>4, <3>5
  <2>21. Re(K * p, K * q, u, v) = (K * g) * (m * c) /\ Im(K * p, K * q, u, v) = (K * g) * (m * d)
    <3>1. K \in Int /\ g \in Int
      BY <2>10
    <3>2. ProductScales(K, p, q, g, a, b)
      BY <2>13, <3>1, ProductScale
    <3>3. QED
      BY <2>4, <2>14, <3>2 DEF ProductScales
  (* Re F (u, v) : F.r = K g m c : R, and with m K K = n (h M) (h M) that  *)
  (* is h c M : N.                                                         *)
  <2>22. ASSUME NEW k \in Int, NEW s \in Int, Ratio(s, F.r, (K * g) * (m * k), R)
         PROVE  Ratio(s, F.r * M, h * k, N)
    <3> DEFINE l == h * M
               r == F.r
    <3>1. l \in Int /\ l # 0 /\ n \in Int /\ n # 0 /\ K \in Int /\ m \in Int /\ r \in Int
      BY <2>9, <2>10, <2>18
    <3>2. m * (K * K) = n * (l * l)
      BY <2>11
    <3>3. s * (n * l) = ((K * g) * (m * k)) * r
      BY <2>22 DEF Ratio, R
    <3>4. h * k \in Int /\ (h * k) * (r * M) = l * (k * r)
      BY <3>1
    <3> HIDE DEF l, r
    <3>5. (s * N) * (n * l) = (l * (k * r)) * (n * l)
      <4>1. (s * N) * (n * l) = N * (s * (n * l))
        BY <3>1
      <4>2. N * (((K * g) * (m * k)) * r) = (m * (K * (g * N))) * (k * r)
        BY <3>1
      <4>3. (n * (l * l)) * (k * r) = (l * (k * r)) * (n * l)
        BY <3>1
      <4>4. m * (K * (g * N)) = n * (l * l)
        BY <3>2 DEF K
      <4>5. QED
        BY <3>3, <4>1, <4>2, <4>3, <4>4
    <3>6. s * N = l * (k * r)
      <4>1. n * l \in Int /\ n * l # 0
        BY <3>1, NotZero
      <4>2. s * N \in Int /\ l * (k * r) \in Int
        BY <3>1
      <4>3. (n * l) * (s * N) = (n * l) * (l * (k * r))
        <5>1. \A i, j \in Int : i * j = j * i
          OBVIOUS
        <5>2. QED
          BY <3>5, <4>1, <4>2, <5>1
      <4> HIDE DEF K
      <4>4. QED
        BY <4>1, <4>2, <4>3, Cancel
    <3>7. QED
      BY <3>4, <3>6 DEF Ratio, r
  <2>23. Ratio(S, F.r * M, h * c, N) /\ Ratio(T, F.r * M, h * d, N)
    <3> HIDE DEF S, T
    <3>1. QED
      BY <2>19, <2>20, <2>21, <2>22
  <2>24. QED
    BY <2>7, <2>18, <2>23 DEF Turns, F
<1>3. QED
  BY <1>1, <1>2

-----------------------------------------------------------------------------
(* The foot *)

LegType(geometry) ==
  /\ geometry.coxa_length \in Int /\ geometry.lateral_offset \in Int
  /\ geometry.femur_length \in Int /\ geometry.tibia_length \in Int
  /\ geometry.sigma_coxa \in Int
  /\ geometry.tibia_offset \in Angles

LEMMA TurnedAt ==
  ASSUME NEW coxa \in Angles, NEW along \in Int, NEW side \in Int, NEW up \in Int,
         NEW den \in Nat, den > 0
  PROVE  At(Turned(coxa, along, side, up, den), Re(along, side, coxa.x, coxa.y),
            Im(along, side, coxa.x, coxa.y), up * coxa.r, den * coxa.r)
<1> DEFINE x == Re(along, side, coxa.x, coxa.y)
           y == Im(along, side, coxa.x, coxa.y)
           z == up * coxa.r
           D == den * coxa.r
<1>1. coxa.x \in Int /\ coxa.y \in Int /\ coxa.r \in Nat /\ coxa.r > 0
  BY AngleType
<1>2. x \in Int /\ y \in Int /\ z \in Int
  <2>1. x \in Int /\ y \in Int
    BY <1>1, ProductType
  <2>2. z \in Int
    BY <1>1
  <2>3. QED
    BY <2>1, <2>2
<1>3. D \in Nat /\ D > 0
  BY <1>1
<1>4. Turned(coxa, along, side, up, den) = Point(<<x, y, z>>, D)
  BY DEF Turned, Re, Im
<1> HIDE DEF x, y, z, D
<1>5. At(Point(<<x, y, z>>, D), x, y, z, D)
  BY <1>2, <1>3, PointIs
<1>6. QED
  BY <1>4, <1>5 DEF x, y, z, D

LEMMA ArmType ==
  ASSUME NEW geometry, LegType(geometry), NEW angles, IsTurned(angles)
  PROVE  LET arm == Arm(geometry, angles)
         IN  /\ arm.den \in Nat /\ arm.den > 0 /\ arm.den \in Int /\ arm.den # 0
             /\ arm.reach \in Int /\ arm.height \in Int /\ arm.lateral \in Int
             /\ arm.tibiaAlong \in Int /\ arm.tibiaUp \in Int
<1>1. /\ angles.femur.x \in Int /\ angles.femur.y \in Int
      /\ angles.femur.r \in Nat /\ angles.femur.r > 0
      /\ angles.tibia.x \in Int /\ angles.tibia.y \in Int
      /\ angles.tibia.r \in Nat /\ angles.tibia.r > 0
  BY AngleType DEF IsTurned
<1>2. angles.femur.r * angles.tibia.r \in Nat /\ angles.femur.r * angles.tibia.r > 0
  BY <1>1
<1>3. QED
  BY <1>1, <1>2 DEF Arm, LegType

LEMMA FootAt ==
  ASSUME NEW geometry, LegType(geometry), NEW q, IsTurned(ToLegAngles(geometry, q))
  PROVE  LET angles == ToLegAngles(geometry, q)
             coxa == angles.coxa
             arm == Arm(geometry, angles)
         IN  At(ForwardKinematics(geometry, q), Re(arm.reach, arm.lateral, coxa.x, coxa.y),
                Im(arm.reach, arm.lateral, coxa.x, coxa.y), arm.height * coxa.r,
                arm.den * coxa.r)
<1> DEFINE angles == ToLegAngles(geometry, q)
           arm == Arm(geometry, angles)
<1>1. /\ arm.den \in Nat /\ arm.den > 0 /\ arm.reach \in Int /\ arm.height \in Int
      /\ arm.lateral \in Int
  BY ArmType
<1>2. angles.coxa \in Angles
  BY DEF IsTurned
<1>3. ForwardKinematics(geometry, q)
        = Turned(angles.coxa, arm.reach, arm.lateral, arm.height, arm.den)
  BY DEF ForwardKinematics
<1> HIDE DEF angles, arm
<1>4. QED
  BY <1>1, <1>2, <1>3, TurnedAt DEF angles, arm

(* Where the links end in the plane of the leg before the femur turns.     *)
EndOf(geometry, bend) ==
  << geometry.femur_length * bend.r + geometry.tibia_length * bend.x,
     geometry.tibia_length * bend.y >>

LEMMA LinksAre ==
  ASSUME NEW geometry, LegType(geometry), NEW angles, IsTurned(angles),
         NEW bend \in Angles, angles.tibia = Plus(angles.femur, bend)
  PROVE  LET arm == Arm(geometry, angles)
             end == EndOf(geometry, bend)
             F == angles.femur
             r == F.r * bend.r
         IN  /\ end[1] \in Int /\ end[2] \in Int /\ r \in Int /\ r # 0
             /\ Ratio(arm.reach - geometry.coxa_length * arm.den, arm.den,
                      Re(F.x, F.y, end[1], end[2]), r)
             /\ Ratio(arm.height, arm.den, Im(F.x, F.y, end[1], end[2]), r)
<1> DEFINE F == angles.femur
           T == angles.tibia
           I == bend
           f == geometry.femur_length
           t == geometry.tibia_length
           den == F.r * T.r
           r == F.r * I.r
           e == f * I.r + t * I.x
           k == t * I.y
           U == Re(F.x, F.y, I.x, I.y)
           V == Im(F.x, F.y, I.x, I.y)
<1>1. /\ F.x \in Int /\ F.y \in Int /\ F.r \in Int /\ F.r # 0
      /\ I.x \in Int /\ I.y \in Int /\ I.r \in Int /\ I.r # 0
      /\ T.x \in Int /\ T.y \in Int /\ T.r \in Int /\ T.r # 0
  BY AngleType DEF IsTurned
<1>2. f \in Int /\ t \in Int /\ geometry.coxa_length \in Int
  BY DEF LegType
<1>3. Towards(T, U, V, r)
  <2>1. F \in Angles
    BY DEF IsTurned
  <2>2. Towards(F, F.x, F.y, F.r) /\ Towards(I, I.x, I.y, I.r)
    BY <2>1, Itself
  <2>3. QED
    BY <1>1, <2>2, PlusTowards
<1>4. Ratio(T.x, T.r, U, r) /\ Ratio(T.y, T.r, V, r)
  BY <1>3 DEF Towards
<1>5. U \in Int /\ V \in Int
  BY <1>1, ProductType
<1>6. e \in Int /\ k \in Int /\ r \in Int /\ r # 0
  <2>1. e \in Int /\ k \in Int
    BY <1>1, <1>2
  <2>2. r \in Int /\ r # 0
    BY <1>1, NotZero
  <2>3. QED
    BY <2>1, <2>2
(* The femur's part and the tibia's, over den and over r. *)
<1>7. ASSUME NEW x \in Int, NEW y \in Int, NEW Y \in Int, Ratio(y, T.r, Y, r)
      PROVE  Ratio((f * T.r) * x + (t * F.r) * y, den, (f * x) * I.r + t * Y, r)
  <2>1. Ratio((f * T.r) * x, den, (f * x) * I.r, r)
    <3>1. ((f * T.r) * x) * (F.r * I.r) = ((f * x) * I.r) * (F.r * T.r)
      BY <1>1, <1>2
    <3>2. QED
      BY <3>1 DEF Ratio
  <2>2. Ratio((t * F.r) * y, den, t * Y, r)
    <3>1. y * r = Y * T.r
      BY <1>7 DEF Ratio
    <3> HIDE DEF r
    <3>2. ((t * F.r) * y) * r = (t * F.r) * (y * r)
      BY <1>1, <1>2, <1>6
    <3>3. (t * Y) * (F.r * T.r) = (t * F.r) * (Y * T.r)
      BY <1>1, <1>2
    <3>4. QED
      BY <3>1, <3>2, <3>3 DEF Ratio
  <2>3. /\ (f * T.r) * x \in Int /\ (t * F.r) * y \in Int /\ den \in Int
        /\ (f * x) * I.r \in Int /\ t * Y \in Int
    BY <1>1, <1>2
  <2> HIDE DEF den, r
  <2>4. QED
    BY <1>6, <2>1, <2>2, <2>3, RatioPlus
<1>8. /\ (f * F.x) * I.r + t * U = Re(F.x, F.y, e, k)
      /\ (f * F.y) * I.r + t * V = Im(F.x, F.y, e, k)
  <2>1. \A a, b, c, d, m, x, y \in Int :
          /\ (a * x) * c + b * (x * d - y * m) = x * (a * c + b * d) - y * (b * m)
          /\ (a * y) * c + b * (x * m + y * d) = x * (b * m) + y * (a * c + b * d)
    OBVIOUS
  <2>2. QED
    BY <1>1, <1>2, <2>1 DEF Re, Im
<1>9. LET arm == Arm(geometry, angles)
      IN  /\ arm.den = den
          /\ arm.reach - geometry.coxa_length * arm.den
               = (f * T.r) * F.x + (t * F.r) * T.x
          /\ arm.height = (f * T.r) * F.y + (t * F.r) * T.y
  <2>1. geometry.coxa_length * den \in Int /\ (f * T.r) * F.x \in Int /\ (t * F.r) * T.x \in Int
    BY <1>1, <1>2
  <2>2. \A a, b, c \in Int : (a + b + c) - a = b + c
    OBVIOUS
  <2>3. QED
    BY <2>1, <2>2 DEF Arm
<1>10. EndOf(geometry, bend)[1] = e /\ EndOf(geometry, bend)[2] = k
  BY DEF EndOf
<1>11. /\ Ratio((f * T.r) * F.x + (t * F.r) * T.x, den, Re(F.x, F.y, e, k), r)
       /\ Ratio((f * T.r) * F.y + (t * F.r) * T.y, den, Im(F.x, F.y, e, k), r)
  <2>1. Ratio((f * T.r) * F.x + (t * F.r) * T.x, den, (f * F.x) * I.r + t * U, r)
    BY <1>1, <1>4, <1>5, <1>7
  <2>2. Ratio((f * T.r) * F.y + (t * F.r) * T.y, den, (f * F.y) * I.r + t * V, r)
    BY <1>1, <1>4, <1>5, <1>7
  <2>3. QED
    BY <1>8, <2>1, <2>2
<1>12. QED
  BY <1>6, <1>9, <1>10, <1>11

-----------------------------------------------------------------------------
(* The inverse kinematics, in parts *)

Lateral(geometry, h) == geometry.lateral_offset * h.d

Square(geometry, h) ==
  (h.v[1] * h.v[1] + h.v[2] * h.v[2]) - Lateral(geometry, h) * Lateral(geometry, h)

Along(geometry, h) == Root[Square(geometry, h)] - geometry.coxa_length * h.d

Distance(geometry, h) == Along(geometry, h) * Along(geometry, h) + h.v[3] * h.v[3]

Both(geometry, h) == 2 * geometry.femur_length * geometry.tibia_length * h.d * h.d

Excess(geometry, h) ==
  Distance(geometry, h)
    - (geometry.femur_length * geometry.femur_length
         + geometry.tibia_length * geometry.tibia_length) * h.d * h.d

Bend(geometry, h) == Interior(Excess(geometry, h), Both(geometry, h))

CoxaTo(geometry, h) ==
  Between(<<Root[Square(geometry, h)], Lateral(geometry, h)>>, <<h.v[1], h.v[2]>>)

FemurTo(geometry, h) ==
  Between(EndOf(geometry, Bend(geometry, h)), <<Along(geometry, h), h.v[3]>>)

JointsTo(geometry, h) ==
  JointsFor(geometry, CoxaTo(geometry, h), FemurTo(geometry, h), Bend(geometry, h))

IsReached(geometry, h) ==
  /\ IsUsable(geometry)
  /\ Square(geometry, h) >= 0
  /\ Excess(geometry, h) \in -Both(geometry, h) .. Both(geometry, h)

LEMMA WholeRootsAre ==
  ASSUME NEW geometry, NEW h
  PROVE  WholeRoots(geometry, h) <=>
           (Square(geometry, h) >= 0 =>
              /\ IsSquare(Square(geometry, h))
              /\ Excess(geometry, h) \in -Both(geometry, h) .. Both(geometry, h) =>
                   IsSquare(Both(geometry, h) * Both(geometry, h)
                              - Excess(geometry, h) * Excess(geometry, h)))
BY DEF WholeRoots, Square, Excess, Both, Distance, Along, Lateral

LEMMA InverseIs ==
  ASSUME NEW geometry, LegType(geometry), NEW h \in Points
  PROVE  InverseKinematics(geometry, h) =
           IF IsReached(geometry, h)
           THEN [q |-> JointsTo(geometry, h),
                 status |-> IF WithinLimits(geometry, JointsTo(geometry, h)) THEN "Success"
                            ELSE "LimitViolation"]
           ELSE Unreachable
<1> DEFINE f == geometry.femur_length
           t == geometry.tibia_length
           d == h.d
           horizontal == h.v[1] * h.v[1] + h.v[2] * h.v[2]
           side == Lateral(geometry, h)
           D == Distance(geometry, h)
<1>1. /\ h.v[1] \in Int /\ h.v[2] \in Int /\ h.v[3] \in Int /\ d \in Int
  BY PointType
<1>2. f \in Int /\ t \in Int /\ geometry.coxa_length \in Int /\ geometry.lateral_offset \in Int
  BY DEF LegType
<1>3. InverseKinematics(geometry, h) =
        IF \/ ~IsUsable(geometry)
           \/ horizontal < side * side
           \/ D > (f + t) * (f + t) * d * d
           \/ D < (f - t) * (f - t) * d * d
        THEN Unreachable
        ELSE [q |-> JointsTo(geometry, h),
              status |-> IF WithinLimits(geometry, JointsTo(geometry, h)) THEN "Success"
                         ELSE "LimitViolation"]
  BY ZenonT(60) DEF InverseKinematics, JointsTo, JointsFor, CoxaTo, FemurTo, Bend, Excess, Both,
         Distance, Along, Square, Lateral, EndOf
<1>4. side \in Int /\ horizontal \in Int /\ side * side \in Int
  <2>1. side \in Int
    BY <1>1, <1>2 DEF Lateral
  <2> HIDE DEF side
  <2>2. QED
    BY <1>1, <2>1
<1>5. horizontal < side * side <=> ~ (Square(geometry, h) >= 0)
  <2>1. Square(geometry, h) = horizontal - side * side
    BY DEF Square
  <2> DEFINE n == side * side
  <2> HIDE DEF horizontal, side, n
  <2>2. Square(geometry, h) = horizontal - n /\ n \in Int /\ horizontal \in Int
    BY <1>4, <2>1 DEF n
  <2>3. QED
    BY <2>2 DEF n
<1>6. CASE Square(geometry, h) >= 0
  <2>1. Along(geometry, h) \in Int
    <3>1. Square(geometry, h) \in Nat
      BY <1>1, <1>4, <1>6 DEF Square
    <3>2. Root[Square(geometry, h)] \in Int
      BY <3>1, RootIs
    <3>3. QED
      BY <1>1, <1>2, <3>2 DEF Along
  <2>2. D \in Int
    BY <1>1, <2>1 DEF Distance
  <2> DEFINE p == (f * f + t * t) * d * d
             b == 2 * f * t * d * d
  <2>3. /\ (f + t) * (f + t) * d * d = p + b
        /\ (f - t) * (f - t) * d * d = p - b
    <3>1. \A x, y, z \in Int :
            /\ (x + y) * (x + y) * z * z = (x * x + y * y) * z * z + 2 * x * y * z * z
            /\ (x - y) * (x - y) * z * z = (x * x + y * y) * z * z - 2 * x * y * z * z
      OBVIOUS
    <3>2. QED
      BY <1>1, <1>2, <3>1
  <2>4. Excess(geometry, h) = D - p /\ Both(geometry, h) = b
    BY DEF Excess, Both
  <2>5. p \in Int /\ b \in Int
    BY <1>1, <1>2
  <2> HIDE DEF p, b, D
  <2>6. D > p + b \/ D < p - b <=> ~ (D - p \in -b .. b)
    BY <2>2, <2>5
  <2> HIDE DEF f, t, d, horizontal, side
  <2>7. QED
    BY <1>3, <1>5, <1>6, <2>3, <2>4, <2>6 DEF IsReached
<1>7. CASE ~ (Square(geometry, h) >= 0)
  BY <1>3, <1>5, <1>7 DEF IsReached
<1>8. QED
  BY <1>6, <1>7

(* The links meet the target when the bend has the cosine that the law of  *)
(* cosines asks for.                                                       *)
LEMMA LawOfCosines ==
  ASSUME NEW f \in Int, NEW t \in Int, NEW d \in Int, NEW D \in Int, NEW bend \in Angles,
         Ratio(bend.x, bend.r, D - (f * f + t * t) * d * d, 2 * f * t * d * d)
  PROVE  LET e == f * bend.r + t * bend.x
             k == t * bend.y
         IN  (e * e + k * k) * (d * d) = D * (bend.r * bend.r)
<1> DEFINE x == bend.x
           y == bend.y
           r == bend.r
<1>1. x \in Int /\ y \in Int /\ r \in Int
  BY AngleType
<1>2. x * x + y * y = r * r
  BY AngleType
<1>3. x * (2 * f * t * d * d) = (D - (f * f + t * t) * d * d) * r
  BY DEF Ratio
<1> HIDE DEF x, y, r
<1>4. (f * r + t * x) * (f * r + t * x) + (t * y) * (t * y)
        = (f * f) * (r * r) + (2 * f * t) * (r * x) + (t * t) * (r * r)
  <2>1. (f * r + t * x) * (f * r + t * x) + (t * y) * (t * y)
          = (f * f) * (r * r) + (2 * f * t) * (r * x) + (t * t) * (x * x + y * y)
    BY <1>1
  <2>2. QED
    BY <1>2, <2>1
<1>5. ((f * f) * (r * r) + (2 * f * t) * (r * x) + (t * t) * (r * r)) * (d * d)
        = r * (x * (2 * f * t * d * d)) + ((f * f + t * t) * d * d) * (r * r)
  BY <1>1
<1>6. r * ((D - (f * f + t * t) * d * d) * r) + ((f * f + t * t) * d * d) * (r * r)
        = D * (r * r)
  <2> DEFINE p == (f * f + t * t) * d * d
  <2>1. p \in Int
    OBVIOUS
  <2> HIDE DEF p
  <2>2. r * ((D - p) * r) + p * (r * r) = D * (r * r)
    BY <1>1, <2>1
  <2>3. QED
    BY <2>2 DEF p
<1>7. QED
  BY <1>3, <1>4, <1>5, <1>6 DEF x, y, r

-----------------------------------------------------------------------------
(* Back and forth *)

(* The foot is at h when the arm reaches as far as the target asks in the  *)
(* plane of the leg, and the coxa turns that to where the target is.       *)
LEMMA FootIs ==
  ASSUME NEW geometry, LegType(geometry), NEW h \in Points, NEW w \in Int,
         NEW q, IsTurned(ToLegAngles(geometry, q)),
         Ratio(Arm(geometry, ToLegAngles(geometry, q)).reach,
               Arm(geometry, ToLegAngles(geometry, q)).den, w, h.d),
         Ratio(Arm(geometry, ToLegAngles(geometry, q)).height,
               Arm(geometry, ToLegAngles(geometry, q)).den, h.v[3], h.d),
         Turns(ToLegAngles(geometry, q).coxa, w, Lateral(geometry, h), 1,
               h.v[1], h.v[2], 1)
  PROVE  ForwardKinematics(geometry, q) = h
<1> DEFINE C == ToLegAngles(geometry, q).coxa
           arm == Arm(geometry, ToLegAngles(geometry, q))
           L == Lateral(geometry, h)
           d == h.d
           x == h.v[1]
           y == h.v[2]
           z == h.v[3]
           D == arm.den * C.r
           X == Re(arm.reach, arm.lateral, C.x, C.y)
           Y == Im(arm.reach, arm.lateral, C.x, C.y)
           Z == arm.height * C.r
<1>1. /\ x \in Int /\ y \in Int /\ z \in Int /\ d \in Int /\ d # 0
      /\ h \in Points
  BY PointType
<1>2. /\ C.x \in Int /\ C.y \in Int /\ C.r \in Int /\ C.r # 0
  BY AngleType DEF IsTurned
<1>3. /\ arm.den \in Int /\ arm.den # 0 /\ arm.reach \in Int /\ arm.height \in Int
      /\ arm.lateral \in Int
  BY ArmType
<1>4. L \in Int
  BY <1>1 DEF Lateral, LegType
<1>5. Ratio(arm.lateral, arm.den, L, d)
  <2>1. arm.lateral = geometry.lateral_offset * arm.den
    BY DEF Arm
  <2>2. (geometry.lateral_offset * arm.den) * d = (geometry.lateral_offset * d) * arm.den
    BY <1>1, <1>3 DEF LegType
  <2>3. QED
    BY <2>1, <2>2 DEF Ratio, Lateral
<1>6. Ratio(arm.reach, arm.den, w, d) /\ Ratio(arm.height, arm.den, z, d)
  OBVIOUS
<1>7. Re(C.x, C.y, w, L) = x * C.r /\ Im(C.x, C.y, w, L) = y * C.r
  <2>1. /\ Ratio(Re(C.x, C.y, w, L), C.r * 1, x, 1)
        /\ Ratio(Im(C.x, C.y, w, L), C.r * 1, y, 1)
    BY DEF Turns
  <2>2. Re(C.x, C.y, w, L) \in Int /\ Im(C.x, C.y, w, L) \in Int
    BY <1>2, <1>4, ProductType
  <2> HIDE DEF C, L, x, y
  <2>3. QED
    BY <1>1, <1>2, <2>1, <2>2 DEF Ratio
<1>8. At(ForwardKinematics(geometry, q), X, Y, Z, D)
  BY FootAt
<1> HIDE DEF C, arm, L, d, x, y, z
<1>9. D \in Int /\ D # 0 /\ X \in Int /\ Y \in Int /\ Z \in Int
  <2>1. D \in Int /\ D # 0
    BY <1>2, <1>3, NotZero
  <2>2. X \in Int /\ Y \in Int
    BY <1>2, <1>3, ProductType
  <2>3. Z \in Int
    BY <1>2, <1>3
  <2>4. QED
    BY <2>1, <2>2, <2>3
<1>10. Ratio(X, D, x, d) /\ Ratio(Y, D, y, d)
  <2>1. Ratio(C.x, C.r, C.x, C.r) /\ Ratio(C.y, C.r, C.y, C.r)
    BY DEF Ratio
  <2>2. /\ Ratio(X, D, Re(w, L, C.x, C.y), d * C.r)
        /\ Ratio(Y, D, Im(w, L, C.x, C.y), d * C.r)
    BY <1>1, <1>2, <1>3, <1>4, <1>5, <1>6, <2>1, ProductRatio
  <2>3. Re(w, L, C.x, C.y) = C.r * x /\ Im(w, L, C.x, C.y) = C.r * y
    BY <1>1, <1>2, <1>4, <1>7, ProductCommutes
  <2>4. d * C.r = C.r * d
    BY <1>1, <1>2
  <2>5. Ratio(X, D, C.r * x, C.r * d) /\ Ratio(Y, D, C.r * y, C.r * d)
    BY <2>2, <2>3, <2>4
  <2> HIDE DEF X, Y, D
  <2>6. QED
    BY <1>1, <1>2, <1>9, <2>5, RatioReduce
<1>11. Ratio(Z, D, z, d)
  <2>1. arm.height * d = z * arm.den
    BY <1>6 DEF Ratio
  <2>2. (arm.height * C.r) * d = C.r * (arm.height * d)
    BY <1>1, <1>2, <1>3
  <2>3. z * (arm.den * C.r) = C.r * (z * arm.den)
    BY <1>1, <1>2, <1>3
  <2>4. QED
    BY <2>1, <2>2, <2>3 DEF Ratio
<1> HIDE DEF X, Y, Z, D
<1>12. At(h, X, Y, Z, D)
  <2>1. Ratio(x, d, X, D) /\ Ratio(y, d, Y, D) /\ Ratio(z, d, Z, D)
    BY <1>10, <1>11 DEF Ratio
  <2>2. QED
    BY <1>1, <2>1 DEF At, x, y, z, d
<1>13. QED
  BY <1>8, <1>9, <1>12, PointUnique

(* What the roots of a target that is reached are for.                     *)
LEMMA ReachedIs ==
  ASSUME NEW geometry, LegType(geometry), NEW h \in Points,
         WholeRoots(geometry, h), IsReached(geometry, h)
  PROVE  LET w == Root[Square(geometry, h)]
             bend == Bend(geometry, h)
             end == EndOf(geometry, bend)
         IN  /\ w \in Nat /\ w * w = Square(geometry, h)
             /\ bend \in Angles /\ bend.y <= 0
             /\ Ratio(bend.x, bend.r, Excess(geometry, h), Both(geometry, h))
             /\ (end[1] * end[1] + end[2] * end[2]) * (h.d * h.d)
                  = Distance(geometry, h) * (bend.r * bend.r)
<1> DEFINE w == Root[Square(geometry, h)]
           bend == Bend(geometry, h)
           p == Excess(geometry, h)
           q == Both(geometry, h)
           D == Distance(geometry, h)
           f == geometry.femur_length
           t == geometry.tibia_length
           d == h.d
           s == Root[q * q - p * p]
<1>1. /\ h.v[1] \in Int /\ h.v[2] \in Int /\ h.v[3] \in Int /\ d \in Int /\ d > 0
  BY PointType
<1>2. f \in Int /\ t \in Int /\ f > 0 /\ t > 0 /\ geometry.coxa_length \in Int
  BY DEF LegType, IsReached, IsUsable
<1>3. Square(geometry, h) \in Nat
  <2>1. Lateral(geometry, h) \in Int
    BY <1>1 DEF Lateral, LegType
  <2>2. Square(geometry, h) \in Int
    BY <1>1, <2>1 DEF Square
  <2>3. QED
    BY <2>2 DEF IsReached
<1>4. w \in Nat /\ w * w = Square(geometry, h)
  <2>1. IsSquare(Square(geometry, h))
    BY WholeRootsAre DEF IsReached
  <2>2. QED
    BY <1>3, <2>1, RootIs DEF IsSquare
<1>5. D \in Int
  <2>1. Along(geometry, h) \in Int
    BY <1>1, <1>2, <1>4 DEF Along
  <2>2. QED
    BY <1>1, <2>1 DEF Distance
<1>6. q \in Int /\ q > 0
  <2>1. 2 * f \in Nat /\ 2 * f > 0 /\ 2 * f * t \in Nat /\ 2 * f * t > 0
    BY <1>2
  <2>2. 2 * f * t * d \in Nat /\ 2 * f * t * d > 0
    BY <1>1, <2>1
  <2>3. 2 * f * t * d * d \in Nat /\ 2 * f * t * d * d > 0
    BY <1>1, <2>2
  <2>4. QED
    BY <2>3 DEF Both
<1>7. p \in Int /\ p \in -q .. q
  <2>1. (f * f + t * t) * d * d \in Int
    BY <1>1, <1>2
  <2>2. QED
    BY <1>5, <2>1 DEF Excess, IsReached
<1>8. q * q - p * p \in Nat
  <2> HIDE DEF p, q
  <2>1. (q - p) * (q + p) = q * q - p * p
    BY <1>6, <1>7
  <2>2. q - p \in Nat /\ q + p \in Nat
    BY <1>6, <1>7
  <2>3. QED
    BY <2>1, <2>2
<1>9. s \in Nat /\ s * s = q * q - p * p
  <2>1. IsSquare(q * q - p * p)
    BY WholeRootsAre DEF IsReached
  <2>2. QED
    BY <1>8, <2>1, RootIs DEF IsSquare
<1>10. Towards(bend, p, -s, q)
  <2> HIDE DEF p, q, s
  <2>1. Towards(Interior(p, q), p, -s, q)
    BY <1>6, <1>7, <1>9, InteriorIs
  <2>2. QED
    BY <2>1 DEF Bend, p, q
<1>11. bend \in Angles /\ Ratio(bend.x, bend.r, p, q) /\ Ratio(bend.y, bend.r, -s, q)
  BY <1>10 DEF Towards
<1>12. bend.y <= 0
  <2>1. bend.y \in Int /\ bend.r \in Int /\ bend.r > 0
    BY <1>11, AngleType
  <2>2. bend.y * q = (-s) * bend.r
    BY <1>11 DEF Ratio
  <2> HIDE DEF bend, s, q
  <2>3. s * bend.r \in Nat
    BY <1>9, <2>1
  <2>4. ~ (bend.y > 0)
    <3>1. SUFFICES ASSUME bend.y > 0 PROVE FALSE
      OBVIOUS
    <3>2. bend.y * q > 0
      BY <1>6, <2>1, <3>1
    <3>3. (-s) * bend.r = -(s * bend.r)
      BY <1>9, <2>1
    <3>4. QED
      BY <2>2, <2>3, <3>2, <3>3
  <2>5. QED
    BY <2>1, <2>4
<1>13. LET end == EndOf(geometry, bend)
       IN  (end[1] * end[1] + end[2] * end[2]) * (d * d) = D * (bend.r * bend.r)
  <2>1. Ratio(bend.x, bend.r, D - (f * f + t * t) * d * d, 2 * f * t * d * d)
    BY <1>11 DEF Excess, Both
  <2> HIDE DEF bend, D, f, t, d
  <2>2. LET e == f * bend.r + t * bend.x
            k == t * bend.y
        IN  (e * e + k * k) * (d * d) = D * (bend.r * bend.r)
    BY <1>1, <1>2, <1>5, <1>11, <2>1, LawOfCosines
  <2>3. EndOf(geometry, bend)[1] = f * bend.r + t * bend.x /\ EndOf(geometry, bend)[2] = t * bend.y
    BY DEF EndOf, f, t
  <2>4. QED
    BY <2>2, <2>3
<1>14. QED
  BY <1>4, <1>11, <1>12, <1>13

(* A foot that is not out of reach lands on its target.                    *)
LEMMA LandsOnTarget ==
  ASSUME NEW geometry, LegType(geometry), NEW h \in Points,
         WholeRoots(geometry, h), IsReached(geometry, h)
  PROVE  /\ JointsTo(geometry, h) \in LegTriples
         /\ ForwardKinematics(geometry, JointsTo(geometry, h)) = h
<1> DEFINE w == Root[Square(geometry, h)]
           L == Lateral(geometry, h)
           a == Along(geometry, h)
           x == h.v[1]
           y == h.v[2]
           z == h.v[3]
           d == h.d
           bend == Bend(geometry, h)
           e == EndOf(geometry, bend)[1]
           k == EndOf(geometry, bend)[2]
           C == CoxaTo(geometry, h)
           F == FemurTo(geometry, h)
           q == JointsTo(geometry, h)
           angles == ToLegAngles(geometry, q)
           arm == Arm(geometry, angles)
<1>1. /\ x \in Int /\ y \in Int /\ z \in Int /\ d \in Nat /\ d > 0 /\ d \in Int /\ d # 0
  BY PointType
<1>2. geometry.coxa_length \in Int /\ L \in Int
  BY <1>1 DEF LegType, Lateral
<1>3. /\ w \in Nat /\ w * w = (x * x + y * y) - L * L
      /\ bend \in Angles
      /\ (e * e + k * k) * (d * d) = (a * a + z * z) * (bend.r * bend.r)
  BY ReachedIs DEF Square, Distance
<1>4. bend.r \in Nat /\ bend.r > 0 /\ bend.r \in Int /\ bend.r # 0
  BY <1>3, AngleType
<1>5. a = w - geometry.coxa_length * d /\ a \in Int
  BY <1>1, <1>2, <1>3 DEF Along
<1>6. /\ e \in Int /\ k \in Int /\ EndOf(geometry, bend) = <<e, k>>
  <2>1. bend.x \in Int /\ bend.y \in Int
    BY <1>3, AngleType
  <2>2. QED
    BY <1>4, <2>1 DEF EndOf, LegType
<1>7. Turns(C, w, L, 1, x, y, 1)
  <2>1. C = Between(<<w, L>>, <<x, y>>)
    BY DEF CoxaTo
  <2> HIDE DEF w, L, x, y, C
  <2>2. (w * w + L * L) * (1 * 1) = (x * x + y * y) * (1 * 1)
    <3>1. \A A, B \in Int : ((A - B) + B) * (1 * 1) = A * (1 * 1)
      OBVIOUS
    <3>2. x * x + y * y \in Int /\ L * L \in Int
      BY <1>1, <1>2
    <3>3. QED
      BY <1>3, <3>1, <3>2
  <2>3. w \in Int
    BY <1>3
  <2>4. Turns(Between(<<w, L>>, <<x, y>>), w, L, 1, x, y, 1)
    BY <1>1, <1>2, <2>2, <2>3, BetweenIs
  <2>5. QED
    BY <2>1, <2>4
<1>8. Turns(F, e, k, bend.r, a, z, d)
  <2>1. F = Between(EndOf(geometry, bend), <<a, z>>)
    BY DEF FemurTo
  <2>2. F = Between(<<e, k>>, <<a, z>>)
    BY <1>6, <2>1
  <2> HIDE DEF e, k, a, z, d, bend, F
  <2>3. QED
    BY <1>1, <1>3, <1>4, <1>5, <1>6, <2>2, BetweenIs
<1>9. C \in Angles /\ F \in Angles
  BY <1>7, <1>8 DEF Turns
<1>10. /\ q \in LegTriples /\ IsTurned(angles)
       /\ angles.coxa = C /\ angles.femur = F /\ angles.tibia = Plus(F, bend)
  <2>1. q = JointsFor(geometry, C, F, bend)
    BY DEF JointsTo
  <2>2. geometry.sigma_coxa \in Int /\ geometry.tibia_offset \in Angles
    BY DEF LegType
  <2> HIDE DEF C, F, bend, q
  <2>3. /\ q \in LegTriples
        /\ angles.coxa = C /\ angles.femur = F /\ angles.tibia = Plus(F, bend)
    BY <1>3, <1>9, <2>1, <2>2, JointsGiveAngles
  <2>4. Plus(F, bend) \in Angles
    BY <1>3, <1>9, PlusLaws
  <2>5. QED
    BY <1>9, <2>3, <2>4 DEF IsTurned
<1>11. /\ arm.den \in Int /\ arm.den # 0 /\ arm.reach \in Int /\ arm.height \in Int
  BY <1>10, ArmType
<1>12. /\ Ratio(arm.reach - geometry.coxa_length * arm.den, arm.den, a, d)
       /\ Ratio(arm.height, arm.den, z, d)
  <2> DEFINE r == F.r * bend.r
  <2>1. /\ r \in Int /\ r # 0
        /\ Ratio(arm.reach - geometry.coxa_length * arm.den, arm.den,
                 Re(F.x, F.y, e, k), r)
        /\ Ratio(arm.height, arm.den, Im(F.x, F.y, e, k), r)
    BY <1>3, <1>10, LinksAre
  <2>2. Ratio(Re(F.x, F.y, e, k), r, a, d) /\ Ratio(Im(F.x, F.y, e, k), r, z, d)
    BY <1>8 DEF Turns
  <2>3. Re(F.x, F.y, e, k) \in Int /\ Im(F.x, F.y, e, k) \in Int
    <3>1. F.x \in Int /\ F.y \in Int
      BY <1>9, AngleType
    <3>2. QED
      BY <1>6, <3>1, ProductType
  <2>4. arm.reach - geometry.coxa_length * arm.den \in Int
    BY <1>2, <1>11
  <2> DEFINE u == arm.reach - geometry.coxa_length * arm.den
             U == Re(F.x, F.y, e, k)
             V == Im(F.x, F.y, e, k)
  <2> HIDE DEF r, arm, F, e, k, a, z, d
  <2>5. /\ Ratio(u, arm.den, U, r) /\ Ratio(U, r, a, d)
        /\ Ratio(arm.height, arm.den, V, r) /\ Ratio(V, r, z, d)
        /\ u \in Int /\ U \in Int /\ V \in Int /\ r \in Int /\ r # 0
    BY <2>1, <2>2, <2>3, <2>4
  <2> HIDE DEF u, U, V
  <2>6. Ratio(u, arm.den, a, d)
    BY <1>1, <1>5, <1>11, <2>5, RatioTrans
  <2>7. Ratio(arm.height, arm.den, z, d)
    BY <1>1, <1>11, <2>5, RatioTrans
  <2>8. QED
    BY <2>6, <2>7 DEF u
<1>13. Ratio(arm.reach, arm.den, w, d)
  <2> DEFINE c == geometry.coxa_length
  <2> HIDE DEF arm, d, w, a
  <2>1. Ratio(c * arm.den, arm.den, c * d, d)
    <3>1. (c * arm.den) * d = (c * d) * arm.den
      BY <1>1, <1>2, <1>11
    <3>2. QED
      BY <3>1 DEF Ratio
  <2>2. c * arm.den \in Int /\ c * d \in Int /\ arm.reach - c * arm.den \in Int
    BY <1>1, <1>2, <1>11
  <2> DEFINE m == c * arm.den
             n == c * d
  <2>3. Ratio(arm.reach - m, arm.den, a, d) /\ Ratio(m, arm.den, n, d)
    BY <1>12, <2>1
  <2>4. m \in Int /\ n \in Int /\ a = w - n /\ w \in Int
    BY <1>3, <1>5, <2>2
  <2> DEFINE u == arm.reach - m
  <2> HIDE DEF m, n
  <2>5. u \in Int /\ u + m = arm.reach /\ a + n = w
    BY <1>11, <2>4
  <2> HIDE DEF u
  <2>6. Ratio(u + m, arm.den, a + n, d)
    BY <1>1, <1>5, <1>11, <2>3, <2>4, <2>5, RatioPlus DEF u
  <2>7. QED
    BY <2>5, <2>6
<1>14. w \in Int
  BY <1>3
<1>15. ForwardKinematics(geometry, q) = h
  BY <1>7, <1>10, <1>12, <1>13, <1>14, FootIs
<1>16. QED
  BY <1>10, <1>15

(* And the other way round: lengths that agree make this the cosine.       *)
LEMMA CosineIs ==
  ASSUME NEW f \in Int, NEW t \in Int, NEW d \in Int, NEW D \in Int, NEW bend \in Angles,
         NEW e, e = f * bend.r + t * bend.x, NEW k, k = t * bend.y,
         (e * e + k * k) * (d * d) = D * (bend.r * bend.r)
  PROVE  Ratio(bend.x, bend.r, D - (f * f + t * t) * d * d, 2 * f * t * d * d)
<1> DEFINE x == bend.x
           y == bend.y
           r == bend.r
           P == (f * f + t * t) * d * d
           B == 2 * f * t * d * d
<1>1. x \in Int /\ y \in Int /\ r \in Int /\ r # 0
  BY AngleType
<1>2. x * x + y * y = r * r
  BY AngleType
<1>3. ((f * r + t * x) * (f * r + t * x) + (t * y) * (t * y)) * (d * d) = D * (r * r)
  OBVIOUS
<1> HIDE DEF x, y, r
<1>4. (f * r + t * x) * (f * r + t * x) + (t * y) * (t * y)
        = (f * f) * (r * r) + (2 * f * t) * (r * x) + (t * t) * (r * r)
  <2>1. (f * r + t * x) * (f * r + t * x) + (t * y) * (t * y)
          = (f * f) * (r * r) + (2 * f * t) * (r * x) + (t * t) * (x * x + y * y)
    BY <1>1
  <2>2. QED
    BY <1>2, <2>1
<1>5. ((f * f) * (r * r) + (2 * f * t) * (r * x) + (t * t) * (r * r)) * (d * d)
        = r * (x * B) + P * (r * r)
  BY <1>1
<1>6. r * (x * B) + P * (r * r) = D * (r * r)
  BY <1>3, <1>4, <1>5
<1>7. P \in Int /\ B \in Int
  OBVIOUS
<1> HIDE DEF P, B
<1>8. r * (x * B) = r * ((D - P) * r)
  <2>1. r * ((D - P) * r) + P * (r * r) = D * (r * r)
    BY <1>1, <1>7
  <2> DEFINE U == r * (x * B)
             V == r * ((D - P) * r)
             W == P * (r * r)
  <2>2. U \in Int /\ V \in Int /\ W \in Int
    BY <1>1, <1>7
  <2>3. U + W = V + W
    BY <1>6, <2>1
  <2> HIDE DEF U, V, W
  <2>4. U = V
    BY <2>2, <2>3
  <2>5. QED
    BY <2>4 DEF U, V
<1>9. x * B = (D - P) * r
  <2>1. x * B \in Int /\ (D - P) * r \in Int
    BY <1>1, <1>7
  <2>2. QED
    BY <1>1, <1>8, <2>1, Cancel
<1>10. QED
  BY <1>9 DEF Ratio, x, r, P, B

(* Only vectors of one length are turned into each other.                  *)
LEMMA TurnsLength ==
  ASSUME NEW a, NEW u \in Int, NEW v \in Int, NEW M \in Int,
         NEW X \in Int, NEW Y \in Int, NEW N \in Int, Turns(a, u, v, M, X, Y, N)
  PROVE  (u * u + v * v) * (N * N) = (X * X + Y * Y) * (M * M)
<1> DEFINE x == a.x
           y == a.y
           r == a.r
           S == Re(x, y, u, v)
           T == Im(x, y, u, v)
           l == u * u + v * v
           m == X * X + Y * Y
<1>1. x \in Int /\ y \in Int /\ r \in Int /\ r # 0 /\ x * x + y * y = r * r
  BY AngleType DEF Turns
<1>2. S * N = X * (r * M) /\ T * N = Y * (r * M)
  BY DEF Turns, Ratio
<1> HIDE DEF x, y, r
<1>3. S * S + T * T = (r * r) * l
  <2>1. S * S + T * T = (x * x + y * y) * l
    BY <1>1 DEF Re, Im
  <2>2. QED
    BY <1>1, <2>1
<1>4. S \in Int /\ T \in Int
  BY <1>1, ProductType
<1> HIDE DEF S, T
<1>5. (S * S + T * T) * (N * N) = (r * r) * (m * (M * M))
  <2>1. (S * S + T * T) * (N * N) = (S * N) * (S * N) + (T * N) * (T * N)
    BY <1>4
  <2>2. (X * (r * M)) * (X * (r * M)) + (Y * (r * M)) * (Y * (r * M))
          = (r * r) * (m * (M * M))
    BY <1>1
  <2>3. QED
    BY <1>2, <2>1, <2>2
<1>6. ((r * r) * l) * (N * N) = (r * r) * (l * (N * N))
  BY <1>1
<1>7. r * r \in Int /\ r * r # 0 /\ l * (N * N) \in Int /\ m * (M * M) \in Int
  <2>1. r * r \in Int /\ r * r # 0
    BY <1>1, NotZero
  <2>2. QED
    BY <2>1
<1>8. (r * r) * (l * (N * N)) = (r * r) * (m * (M * M))
  BY <1>3, <1>5, <1>6
<1> HIDE DEF l, m
<1>9. l * (N * N) = m * (M * M)
  BY <1>7, <1>8, Cancel
<1>10. QED
  BY <1>9 DEF l, m

(* The foot of an arm that is not folded back, as the inverse kinematics   *)
(* sees it: its roots are whole, and its turns are those of the joints.    *)
LEMMA FootFrom ==
  ASSUME NEW geometry, LegType(geometry), NEW q \in LegTriples, Expressible(geometry, q)
  PROVE  LET angles == ToLegAngles(geometry, q)
             arm == Arm(geometry, angles)
             bend == Minus(angles.tibia, angles.femur)
             end == EndOf(geometry, bend)
             h == ForwardKinematics(geometry, q)
             w == Root[Square(geometry, h)]
         IN  /\ h \in Points
             /\ w \in Nat /\ w * w = Square(geometry, h)
             /\ w * arm.den = arm.reach * h.d
             /\ end[1] \in Int /\ end[2] \in Int
             /\ Along(geometry, h) \in Int
             /\ Turns(angles.coxa, w, Lateral(geometry, h), 1, h.v[1], h.v[2], 1)
             /\ Turns(angles.femur, end[1], end[2], bend.r, Along(geometry, h), h.v[3], h.d)
<1> DEFINE angles == ToLegAngles(geometry, q)
           arm == Arm(geometry, angles)
           bend == Minus(angles.tibia, angles.femur)
           e == EndOf(geometry, bend)[1]
           k == EndOf(geometry, bend)[2]
           h == ForwardKinematics(geometry, q)
           w == Root[Square(geometry, h)]
           C == angles.coxa
           F == angles.femur
           R == arm.reach
           S == arm.lateral
           den == arm.den
           x == h.v[1]
           y == h.v[2]
           z == h.v[3]
           d == h.d
           L == Lateral(geometry, h)
           c == geometry.coxa_length
           X == Re(R, S, C.x, C.y)
           Y == Im(R, S, C.x, C.y)
<1>1. /\ IsTurned(angles) /\ bend \in Angles /\ angles.tibia = Plus(F, bend)
      /\ C \in Angles /\ F \in Angles
  BY AnglesGiveJoints DEF LegType, IsTurned
<1>2. /\ C.x \in Int /\ C.y \in Int /\ C.r \in Int /\ C.r # 0
      /\ C.x * C.x + C.y * C.y = C.r * C.r
      /\ F.x \in Int /\ F.y \in Int /\ F.r \in Int /\ F.r # 0
      /\ bend.r \in Int /\ bend.r # 0
  BY <1>1, AngleType
<1>3. /\ den \in Nat /\ den > 0 /\ den \in Int /\ den # 0 /\ R \in Int /\ S \in Int
      /\ arm.height \in Int
      /\ S = geometry.lateral_offset * den
  BY <1>1, ArmType DEF Arm
<1>4. R >= 0
  BY DEF Expressible
<1>5. At(h, X, Y, arm.height * C.r, den * C.r)
  BY <1>1, FootAt
<1>6. /\ h \in Points /\ x \in Int /\ y \in Int /\ z \in Int
      /\ d \in Nat /\ d > 0 /\ d \in Int /\ d # 0
  BY <1>5, PointType DEF At
<1>7. c \in Int /\ geometry.lateral_offset \in Int /\ L \in Int /\ L * den = S * d
  <2>1. c \in Int /\ geometry.lateral_offset \in Int
    BY DEF LegType
  <2>2. L = geometry.lateral_offset * d
    BY DEF Lateral
  <2> HIDE DEF L, S, d, den
  <2>3. QED
    BY <1>3, <1>6, <2>1, <2>2
<1>8. X \in Int /\ Y \in Int
  BY <1>2, <1>3, ProductType
<1>9. /\ x * (den * C.r) = X * d /\ y * (den * C.r) = Y * d
      /\ z * (den * C.r) = (arm.height * C.r) * d
  BY <1>5 DEF At, Ratio
<1>10. X * X + Y * Y = (R * R + S * S) * (C.r * C.r)
  <2> HIDE DEF R, S, C
  <2>1. X * X + Y * Y = (R * R + S * S) * (C.x * C.x + C.y * C.y)
    BY <1>2, <1>3 DEF Re, Im
  <2>2. QED
    BY <1>2, <2>1
<1>11. /\ e \in Int /\ k \in Int
       /\ Ratio(R - c * den, den, Re(F.x, F.y, e, k), F.r * bend.r)
       /\ Ratio(arm.height, den, Im(F.x, F.y, e, k), F.r * bend.r)
  BY <1>1, LinksAre
<1>12. Square(geometry, h) = (x * x + y * y) - L * L
  BY DEF Square
<1> DEFINE height == arm.height
           n == Square(geometry, h)
<1>13. h = ForwardKinematics(geometry, q) /\ height \in Int /\ w = Root[n]
  BY <1>3
<1>14. Along(geometry, h) = w - c * d
  BY DEF Along
<1> HIDE DEF angles, arm, bend, e, k, h, C, F, R, S, den, x, y, z, d, L, c, X, Y, height, w, n
<1>15. (x * x + y * y) * (den * den) = (R * R + S * S) * (d * d)
  <2> DEFINE r == C.r
             p == (x * x + y * y) * (den * den)
             m == (R * R + S * S) * (d * d)
  <2>1. r \in Int /\ r # 0 /\ r * r \in Int /\ r * r # 0
    BY <1>2, NotZero
  <2>2. p \in Int /\ m \in Int
    BY <1>3, <1>6
  <2> HIDE DEF r
  <2>3. (r * r) * p = (x * (den * r)) * (x * (den * r)) + (y * (den * r)) * (y * (den * r))
    BY <1>3, <1>6, <2>1
  <2>4. (X * d) * (X * d) + (Y * d) * (Y * d) = (X * X + Y * Y) * (d * d)
    BY <1>6, <1>8
  <2>5. ((R * R + S * S) * (r * r)) * (d * d) = (r * r) * m
    BY <1>3, <1>6, <2>1
  <2>6. (r * r) * p = (r * r) * m
    BY <1>9, <1>10, <2>3, <2>4, <2>5 DEF r
  <2> HIDE DEF p, m
  <2>7. p = m
    BY <2>1, <2>2, <2>6, Cancel
  <2>8. QED
    BY <2>7 DEF p, m
<1>16. HasRoot(n, den, R * d)
  <2>1. n \in Int
    BY <1>6, <1>7, <1>12 DEF n
  <2>2. (R * d) * (R * d) = n * (den * den)
    <3>1. (L * den) * (L * den) = (L * L) * (den * den)
      BY <1>3, <1>7
    <3>2. (S * d) * (S * d) = (S * S) * (d * d)
      BY <1>3, <1>6
    <3>3. \A A, B, E \in Int : (A - B) * E = A * E - B * E
      OBVIOUS
    <3>4. ((x * x + y * y) - L * L) * (den * den)
            = (x * x + y * y) * (den * den) - (L * L) * (den * den)
      BY <1>3, <1>6, <1>7, <3>3
    <3>5. (R * R + S * S) * (d * d) - (S * S) * (d * d) = (R * d) * (R * d)
      BY <1>3, <1>6
    <3>6. QED
      BY <1>7, <1>12, <1>15, <3>1, <3>2, <3>4, <3>5 DEF n
  <2>3. R * d \in Nat
    BY <1>3, <1>4, <1>6
  <2>4. QED
    BY <1>3, <2>1, <2>2, <2>3, RootOver
<1>17. w \in Nat /\ w * w = n /\ R * d = den * w /\ w \in Int
  <2>1. PICK v \in Nat : R * d = den * v /\ v * v = n /\ Root[n] = v
    BY <1>16 DEF HasRoot
  <2>2. QED
    BY <1>13, <2>1
<1>18. Turns(C, w, L, 1, x, y, 1)
  <2>1. Ratio(R, den, w, d) /\ Ratio(S, den, L, d)
    <3>1. w * den = den * w /\ L * den = S * d
      BY <1>3, <1>7, <1>17
    <3>2. QED
      BY <1>17, <3>1 DEF Ratio
  <2>2. Ratio(C.x, C.r, C.x, C.r) /\ Ratio(C.y, C.r, C.y, C.r)
    BY DEF Ratio
  <2> DEFINE U == Re(w, L, C.x, C.y)
             V == Im(w, L, C.x, C.y)
             D == den * C.r
             E == d * C.r
  <2>3. Ratio(X, D, U, E) /\ Ratio(Y, D, V, E)
    BY <1>2, <1>3, <1>6, <1>7, <1>17, <2>1, <2>2, ProductRatio DEF X, Y
  <2>4. U \in Int /\ V \in Int /\ D \in Int /\ D # 0 /\ E \in Int
    <3>1. U \in Int /\ V \in Int
      BY <1>2, <1>7, <1>17, ProductType
    <3>2. D \in Int /\ D # 0
      BY <1>2, <1>3, NotZero
    <3>3. E \in Int
      BY <1>2, <1>6
    <3>4. QED
      BY <3>1, <3>2, <3>3
  <2>5. Ratio(x, d, X, D) /\ Ratio(y, d, Y, D)
    BY <1>9 DEF Ratio
  <2>6. U = Re(C.x, C.y, w, L) /\ V = Im(C.x, C.y, w, L)
    BY <1>2, <1>7, <1>17, ProductCommutes, SMTT(30)
  <2> HIDE DEF U, V, D, E
  <2>7. Ratio(x, d, U, E)
    BY <1>6, <1>8, <2>3, <2>4, <2>5, RatioTrans
  <2>8. Ratio(y, d, V, E)
    BY <1>6, <1>8, <2>3, <2>4, <2>5, RatioTrans
  <2>9. x * C.r = U /\ y * C.r = V
    <3>1. x * (d * C.r) = U * d /\ y * (d * C.r) = V * d
      BY <2>7, <2>8 DEF Ratio, E
    <3>2. /\ x * (d * C.r) = d * (x * C.r) /\ U * d = d * U
          /\ y * (d * C.r) = d * (y * C.r) /\ V * d = d * V
      BY <1>2, <1>6, <2>4
    <3>3. d * (x * C.r) = d * U /\ d * (y * C.r) = d * V
      BY <3>1, <3>2
    <3>4. x * C.r \in Int /\ y * C.r \in Int
      BY <1>2, <1>6
    <3>5. QED
      BY <1>6, <2>4, <3>3, <3>4, Cancel
  <2>10. U * 1 = x * (C.r * 1) /\ V * 1 = y * (C.r * 1)
    BY <1>2, <2>4, <2>9
  <2>11. QED
    BY <1>1, <2>6, <2>10 DEF Turns, Ratio
<1>19. w - c * d \in Int
  BY <1>6, <1>7, <1>17
<1>20. Turns(F, e, k, bend.r, w - c * d, z, d)
  <2> DEFINE U == Re(F.x, F.y, e, k)
             V == Im(F.x, F.y, e, k)
             r == F.r * bend.r
             a == w - c * d
             u == R - c * den
  <2>1. U \in Int /\ V \in Int /\ r \in Int /\ a \in Int /\ u \in Int
    <3>1. U \in Int /\ V \in Int
      BY <1>2, <1>11, ProductType
    <3>2. r \in Int /\ u \in Int
      BY <1>2, <1>3, <1>7
    <3>3. QED
      BY <1>19, <3>1, <3>2
  <2>2. Ratio(u, den, U, r) /\ Ratio(height, den, V, r)
    BY <1>11 DEF height
  <2> HIDE DEF U, V, r
  <2>3. Ratio(u, den, a, d)
    <3>1. (R - c * den) * d = R * d - (c * den) * d
      BY <1>3, <1>6, <1>7
    <3>2. (w - c * d) * den = w * den - (c * d) * den
      BY <1>3, <1>6, <1>7, <1>17
    <3>3. w * den = den * w /\ (c * den) * d = (c * d) * den
      BY <1>3, <1>6, <1>7, <1>17
    <3>4. QED
      BY <1>17, <3>1, <3>2, <3>3 DEF Ratio
  <2>4. Ratio(height, den, z, d)
    <3>1. z * (den * C.r) = C.r * (z * den) /\ (height * C.r) * d = C.r * (height * d)
      BY <1>2, <1>3, <1>6, <1>13
    <3>2. C.r * (z * den) = C.r * (height * d)
      BY <1>9, <3>1 DEF height
    <3>3. z * den \in Int /\ height * d \in Int
      BY <1>3, <1>6, <1>13
    <3>4. z * den = height * d
      BY <1>2, <3>2, <3>3, Cancel
    <3>5. QED
      BY <3>4 DEF Ratio
  <2> HIDE DEF a, u
  <2>5. Ratio(U, r, u, den) /\ Ratio(V, r, height, den)
    BY <2>2 DEF Ratio
  <2>6. Ratio(U, r, a, d)
    BY <1>3, <1>6, <2>1, <2>3, <2>5, RatioTrans
  <2>7. Ratio(V, r, z, d)
    BY <1>3, <1>6, <1>13, <2>1, <2>4, <2>5, RatioTrans
  <2>8. QED
    BY <1>1, <2>6, <2>7 DEF Turns, U, V, r, a
<1>21. w * den = R * d
  BY <1>3, <1>17
<1>22. /\ EndOf(geometry, bend)[1] = e /\ EndOf(geometry, bend)[2] = k
       /\ Lateral(geometry, h) = L /\ h.v[1] = x /\ h.v[2] = y /\ h.v[3] = z /\ h.d = d
       /\ C = angles.coxa /\ F = angles.femur /\ n = Square(geometry, h)
       /\ R = arm.reach /\ den = arm.den
  BY DEF e, k, L, x, y, z, d, C, F, n, R, den
<1>23. QED
  BY <1>6, <1>11, <1>13, <1>14, <1>17, <1>18, <1>19, <1>20, <1>21, <1>22
  DEF angles, arm, bend, h

(* The bend of such an arm has the cosine that its foot calls for.         *)
LEMMA BendOf ==
  ASSUME NEW geometry, LegType(geometry), NEW q \in LegTriples, Expressible(geometry, q)
  PROVE  LET angles == ToLegAngles(geometry, q)
             bend == Minus(angles.tibia, angles.femur)
             h == ForwardKinematics(geometry, q)
             p == Excess(geometry, h)
             b == Both(geometry, h)
         IN  /\ p \in Int /\ b \in Int
             /\ Ratio(bend.x, bend.r, p, b)
             /\ HasRoot(b * b - p * p, bend.r, Abs(b * bend.y))
<1> DEFINE angles == ToLegAngles(geometry, q)
           bend == Minus(angles.tibia, angles.femur)
           h == ForwardKinematics(geometry, q)
           p == Excess(geometry, h)
           b == Both(geometry, h)
           e == EndOf(geometry, bend)[1]
           k == EndOf(geometry, bend)[2]
           f == geometry.femur_length
           t == geometry.tibia_length
           d == h.d
           D == Distance(geometry, h)
           x == bend.x
           y == bend.y
           r == bend.r
<1>1. bend \in Angles
  BY AnglesGiveJoints DEF LegType
<1>2. /\ x \in Int /\ y \in Int /\ r \in Nat /\ r > 0 /\ r \in Int /\ r # 0
      /\ x * x + y * y = r * r
  BY <1>1, AngleType
<1>3. /\ h \in Points /\ e \in Int /\ k \in Int /\ Along(geometry, h) \in Int
      /\ Turns(angles.femur, e, k, r, Along(geometry, h), h.v[3], d)
  BY FootFrom
<1>4. h.v[3] \in Int /\ d \in Int
  BY <1>3, PointType
<1>5. f \in Int /\ t \in Int
  BY DEF LegType
<1>6. D \in Int
  BY <1>3, <1>4 DEF Distance
<1>7. (e * e + k * k) * (d * d) = D * (r * r)
  <2>1. D = Along(geometry, h) * Along(geometry, h) + h.v[3] * h.v[3]
    BY DEF Distance
  <2> HIDE DEF angles, e, k, r, d, D, h
  <2>2. QED
    BY <1>2, <1>3, <1>4, <2>1, TurnsLength
<1>8. e = f * r + t * x /\ k = t * y
  BY DEF EndOf
<1>9. p = D - (f * f + t * t) * d * d /\ b = 2 * f * t * d * d
  BY DEF Excess, Both
<1>10. p \in Int /\ b \in Int
  BY <1>4, <1>5, <1>6, <1>9
<1>11. Ratio(x, r, p, b)
  <2> HIDE DEF bend, e, k, f, t, d, D, p, b
  <2>1. Ratio(x, r, D - (f * f + t * t) * d * d, 2 * f * t * d * d)
    BY <1>1, <1>4, <1>5, <1>6, <1>7, <1>8, CosineIs
  <2>2. QED
    BY <1>9, <2>1
<1> HIDE DEF p, b, x, y, r
<1>12. (b * b - p * p) * (r * r) = (b * y) * (b * y)
  <2>1. x * b = p * r
    BY <1>11 DEF Ratio
  <2>2. (b * b - p * p) * (r * r) = (b * b) * (r * r) - (p * r) * (p * r)
    BY <1>2, <1>10
  <2>3. (b * b) * (x * x + y * y) - (x * b) * (x * b) = (b * y) * (b * y)
    BY <1>2, <1>10
  <2>4. QED
    BY <1>2, <2>1, <2>2, <2>3
<1>13. HasRoot(b * b - p * p, r, Abs(b * y))
  <2> DEFINE m == b * y
             n == b * b - p * p
  <2>1. m \in Int /\ n \in Int
    BY <1>2, <1>10
  <2>2. m * m = n * (r * r)
    BY <1>12
  <2> HIDE DEF m, n
  <2>3. Abs(m) \in Nat /\ Abs(m) * Abs(m) = m * m
    BY <2>1, AbsIs
  <2>4. HasRoot(n, r, Abs(m))
    BY <1>2, <2>1, <2>2, <2>3, RootOver
  <2>5. QED
    BY <2>4 DEF m, n
<1>14. QED
  BY <1>10, <1>11, <1>13 DEF p, b, x, y, r

(* The inverse kinematics takes whole roots of every such foot.            *)
LEMMA RootsOfFoot ==
  ASSUME NEW geometry, LegType(geometry), NEW q \in LegTriples, Expressible(geometry, q)
  PROVE  WholeRoots(geometry, ForwardKinematics(geometry, q))
<1> DEFINE h == ForwardKinematics(geometry, q)
           p == Excess(geometry, h)
           b == Both(geometry, h)
           n == b * b - p * p
<1>1. IsSquare(Square(geometry, h))
  BY FootFrom DEF IsSquare
<1>2. IsSquare(n)
  <2>1. \E g, s \in Int : HasRoot(n, g, s)
    <3> DEFINE bend == Minus(ToLegAngles(geometry, q).tibia, ToLegAngles(geometry, q).femur)
    <3>1. HasRoot(n, bend.r, Abs(b * bend.y)) /\ b \in Int
      BY BendOf
    <3>2. bend \in Angles
      BY AnglesGiveJoints DEF LegType
    <3>3. bend.r \in Int /\ bend.y \in Int
      BY <3>2, AngleType
    <3> DEFINE m == b * bend.y
    <3> HIDE DEF b, bend, n
    <3>4. Abs(m) \in Int
      <4>1. m \in Int
        BY <3>1, <3>3
      <4> HIDE DEF m
      <4>2. Abs(m) \in Nat
        BY <4>1, AbsIs
      <4>3. QED
        BY <4>2
    <3>5. QED
      BY <3>1, <3>3, <3>4
  <2>2. QED
    BY <2>1 DEF HasRoot, IsSquare
<1>3. QED
  BY <1>1, <1>2, WholeRootsAre

(* On the branch that the code takes, the joints come back.                *)
LEMMA JointsReturn ==
  ASSUME NEW geometry, LegType(geometry), IsUsable(geometry), NEW q \in LegTriples,
         Minus(ToLegAngles(geometry, q).tibia, ToLegAngles(geometry, q).femur).y < 0,
         Arm(geometry, ToLegAngles(geometry, q)).reach > 0
  PROVE  LET h == ForwardKinematics(geometry, q)
         IN  h \in Points /\ IsReached(geometry, h) /\ JointsTo(geometry, h) = q
<1> DEFINE angles == ToLegAngles(geometry, q)
           arm == Arm(geometry, angles)
           bend == Minus(angles.tibia, angles.femur)
           e == EndOf(geometry, bend)[1]
           k == EndOf(geometry, bend)[2]
           h == ForwardKinematics(geometry, q)
           w == Root[Square(geometry, h)]
           L == Lateral(geometry, h)
           a == Along(geometry, h)
           p == Excess(geometry, h)
           b == Both(geometry, h)
           C == angles.coxa
           F == angles.femur
           d == h.d
<1>1. Expressible(geometry, q)
  <2>1. arm.reach \in Int
    BY AnglesGiveJoints, ArmType DEF LegType
  <2>2. QED
    BY <2>1 DEF Expressible
<1>2. /\ IsTurned(angles) /\ bend \in Angles
      /\ q = JointsFor(geometry, C, F, bend)
      /\ C \in Angles /\ F \in Angles
  BY AnglesGiveJoints DEF LegType, IsTurned
<1>3. /\ h \in Points
      /\ w \in Nat /\ w * w = Square(geometry, h)
      /\ w * arm.den = arm.reach * d
      /\ e \in Int /\ k \in Int /\ a \in Int
      /\ Turns(C, w, L, 1, h.v[1], h.v[2], 1)
      /\ Turns(F, e, k, bend.r, a, h.v[3], d)
  BY <1>1, FootFrom
<1>4. /\ p \in Int /\ b \in Int /\ Ratio(bend.x, bend.r, p, b)
      /\ HasRoot(b * b - p * p, bend.r, Abs(b * bend.y))
  BY <1>1, BendOf
<1>5. /\ h.v[1] \in Int /\ h.v[2] \in Int /\ h.v[3] \in Int
      /\ d \in Nat /\ d > 0 /\ d \in Int /\ d # 0
  BY <1>3, PointType
<1>6. /\ bend.x \in Int /\ bend.y \in Int /\ bend.r \in Nat /\ bend.r > 0
      /\ bend.r \in Int /\ bend.r # 0
      /\ bend.x * bend.x + bend.y * bend.y = bend.r * bend.r
  BY <1>2, AngleType
<1>7. /\ geometry.femur_length \in Int /\ geometry.femur_length > 0
      /\ geometry.tibia_length \in Int /\ geometry.tibia_length > 0
      /\ geometry.lateral_offset \in Int
  BY DEF LegType, IsUsable
<1>8. L \in Int
  BY <1>5, <1>7 DEF Lateral
<1>9. bend.y < 0
  OBVIOUS
<1>10. b > 0
  <2> DEFINE f == geometry.femur_length
             t == geometry.tibia_length
  <2>1. b = 2 * f * t * d * d
    BY DEF Both
  <2> HIDE DEF f, t, d, b
  <2>2. f \in Int /\ f > 0 /\ t \in Int /\ t > 0
    BY <1>7 DEF f, t
  <2>3. 2 * f \in Int /\ 2 * f > 0
    BY <2>2
  <2>4. 2 * f * t \in Int /\ 2 * f * t > 0
    BY <2>2, <2>3
  <2>5. 2 * f * t * d \in Int /\ 2 * f * t * d > 0
    BY <1>5, <2>4
  <2>6. 2 * f * t * d * d > 0
    BY <1>5, <2>5
  <2>7. QED
    BY <2>1, <2>6
<1>11. IsReached(geometry, h)
  <2>1. Square(geometry, h) >= 0
    <3>1. w * w >= 0
      BY <1>3
    <3>2. QED
      BY <1>3, <3>1
  <2>2. p \in -b .. b
    <3> DEFINE x == bend.x
               r == bend.r
    <3>1. x * b = p * r
      BY <1>4 DEF Ratio
    <3>2. x <= r /\ -r <= x
      <4> HIDE DEF bend
      <4>1. x * x <= r * r
        <5>1. bend.y * bend.y >= 0 /\ bend.y * bend.y \in Int
          BY <1>6
        <5>2. x * x \in Int /\ r * r \in Int
          BY <1>6
        <5>3. QED
          BY <1>6, <5>1, <5>2
      <4>2. \A A \in Int : A > r => A * A > r * r
        <5>1. TAKE A \in Int
        <5>2. HAVE A > r
        <5>3. (r + 1) * (r + 1) <= A * A
          <6>1. r + 1 \in Nat /\ A \in Nat /\ r + 1 <= A
            BY <1>6, <5>2
          <6>2. QED
            BY <6>1, Smaller
        <5>4. (r + 1) * (r + 1) = r * r + 2 * r + 1
          BY <1>6
        <5>5. r * r \in Int /\ A * A \in Int
          BY <1>6
        <5>6. QED
          BY <1>6, <5>3, <5>4, <5>5
      <4>3. (-x) * (-x) = x * x
        BY <1>6
      <4>4. QED
        BY <1>6, <4>1, <4>2, <4>3
    <3>3. x \in Int /\ r \in Int /\ r > 0
      BY <1>6
    <3> HIDE DEF x, r, p, b
    <3>4. p <= b
      <4>1. x * b <= r * b
        BY <1>4, <1>10, <3>2, <3>3
      <4>2. p > b => p * r > b * r
        BY <1>4, <3>3
      <4>3. r * b = b * r /\ b * r \in Int /\ p * r \in Int
        BY <1>4, <3>3
      <4>4. ~ (p > b)
        BY <3>1, <4>1, <4>2, <4>3
      <4>5. QED
        BY <1>4, <4>4
    <3>5. -b <= p
      <4>1. (-r) * b <= x * b
        BY <1>4, <1>10, <3>2, <3>3
      <4>2. p < -b => p * r < (-b) * r
        BY <1>4, <3>3
      <4>3. (-r) * b = (-b) * r /\ (-b) * r \in Int /\ p * r \in Int
        BY <1>4, <3>3
      <4>4. ~ (p < -b)
        BY <3>1, <4>1, <4>2, <4>3
      <4>5. QED
        BY <1>4, <4>4
    <3>6. QED
      BY <1>4, <3>4, <3>5
  <2>3. QED
    BY <2>1, <2>2 DEF IsReached
<1>12. Bend(geometry, h) = bend
  <2>1. PICK s \in Nat : Abs(b * bend.y) = bend.r * s /\ s * s = b * b - p * p
    BY <1>4 DEF HasRoot
  <2> HIDE DEF p, b, bend
  <2>2. Towards(Interior(p, b), p, -s, b)
    BY <1>4, <1>10, <2>1, InteriorIs
  <2>3. Towards(bend, p, -s, b)
    <3>1. Abs(b * bend.y) = -(b * bend.y)
      <4>1. b * bend.y < 0 /\ b * bend.y \in Int
        BY <1>4, <1>6, <1>9, <1>10
      <4>2. QED
        BY <4>1 DEF Abs
    <3>2. bend.y * b = (-s) * bend.r
      <4>1. (-s) * bend.r = -(bend.r * s) /\ bend.r * s \in Int /\ bend.y * b = b * bend.y
            /\ b * bend.y \in Int
        BY <1>4, <1>6
      <4>2. QED
        BY <2>1, <3>1, <4>1
    <3>3. QED
      BY <1>2, <1>4, <3>2 DEF Towards, Ratio
  <2>4. Interior(p, b) = bend
    <3>1. -s \in Int /\ b # 0
      BY <1>4, <1>10
    <3>2. QED
      BY <1>4, <2>2, <2>3, <3>1, TowardsUnique
  <2>5. QED
    BY <2>4 DEF Bend, p, b
<1>13. /\ WholeRoots(geometry, h)
       /\ (e * e + k * k) * (d * d) = Distance(geometry, h) * (bend.r * bend.r)
  <2>1. WholeRoots(geometry, h)
    BY <1>1, RootsOfFoot
  <2> HIDE DEF h
  <2>2. QED
    BY <1>3, <1>11, <1>12, <2>1, ReachedIs
<1>14. k # 0 /\ (w # 0 \/ L # 0)
  <2>1. k = geometry.tibia_length * bend.y
    BY DEF EndOf
  <2>2. k # 0
    BY <1>6, <1>7, <1>9, <2>1, NotZero
  <2>3. arm.den \in Int /\ arm.reach \in Int /\ arm.reach > 0
    BY <1>2, ArmType
  <2> HIDE DEF arm, w, d
  <2>4. w # 0
    <3>1. SUFFICES ASSUME w = 0 PROVE FALSE
      OBVIOUS
    <3>2. arm.reach * d > 0
      BY <1>5, <2>3
    <3>3. 0 * arm.den = 0
      BY <2>3
    <3>4. QED
      BY <1>3, <3>1, <3>2, <3>3
  <2>5. QED
    BY <2>2, <2>4
<1>15. CoxaTo(geometry, h) = C
  <2> DEFINE x == h.v[1]
             y == h.v[2]
             A == Between(<<w, L>>, <<x, y>>)
  <2>1. CoxaTo(geometry, h) = A
    BY DEF CoxaTo
  <2>2. w * w = (x * x + y * y) - L * L
    BY <1>3 DEF Square
  <2> HIDE DEF w, L, x, y, C
  <2>3. (w * w + L * L) * (1 * 1) = (x * x + y * y) * (1 * 1)
    <3>1. \A M, N \in Int : ((M - N) + N) * (1 * 1) = M * (1 * 1)
      OBVIOUS
    <3>2. x * x + y * y \in Int /\ L * L \in Int
      BY <1>5, <1>8 DEF x, y
    <3>3. QED
      BY <2>2, <3>1, <3>2
  <2>4. x \in Int /\ y \in Int /\ w \in Int /\ Turns(C, w, L, 1, x, y, 1)
    BY <1>3, <1>5 DEF x, y
  <2>5. Turns(A, w, L, 1, x, y, 1)
    BY <1>8, <2>3, <2>4, BetweenIs
  <2> HIDE DEF A
  <2>6. A = C
    BY <1>8, <1>14, <2>4, <2>5, TurnsUnique
  <2>7. QED
    BY <2>1, <2>6
<1>16. FemurTo(geometry, h) = F
  <2> DEFINE z == h.v[3]
             A == Between(<<e, k>>, <<a, z>>)
             r == bend.r
  <2>1. FemurTo(geometry, h) = A
    <3>1. FemurTo(geometry, h) = Between(EndOf(geometry, bend), <<a, z>>)
      BY <1>12 DEF FemurTo
    <3>2. EndOf(geometry, bend) = <<e, k>>
      BY DEF EndOf
    <3>3. QED
      BY <3>1, <3>2
  <2>2. Distance(geometry, h) = a * a + z * z
    BY DEF Distance
  <2>3. (e * e + k * k) * (d * d) = (a * a + z * z) * (r * r)
    BY <1>13, <2>2
  <2>4. z \in Int /\ r \in Nat /\ r > 0 /\ r \in Int /\ r # 0 /\ Turns(F, e, k, r, a, z, d)
    BY <1>3, <1>5, <1>6
  <2> HIDE DEF e, k, a, z, d, r, F
  <2>5. Turns(A, e, k, r, a, z, d)
    BY <1>3, <1>5, <2>3, <2>4, BetweenIs
  <2> HIDE DEF A
  <2>6. A = F
    BY <1>3, <1>5, <1>14, <2>4, <2>5, TurnsUnique
  <2>7. QED
    BY <2>1, <2>6
<1>17. JointsTo(geometry, h) = q
  BY <1>2, <1>12, <1>15, <1>16 DEF JointsTo
<1>18. QED
  BY <1>3, <1>11, <1>17

=============================================================================
