----------------------------- MODULE Arithmetic -----------------------------
(***************************************************************************)
(* Lemmas about the numbers the code computes with: remainders by the size *)
(* of a ring, a word or an integer, the least of some numbers, and the     *)
(* binary digits of a number.                                              *)
(***************************************************************************)
EXTENDS Integers, FiniteSetTheorems, WellFoundedInduction, TLAPS

-----------------------------------------------------------------------------
(* Quotients and remainders.                                               *)

\* A remainder stays below the modulus.
LEMMA ModRange ==
  ASSUME NEW a \in Int, NEW n \in Nat \ {0}
  PROVE  a % n \in 0 .. n - 1
  OBVIOUS

\* A number below the modulus is its own remainder.
LEMMA ModSmall ==
  ASSUME NEW n \in Nat \ {0}, NEW a \in 0 .. n - 1
  PROVE  a % n = a
  OBVIOUS

\* Quotient and remainder ...
LEMMA ModQuotient ==
  ASSUME NEW a \in Int, NEW n \in Nat \ {0}
  PROVE  a \div n \in Int /\ a = n * (a \div n) + (a % n)
  OBVIOUS

\* ... are the only ones.
LEMMA ModUnique ==
  ASSUME NEW n \in Nat \ {0}, NEW q \in Int, NEW r \in 0 .. n - 1
  PROVE  (n * q + r) % n = r
<1> DEFINE a == n * q + r
<1>1. a \in Int
  OBVIOUS
<1> HIDE DEF a
<1>2. a \div n \in Int /\ a = n * (a \div n) + (a % n) /\ a % n \in 0 .. n - 1
  BY <1>1, ModQuotient, ModRange
<1> DEFINE k == a \div n
           d == a % n
<1> HIDE DEF k, d
<1>3. k \in Int /\ d \in 0 .. n - 1 /\ n * q + r = n * k + d
  BY <1>2 DEF k, d, a
<1>4. n * (q - k) = n * q - n * k
  BY <1>3
<1>5. q - k >= 1 => n * (q - k) >= n
  BY <1>3
<1>6. q - k <= -1 => n * (q - k) <= -n
  BY <1>3
<1>7. q = k
  BY <1>3, <1>4, <1>5, <1>6
<1>8. d = r
  BY <1>3, <1>7
<1> QED
  BY <1>8 DEF a, d

\* Adding before or after the remainder is taken is the same.
LEMMA ModAdd ==
  ASSUME NEW n \in Nat \ {0}, NEW a \in Int, NEW b \in Int
  PROVE  ((a % n) + b) % n = (a + b) % n
<1> DEFINE k == a \div n
           d == a % n
           j == (d + b) \div n
           e == (d + b) % n
<1>1. k \in Int /\ d \in Int /\ a = n * k + d
  BY ModQuotient, ModRange
<1>2. d + b \in Int
  BY <1>1
<1>3. j \in Int /\ e \in 0 .. n - 1 /\ d + b = n * j + e
  <2> HIDE DEF d
  <2> QED
    BY <1>2, ModQuotient, ModRange
<1> HIDE DEF k, d, j, e
<1>4. a + b = n * (k + j) + e
  <2>1. n * (k + j) = n * k + n * j
    BY <1>1, <1>3
  <2> QED
    BY <1>1, <1>3, <2>1
<1>5. (n * (k + j) + e) % n = e
  BY <1>1, <1>3, ModUnique
<1> QED
  BY <1>4, <1>5 DEF e, d

\* A counter modulo n sees nothing of a wrap modulo a multiple of n.
LEMMA ModDivides ==
  ASSUME NEW n \in Nat \ {0}, NEW m \in Nat \ {0}, m % n = 0, NEW a \in Int
  PROVE  (a + m) % n = a % n
<1>1. (m + a) % n = ((m % n) + a) % n
  <2>1. m \in Int
    OBVIOUS
  <2> QED
    BY <2>1, ModAdd
<1>2. ((m % n) + a) = a /\ m + a = a + m
  OBVIOUS
<1> QED
  BY <1>1, <1>2

\* Counting up modulo n.
LEMMA ModNext ==
  ASSUME NEW n \in Nat \ {0}, NEW a \in Int
  PROVE  (a + 1) % n = IF a % n = n - 1 THEN 0 ELSE (a % n) + 1
<1> DEFINE r == a % n
<1>1. r \in 0 .. n - 1
  BY ModRange
<1>2. (a + 1) % n = (r + 1) % n
  <2>1. 1 \in Int
    OBVIOUS
  <2>2. ((a % n) + 1) % n = (a + 1) % n
    BY <2>1, ModAdd
  <2> QED
    BY <2>2
<1> HIDE DEF r
<1>3. CASE r = n - 1
  <2>1. (n * 1 + 0) % n = 0
    BY ModUnique
  <2>2. n * 1 + 0 = r + 1
    BY <1>3
  <2> QED
    BY <1>2, <1>3, <2>1, <2>2 DEF r
<1>4. CASE r # n - 1
  <2>1. r + 1 \in 0 .. n - 1
    BY <1>1, <1>4
  <2>2. (r + 1) % n = r + 1
    BY <2>1, ModSmall
  <2> QED
    BY <1>2, <1>4, <2>2 DEF r
<1> QED
  BY <1>3, <1>4

\* The same for natural numbers.
LEMMA Quotient ==
  ASSUME NEW a \in Nat, NEW n \in Nat \ {0}
  PROVE  /\ a \div n \in Nat
         /\ a % n \in 0 .. n - 1
         /\ a = n * (a \div n) + (a % n)
  OBVIOUS

\* A number with two digits has those digits.
LEMMA Digits ==
  ASSUME NEW n \in Nat \ {0}, NEW a \in Nat, NEW q \in Nat, NEW r \in 0 .. n - 1, a = n * q + r
  PROVE  a \div n = q /\ a % n = r
<1> PICK k \in Nat : k = a \div n
  BY Quotient
<1> PICK d \in 0 .. n - 1 : d = a % n
  BY Quotient
<1>1. n * q + r = n * k + d
  BY Quotient
<1>2. n * (q - k) = n * q - n * k
  OBVIOUS
<1>3. q - k >= 1 => n * (q - k) >= n
  OBVIOUS
<1>4. q - k <= -1 => n * (q - k) <= -n
  OBVIOUS
<1>5. q = k
  BY <1>1, <1>2, <1>3, <1>4
<1> QED
  BY <1>1, <1>5

\* Numbers written with two digits are compared digit by digit.
LEMMA TwoDigits ==
  ASSUME NEW a \in Nat, NEW b \in Nat, NEW w \in Nat \ {0}, NEW r \in 0 .. w - 1, NEW s \in 0 .. w - 1,
         w * a + r <= w * b + s
  PROVE  a < b \/ (a = b /\ r <= s)
<1>1. w * a \in Nat /\ w * b \in Nat /\ w * (a - b) = w * a - w * b
  OBVIOUS
<1>2. b < a => w * (a - b) >= w
  OBVIOUS
<1> QED
  BY <1>1, <1>2

-----------------------------------------------------------------------------
(* Least numbers.                                                          *)

\* Some numbers have a least one: what a search from below finds.
LEMMA NaturalMinimum ==
  ASSUME NEW S \in SUBSET Nat, S # {}
  PROVE  \E x \in S : \A y \in S : x <= y
<1>1. PICK x \in S : \A y \in S : ~ (<<y, x>> \in OpToRel(<, Nat))
  BY NatLessThanWellFounded, WFMin
<1>2. ASSUME NEW y \in S
      PROVE  x <= y
  <2>1. <<y, x>> \notin OpToRel(<, Nat)
    BY <1>1
  <2> QED
    BY <2>1 DEF OpToRel
<1> QED
  BY <1>2

-----------------------------------------------------------------------------
(* Binary numbers.                                                         *)

\* How many words of k bits there are.
Power(k) == 2 ^ k

\* It counts the sets of k bit positions, so it doubles with each position.
LEMMA PowerOfTwo ==
  ASSUME NEW k \in Nat
  PROVE  Power(k) \in Nat \ {0} /\ Power(0) = 1 /\ Power(k + 1) = 2 * Power(k)
<1> DEFINE Low == 0 .. k - 1
           Old == SUBSET Low
           New == {s \cup {k} : s \in Old}
           f == [s \in Old |-> s \cup {k}]
<1>1. IsFiniteSet(Low) /\ Cardinality(Low) = k
  BY FS_Interval
<1>2. IsFiniteSet(0 .. k) /\ Cardinality(0 .. k) = k + 1
  BY FS_Interval
<1>3. IsFiniteSet(Old) /\ Cardinality(Old) = 2 ^ k
  BY <1>1, FS_SUBSET
<1>4. IsFiniteSet(SUBSET (0 .. k)) /\ Cardinality(SUBSET (0 .. k)) = 2 ^ (k + 1)
  BY <1>2, FS_SUBSET
<1>5. SUBSET (0 .. k) = Old \cup New
  <2>1. SUBSET (0 .. k) \subseteq Old \cup New
    <3> SUFFICES ASSUME NEW t \in SUBSET (0 .. k), k \in t  PROVE t \in New
      OBVIOUS
    <3>1. t \ {k} \in Old /\ t = (t \ {k}) \cup {k}
      OBVIOUS
    <3> QED BY <3>1
  <2>2. Low \subseteq 0 .. k /\ k \in 0 .. k
    OBVIOUS
  <2>3. Old \cup New \subseteq SUBSET (0 .. k)
    <3> HIDE DEF Low
    <3> QED
      BY <2>2
  <2> QED
    BY <2>1, <2>3
<1>6. Old \cap New = {}
  OBVIOUS
<1>7. 2 ^ 0 = 1
  <2>1. SUBSET {} = {{}}
    OBVIOUS
  <2>2. Cardinality(SUBSET {}) = 2 ^ 0
    BY FS_EmptySet, FS_SUBSET
  <2> QED BY <2>1, <2>2, FS_Singleton
<1>8. f \in Bijection(Old, New)
  <2>1. f \in [Old -> New]
    OBVIOUS
  <2>2. \A s, t \in Old : s \cup {k} = t \cup {k} => s = t
    OBVIOUS
  <2>3. \A s, t \in Old : f[s] = f[t] => s = t
    BY <2>2
  <2>4. \A t \in New : \E s \in Old : f[s] = t
    OBVIOUS
  <2> HIDE DEF f, Old, New
  <2>5. f \in Injection(Old, New)
    BY <2>1, <2>3 DEF Injection, IsInjective
  <2> QED BY <2>1, <2>4, <2>5 DEF Bijection, Surjection
<1> HIDE DEF f, Old, New, Low
<1>9. Cardinality(New) = Cardinality(Old) /\ IsFiniteSet(New)
  BY <1>8, <1>3, FS_Bijection DEF ExistsBijection
<1>10. /\ Cardinality(Old) \in Nat /\ Cardinality(New) \in Nat
       /\ Cardinality(Old \cap New) = 0
  BY <1>3, <1>6, <1>9, FS_CardinalityType, FS_EmptySet
<1>11. Cardinality(Old \cup New) = Cardinality(Old) + Cardinality(New)
  BY <1>3, <1>9, <1>10, FS_Union
<1>12. Cardinality(Old) # 0
  <2>1. {} \in Old
    BY DEF Old
  <2> QED BY <2>1, <1>3, FS_EmptySet
<1>13. Power(k) = Cardinality(Old) /\ Power(k + 1) = Cardinality(Old \cup New) /\ Power(0) = 1
  BY <1>3, <1>4, <1>5, <1>7 DEF Power
<1> QED
  BY <1>9, <1>10, <1>11, <1>12, <1>13

\* Bit b + 1 of n is bit b of n / 2.
LEMMA HalfBit ==
  ASSUME NEW n \in Nat, NEW b \in Nat
  PROVE  n \div Power(b + 1) = (n \div 2) \div Power(b)
<1>1. PICK p \in Nat \ {0} : p = Power(b)
  BY PowerOfTwo
<1>2. PICK h \in Nat, e \in 0 .. 1 : h = n \div 2 /\ n = 2 * h + e
  BY Quotient
<1>3. PICK q \in Nat, r \in 0 .. p - 1 : q = h \div p /\ h = p * q + r
  BY Quotient
<1>4. PICK d \in Nat \ {0} : d = 2 * p
  OBVIOUS
<1>5. PICK s \in 0 .. d - 1 : s = 2 * r + e
  BY <1>4
<1>6. n = d * q + s
  <2>1. 2 * (p * q + r) = (2 * p) * q + 2 * r
    OBVIOUS
  <2>2. 2 * h = d * q + 2 * r
    BY <1>3, <1>4, <2>1
  <2>3. d * q \in Nat
    OBVIOUS
  <2> QED
    BY <1>2, <1>5, <2>2, <2>3
<1>7. n \div d = q
  BY <1>6, Digits
<1>8. Power(b + 1) = d
  BY <1>1, <1>4, PowerOfTwo
<1> QED
  BY <1>1, <1>2, <1>3, <1>7, <1>8

\* Two numbers below 2 ^ w with the same w bits ...
AgreeingBits(m, n, w) == \A b \in 0 .. w - 1 : (m \div Power(b)) % 2 = (n \div Power(b)) % 2

\* ... are the same number: halving them leaves one bit less.
LEMMA BitsDetermine ==
  ASSUME NEW w \in Nat, NEW m \in 0 .. Power(w) - 1, NEW n \in 0 .. Power(w) - 1, AgreeingBits(m, n, w)
  PROVE  m = n
<1> DEFINE Wrong(u) == \E x, y \in 0 .. Power(u) - 1 : AgreeingBits(x, y, u) /\ x # y
           wrong == {u \in Nat : Wrong(u)}
<1>1. SUFFICES wrong = {}
  BY <1>1
<1>2. SUFFICES ASSUME wrong # {}  PROVE FALSE
  OBVIOUS
<1>3. PICK u \in wrong : \A t \in wrong : u <= t
  BY <1>2, NaturalMinimum
<1>4. u \in Nat /\ Wrong(u) /\ \A t \in Nat : t < u => ~ Wrong(t)
  BY <1>3
<1> HIDE DEF wrong
<1>5. PICK x \in 0 .. Power(u) - 1, y \in 0 .. Power(u) - 1 : AgreeingBits(x, y, u) /\ x # y
  BY <1>4
<1>6. Power(u) \in Nat \ {0} /\ x \in Nat /\ y \in Nat
  BY <1>4, PowerOfTwo
<1>7. u # 0
  <2>1. Power(0) = 1
    BY PowerOfTwo
  <2> QED
    BY <1>5, <2>1
<1> PICK t \in Nat : u = t + 1
  BY <1>4, <1>7
<1>8. ~ Wrong(t)
  BY <1>4
<1> PICK p \in Nat \ {0} : p = Power(t)
  BY PowerOfTwo
<1>9. Power(u) = 2 * p
  BY PowerOfTwo
<1>10. /\ x \div 2 \in Nat /\ x = 2 * (x \div 2) + (x % 2) /\ x % 2 \in 0 .. 1
       /\ y \div 2 \in Nat /\ y = 2 * (y \div 2) + (y % 2) /\ y % 2 \in 0 .. 1
  BY <1>6, Quotient
<1>11. x \div 2 \in 0 .. Power(t) - 1 /\ y \div 2 \in 0 .. Power(t) - 1
  BY <1>5, <1>6, <1>9, <1>10
<1>12. AgreeingBits(x \div 2, y \div 2, t)
  <2> SUFFICES ASSUME NEW b \in 0 .. t - 1
               PROVE  ((x \div 2) \div Power(b)) % 2 = ((y \div 2) \div Power(b)) % 2
    BY DEF AgreeingBits
  <2>1. b \in Nat /\ b + 1 \in 0 .. u - 1
    OBVIOUS
  <2>2. (x \div Power(b + 1)) % 2 = (y \div Power(b + 1)) % 2
    BY <1>5, <2>1 DEF AgreeingBits
  <2> QED
    BY <1>6, <2>1, <2>2, HalfBit
<1>13. x \div 2 = y \div 2
  BY <1>8, <1>11, <1>12
<1>14. x % 2 = y % 2
  <2>1. 0 \in 0 .. u - 1 /\ Power(0) = 1
    BY <1>4, <1>7, PowerOfTwo
  <2>2. (x \div 1) % 2 = (y \div 1) % 2
    BY <1>5, <2>1 DEF AgreeingBits
  <2>3. x \div 1 = x /\ y \div 1 = y
    BY <1>6
  <2> QED
    BY <2>2, <2>3
<1> QED
  BY <1>5, <1>10, <1>13, <1>14

=============================================================================
