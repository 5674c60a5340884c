-------------------------- MODULE CodedValueProofs --------------------------
(***************************************************************************)
(* Proof that the reader's buffers fit, that a read with Reed-Solomon      *)
(* succeeds and that what was read is what was written: for every odd      *)
(* number of servers, every symbol size and every size of a value that a   *)
(* float holds exactly, if the file size is not set while the clients run. *)
(***************************************************************************)
EXTENDS CodedValue, SequenceTheorems, FiniteSetTheorems, WellFoundedInduction, TLAPS

---------------------------------------------------------------------------
(* Powers of two. *)

\* A set of numbers has a least one.
LEMMA LeastNumber ==
    ASSUME NEW S \in SUBSET Nat, S # {}
    PROVE  \E m \in S : \A k \in S : m <= k
<1> DEFINE R == {ss \in Nat \X Nat : ss[1] < ss[2]}
<1>1. IsWellFoundedOn(R, Nat)
  BY NatLessThanWellFounded DEF OpToRel
<1>2. PICK m \in S : \A k \in S : ~ (<<k, m>> \in R)
  <2> HIDE DEF R
  <2> QED
    BY <1>1, WFMin
<1>3. \A k \in S : k \in Nat /\ m \in Nat /\ ~ (k < m)
  BY <1>2
<1> QED
  BY <1>3

\* A bounded set of numbers has a greatest one.
LEMMA GreatestNumber ==
    ASSUME NEW b \in Nat, NEW S \in SUBSET (0 .. b), S # {}
    PROVE  \E m \in S : \A k \in S : k <= m
<1> DEFINE Rest == {b - k : k \in S}
<1>1. Rest \in SUBSET Nat /\ Rest # {}
  <2>1. \A k \in S : k \in 0 .. b
    OBVIOUS
  <2>2. \A k \in S : b - k \in Nat
    BY <2>1
  <2> QED
    BY <2>2
<1>2. PICK r \in Rest : \A k \in Rest : r <= k
  <2> HIDE DEF Rest
  <2> QED
    BY <1>1, LeastNumber
<1>3. PICK m \in S : r = b - m
  OBVIOUS
<1>4. ASSUME NEW k \in S PROVE k <= m
  <2>1. b - k \in Rest /\ k \in Int /\ m \in Int
    OBVIOUS
  <2>2. b - m <= b - k
    BY <1>2, <1>3, <2>1
  <2> QED
    BY <2>1, <2>2
<1> QED
  BY <1>4

\* There are 2 ^ e sets of numbers up to e.
LEMMA PowerCounts ==
    ASSUME NEW e \in Nat
    PROVE  /\ IsFiniteSet(SUBSET (1 .. e)) /\ Cardinality(SUBSET (1 .. e)) = 2 ^ e
           /\ 2 ^ e \in Nat \ {0}
<1>1. IsFiniteSet(1 .. e) /\ Cardinality(1 .. e) = e
  BY FS_Interval
<1>2. IsFiniteSet(SUBSET (1 .. e)) /\ Cardinality(SUBSET (1 .. e)) = 2 ^ e
  BY <1>1, FS_SUBSET
<1>3. Cardinality(SUBSET (1 .. e)) \in Nat
  BY <1>2, FS_CardinalityType
<1>4. Cardinality(SUBSET (1 .. e)) # 0
  <2>1. SUBSET (1 .. e) # {}
    OBVIOUS
  <2> QED
    BY <1>2, <2>1, FS_EmptySet
<1> QED
  BY <1>2, <1>3, <1>4

\* Half of the sets of numbers up to e + 1 have e + 1 in them.
LEMMA NextPower ==
    ASSUME NEW e \in Nat
    PROVE  2 ^ (e + 1) = 2 * 2 ^ e
<1> DEFINE S == SUBSET (1 .. e)
           T == {x \in SUBSET (1 .. (e + 1)) : e + 1 \in x}
           f == [x \in S |-> x \cup {e + 1}]
<1>1. SUBSET (1 .. (e + 1)) = S \cup T /\ S \cap T = {}
  <2>1. 1 .. (e + 1) = (1 .. e) \cup {e + 1} /\ e + 1 \notin 1 .. e
    OBVIOUS
  <2> QED
    BY <2>1
<1>2. f \in Bijection(S, T)
  <2>1. e + 1 \notin 1 .. e /\ 1 .. (e + 1) = (1 .. e) \cup {e + 1}
    OBVIOUS
  <2>2. \A x \in S : x \cup {e + 1} \in T
    BY <2>1
  <2>3. \A x, y \in S : x \cup {e + 1} = y \cup {e + 1} => x = y
    BY <2>1
  <2>4. ASSUME NEW t \in T PROVE \E x \in S : x \cup {e + 1} = t
    <3>1. t \ {e + 1} \in S /\ (t \ {e + 1}) \cup {e + 1} = t
      BY <2>1
    <3> QED
      BY <3>1
  <2> HIDE DEF S, T
  <2> QED
    BY <2>2, <2>3, <2>4 DEF Bijection, Injection, Surjection, IsInjective
<1>3. IsFiniteSet(S) /\ Cardinality(S) = 2 ^ e /\ 2 ^ e \in Nat
  BY PowerCounts
<1>4. IsFiniteSet(T) /\ Cardinality(T) = Cardinality(S)
  <2> HIDE DEF S, T, f
  <2>1. ExistsBijection(S, T)
    BY <1>2 DEF ExistsBijection
  <2> QED
    BY <1>3, <2>1, FS_Bijection
<1>5. Cardinality(S \cup T) = Cardinality(S) + Cardinality(T) - Cardinality(S \cap T)
  <2> HIDE DEF S, T
  <2> QED
    BY <1>3, <1>4, FS_Union
<1>6. Cardinality(S \cap T) = 0
  <2> HIDE DEF S, T
  <2> QED
    BY <1>1, FS_EmptySet
<1>7. e + 1 \in Nat
  OBVIOUS
<1>8. Cardinality(SUBSET (1 .. (e + 1))) = 2 ^ (e + 1)
  BY <1>7, PowerCounts
<1>9. Cardinality(SUBSET (1 .. (e + 1))) = Cardinality(S \cup T)
  <2> HIDE DEF S, T
  <2> QED
    BY <1>1, Zenon
<1> HIDE DEF S, T
<1> QED
  BY <1>3, <1>4, <1>5, <1>6, <1>8, <1>9

LEMMA FirstPower == 2 ^ 0 = 1
OBVIOUS

\* Shifted by b, a power is at least b times as much.
LEMMA PowerShifted ==
    ASSUME NEW F \in Nat, NEW b \in Nat
    PROVE  2 ^ (F + b) >= b * 2 ^ F
<1> DEFINE Bad == {k \in Nat : ~(2 ^ (F + k) >= k * 2 ^ F)}
<1>1. \A k \in Nat : 2 ^ (F + k) \in Nat /\ 2 ^ F \in Nat
  <2>1. \A k \in Nat : F + k \in Nat
    OBVIOUS
  <2> QED
    BY <2>1, PowerCounts
<1> SUFFICES ASSUME Bad # {} PROVE FALSE
  OBVIOUS
<1>2. PICK m \in Bad : \A k \in Bad : m <= k
  <2>1. Bad \in SUBSET Nat
    OBVIOUS
  <2> HIDE DEF Bad
  <2> QED
    BY <2>1, LeastNumber
<1>3. m # 0
  <2>1. 2 ^ (F + 0) >= 0 * 2 ^ F
    BY <1>1
  <2> QED
    BY <2>1
<1> DEFINE l == m - 1
<1>4. l \in Nat /\ l \notin Bad /\ m = l + 1
  BY <1>2, <1>3
<1>5. 2 ^ (F + l) >= l * 2 ^ F
  BY <1>4
<1>6. 2 ^ (F + m) = 2 * 2 ^ (F + l)
  <2>1. F + l \in Nat /\ F + m = (F + l) + 1
    BY <1>4
  <2> HIDE DEF l
  <2> QED
    BY <2>1, NextPower
<1> DEFINE x == 2 ^ F
           y == 2 ^ (F + l)
<1>7. x \in Nat /\ y \in Nat /\ y >= l * x
  BY <1>1, <1>4, <1>5
<1>8. l = 0 => y = x
  <2>1. l = 0 => F + l = F
    BY <1>4
  <2> QED
    BY <2>1
<1> HIDE DEF x, y, l
<1>9. 2 * y >= (l + 1) * x
  <2>1. CASE l = 0
    BY <1>7, <1>8, <2>1
  <2>2. CASE l # 0
    <3>1. l * x >= x
      BY <1>4, <1>7, <2>2
    <3>2. (l + 1) * x = l * x + x /\ l * x \in Nat
      BY <1>4, <1>7
    <3> QED
      BY <1>7, <3>1, <3>2
  <2> QED
    BY <2>1, <2>2
<1>10. 2 ^ (F + m) >= m * 2 ^ F
  BY <1>4, <1>6, <1>9 DEF x, y
<1> QED
  BY <1>10

---------------------------------------------------------------------------
(* Division. *)

LEMMA NoSmallMultiple ==
    ASSUME NEW b \in Nat \ {0}, NEW x \in Int, b * x < b, -b < b * x
    PROVE  x = 0
<1>1. ~(x >= 1)
  <2> SUFFICES ASSUME x >= 1 PROVE b * x >= b
    OBVIOUS
  <2>1. PICK y \in Nat : x = y + 1
    OBVIOUS
  <2>2. b * x = b * y + b /\ b * y >= 0
    BY <2>1
  <2> QED
    BY <2>2
<1>2. ~(x <= -1)
  <2> SUFFICES ASSUME x <= -1 PROVE b * x <= -b
    OBVIOUS
  <2>1. PICK y \in Nat : x = -1 - y
    OBVIOUS
  <2>2. b * x = -b - b * y /\ b * y >= 0
    BY <2>1
  <2> QED
    BY <2>2
<1> QED
  BY <1>1, <1>2

\* What division gives, and that nothing else fits.
LEMMA Division ==
    ASSUME NEW a \in Nat, NEW b \in Nat \ {0}
    PROVE  /\ a \div b \in Nat /\ a % b \in 0 .. b - 1
           /\ a = b * (a \div b) + (a % b)
           /\ \A q \in Nat : \A r \in 0 .. b - 1 : a = b * q + r => q = a \div b /\ r = a % b
<1>1. /\ a \div b \in Nat /\ a % b \in 0 .. b - 1
      /\ a = b * (a \div b) + (a % b)
  OBVIOUS
<1>2. ASSUME NEW q \in Nat, NEW r \in 0 .. b - 1, a = b * q + r
      PROVE  q = a \div b /\ r = a % b
  <2> DEFINE d == a \div b
             m == a % b
  <2>1. d \in Nat /\ m \in 0 .. b - 1 /\ a = b * d + m
    BY <1>1
  <2> HIDE DEF d, m
  <2>2. b * (q - d) = b * q - b * d
    BY <2>1
  <2>3. b * q \in Int /\ b * d \in Int /\ b * (q - d) = m - r
    BY <1>2, <2>1, <2>2
  <2>4. q - d = 0
    <3>1. q - d \in Int /\ b * (q - d) < b /\ -b < b * (q - d)
      BY <2>1, <2>3
    <3> QED
      BY <3>1, NoSmallMultiple
  <2>5. q = d
    BY <2>1, <2>4
  <2>6. r = m
    BY <1>2, <2>1, <2>5
  <2> QED
    BY <2>5, <2>6 DEF d, m
<1> QED
  BY <1>1, <1>2

LEMMA MultipleDivided ==
    ASSUME NEW b \in Nat \ {0}, NEW q \in Nat
    PROVE  (b * q) \div b = q /\ (b * q) % b = 0
<1>1. b * q \in Nat /\ 0 \in 0 .. b - 1 /\ b * q = b * q + 0
  OBVIOUS
<1> QED
  BY <1>1, Division

\* CeilDiv is the least number of pieces that is enough.
LEMMA CeilDivIs ==
    ASSUME NEW a \in Nat, NEW b \in Nat \ {0}, NEW q \in Nat,
           a <= b * q, (a = 0 /\ q = 0) \/ b * (q - 1) < a
    PROVE  CeilDiv(a, b) = q
<1> DEFINE r == a + b - 1 - b * q
<1>1. b * (q - 1) = b * q - b /\ b * q \in Nat
  OBVIOUS
<1>2. a + b - 1 \in Nat
  OBVIOUS
<1>3. r \in 0 .. b - 1
  BY <1>1
<1>4. a + b - 1 = b * q + r
  BY <1>1
<1> HIDE DEF r
<1>5. q = (a + b - 1) \div b
  BY <1>2, <1>3, <1>4, Division
<1> QED
  BY <1>5 DEF CeilDiv

---------------------------------------------------------------------------
(* Floats that hold an integer exactly. *)

LEMMA Constants ==
    /\ SYMBOL_SIZE \in Nat \ {0} /\ Header \in Nat \ {0} /\ FloatBits \in Nat \ {0}
    /\ ServerCounts \subseteq Nat \ {0} /\ FileSizes \subseteq Nat
    /\ MaxResizes \in Nat /\ MaxWrites \in Nat
BY CodingAssumption

LEMMA NearestToAMultiple ==
    ASSUME NEW b \in Nat \ {0}, NEW q \in Nat
    PROVE  NearestDiv(b * q, b) = q
<1>1. (b * q) \div b = q /\ (b * q) % b = 0
  BY MultipleDivided
<1> QED
  BY <1>1 DEF NearestDiv

LEMMA NearestType ==
    ASSUME NEW a \in Nat, NEW b \in Nat \ {0}
    PROVE  NearestDiv(a, b) \in Nat
<1>1. a \div b \in Nat
  BY Division
<1> QED
  BY <1>1 DEF NearestDiv

\* A number below 2 ^ FloatBits is a float.
LEMMA FloatExact ==
    ASSUME NEW a \in Nat, a < 2 ^ FloatBits
    PROVE  Float(a) = a
<1> DEFINE E == {e \in 0 .. a : a < 2 ^ (FloatBits + e)}
<1>1. 0 \in E
  <2>1. FloatBits + 0 = FloatBits
    BY Constants
  <2> QED
    BY <2>1
<1>2. \A e \in E : e \in Nat
  OBVIOUS
<1> HIDE DEF E
<1>3. Min(E) = 0
  <2>1. \A y \in E : 0 <= y
    BY <1>2
  <2>2. \A x \in E : (\A y \in E : x <= y) => x = 0
    BY <1>1, <1>2
  <2> QED
    BY <1>1, <2>1, <2>2 DEF Min
<1>4. 2 ^ Min(E) = 1
  BY <1>3, FirstPower
<1>5. NearestDiv(a, 1) = a
  <2>1. 1 * a = a
    OBVIOUS
  <2>2. NearestDiv(1 * a, 1) = a
    BY NearestToAMultiple
  <2> QED
    BY <2>1, <2>2
<1>6. Float(a) = 2 ^ Min(E) * NearestDiv(a, 2 ^ Min(E))
  BY DEF Float, E
<1> QED
  BY <1>4, <1>5, <1>6

(***************************************************************************)
(* What is left of a division has a binary place in the significand of the *)
(* quotient: twice the scale is more than the divisor.                     *)
(***************************************************************************)
LEMMA ScaleIsLarge ==
    ASSUME NEW a \in Nat \ {0}, a < 2 ^ FloatBits, NEW b \in Nat \ {0}
    PROVE  LET e == Max({i \in 0..(FloatBits + b) : a * 2 ^ i < b * 2 ^ FloatBits})
           IN  2 ^ e \in Nat \ {0} /\ 2 * 2 ^ e > b
<1> DEFINE top == FloatBits + b
           E == {i \in 0 .. top : a * 2 ^ i < b * 2 ^ FloatBits}
           e == Max(E)
           x == 2 ^ FloatBits
<1>1. top \in Nat /\ FloatBits \in Nat
  BY Constants
<1>2. x \in Nat \ {0}
  BY <1>1, PowerCounts
<1>3. \A i \in 0 .. top : 2 ^ i \in Nat \ {0}
  <2>1. \A i \in 0 .. top : i \in Nat
    BY <1>1
  <2> QED
    BY <2>1, PowerCounts
<1>4. 0 \in E
  <2>1. a * 2 ^ 0 = a
    BY FirstPower
  <2>2. b * x >= x
    BY <1>2
  <2>3. 0 \in 0 .. top
    BY <1>1
  <2>4. a * 2 ^ 0 < b * x
    BY <1>2, <2>1, <2>2
  <2> QED
    BY <2>3, <2>4
<1>5. e \in E /\ \A i \in E : i <= e
  <2>1. E \in SUBSET (0 .. top) /\ E # {}
    BY <1>4
  <2> HIDE DEF E, top
  <2>2. PICK m \in E : \A i \in E : i <= m
    BY <1>1, <2>1, GreatestNumber
  <2>3. \A i \in E : m >= i
    BY <1>1, <2>1, <2>2
  <2>4. e \in E /\ \A i \in E : e >= i
    BY <2>3 DEF Max
  <2> QED
    BY <1>1, <2>1, <2>4
<1>6. e \in 0 .. top /\ a * 2 ^ e < b * x
  BY <1>5
<1>7. e # top
  <2>1. 2 ^ top >= b * x
    BY <1>1, PowerShifted
  <2>2. 2 ^ top \in Nat
    BY <1>1, PowerCounts
  <2>3. a * 2 ^ top >= 2 ^ top
    BY <2>2
  <2> HIDE DEF top, e, x
  <2>4. b * x \in Nat
    BY <1>2
  <2> QED
    BY <1>6, <2>1, <2>2, <2>3, <2>4
<1>8. e + 1 \in 0 .. top /\ e + 1 \notin E
  <2> HIDE DEF e
  <2>1. e + 1 \in 0 .. top
    BY <1>1, <1>6, <1>7
  <2>2. ~(e + 1 <= e)
    BY <1>6
  <2> QED
    BY <1>5, <2>1, <2>2
<1> DEFINE s == 2 ^ e
<1>9. s \in Nat \ {0} /\ 2 ^ (e + 1) = 2 * s
  <2>1. e \in Nat
    BY <1>6
  <2> HIDE DEF e
  <2> QED
    BY <2>1, PowerCounts, NextPower
<1>10. a * (2 * s) >= b * x
  <2>1. ~(a * 2 ^ (e + 1) < b * x)
    BY <1>8
  <2> HIDE DEF e, x, s
  <2>2. ~(a * (2 * s) < b * x)
    BY <1>9, <2>1
  <2>3. a * (2 * s) \in Nat /\ b * x \in Nat
    BY <1>2, <1>9
  <2> QED
    BY <2>2, <2>3
<1> HIDE DEF s, x
<1>11. 2 * s > b
  <2>1. SUFFICES ASSUME 2 * s <= b PROVE FALSE
    BY <1>9
  <2>2. a * (2 * s) <= a * b
    BY <1>9, <2>1
  <2>3. a < x /\ b * a < b * x
    <3>1. a < x
      BY DEF x
    <3>2. PICK d \in Nat : x = a + d + 1
      <4>1. x - a - 1 \in Nat /\ x = a + (x - a - 1) + 1
        BY <1>2, <3>1
      <4> QED
        BY <4>1
    <3>3. b * x = b * a + b * d + b /\ b * d \in Nat /\ b * a \in Nat
      BY <3>2
    <3> QED
      BY <3>1, <3>3
  <2>4. a * b = b * a /\ a * b \in Nat /\ b * x \in Nat /\ a * (2 * s) \in Nat
    BY <1>2, <1>9
  <2> QED
    BY <1>10, <2>2, <2>3, <2>4
<1> QED
  BY <1>9, <1>11 DEF s

\* The float quotient is rounded up where the division of integers is.
LEMMA QuotientExact ==
    ASSUME NEW a \in Nat, a < 2 ^ FloatBits, NEW b \in Nat \ {0}
    PROVE  CeilFloatDiv(a, b) = CeilDiv(a, b) /\ CeilDiv(a, b) \in Nat
<1>1. CASE a = 0
  <2>1. CeilDiv(a, b) = 0
    <3>1. a <= b * 0
      BY <1>1
    <3> QED
      BY <1>1, <3>1, CeilDivIs
  <2> QED
    BY <1>1, <2>1 DEF CeilFloatDiv
<1>2. CASE a # 0
  <2> DEFINE s == 2 ^ Max({i \in 0..(FloatBits + b) : a * 2 ^ i < b * 2 ^ FloatBits})
             q == a \div b
             r == a % b
             N == NearestDiv(a * s, b)
  <2>1. s \in Nat \ {0} /\ 2 * s > b
    <3>1. a \in Nat \ {0}
      BY <1>2
    <3> QED
      BY <3>1, ScaleIsLarge
  <2>2. CeilFloatDiv(a, b) = CeilDiv(N, s)
    BY <1>2 DEF CeilFloatDiv
  <2> HIDE DEF s
  <2>3. q \in Nat /\ r \in 0 .. b - 1 /\ a = b * q + r
    BY Division
  <2> HIDE DEF q, r
  <2>4. CASE r = 0
    <3>1. a * s = b * (q * s) /\ q * s \in Nat
      BY <2>1, <2>3, <2>4
    <3>2. N = q * s
      BY <3>1, NearestToAMultiple
    <3>3. CeilDiv(N, s) = q
      <4>1. N = s * q /\ N \in Nat
        BY <2>1, <2>3, <3>1, <3>2
      <4>2. q # 0 => s * (q - 1) < N
        BY <2>1, <2>3, <4>1
      <4>3. q # 0
        BY <1>2, <2>3, <2>4
      <4> HIDE DEF N
      <4>4. N <= s * q
        BY <2>1, <2>3, <4>1
      <4> QED
        BY <2>1, <2>3, <4>1, <4>2, <4>3, <4>4, CeilDivIs
    <3>4. CeilDiv(a, b) = q
      <4>1. a = b * q /\ q # 0
        BY <1>2, <2>3, <2>4
      <4>2. b * (q - 1) < a /\ a <= b * q
        BY <2>3, <4>1
      <4> QED
        BY <2>3, <4>2, CeilDivIs
    <3> QED
      BY <2>2, <2>3, <3>3, <3>4
  <2>5. CASE r # 0
    <3> DEFINE u == (r * s) \div b
               v == (r * s) % b
    <3>1. r * s \in Nat /\ a * s \in Nat /\ q * s \in Nat
      BY <2>1, <2>3
    <3>2. u \in Nat /\ v \in 0 .. b - 1 /\ r * s = b * u + v
      BY <3>1, Division
    <3> HIDE DEF u, v
    <3>3. a * s = b * (q * s + u) + v /\ q * s + u \in Nat
      <4>1. a * s = b * q * s + r * s
        BY <2>1, <2>3
      <4>2. b * (q * s + u) = b * q * s + b * u
        BY <2>1, <2>3, <3>1, <3>2
      <4>3. b * q * s \in Nat /\ b * u \in Nat
        BY <2>1, <2>3, <3>2
      <4> QED
        BY <2>1, <3>1, <3>2, <4>1, <4>2, <4>3
    <3>4. (a * s) \div b = q * s + u /\ (a * s) % b = v
      <4> DEFINE w == q * s + u
                 z == a * s
      <4>1. z \in Nat /\ w \in Nat /\ z = b * w + v
        BY <3>1, <3>3
      <4> HIDE DEF w, z
      <4>2. z \div b = w /\ z % b = v
        BY <3>2, <4>1, Division
      <4> QED
        BY <4>2 DEF w, z
    <3>5. u < s
      <4>1. SUFFICES ASSUME u >= s PROVE FALSE
        BY <2>1, <3>2
      <4>2. b * u >= b * s
        BY <2>1, <3>2, <4>1
      <4>3. r * s < b * s
        <5>1. PICK d \in Nat : b = r + d + 1
          <6>1. b - r - 1 \in Nat /\ b = r + (b - r - 1) + 1
            BY <2>3
          <6> QED
            BY <6>1
        <5>2. b * s = r * s + d * s + s /\ d * s \in Nat
          BY <2>1, <2>3, <5>1
        <5> QED
          BY <2>1, <3>1, <5>2
      <4>4. b * u \in Nat /\ b * s \in Nat
        BY <2>1, <3>2
      <4> QED
        BY <3>1, <3>2, <4>2, <4>3, <4>4
    <3>6. u > 0 \/ 2 * v > b
      <4>1. SUFFICES ASSUME u = 0 PROVE 2 * v > b
        BY <3>2
      <4>2. v = r * s
        BY <3>1, <3>2, <4>1
      <4>3. r * s >= s
        BY <2>1, <2>3, <2>5
      <4> QED
        BY <2>1, <3>1, <4>2, <4>3
    <3>7. N \in Nat /\ q * s < N /\ N <= q * s + s
      <4>1. N \in {q * s + u, q * s + u + 1} /\ (u = 0 => N = q * s + u + 1)
        BY <3>2, <3>4, <3>6 DEF NearestDiv
      <4> HIDE DEF N
      <4> QED
        BY <2>1, <3>1, <3>2, <3>5, <4>1
    <3> HIDE DEF N
    <3>8. CeilDiv(N, s) = q + 1
      <4>1. s * (q + 1) = q * s + s /\ s * ((q + 1) - 1) = q * s /\ q + 1 \in Nat
        BY <2>1, <2>3
      <4>2. N <= s * (q + 1) /\ s * ((q + 1) - 1) < N
        BY <3>7, <4>1
      <4> QED
        BY <2>1, <3>7, <4>1, <4>2, CeilDivIs
    <3>9. CeilDiv(a, b) = q + 1
      <4>1. b * (q + 1) = b * q + b /\ b * ((q + 1) - 1) = b * q /\ q + 1 \in Nat /\ b * q \in Nat
        BY <2>3
      <4>2. a <= b * (q + 1) /\ b * ((q + 1) - 1) < a
        BY <2>3, <2>5, <4>1
      <4> QED
        BY <4>1, <4>2, CeilDivIs
    <3> QED
      BY <2>2, <2>3, <3>8, <3>9
  <2> QED
    BY <2>4, <2>5
<1> QED
  BY <1>1, <1>2

---------------------------------------------------------------------------
(* Types. *)

\* A float holds each of the file sizes.
SizesFit == \A size \in FileSizes : size < 2 ^ FloatBits

\* Nor is any of them 0.
SizesExact == SizesFit /\ 0 \notin FileSizes

OddCount == \A m \in ServerCounts : m % 2 = 1

\* Nothing is decoded before the reader has its frames.
TypesInv ==
    /\ TypeOK
    /\ filesize \in {0} \cup FileSizes
    /\ info.K = CodeK(n)
    /\ pc \in {"off", "started", "idle", "collect"} => decoded = <<>>

LEMMA ParametersTyped ==
    ASSUME n \in ServerCounts
    PROVE  /\ n \in Nat \ {0} /\ CodeK(n) \in Nat \ {0} /\ BlockSize \in Nat \ {0}
           /\ Payload \in Nat \ {0} /\ Majority(n) \in Nat
<1>1. n \in Nat \ {0} /\ SYMBOL_SIZE \in Nat \ {0} /\ Header \in Nat \ {0}
  BY Constants
<1>2. CodeK(n) \in Nat \ {0} /\ Majority(n) \in Nat
  BY <1>1 DEF CodeK, Majority
<1>3. CodeK(n) * SYMBOL_SIZE \in Nat \ {0}
  BY <1>1, <1>2
<1> QED
  BY <1>1, <1>2, <1>3 DEF BlockSize, Payload

LEMMA EncodeTyped ==
    ASSUME NEW size \in Nat, n \in ServerCounts
    PROVE  /\ encode(size) \in [raw_data_size : Nat, num_blocks : Nat]
           /\ size = 0 => encode(size).num_blocks = 0
<1>1. BlockSize \in Nat \ {0}
  BY ParametersTyped
<1>2. CeilDiv(size, BlockSize) \in Nat
  BY <1>1, Division DEF CeilDiv
<1>3. size = 0 => CeilDiv(size, BlockSize) = 0
  <2> SUFFICES ASSUME size = 0 PROVE CeilDiv(size, BlockSize) = 0
    OBVIOUS
  <2>1. size <= BlockSize * 0
    BY <1>1
  <2> QED
    BY <1>1, <2>1, CeilDivIs
<1> QED
  BY <1>2, <1>3 DEF encode

\* The reader computes as many blocks as the writer.
LEMMA EncodeDataIs ==
    ASSUME SizesFit, NEW size \in {0} \cup FileSizes, n \in ServerCounts
    PROVE  /\ create_EncodeData(size) =
                [K |-> CodeK(n), raw_data_size |-> size, encoded_symbol_size |-> 0,
                 num_blocks |-> encode(size).num_blocks]
           /\ Float(size) = size /\ size \in Nat
<1>1. size \in Nat /\ size < 2 ^ FloatBits
  <2>1. 2 ^ FloatBits \in Nat \ {0}
    BY Constants, PowerCounts
  <2> QED
    BY <2>1, Constants DEF SizesFit
<1>2. Float(size) = size
  BY <1>1, FloatExact
<1>3. BlockSize \in Nat \ {0}
  BY ParametersTyped
<1>4. CeilFloatDiv(size, BlockSize) = CeilDiv(size, BlockSize)
  BY <1>1, <1>3, QuotientExact
<1> QED
  BY <1>1, <1>2, <1>4 DEF create_EncodeData, encode

LEMMA BlockTyped ==
    ASSUME n \in ServerCounts, NEW size \in Nat, NEW b \in Nat \ {0}
    PROVE  Block(size, b) \in [1..BlockSize -> Nat] /\ GARBAGE \in [1..BlockSize -> Nat]
<1>1. BlockSize \in Nat \ {0}
  BY ParametersTyped
<1> DEFINE B == BlockSize
<1>2. \A i \in 1 .. B : (b - 1) * B + i \in Nat
  <2>1. (b - 1) * B \in Nat
    BY <1>1
  <2> HIDE DEF B
  <2> QED
    BY <2>1
<1> QED
  BY <1>2 DEF Block, GARBAGE, PAD

LEMMA TypesInit ==
    ASSUME SizesFit, Init
    PROVE  TypesInv
<1>1. /\ n \in ServerCounts /\ algorithm \in Codings /\ file_size \in FileSizes
      /\ resizes = 0 /\ writes = 0 /\ filesize = 0 /\ stored = Nothing /\ source = Nothing
      /\ pc = "off" /\ frames = <<>> /\ decoded = <<>> /\ info = create_EncodeData(0)
  BY DEF Init
<1>2. Nothing \in [raw_data_size : Nat, num_blocks : Nat]
  BY <1>1, EncodeTyped DEF Nothing
<1>3. /\ encode(0).num_blocks \in Nat
      /\ info = [K |-> CodeK(n), raw_data_size |-> 0, encoded_symbol_size |-> 0,
                 num_blocks |-> encode(0).num_blocks]
  BY <1>1, EncodeTyped, EncodeDataIs
<1>4. CodeK(n) \in Nat /\ Majority(n) \in Nat
  BY <1>1, ParametersTyped
<1>5. info \in [K : Nat, raw_data_size : Nat, encoded_symbol_size : Nat, num_blocks : Nat]
  BY <1>3, <1>4
<1>6. resizes \in 0 .. MaxResizes /\ writes \in 0 .. MaxWrites
  BY <1>1, Constants
<1>7. frames \in Seq(1..n) /\ Len(frames) <= Majority(n)
  BY <1>1, <1>4
<1>8. decoded \in Seq([1..BlockSize -> Nat]) /\ Len(decoded) <= info.num_blocks
  BY <1>1, <1>5
<1> QED
  <2>1. TypeOK
    BY <1>1, <1>2, <1>5, <1>6, <1>7, <1>8 DEF TypeOK
  <2> QED
    BY <1>1, <1>3, <2>1 DEF TypesInv

\* What a decoded block may be.
LEMMA DecodingsTyped ==
    ASSUME TypeOK, NEW b \in Nat \ {0}
    PROVE  Decodings(b) \subseteq [1..BlockSize -> Nat]
<1>1. /\ n \in ServerCounts /\ source.raw_data_size \in Nat
      /\ info.encoded_symbol_size \in Nat
  BY DEF TypeOK
<1>2. Offset(b) \in Nat
  BY <1>1 DEF Offset
<1>3. Payload \in Nat \ {0}
  BY <1>1, ParametersTyped
<1>4. Offset(b) \div Payload + 1 \in Nat \ {0}
  <2> DEFINE o == Offset(b)
             l == Payload
  <2> HIDE DEF o, l
  <2>1. o \div l \in Nat
    BY <1>2, <1>3, Division DEF o, l
  <2>2. o \div l + 1 \in Nat \ {0}
    BY <2>1
  <2> QED
    BY <2>2 DEF o, l
<1>5. /\ Block(source.raw_data_size, Offset(b) \div Payload + 1) \in [1..BlockSize -> Nat]
      /\ GARBAGE \in [1..BlockSize -> Nat]
  BY <1>1, <1>4, BlockTyped
<1> QED
  BY <1>5 DEF Decodings

LEMMA StrideTyped ==
    ASSUME TypeOK, info.num_blocks # 0, info.K # 0
    PROVE  Stride \in Nat
<1>1. /\ n \in ServerCounts /\ source.num_blocks \in Nat /\ Len(frames) \in Nat
      /\ info.num_blocks \in Nat \ {0} /\ info.K \in Nat \ {0}
  BY DEF TypeOK
<1>2. Payload \in Nat
  BY <1>1, ParametersTyped
<1> DEFINE x == Len(frames) * FrameSize
           y == info.num_blocks * info.K
<1>3. x \in Nat
  BY <1>1, <1>2 DEF FrameSize
<1>4. y \in Nat \ {0}
  BY <1>1
<1> HIDE DEF x, y
<1>5. x \div y \in Nat
  BY <1>3, <1>4, Division
<1> QED
  BY <1>5 DEF Stride, x, y

LEMMA TypesNext ==
    ASSUME SizesFit, TypesInv, [Next]_vars
    PROVE  TypesInv'
<1>1. /\ n \in ServerCounts /\ TypeOK /\ filesize \in {0} \cup FileSizes
      /\ info.K = CodeK(n) /\ n \in Nat \ {0} /\ CodeK(n) \in Nat \ {0}
      /\ BlockSize \in Nat \ {0} /\ Majority(n) \in Nat
      /\ MaxResizes \in Nat /\ MaxWrites \in Nat /\ FileSizes \subseteq Nat
  BY ParametersTyped, Constants DEF TypesInv, TypeOK
<1>2. /\ encode(file_size) \in [raw_data_size : Nat, num_blocks : Nat]
      /\ \A size \in FileSizes : Float(size) = size
  BY <1>1, EncodeTyped, EncodeDataIs DEF TypeOK
<1> DEFINE Kept == n' = n /\ BlockSize' = BlockSize /\ CodeK(n)' = CodeK(n)
                   /\ Majority(n)' = Majority(n)
<1>3. Kept
  BY DEF Next, SetFileSize, StartReader, write_initial_data, WriterWrites, BeginRead,
         Collect, get_encoded_info, DecodeBlock, EndRead, vars, BlockSize, readVars
<1> HIDE DEF Kept
<1>4. CASE UNCHANGED vars
  BY <1>3, <1>4 DEF TypesInv, TypeOK, vars, Kept
<1>5. CASE \E size \in FileSizes : SetFileSize(size)
  <2>1. PICK size \in FileSizes : SetFileSize(size)
    BY <1>5
  <2>2. resizes' \in 0 .. MaxResizes
    BY <1>1, <2>1 DEF SetFileSize, TypeOK
  <2> QED
    BY <1>3, <2>1, <2>2 DEF SetFileSize, TypesInv, TypeOK, readVars, Kept
<1>6. CASE StartReader
  <2>1. filesize' = file_size /\ file_size \in FileSizes
    BY <1>1, <1>2, <1>6 DEF StartReader, TypeOK
  <2> QED
    BY <1>1, <1>3, <1>6, <2>1 DEF StartReader, TypesInv, TypeOK, readVars, Kept
<1>7. CASE write_initial_data
  BY <1>2, <1>3, <1>7 DEF write_initial_data, TypesInv, TypeOK, readVars, Kept
<1>8. CASE WriterWrites
  <2>1. writes' \in 0 .. MaxWrites
    BY <1>1, <1>8 DEF WriterWrites, TypeOK
  <2> QED
    BY <1>2, <1>3, <1>8, <2>1 DEF WriterWrites, TypesInv, TypeOK, readVars, Kept
<1>9. CASE BeginRead
  <2>1. /\ info' = [K |-> CodeK(n), raw_data_size |-> filesize, encoded_symbol_size |-> 0,
                    num_blocks |-> encode(filesize).num_blocks]
        /\ filesize \in Nat /\ encode(filesize).num_blocks \in Nat
    BY <1>1, <1>9, EncodeDataIs, EncodeTyped DEF BeginRead
  <2>2. /\ info' \in [K : Nat, raw_data_size : Nat, encoded_symbol_size : Nat, num_blocks : Nat]
        /\ info'.K = CodeK(n) /\ info'.num_blocks \in Nat
    BY <1>1, <2>1
  <2>3. decoded = <<>> /\ decoded' = decoded
    BY <1>9 DEF BeginRead, TypesInv
  <2>4. decoded' \in Seq([1..BlockSize -> Nat]) /\ Len(decoded') <= info'.num_blocks
    BY <2>2, <2>3
  <2> QED
    BY <1>3, <1>9, <2>2, <2>3, <2>4 DEF BeginRead, TypesInv, TypeOK, Kept
<1>10. CASE \E s \in 1..n : Collect(s)
  <2>1. PICK s \in 1..n : Collect(s)
    BY <1>10
  <2>2. frames' \in Seq(1..n) /\ Len(frames') <= Majority(n)
    BY <1>1, <2>1 DEF Collect, Unused, TypeOK
  <2> QED
    BY <1>3, <2>1, <2>2 DEF Collect, TypesInv, TypeOK, Kept
<1>11. CASE get_encoded_info
  <2>1. CASE pc' = "killed" /\ UNCHANGED info
    BY <1>3, <1>11, <2>1 DEF get_encoded_info, TypesInv, TypeOK, Kept
  <2>2. CASE /\ info.num_blocks # 0
             /\ info' = [info EXCEPT !.encoded_symbol_size = Stride] /\ pc' = "decode"
    <3>1. Stride \in Nat
      BY <1>1, <2>2, StrideTyped
    <3>2. /\ info' \in [K : Nat, raw_data_size : Nat, encoded_symbol_size : Nat, num_blocks : Nat]
          /\ info'.K = info.K /\ info'.num_blocks = info.num_blocks
      BY <1>1, <2>2, <3>1 DEF TypeOK
    <3> QED
      BY <1>3, <1>11, <2>2, <3>2 DEF get_encoded_info, TypesInv, TypeOK, Kept
  <2> QED
    BY <1>11, <2>1, <2>2 DEF get_encoded_info
<1>12. CASE DecodeBlock
  <2> DEFINE b == Len(decoded) + 1
  <2>1. b \in Nat \ {0} /\ b <= info.num_blocks /\ decoded \in Seq([1..BlockSize -> Nat])
    BY <1>12 DEF DecodeBlock, TypesInv, TypeOK
  <2>2. CASE decoded' \in {Append(decoded, block) : block \in Decodings(b)} /\ UNCHANGED pc
    <3>1. PICK block \in Decodings(b) : decoded' = Append(decoded, block)
      BY <2>2
    <3>2. block \in [1..BlockSize -> Nat]
      BY <1>1, <2>1, <3>1, DecodingsTyped
    <3> DEFINE T == [1..BlockSize -> Nat]
    <3> HIDE DEF T
    <3>3. decoded' \in Seq(T) /\ Len(decoded') = b
      BY <2>1, <3>1, <3>2 DEF T
    <3>4. decoded' \in Seq([1..BlockSize -> Nat]) /\ Len(decoded') <= info.num_blocks
      BY <2>1, <3>3 DEF T
    <3>5. pc' = "decode"
      BY <1>12, <2>2 DEF DecodeBlock
    <3> HIDE DEF b
    <3> QED
      BY <1>3, <1>12, <3>4, <3>5 DEF DecodeBlock, TypesInv, TypeOK, Kept
  <2>3. CASE MayFail(b) /\ pc' = "failed" /\ UNCHANGED decoded
    <3> HIDE DEF b
    <3> QED
      BY <1>3, <1>12, <2>3 DEF DecodeBlock, TypesInv, TypeOK, Kept
  <2> QED
    BY <1>12, <2>2, <2>3 DEF DecodeBlock
<1>13. CASE EndRead
  BY <1>3, <1>13 DEF EndRead, TypesInv, TypeOK, readVars, Kept
<1> QED
  BY <1>4, <1>5, <1>6, <1>7, <1>8, <1>9, <1>10, <1>11, <1>12, <1>13 DEF Next

\* The parameters, the buffers and what is decoded keep their types.
THEOREM ValueTypes == SizesFit => (Spec => []TypeOK)
<1> SUFFICES ASSUME SizesFit PROVE Spec => []TypeOK
  OBVIOUS
<1>1. Init => TypesInv
  BY TypesInit
<1>2. TypesInv /\ [Next]_vars => TypesInv'
  BY TypesNext
<1>3. TypesInv => TypeOK
  BY DEF TypesInv
<1> QED
  BY <1>1, <1>2, <1>3, PTL DEF Spec

---------------------------------------------------------------------------
(* Reads. *)

\* With an odd number of servers, a majority is what the decoder needs.
LEMMA MajorityIsK ==
    ASSUME OddCount, n \in ServerCounts
    PROVE  Majority(n) = CodeK(n)
<1>1. n \in Nat /\ n % 2 = 1
  BY Constants DEF OddCount
<1> QED
  BY <1>1 DEF Majority, CodeK

\* A value that is not empty has a block, and its last byte is in the last one.
LEMMA BlocksEnough ==
    ASSUME NEW size \in Nat \ {0}, n \in ServerCounts
    PROVE  /\ encode(size).raw_data_size = size
           /\ encode(size).num_blocks \in Nat \ {0}
           /\ size <= BlockSize * encode(size).num_blocks
<1> DEFINE b == BlockSize
           a == size + b - 1
           c == a \div b
<1>1. b \in Nat \ {0}
  BY ParametersTyped
<1>2. encode(size).raw_data_size = size /\ encode(size).num_blocks = c
  BY DEF encode, CeilDiv
<1> HIDE DEF b
<1>3. a \in Nat /\ a >= b /\ a = size + b - 1
  BY <1>1
<1> HIDE DEF a
<1>4. c \in Nat /\ a % b \in 0 .. b - 1 /\ a = b * c + (a % b)
  BY <1>1, <1>3, Division
<1> HIDE DEF c
<1>5. b * c \in Nat /\ size <= b * c
  BY <1>1, <1>3, <1>4
<1>6. c # 0
  BY <1>1, <1>5
<1> QED
  BY <1>2, <1>4, <1>5, <1>6 DEF b

\* The length of all frames, divided by the blocks of the K of them.
LEMMA StrideIs ==
    ASSUME NEW k \in Nat \ {0}, NEW blocks \in Nat \ {0}, NEW l \in Nat
    PROVE  (k * (blocks * l)) \div (blocks * k) = l
<1>1. blocks * k \in Nat \ {0} /\ k * (blocks * l) = (blocks * k) * l
  OBVIOUS
<1> DEFINE b == blocks * k
<1> HIDE DEF b
<1>2. (b * l) \div b = l
  BY <1>1, MultipleDivided DEF b
<1> QED
  BY <1>1, <1>2 DEF b

\* Elements of different servers, and of each the payload of every block.
FramesDiffer == \A i, j \in 1 .. Len(frames) : frames[i] = frames[j] => i = j

BlocksRight == \A b \in 1 .. Len(decoded) : decoded[b] = Block(source.raw_data_size, b)

Collected ==
    pc \notin {"off", "started", "idle"} =>
      source = encode(file_size) /\ info.num_blocks = source.num_blocks

Informed ==
    pc \in {"decode", "done", "failed"} =>
      Len(frames) = CodeK(n) /\ info.encoded_symbol_size = Payload

\* The reader goes by the file size that every value was written with.
ReadInv ==
    /\ TypesInv
    /\ pc # "off" => filesize = file_size
    /\ writes > 0 \/ pc \notin {"off", "started"} => stored = encode(file_size)
    /\ Collected
    /\ Informed
    /\ FramesDiffer
    /\ BlocksRight
    /\ pc = "done" => Len(decoded) = info.num_blocks
    /\ pc # "killed"
    /\ algorithm = "reed_solomon" => pc # "failed"

LEMMA ReadInit ==
    ASSUME SizesExact, Init
    PROVE  ReadInv
<1>1. TypesInv
  BY TypesInit DEF SizesExact
<1>2. pc = "off" /\ frames = <<>> /\ decoded = <<>> /\ writes = 0
  BY DEF Init
<1>3. FramesDiffer /\ BlocksRight
  BY <1>2 DEF FramesDiffer, BlocksRight
<1> QED
  BY <1>1, <1>2, <1>3 DEF ReadInv, Collected, Informed

\* The payload that the decoder takes is the one of its block.
LEMMA DecodingsAre ==
    ASSUME ReadInv, SizesExact, pc = "decode", NEW b \in Nat \ {0}, b <= info.num_blocks
    PROVE  /\ Decodings(b) = {Block(source.raw_data_size, b)}
           /\ MayFail(b) => algorithm = "full_vector"
<1>1. /\ n \in ServerCounts /\ info.K = CodeK(n) /\ Len(frames) = CodeK(n)
      /\ info.encoded_symbol_size = Payload /\ source.num_blocks = info.num_blocks
      /\ source.num_blocks \in Nat /\ Payload \in Nat \ {0}
  BY ParametersTyped DEF ReadInv, TypesInv, TypeOK, Collected, Informed
<1> DEFINE l == Payload
           m == source.num_blocks
           c == b - 1
<1>2. c \in Nat /\ l \in Nat \ {0} /\ m \in Nat /\ c + 1 <= m /\ c + 1 = b
  BY <1>1
<1>3. Offset(b) = c * l /\ FrameSize = m * l
  BY <1>1 DEF Offset, FrameSize
<1> HIDE DEF l, m, c
<1>4. c * l = l * c /\ (l * c) \div l = c /\ (l * c) % l = 0
  <2>1. c * l = l * c
    BY <1>2
  <2> QED
    BY <1>2, <2>1, MultipleDivided
<1>5. c * l + l <= m * l
  <2>1. PICK d \in Nat : m = c + 1 + d
    <3>1. m - (c + 1) \in Nat
      BY <1>2
    <3> QED
      BY <1>2, <3>1
  <2>2. m * l = c * l + l + d * l /\ d * l >= 0 /\ c * l \in Nat
    BY <1>2, <2>1
  <2> QED
    BY <1>2, <2>2
<1>6. IsPayload(b)
  BY <1>1, <1>2, <1>3, <1>4, <1>5 DEF IsPayload, l
<1>7. Independent
  BY <1>1 DEF Independent, ReadInv, FramesDiffer
<1>8. Offset(b) \div Payload + 1 = b
  BY <1>2, <1>3, <1>4 DEF l
<1> QED
  BY <1>6, <1>7, <1>8 DEF Decodings, MayFail

LEMMA ReadNext ==
    ASSUME SizesExact, OddCount, ~ResizeRunning, ReadInv, [Next]_vars
    PROVE  ReadInv'
<1>1. SizesFit /\ TypesInv /\ TypesInv'
  BY TypesNext DEF SizesExact, ReadInv
<1>2. /\ n \in ServerCounts /\ file_size \in FileSizes /\ file_size \in Nat \ {0}
      /\ writes \in Nat /\ CodeK(n) \in Nat \ {0}
      /\ Payload \in Nat \ {0} /\ Majority(n) = CodeK(n)
  BY <1>1, Constants, ParametersTyped, MajorityIsK DEF TypesInv, TypeOK, SizesExact
<1>3. /\ create_EncodeData(file_size).num_blocks = encode(file_size).num_blocks
      /\ Float(file_size) = file_size
  BY <1>1, <1>2, EncodeDataIs
<1>4. n' = n /\ algorithm' = algorithm /\ CodeK(n)' = CodeK(n) /\ Payload' = Payload
  BY DEF Next, SetFileSize, StartReader, write_initial_data, WriterWrites, BeginRead,
         Collect, get_encoded_info, DecodeBlock, EndRead, vars, readVars, CodeK, Payload
<1>5. file_size' = file_size => encode(file_size)' = encode(file_size)
  BY <1>4 DEF encode, BlockSize
<1>6. frames' = frames => FramesDiffer'
  BY DEF FramesDiffer, ReadInv
<1>7. source' = source /\ decoded' = decoded => BlocksRight'
  BY <1>4 DEF BlocksRight, ReadInv, Block, BlockSize
<1>8. CASE UNCHANGED vars
  BY <1>1, <1>4, <1>5, <1>6, <1>7, <1>8 DEF ReadInv, vars, Collected, Informed
<1>9. CASE \E size \in FileSizes : SetFileSize(size)
  <2>1. PICK size \in FileSizes : SetFileSize(size)
    BY <1>9
  <2>2. pc' = "off" /\ writes' = 0 /\ decoded' = decoded /\ source' = source /\ frames' = frames
    BY <2>1 DEF SetFileSize, readVars
  <2> QED
    BY <1>1, <1>6, <1>7, <2>2 DEF ReadInv, Collected, Informed
<1>10. CASE StartReader
  <2>1. /\ filesize' = file_size' /\ file_size' = file_size /\ pc' = "started"
        /\ writes' = writes /\ stored' = stored /\ frames' = frames /\ decoded' = decoded
        /\ source' = source
    BY <1>3, <1>10 DEF StartReader, readVars
  <2> QED
    BY <1>1, <1>4, <1>5, <1>6, <1>7, <2>1 DEF ReadInv, Collected, Informed
<1>11. CASE write_initial_data
  <2>1. /\ filesize' = filesize /\ file_size' = file_size /\ pc = "started" /\ pc' = "idle"
        /\ stored' = encode(file_size) /\ frames' = frames /\ decoded' = decoded
        /\ source' = source
    BY <1>11 DEF write_initial_data, readVars
  <2> QED
    BY <1>1, <1>4, <1>5, <1>6, <1>7, <2>1 DEF ReadInv, Collected, Informed
<1>12. CASE WriterWrites
  <2>1. /\ filesize' = filesize /\ file_size' = file_size /\ pc' = pc /\ info' = info
        /\ stored' = encode(file_size) /\ frames' = frames /\ decoded' = decoded
        /\ source' = source
    BY <1>12 DEF WriterWrites, readVars
  <2> QED
    BY <1>1, <1>4, <1>5, <1>6, <1>7, <2>1 DEF ReadInv, Collected, Informed
<1>13. CASE BeginRead
  <2>1. /\ filesize' = filesize /\ file_size' = file_size /\ pc = "idle" /\ pc' = "collect"
        /\ stored' = stored /\ frames' = frames /\ decoded' = decoded /\ writes' = writes
        /\ source' = stored /\ info' = create_EncodeData(filesize)
    BY <1>13 DEF BeginRead
  <2>2. filesize = file_size /\ stored = encode(file_size) /\ decoded = <<>>
    BY <2>1 DEF ReadInv, TypesInv
  <2>3. BlocksRight'
    BY <2>1, <2>2 DEF BlocksRight
  <2>4. source' = encode(file_size)' /\ info'.num_blocks = source'.num_blocks
    BY <1>3, <1>5, <2>1, <2>2
  <2>5. filesize' = file_size' /\ stored' = encode(file_size)'
    BY <1>5, <2>1, <2>2
  <2> QED
    BY <1>1, <1>6, <2>1, <2>3, <2>4, <2>5 DEF ReadInv, Collected, Informed
<1>14. CASE \E s \in 1 .. n : Collect(s)
  <2>1. PICK s \in 1 .. n : Collect(s)
    BY <1>14
  <2>2. /\ filesize' = filesize /\ file_size' = file_size /\ pc = "collect" /\ pc' = pc
        /\ stored' = stored /\ frames' = Append(frames, s) /\ decoded' = decoded
        /\ source' = source /\ info' = info /\ Unused(s) /\ writes' = writes
    BY <2>1 DEF Collect
  <2>3. FramesDiffer'
    <3>1. frames \in Seq(1 .. n) /\ FramesDiffer
      BY DEF ReadInv, TypesInv, TypeOK
    <3>2. \A i \in 1 .. Len(frames) : frames[i] # s
      BY <2>2 DEF Unused
    <3> DEFINE T == 1 .. n
               f == frames'
    <3>3. frames \in Seq(T) /\ s \in T
      BY <2>1, <3>1
    <3> HIDE DEF T
    <3>4. /\ Len(f) = Len(frames) + 1 /\ Len(frames) \in Nat
          /\ \A i \in 1 .. Len(frames) : f[i] = frames[i]
          /\ f[Len(frames) + 1] = s
      BY <2>2, <3>3
    <3> HIDE DEF f
    <3> SUFFICES ASSUME NEW i \in 1 .. Len(f), NEW j \in 1 .. Len(f), f[i] = f[j]
                 PROVE  i = j
      BY DEF FramesDiffer, f
    <3>5. /\ i \in 1 .. Len(frames) \/ i = Len(frames) + 1
          /\ j \in 1 .. Len(frames) \/ j = Len(frames) + 1
      BY <3>4
    <3> QED
      BY <3>1, <3>2, <3>4, <3>5 DEF FramesDiffer
  <2> QED
    BY <1>1, <1>4, <1>5, <1>7, <2>2, <2>3 DEF ReadInv, Collected, Informed
<1>15. CASE get_encoded_info
  <2>1. /\ filesize' = filesize /\ file_size' = file_size /\ pc = "collect"
        /\ stored' = stored /\ frames' = frames /\ decoded' = decoded
        /\ source' = source /\ writes' = writes /\ Len(frames) = CodeK(n)
    BY <1>2, <1>15 DEF get_encoded_info
  <2>2. /\ source.num_blocks \in Nat \ {0} /\ info.num_blocks = source.num_blocks
        /\ info.K = CodeK(n)
    BY <1>2, <2>1, BlocksEnough DEF ReadInv, TypesInv, Collected
  <2>3. ~(info.num_blocks = 0 \/ Len(frames) > info.K)
    BY <1>2, <2>1, <2>2
  <2>4. pc' = "decode" /\ info' = [info EXCEPT !.encoded_symbol_size = Stride]
    BY <1>15, <2>3 DEF get_encoded_info
  <2>5. Stride = Payload
    BY <1>2, <2>1, <2>2, StrideIs DEF Stride, FrameSize
  <2>6. info'.encoded_symbol_size = Payload /\ info'.num_blocks = info.num_blocks
    BY <1>1, <2>4, <2>5 DEF TypesInv, TypeOK
  <2> QED
    BY <1>1, <1>4, <1>5, <1>6, <1>7, <2>1, <2>4, <2>6 DEF ReadInv, Collected, Informed
<1>16. CASE DecodeBlock
  <2> DEFINE b == Len(decoded) + 1
  <2>1. /\ filesize' = filesize /\ file_size' = file_size /\ pc = "decode"
        /\ stored' = stored /\ frames' = frames /\ info' = info
        /\ source' = source /\ writes' = writes /\ b <= info.num_blocks
        /\ decoded \in Seq([1..BlockSize -> Nat])
    BY <1>1, <1>16 DEF DecodeBlock, TypesInv, TypeOK
  <2>2. b \in Nat \ {0}
    BY <2>1
  <2>3. /\ Decodings(b) = {Block(source.raw_data_size, b)}
        /\ MayFail(b) => algorithm = "full_vector"
    <3> HIDE DEF b
    <3> QED
      BY <2>1, <2>2, DecodingsAre
  <2>4. CASE decoded' \in {Append(decoded, block) : block \in Decodings(b)} /\ UNCHANGED pc
    <3>1. decoded' = Append(decoded, Block(source.raw_data_size, b))
      BY <2>3, <2>4
    <3>2. BlocksRight'
      <4> DEFINE T == [1..BlockSize -> Nat]
                 new == Block(source.raw_data_size, b)
                 f == decoded'
      <4>1. new \in T
        BY <1>1, <1>2, <2>2, BlockTyped DEF TypesInv, TypeOK
      <4>2. decoded \in Seq(T)
        BY <2>1
      <4> HIDE DEF T
      <4>3. f = Append(decoded, new)
        BY <3>1
      <4> HIDE DEF new
      <4>4. /\ Len(f) = b /\ f[b] = new
            /\ \A i \in 1 .. Len(decoded) : f[i] = decoded[i]
            /\ \A i \in 1 .. b : i \in 1 .. Len(decoded) \/ i = b
        BY <4>1, <4>2, <4>3
      <4>5. \A i \in 1 .. Len(decoded) : decoded[i] = Block(source.raw_data_size, i)
        BY DEF ReadInv, BlocksRight
      <4> HIDE DEF f, b
      <4>6. \A i \in 1 .. Len(f) : f[i] = Block(source.raw_data_size, i)
        BY <4>4, <4>5 DEF new
      <4> QED
        BY <1>4, <2>1, <4>6 DEF BlocksRight, f, Block, BlockSize
    <3> HIDE DEF b
    <3> QED
      BY <1>1, <1>4, <1>5, <1>6, <2>1, <2>4, <3>2 DEF ReadInv, Collected, Informed
  <2>5. CASE MayFail(b) /\ pc' = "failed" /\ UNCHANGED decoded
    <3>1. algorithm # "reed_solomon"
      BY <2>3, <2>5
    <3> HIDE DEF b
    <3> QED
      BY <1>1, <1>4, <1>5, <1>6, <1>7, <2>1, <2>5, <3>1 DEF ReadInv, Collected, Informed
  <2> QED
    BY <1>16, <2>4, <2>5 DEF DecodeBlock
<1>17. CASE EndRead
  <2>1. /\ filesize' = filesize /\ file_size' = file_size /\ pc = "decode" /\ pc' = "done"
        /\ stored' = stored /\ frames' = frames /\ info' = info /\ decoded' = decoded
        /\ source' = source /\ writes' = writes /\ Len(decoded) = info.num_blocks
    BY <1>17 DEF EndRead, readVars
  <2> QED
    BY <1>1, <1>4, <1>5, <1>6, <1>7, <2>1 DEF ReadInv, Collected, Informed
<1> QED
  BY <1>8, <1>9, <1>10, <1>11, <1>12, <1>13, <1>14, <1>15, <1>16, <1>17 DEF Next

LEMMA ReadAlways ==
    ASSUME SizesExact, OddCount, ~ResizeRunning
    PROVE  Spec => []ReadInv
<1>1. Init => ReadInv
  BY ReadInit
<1>2. ReadInv /\ [Next]_vars => ReadInv'
  BY ReadNext
<1> QED
  BY <1>1, <1>2, PTL DEF Spec

\* Each byte of what was read is the byte of what was written.
LEMMA EveryByte ==
    ASSUME ReadInv, SizesExact
    PROVE  DecodedCorrectly
<1> SUFFICES ASSUME pc = "done", NEW i \in 1 .. source.raw_data_size
             PROVE  LET b == (i - 1) \div BlockSize + 1
                    IN  b <= Len(decoded) /\ decoded[b][((i - 1) % BlockSize) + 1] = i
  BY DEF DecodedCorrectly
<1> DEFINE B == BlockSize
           q == (i - 1) \div B
           r == (i - 1) % B
           size == source.raw_data_size
           m == source.num_blocks
<1>1. /\ n \in ServerCounts /\ file_size \in Nat \ {0} /\ source = encode(file_size)
      /\ Len(decoded) = m
  BY Constants DEF ReadInv, TypesInv, TypeOK, Collected, SizesExact
<1>2. B \in Nat \ {0} /\ size \in Nat \ {0} /\ m \in Nat \ {0} /\ size <= B * m
  BY <1>1, ParametersTyped, BlocksEnough
<1>3. i \in 1 .. size
  OBVIOUS
<1> HIDE DEF B, size, m
<1>4. i - 1 \in Nat /\ i \in Nat /\ i <= size
  BY <1>2, <1>3
<1>5. q \in Nat /\ r \in 0 .. B - 1 /\ i - 1 = B * q + r
  BY <1>2, <1>4, Division
<1> HIDE DEF q, r
<1>6. q + 1 <= m
  <2> SUFFICES ASSUME m <= q PROVE FALSE
    BY <1>2, <1>5
  <2>1. PICK d \in Nat : q = m + d
    <3>1. q - m \in Nat
      BY <1>2, <1>5
    <3> QED
      BY <1>2, <1>5, <3>1
  <2>2. B * q = B * m + B * d /\ B * d >= 0 /\ B * m \in Nat
    BY <1>2, <2>1
  <2> QED
    BY <1>2, <1>4, <1>5, <2>2
<1>7. q + 1 \in 1 .. Len(decoded) /\ r + 1 \in 1 .. B
  BY <1>1, <1>2, <1>5, <1>6
<1>8. decoded[q + 1] = Block(size, q + 1)
  BY <1>7 DEF ReadInv, BlocksRight, size
<1>9. (q + 1 - 1) * B + (r + 1) = i
  <2>1. (q + 1 - 1) * B = B * q /\ B * q \in Nat
    BY <1>2, <1>5
  <2> QED
    BY <1>4, <1>5, <2>1
<1>10. Block(size, q + 1)[r + 1] = i
  <2> DEFINE x == q + 1
             y == r + 1
  <2>1. x \in Nat /\ y \in 1 .. B /\ (x - 1) * B + y = i
    BY <1>5, <1>7, <1>9
  <2> HIDE DEF x, y
  <2>2. Block(size, x)[y] = LET byte == (x - 1) * B + y IN IF byte <= size THEN byte ELSE PAD
    BY <2>1 DEF Block, B
  <2>3. Block(size, x)[y] = i
    BY <1>4, <2>1, <2>2
  <2> QED
    BY <2>3 DEF x, y
<1> QED
  BY <1>1, <1>2, <1>5, <1>6, <1>8, <1>10 DEF q, r, B

\* With Reed-Solomon a read ends: neither for a lack of payloads nor for more
\* than there are buffers.
THEOREM AMajorityDecodes ==
    ASSUME SizesExact, OddCount, ~ResizeRunning
    PROVE  Spec => []ReadSucceeds
<1>1. ReadInv => ReadSucceeds
  BY DEF ReadInv, ReadSucceeds
<1> QED
  BY <1>1, ReadAlways, PTL

\* The elements of a majority have a buffer each, and their length is that of
\* the payloads the reader takes from them.
THEOREM BuffersFit ==
    ASSUME SizesExact, OddCount, ~ResizeRunning
    PROVE  Spec => []FramesFit
<1>1. ReadInv => FramesFit
  <2> SUFFICES ASSUME ReadInv, pc = "decode"
               PROVE  Len(frames) <= info.K /\ info.num_blocks * info.encoded_symbol_size = FrameSize
    BY DEF FramesFit
  <2>1. /\ Len(frames) = info.K /\ info.K \in Nat
        /\ info.num_blocks = source.num_blocks /\ info.encoded_symbol_size = Payload
    BY DEF ReadInv, TypesInv, TypeOK, Collected, Informed
  <2> QED
    BY <2>1 DEF FrameSize
<1> QED
  BY <1>1, ReadAlways, PTL

\* A reader that returns a value returns the one that was written.
THEOREM ReadIsWritten ==
    ASSUME SizesExact, OddCount, ~ResizeRunning
    PROVE  Spec => []DecodedCorrectly
<1>1. ReadInv => DecodedCorrectly
  BY EveryByte
<1> QED
  BY <1>1, ReadAlways, PTL
=============================================================================
