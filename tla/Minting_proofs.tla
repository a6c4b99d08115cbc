---------------------------- MODULE Minting_proofs ----------------------------
(***************************************************************************)
(* Theorems about Minting, for any widths of the fields, calendar and      *)
(* lifetimes: an RUUID is read as it was minted, no day is minted before   *)
(* it has come, CT has the proof of what was sealed, and the days that are *)
(* said to be covered are those of the certificates.  The first rest on    *)
(* the layout of Encoding: the fields are digits, one on top of the other, *)
(* in bases that are powers of two.  The last rests on what merging keeps: *)
(* after each window, the spans have the days of the windows so far.       *)
(***************************************************************************)
EXTENDS Minting, FiniteSetTheorems, SequenceTheorems, WellFoundedInduction, TLAPS

-----------------------------------------------------------------------------
(* Numbers and powers of two.                                              *)

\* Some number of a set is its least.
LEMMA LeastNumber ==
    ASSUME NEW S \in SUBSET Nat, S # {}
    PROVE  \E n \in S : \A m \in S : n <= m
<1> DEFINE Less == {p \in Nat \X Nat : p[1] < p[2]}
<1>1. IsWellFoundedOn(Less, Nat)
  BY NatLessThanWellFounded DEF OpToRel
<1>2. \A i, j \in Nat : i < j => <<i, j>> \in Less
  OBVIOUS
<1> HIDE DEF Less
<1>3. PICK n \in S : \A m \in S : ~(<<m, n>> \in Less)
  BY <1>1, WFMin
<1>4. ASSUME NEW m \in S PROVE n <= m
  <2>1. ~(m < n)
    BY <1>2, <1>3
  <2> QED BY <2>1
<1> QED BY <1>4

\* A set of numbers that has 0, and with each number the next, has them all.
LEMMA AllNumbers ==
    ASSUME NEW S, 0 \in S, \A n \in Nat : n \in S => n + 1 \in S
    PROVE  \A n \in Nat : n \in S
<1> DEFINE Bad == {n \in Nat : n \notin S}
<1> SUFFICES ASSUME Bad # {} PROVE FALSE
  OBVIOUS
<1>1. PICK n \in Bad : \A k \in Bad : n <= k
  <2>1. Bad \in SUBSET Nat
    OBVIOUS
  <2> HIDE DEF Bad
  <2> QED BY <2>1, LeastNumber
<1>2. n \in Nat /\ n # 0 /\ n \notin S
  BY <1>1
<1>3. n - 1 \in Nat /\ n - 1 < n /\ (n - 1) + 1 = n
  BY <1>2
<1>4. n - 1 \in S
  BY <1>1, <1>3
<1> QED BY <1>2, <1>3, <1>4

\* A power of two counts the subsets of a set.
LEMMA SubsetsAreCounted ==
    ASSUME NEW n \in Nat
    PROVE  /\ IsFiniteSet(SUBSET (1..n))
           /\ Cardinality(SUBSET (1..n)) = 2 ^ n
<1>1. IsFiniteSet(1..n) /\ Cardinality(1..n) = n
  BY FS_Interval
<1> QED BY <1>1, FS_SUBSET

\* A power of two is a positive number.
LEMMA PowerType ==
    ASSUME NEW n \in Nat
    PROVE  2 ^ n \in Nat /\ 2 ^ n > 0
<1>1. IsFiniteSet(SUBSET (1..n)) /\ Cardinality(SUBSET (1..n)) = 2 ^ n
  BY SubsetsAreCounted
<1>2. Cardinality(SUBSET (1..n)) \in Nat /\ Cardinality(SUBSET (1..n)) # 0
  BY <1>1, FS_CardinalityType, FS_EmptySet
<1> QED BY <1>1, <1>2

\* The subsets with one element more are the old ones, with it and without.
LEMMA PowerDoubles ==
    ASSUME NEW n \in Nat
    PROVE  2 ^ (n + 1) = 2 * 2 ^ n
<1> DEFINE Old == SUBSET (1..n)
           New == {s \cup {n + 1} : s \in Old}
           All == SUBSET (1..(n + 1))
           add == [s \in Old |-> s \cup {n + 1}]
<1>1. IsFiniteSet(Old) /\ Cardinality(Old) = 2 ^ n /\ Cardinality(All) = 2 ^ (n + 1)
  <2>1. IsFiniteSet(Old) /\ Cardinality(Old) = 2 ^ n
    BY SubsetsAreCounted
  <2>2. n + 1 \in Nat
    OBVIOUS
  <2>3. Cardinality(All) = 2 ^ (n + 1)
    BY <2>2, SubsetsAreCounted
  <2> QED BY <2>1, <2>3
<1>2. n + 1 \notin 1..n /\ 1..(n + 1) = (1..n) \cup {n + 1}
  OBVIOUS
<1>3. add \in Bijection(Old, New)
  <2>1. add \in [Old -> New] /\ \A t \in New : \E s \in Old : add[s] = t
    OBVIOUS
  <2>2. ASSUME NEW s \in Old, NEW t \in Old, s \cup {n + 1} = t \cup {n + 1}
        PROVE  s = t
    BY <1>2, <2>2
  <2>3. \A s, t \in Old : add[s] = add[t] => s = t
    BY <2>2
  <2> QED BY <2>1, <2>3 DEF Bijection, Injection, Surjection, IsInjective
<1>4. IsFiniteSet(New) /\ Cardinality(New) = Cardinality(Old)
  <2> HIDE DEF Old, New, add
  <2> QED BY <1>1, <1>3, FS_Bijection DEF ExistsBijection
<1>5. All = Old \cup New
  <2>1. ASSUME NEW t \in All
        PROVE  t \in Old \/ t \in New
    <3>1. CASE n + 1 \in t
      <4>1. t \ {n + 1} \in Old /\ t = (t \ {n + 1}) \cup {n + 1}
        BY <1>2, <3>1
      <4> QED BY <4>1
    <3>2. CASE n + 1 \notin t
      BY <1>2, <3>2
    <3> QED BY <3>1, <3>2
  <2>2. \A t \in Old : t \in All
    BY <1>2
  <2>3. \A t \in New : t \in All
    BY <1>2
  <2> HIDE DEF Old, New, All
  <2> QED BY <2>1, <2>2, <2>3
<1>6. Old \cap New = {}
  BY <1>2
<1> HIDE DEF Old, New, All, add
<1>7. Cardinality(Old \cup New) = Cardinality(Old) + Cardinality(New) - Cardinality(Old \cap New)
  BY <1>1, <1>4, FS_Union
<1>8. Cardinality(Old \cap New) = 0
  BY <1>6, FS_EmptySet
<1>9. 2 ^ n \in Nat
  BY PowerType
<1> QED BY <1>1, <1>4, <1>5, <1>7, <1>8, <1>9

\* Powers multiply as exponents add.
LEMMA PowersMultiply ==
    ASSUME NEW a \in Nat, NEW b \in Nat
    PROVE  2 ^ (a + b) = 2 ^ a * 2 ^ b
<1> DEFINE S == {n \in Nat : 2 ^ (a + n) = 2 ^ a * 2 ^ n}
<1>1. 0 \in S
  <2>1. 2 ^ 0 = 1 /\ a + 0 = a /\ 2 ^ a \in Nat
    BY PowerType
  <2>2. 2 ^ a * 1 = 2 ^ a
    BY <2>1
  <2> QED BY <2>1, <2>2
<1>2. ASSUME NEW n \in Nat, n \in S
      PROVE  n + 1 \in S
  <2>1. /\ 2 ^ (n + 1) = 2 * 2 ^ n /\ 2 ^ ((a + n) + 1) = 2 * 2 ^ (a + n)
        /\ (a + n) + 1 = a + (n + 1) /\ a + n \in Nat
    BY PowerDoubles
  <2>2. 2 ^ a \in Nat /\ 2 ^ n \in Nat /\ 2 ^ (a + n) = 2 ^ a * 2 ^ n
    BY <1>2, PowerType
  <2>3. \A x, y \in Nat : 2 * (x * y) = x * (2 * y)
    OBVIOUS
  <2>4. 2 * (2 ^ a * 2 ^ n) = 2 ^ a * (2 * 2 ^ n)
    BY <2>2, <2>3
  <2>5. 2 ^ (a + (n + 1)) = 2 ^ a * 2 ^ (n + 1)
    BY <2>1, <2>2, <2>4
  <2> QED BY <2>5
<1> HIDE DEF S
<1>3. b \in S
  BY <1>1, <1>2, AllNumbers
<1> QED BY <1>3 DEF S

-----------------------------------------------------------------------------
(* Quotients and remainders.                                               *)

\* A number is put together from its quotient and its remainder, in one way.
LEMMA Division ==
    ASSUME NEW q \in Int, NEW m \in Nat, m > 0, NEW r \in 0..(m - 1)
    PROVE  (q * m + r) \div m = q /\ (q * m + r) % m = r
OBVIOUS

\* Every number is put together from its quotient and its remainder.
LEMMA Recomposition ==
    ASSUME NEW n \in Nat, NEW m \in Nat, m > 0
    PROVE  n % m \in 0..(m - 1) /\ (n \div m) * m + (n % m) = n
<1> DEFINE q == n \div m
           r == n % m
<1>1. r \in 0..(m - 1) /\ q \in Nat
  OBVIOUS
<1>2. r = n - m * q
  OBVIOUS
<1> HIDE DEF q, r
<1>3. q * m + r = n
  BY <1>1, <1>2
<1> QED BY <1>1, <1>3 DEF q, r

\* The quotient of a number within a product is within the other factor.
LEMMA QuotientWithin ==
    ASSUME NEW m \in Nat, m > 0, NEW w \in Nat, NEW n \in 0..(w * m - 1)
    PROVE  n \div m \in 0..(w - 1)
OBVIOUS

\* A digit above a remainder is within the product.
LEMMA DigitWithin ==
    ASSUME NEW m \in Nat, NEW w \in Nat, NEW d \in 0..(w - 1), NEW r \in 0..(m - 1)
    PROVE  d * m + r \in 0..(w * m - 1)
OBVIOUS

\* A number below s = w * m that is a digit d of weight m on top of a rest r.
Layer(n, s, w, d, m, r) ==
    /\ m \in Nat /\ m > 0 /\ w \in Nat /\ w > 0 /\ s = w * m
    /\ d \in 0..(w - 1) /\ r \in 0..(m - 1)
    /\ n = d * m + r

\* The same, below a number of times s.
Digit(n, s, w, d, m, r) ==
    \E q \in Nat : \E e : Layer(e, s, w, d, m, r) /\ n = q * s + e

\* The digit is read off, and with what is above it is a number of times its
\* weight.
LEMMA DigitIs ==
    ASSUME NEW n, NEW s, NEW w, NEW d, NEW m, NEW r, Digit(n, s, w, d, m, r)
    PROVE  (n \div m) % w = d /\ n % m = r /\ n \in Nat /\ \E p \in Nat : n = p * m + r
<1>1. /\ m \in Nat /\ m > 0 /\ w \in Nat /\ w > 0 /\ s = w * m
      /\ d \in 0..(w - 1) /\ r \in 0..(m - 1)
  BY DEF Digit, Layer
<1>2. PICK q \in Nat : n = q * s + (d * m + r)
  BY DEF Digit, Layer
<1> DEFINE p == q * w + d
<1>3. p \in Nat /\ q * w \in Nat /\ d \in Nat /\ w * m \in Nat
  BY <1>1
<1>4. n = p * m + r
  <2>1. \A a, b, c, x, y \in Nat : a * (b * c) + (x * c + y) = (a * b + x) * c + y
    OBVIOUS
  <2>2. r \in Nat
    BY <1>1
  <2> QED BY <1>1, <1>2, <1>3, <2>1, <2>2
<1>6. p % w = d
  BY <1>1, Division
<1> HIDE DEF p
<1>5. n \div m = p /\ n % m = r
  <2>1. p \in Int
    BY <1>3
  <2>2. (p * m + r) \div m = p /\ (p * m + r) % m = r
    BY <1>1, <2>1, Division
  <2> QED BY <1>4, <2>2
<1>7. n \in Nat
  BY <1>1, <1>3, <1>4
<1> QED BY <1>3, <1>4, <1>5, <1>6, <1>7

\* The topmost layer is a digit.
LEMMA TopDigit ==
    ASSUME NEW n, NEW s, NEW w, NEW d, NEW m, NEW r, Layer(n, s, w, d, m, r)
    PROVE  Digit(n, s, w, d, m, r)
<1>1. s \in Nat /\ n \in Nat
  BY DEF Layer
<1>2. n = 0 * s + n
  BY <1>1
<1> QED BY <1>2 DEF Digit

\* When the rest of a digit is a layer, its digit is the next.
LEMMA NextDigit ==
    ASSUME NEW n, NEW s, NEW w, NEW d, NEW m, NEW r, Digit(n, s, w, d, m, r),
           NEW v, NEW c, NEW l, NEW e, Layer(r, m, v, c, l, e)
    PROVE  Digit(n, m, v, c, l, e)
<1>1. PICK p \in Nat : n = p * m + r
  BY DigitIs
<1> QED BY <1>1 DEF Digit

-----------------------------------------------------------------------------
(* The widths.                                                             *)

\* Every width is a number, and days have ticks.
LEMMA Widths ==
    /\ PrefixBits \in Nat /\ AnchorBits \in Nat /\ PadBits \in Nat
    /\ HighBits \in Nat /\ LowBits \in Nat /\ HostBits \in Nat /\ TypeBits \in Nat
    /\ DayBits \in Nat /\ SequenceBits \in Nat /\ VersionBits \in Nat
    /\ VariantBits \in Nat /\ NetworkBits \in Nat /\ IdentifierBits \in Nat
    /\ NetworkBits = HighBits + LowBits
    /\ NetworkBits = PrefixBits + (AnchorBits + PadBits)
    /\ IdentifierBits = DayBits + SequenceBits
    /\ Ticks \in Nat /\ Ticks > 0
BY WidthAssumption DEF NetworkBits, IdentifierBits

\* Shifts add up: each field starts above the fields below it.
LEMMA ShiftsAdd ==
    /\ LowAt = 0 /\ 2 ^ LowAt = 1 /\ TypeAt = LowBits
    /\ 2 ^ VariantAt = 2 ^ TypeBits * 2 ^ TypeAt
    /\ 2 ^ HighAt = 2 ^ VariantBits * 2 ^ VariantAt
    /\ 2 ^ VersionAt = 2 ^ HighBits * 2 ^ HighAt
    /\ 2 ^ IdentifierAt = 2 ^ VersionBits * 2 ^ VersionAt
    /\ 2 ^ NetworkBits = 2 ^ HighBits * 2 ^ LowBits
    /\ 2 ^ IdentifierBits = 2 ^ DayBits * 2 ^ SequenceBits
<1>1. LowAt = 0 /\ 2 ^ LowAt = 1
  BY DEF LowAt
<1>2. TypeAt = LowBits /\ TypeAt \in Nat
  BY Widths DEF TypeAt
<1>3. VariantAt = TypeBits + TypeAt /\ VariantAt \in Nat
  BY <1>2, Widths DEF VariantAt
<1>4. HighAt = VariantBits + VariantAt /\ HighAt \in Nat
  BY <1>3, Widths DEF HighAt
<1>5. VersionAt = HighBits + HighAt /\ VersionAt \in Nat
  BY <1>4, Widths DEF VersionAt
<1>6. IdentifierAt = VersionBits + VersionAt
  BY <1>5, Widths DEF IdentifierAt
<1>7. 2 ^ VariantAt = 2 ^ TypeBits * 2 ^ TypeAt
  BY <1>2, <1>3, Widths, PowersMultiply
<1>8. 2 ^ HighAt = 2 ^ VariantBits * 2 ^ VariantAt
  BY <1>3, <1>4, Widths, PowersMultiply
<1>9. 2 ^ VersionAt = 2 ^ HighBits * 2 ^ HighAt
  BY <1>4, <1>5, Widths, PowersMultiply
<1>10. 2 ^ IdentifierAt = 2 ^ VersionBits * 2 ^ VersionAt
  BY <1>5, <1>6, Widths, PowersMultiply
<1>11. 2 ^ NetworkBits = 2 ^ HighBits * 2 ^ LowBits
  BY Widths, PowersMultiply
<1>12. 2 ^ IdentifierBits = 2 ^ DayBits * 2 ^ SequenceBits
  BY Widths, PowersMultiply
<1> QED BY <1>1, <1>2, <1>7, <1>8, <1>9, <1>10, <1>11, <1>12

\* A network is its high and its low bits.
LEMMA NetworkSplits ==
    ASSUME NEW n \in Values(NetworkBits)
    PROVE  /\ Bits(n, LowBits, HighBits) \in 0..(2 ^ HighBits - 1)
           /\ Bits(n, 0, LowBits) \in 0..(2 ^ LowBits - 1)
           /\ Bits(n, LowBits, HighBits) * 2 ^ LowBits + Bits(n, 0, LowBits) = n
<1> DEFINE L == 2 ^ LowBits
           H == 2 ^ HighBits
<1>1. L \in Nat /\ L > 0 /\ H \in Nat /\ H > 0
  BY Widths, PowerType
<1>2. n \in 0..(H * L - 1)
  BY ShiftsAdd DEF Values
<1>3. Bits(n, 0, LowBits) = (n \div 1) % L /\ Bits(n, LowBits, HighBits) = (n \div L) % H
  <2>1. 2 ^ 0 = 1
    OBVIOUS
  <2> QED BY <2>1 DEF Bits
<1> HIDE DEF L, H
<1>4. n \div L \in 0..(H - 1)
  BY <1>1, <1>2, QuotientWithin
<1>5. (n \div L) % H = n \div L
  BY <1>1, <1>4
<1>6. n \in Nat /\ n \div 1 = n
  BY <1>1, <1>2
<1>7. n % L \in 0..(L - 1) /\ (n \div L) * L + (n % L) = n
  BY <1>1, <1>6, Recomposition
<1>8. /\ Bits(n, LowBits, HighBits) \in 0..(H - 1) /\ Bits(n, 0, LowBits) \in 0..(L - 1)
      /\ Bits(n, LowBits, HighBits) * L + Bits(n, 0, LowBits) = n
  <2>1. Bits(n, 0, LowBits) = n % L /\ Bits(n, LowBits, HighBits) = n \div L
    BY <1>3, <1>5, <1>6
  <2> HIDE DEF L, H
  <2>2. Bits(n, LowBits, HighBits) * L + Bits(n, 0, LowBits) = n
    BY <1>7, <2>1
  <2> QED BY <1>4, <1>7, <2>1, <2>2
<1> QED BY <1>8 DEF L, H

\* What is decoded is what was encoded: the fields do not overlap, and the
\* network is whole again around its variant gap (core.py, RUUID.bytes and
\* RUUID.parse).
LEMMA DecodesWhatWasEncoded ==
    ASSUME NEW f \in Fields
    PROVE  Decode(Encode(f)) = f /\ Encode(f) \in Nat
<1> DEFINE n == Encode(f)
           L == 2 ^ LowBits
           T == 2 ^ TypeBits
           A == 2 ^ VariantBits
           H == 2 ^ HighBits
           V == 2 ^ VersionBits
           I == 2 ^ IdentifierBits
           hi == Bits(f.network, LowBits, HighBits)
           lo == Bits(f.network, 0, LowBits)
<1>1. /\ L \in Nat /\ L > 0 /\ T \in Nat /\ T > 0 /\ A \in Nat /\ A > 0
      /\ H \in Nat /\ H > 0 /\ V \in Nat /\ V > 0 /\ I \in Nat /\ I > 0
  BY Widths, PowerType
<1>2. /\ f.identifier \in 0..(I - 1) /\ f.version \in 0..(V - 1) /\ f.variant \in 0..(A - 1)
      /\ f.type \in 0..(T - 1) /\ f.network \in Values(NetworkBits)
  BY DEF Fields, Values
<1>3. hi \in 0..(H - 1) /\ lo \in 0..(L - 1) /\ hi * L + lo = f.network
  BY <1>2, NetworkSplits
<1> DEFINE s2 == 2 ^ VariantAt
           s3 == 2 ^ HighAt
           s4 == 2 ^ VersionAt
           s5 == 2 ^ IdentifierAt
           r2 == f.type * L + lo
           r3 == f.variant * s2 + r2
           r4 == hi * s3 + r3
           r5 == f.version * s4 + r4
<1>4. s2 = T * L /\ s3 = A * s2 /\ s4 = H * s3 /\ s5 = V * s4
  BY ShiftsAdd
<1>5. n = f.identifier * s5 + f.version * s4 + hi * s3 + f.variant * s2 + f.type * L + lo
  BY ShiftsAdd DEF Encode
<1>6. /\ Bits(n, IdentifierAt, IdentifierBits) = (n \div s5) % I
      /\ Bits(n, VersionAt, VersionBits) = (n \div s4) % V
      /\ Bits(n, VariantAt, VariantBits) = (n \div s2) % A
      /\ Bits(n, TypeAt, TypeBits) = (n \div L) % T
      /\ Bits(n, HighAt, HighBits) = (n \div s3) % H
      /\ Bits(n, LowAt, LowBits) = (n \div 1) % L
  BY ShiftsAdd DEF Bits
<1> HIDE DEF n, L, T, A, H, V, I, hi, lo, s2, s3, s4, s5
<1>7. /\ s2 \in Nat /\ s2 > 0 /\ s3 \in Nat /\ s3 > 0 /\ s4 \in Nat /\ s4 > 0
      /\ s5 \in Nat /\ s5 > 0
  <2>1. \A x, y \in Nat : x > 0 /\ y > 0 => x * y \in Nat /\ x * y > 0
    OBVIOUS
  <2>2. s2 \in Nat /\ s2 > 0
    BY <1>1, <1>4, <2>1
  <2>3. s3 \in Nat /\ s3 > 0
    BY <1>1, <1>4, <2>1, <2>2
  <2>4. s4 \in Nat /\ s4 > 0
    BY <1>1, <1>4, <2>1, <2>3
  <2>5. s5 \in Nat /\ s5 > 0
    BY <1>1, <1>4, <2>1, <2>4
  <2> QED BY <2>2, <2>3, <2>4, <2>5
<1>8. n = f.identifier * s5 + r5
  <2>1. \A x, y \in Nat : x * y \in Nat
    OBVIOUS
  <2>2. /\ f.identifier * s5 \in Nat /\ f.version * s4 \in Nat /\ hi * s3 \in Nat
        /\ f.variant * s2 \in Nat /\ f.type * L \in Nat /\ lo \in Nat
    BY <1>1, <1>2, <1>3, <1>7, <2>1
  <2>3. \A a, b, c, d, e, g \in Nat :
            a + b + c + d + e + g = a + (b + (c + (d + (e + g))))
    OBVIOUS
  <2> QED BY <1>5, <2>2, <2>3
<1>9. r2 \in 0..(s2 - 1)
  BY <1>1, <1>2, <1>3, <1>4, DigitWithin
<1>10. Layer(r2, s2, T, f.type, L, lo)
  BY <1>1, <1>2, <1>3, <1>4 DEF Layer
<1> HIDE DEF r2
<1>11. r3 \in 0..(s3 - 1)
  BY <1>1, <1>2, <1>4, <1>7, <1>9, DigitWithin
<1>12. Layer(r3, s3, A, f.variant, s2, r2)
  BY <1>1, <1>2, <1>4, <1>7, <1>9 DEF Layer
<1> HIDE DEF r3
<1>13. r4 \in 0..(s4 - 1)
  BY <1>1, <1>3, <1>4, <1>7, <1>11, DigitWithin
<1>14. Layer(r4, s4, H, hi, s3, r3)
  BY <1>1, <1>3, <1>4, <1>7, <1>11 DEF Layer
<1> HIDE DEF r4
<1>15. r5 \in 0..(s5 - 1)
  BY <1>1, <1>2, <1>4, <1>7, <1>13, DigitWithin
<1>16. Layer(r5, s5, V, f.version, s4, r4)
  BY <1>1, <1>2, <1>4, <1>7, <1>13 DEF Layer
<1> HIDE DEF r5
<1>17. Layer(n, I * s5, I, f.identifier, s5, r5)
  BY <1>1, <1>2, <1>7, <1>8, <1>15 DEF Layer
<1>18. Digit(n, I * s5, I, f.identifier, s5, r5)
  BY <1>17, TopDigit
<1>19. Digit(n, s5, V, f.version, s4, r4)
  BY <1>16, <1>18, NextDigit
<1>20. Digit(n, s4, H, hi, s3, r3)
  BY <1>14, <1>19, NextDigit
<1>21. Digit(n, s3, A, f.variant, s2, r2)
  BY <1>12, <1>20, NextDigit
<1>22. Digit(n, s2, T, f.type, L, lo)
  BY <1>10, <1>21, NextDigit
<1>23. (n \div s5) % I = f.identifier /\ n \in Nat
  BY <1>18, DigitIs
<1>24. (n \div s4) % V = f.version
  BY <1>19, DigitIs
<1>25. (n \div s3) % H = hi
  BY <1>20, DigitIs
<1>26. (n \div s2) % A = f.variant
  BY <1>21, DigitIs
<1>27. (n \div L) % T = f.type /\ n % L = lo
  BY <1>22, DigitIs
<1>28. (n \div 1) % L = lo
  BY <1>23, <1>27
<1>29. Bits(n, HighAt, HighBits) * 2 ^ LowBits + Bits(n, LowAt, LowBits) = f.network
  BY <1>3, <1>6, <1>25, <1>28 DEF L
<1>30. Decode(n) = [identifier |-> f.identifier, version |-> f.version,
                    variant |-> f.variant, type |-> f.type, network |-> f.network]
  BY <1>6, <1>23, <1>24, <1>26, <1>27, <1>29 DEF Decode
<1>31. f = [identifier |-> f.identifier, version |-> f.version,
            variant |-> f.variant, type |-> f.type, network |-> f.network]
  BY DEF Fields
<1> QED BY <1>23, <1>30, <1>31 DEF n

-----------------------------------------------------------------------------
(* Addresses and days.                                                     *)

\* The network of every anchor fits its field.
LEMMA NetworkFits ==
    ASSUME NEW anchor \in Anchor
    PROVE  NetworkOf(anchor) \in Values(NetworkBits)
<1>1. CASE anchor.family = 4
  <2> DEFINE P == 2 ^ PrefixBits
             A == 2 ^ AnchorBits
             D == 2 ^ PadBits
             M == 2 ^ (AnchorBits + PadBits)
  <2>1. AnchorBits + PadBits \in Nat
    BY Widths
  <2>2. M = A * D /\ 2 ^ NetworkBits = P * M
    BY <2>1, Widths, PowersMultiply
  <2>3. M \in Nat /\ M > 0 /\ P \in Nat /\ A \in Nat /\ D \in Nat /\ D > 0
    BY <2>1, Widths, PowerType
  <2>4. SixToFour \in 0..(P - 1) /\ anchor.value \in 0..(A - 1)
    BY <1>1, FixedAssumption DEF Anchor, Values
  <2>5. NetworkOf(anchor) = SixToFour * M + anchor.value * D
    BY <1>1 DEF NetworkOf
  <2> HIDE DEF P, A, D, M
  <2>6. 0 \in 0..(D - 1)
    BY <2>3
  <2>7. anchor.value * D + 0 \in 0..(A * D - 1)
    BY <2>3, <2>4, <2>6, DigitWithin
  <2>8. anchor.value * D \in 0..(M - 1)
    BY <2>2, <2>3, <2>4, <2>7
  <2>9. SixToFour * M + anchor.value * D \in 0..(P * M - 1)
    BY <2>3, <2>4, <2>8, DigitWithin
  <2> QED BY <2>2, <2>5, <2>9 DEF Values
<1>2. CASE anchor.family = 6
  <2> DEFINE N == 2 ^ NetworkBits
             H == 2 ^ HostBits
  <2>1. N \in Nat /\ H \in Nat /\ H > 0 /\ 2 ^ (NetworkBits + HostBits) = N * H
    BY Widths, PowerType, PowersMultiply
  <2>2. anchor.value \in 0..(N * H - 1)
    BY <1>2, <2>1 DEF Anchor, Values
  <2>3. NetworkOf(anchor) = anchor.value \div H
    BY <1>2 DEF NetworkOf
  <2> HIDE DEF N, H
  <2>4. anchor.value \div H \in 0..(N - 1)
    BY <2>1, <2>2, QuotientWithin
  <2> QED BY <2>3, <2>4 DEF N, Values
<1> QED BY <1>1, <1>2 DEF Anchor

\* An IPv4 anchor is the digit above the pad of its network.
LEMMA SixToFourReadsBack ==
    ASSUME NEW anchor \in Anchor, anchor.family = 4
    PROVE  /\ IsSixToFour(NetworkOf(anchor))
           /\ Bits(NetworkOf(anchor), PadBits, AnchorBits) = anchor.value
<1> DEFINE n == NetworkOf(anchor)
           P == 2 ^ PrefixBits
           A == 2 ^ AnchorBits
           D == 2 ^ PadBits
           M == 2 ^ (AnchorBits + PadBits)
           r == anchor.value * D
<1>1. AnchorBits + PadBits \in Nat
  BY Widths
<1>2. M = A * D
  BY <1>1, Widths, PowersMultiply
<1>3. M \in Nat /\ M > 0 /\ P \in Nat /\ A \in Nat /\ A > 0 /\ D \in Nat /\ D > 0
  BY <1>1, Widths, PowerType
<1>4. SixToFour \in 0..(P - 1) /\ anchor.value \in 0..(A - 1)
  BY FixedAssumption DEF Anchor, Values
<1>5. n = SixToFour * M + r
  BY DEF NetworkOf
<1>6. /\ IsSixToFour(n) = (n \div M = SixToFour)
      /\ Bits(n, PadBits, AnchorBits) = (n \div D) % A
  BY DEF IsSixToFour, Bits
<1> HIDE DEF n, P, A, D, M
<1>7. 0 \in 0..(D - 1) /\ r = anchor.value * D + 0 /\ r \in Nat
  BY <1>3, <1>4
<1>8. anchor.value * D + 0 \in 0..(A * D - 1)
  BY <1>3, <1>4, <1>7, DigitWithin
<1>9. Layer(r, M, A, anchor.value, D, 0)
  BY <1>2, <1>3, <1>4, <1>7 DEF Layer
<1>10. r \in 0..(M - 1)
  BY <1>2, <1>7, <1>8
<1> HIDE DEF r
<1>11. SixToFour \in Nat
  BY <1>4
<1>12. Digit(n, M, A, anchor.value, D, 0)
  BY <1>5, <1>9, <1>11 DEF Digit
<1>13. (n \div D) % A = anchor.value
  BY <1>12, DigitIs
<1>14. n \div M = SixToFour
  BY <1>3, <1>5, <1>10, <1>11, Division
<1> QED BY <1>6, <1>13, <1>14 DEF n

\* An RUUID of an address is read as one of its network, and its reverse name
\* is the one at which the address publishes its PTR record.
LEMMA AnchorReadsBack ==
    ASSUME NEW anchor \in Anchor, ~Ambiguous(anchor),
           NEW f, f.network = NetworkOf(anchor)
    PROVE  InNetwork(anchor, f) /\ ReverseDnsName(f) = ReverseName(anchor)
<1>1. CASE anchor.family = 4
  <2>1. IsSixToFour(f.network) /\ Bits(f.network, PadBits, AnchorBits) = anchor.value
    BY <1>1, SixToFourReadsBack
  <2>2. AnchorIp(f) = [family |-> 4, value |-> anchor.value]
    BY <2>1 DEF AnchorIp
  <2> QED BY <1>1, <2>2 DEF InNetwork, ReverseDnsName, ReverseName
<1>2. CASE anchor.family = 6
  <2> DEFINE H == 2 ^ HostBits
  <2>1. ~IsSixToFour(f.network)
    BY <1>2 DEF Ambiguous
  <2>2. AnchorIp(f) = [family |-> 6, value |-> f.network * H]
    BY <2>1 DEF AnchorIp
  <2>3. f.network = anchor.value \div H
    BY <1>2 DEF NetworkOf
  <2>4. H \in Nat /\ H > 0
    BY Widths, PowerType
  <2>5. f.network \in Int
    BY NetworkFits, Widths, PowerType DEF Values
  <2>6. ReverseName(anchor) = [arpa |-> 6, of |-> anchor.value \div H]
    BY <1>2 DEF ReverseName
  <2>7. ReverseDnsName(f) = [arpa |-> 6, of |-> (f.network * H) \div H]
    BY <2>2 DEF ReverseDnsName, ReverseName
  <2>8. InNetwork(anchor, f)
    BY <1>2, <2>2, <2>3 DEF InNetwork
  <2> HIDE DEF H
  <2>9. (f.network * H) \div H = f.network
    <3>1. 0 \in 0..(H - 1)
      BY <2>4
    <3>2. (f.network * H + 0) \div H = f.network
      BY <2>4, <2>5, <3>1, Division
    <3> QED BY <2>4, <2>5, <3>2
  <2> QED BY <2>3, <2>6, <2>7, <2>8, <2>9
<1> QED BY <1>1, <1>2 DEF Anchor

\* A count of days is an instant at which it is that day.
LEMMA DaysAreInstants ==
    ASSUME NEW day \in Int
    PROVE  ParseDay(day) \in Int /\ DaysSinceEpoch(ParseDay(day)) = day
<1>1. 0 \in 0..(Ticks - 1) /\ Ticks \in Nat /\ Ticks > 0
  BY Widths
<1>2. (day * Ticks + 0) \div Ticks = day
  BY <1>1, Division
<1>3. day * Ticks \in Int /\ day * Ticks + 0 = day * Ticks
  BY <1>1
<1> QED BY <1>2, <1>3 DEF ParseDay, DaysSinceEpoch

\* The day of an instant is a number.
LEMMA DayType ==
    ASSUME NEW instant \in Int
    PROVE  DaysSinceEpoch(instant) \in Int
BY Widths DEF DaysSinceEpoch

\* Days pass with the ticks.
LEMMA DaysPass ==
    ASSUME NEW i \in Int, NEW j \in Int, i <= j
    PROVE  DaysSinceEpoch(i) <= DaysSinceEpoch(j)
BY Widths DEF DaysSinceEpoch

\* The day of a structured identifier is read off.
LEMMA DayReadsBack ==
    ASSUME NEW instant \in Int, FitsDay(instant), NEW sequence \in Values(SequenceBits)
    PROVE  /\ StructuredIdentifier(instant, sequence) \in Values(IdentifierBits)
           /\ StructuredIdentifier(instant, sequence) \div 2 ^ SequenceBits
                 = DaysSinceEpoch(instant)
<1> DEFINE d == DaysSinceEpoch(instant)
           D == 2 ^ DayBits
           S == 2 ^ SequenceBits
<1>1. D \in Nat /\ S \in Nat /\ S > 0
  BY Widths, PowerType
<1>2. d \in 0..(D - 1) /\ sequence \in 0..(S - 1)
  BY DEF FitsDay, Values
<1>3. StructuredIdentifier(instant, sequence) = d * S + sequence
  BY DEF StructuredIdentifier
<1>4. Values(IdentifierBits) = 0..(D * S - 1)
  BY ShiftsAdd DEF Values
<1> HIDE DEF d, D, S
<1>5. d * S + sequence \in 0..(D * S - 1)
  BY <1>1, <1>2, DigitWithin
<1>6. (d * S + sequence) \div S = d
  BY <1>1, <1>2, Division
<1>7. d * S + sequence \in Values(IdentifierBits) /\ (d * S + sequence) \div S = d
  BY <1>4, <1>5, <1>6
<1> QED BY <1>3, <1>7 DEF d, S

\* The low bits of a number are a sequence.
LEMMA SequenceFits ==
    ASSUME NEW random \in Nat
    PROVE  random % 2 ^ SequenceBits \in Values(SequenceBits)
<1>1. 2 ^ SequenceBits \in Nat /\ 2 ^ SequenceBits > 0
  BY Widths, PowerType
<1>2. random % (2 ^ SequenceBits) \in 0..(2 ^ SequenceBits - 1)
  BY <1>1, Recomposition
<1> QED BY <1>2 DEF Values

-----------------------------------------------------------------------------
(* Windows that are merged.                                                *)

\* Windows and spans, by their days.
Window == [start: Int, end: Int, label: Nat]

Span == [start: Int, end: Int, labels: SUBSET Nat]

\* Windows are in one order.
LEMMA EarlierOrders ==
    ASSUME NEW i \in Window, NEW j \in Window
    PROVE  /\ ~Earlier(i, i)
           /\ Earlier(i, j) => ~Earlier(j, i)
           /\ i = j \/ Earlier(i, j) \/ Earlier(j, i)
           /\ Earlier(i, j) => i.start <= j.start
           /\ \A k \in Window : Earlier(i, j) /\ Earlier(j, k) => Earlier(i, k)
<1>1. i.start \in Int /\ i.end \in Int /\ i.label \in Int
  BY DEF Window
<1>2. j.start \in Int /\ j.end \in Int /\ j.label \in Int
  BY DEF Window
<1>3. ASSUME NEW k \in Window, Earlier(i, j), Earlier(j, k)
      PROVE  Earlier(i, k)
  <2>1. k.start \in Int /\ k.end \in Int /\ k.label \in Int
    BY DEF Window
  <2> QED BY <1>1, <1>2, <1>3, <2>1 DEF Earlier
<1>4. i.start = j.start /\ i.end = j.end /\ i.label = j.label => i = j
  BY DEF Window
<1>5. /\ ~Earlier(i, i)
      /\ Earlier(i, j) => ~Earlier(j, i) /\ i.start <= j.start
      /\ \/ i.start = j.start /\ i.end = j.end /\ i.label = j.label
         \/ Earlier(i, j)
         \/ Earlier(j, i)
  BY <1>1, <1>2 DEF Earlier
<1> QED BY <1>3, <1>4, <1>5

\* Windows can be put in order: each at the number of those that come no later.
LEMMA SomeOrder ==
    ASSUME NEW I \in SUBSET Window, IsFiniteSet(I)
    PROVE  \E seq \in [1..Cardinality(I) -> I] :
               \A m, n \in DOMAIN seq : m < n => Earlier(seq[m], seq[n])
<1> DEFINE N == Cardinality(I)
           upto(x) == {y \in I : y = x \/ Earlier(y, x)}
           rank == [x \in I |-> Cardinality(upto(x))]
<1>1. N \in Nat
  BY FS_CardinalityType
<1>2. ASSUME NEW x \in I
      PROVE  IsFiniteSet(upto(x)) /\ Cardinality(upto(x)) \in 1..N
  <2>1. upto(x) \in SUBSET I /\ x \in upto(x)
    OBVIOUS
  <2> HIDE DEF upto
  <2>2. IsFiniteSet(upto(x)) /\ Cardinality(upto(x)) <= N
    BY <2>1, FS_Subset
  <2>3. Cardinality(upto(x)) \in Nat /\ Cardinality(upto(x)) # 0
    BY <2>1, <2>2, FS_CardinalityType, FS_EmptySet
  <2> QED BY <1>1, <2>2, <2>3
<1>3. ASSUME NEW x \in I, NEW y \in I, Earlier(x, y)
      PROVE  rank[x] < rank[y]
  <2>1. upto(x) \in SUBSET upto(y)
    BY <1>3, EarlierOrders
  <2>2. y \in upto(y) /\ y \notin upto(x)
    BY <1>3, EarlierOrders
  <2> HIDE DEF upto
  <2>3. Cardinality(upto(x)) <= Cardinality(upto(y)) /\ Cardinality(upto(x)) # Cardinality(upto(y))
    BY <1>2, <2>1, <2>2, FS_Subset
  <2>4. Cardinality(upto(x)) \in Nat /\ Cardinality(upto(y)) \in Nat
    BY <1>1, <1>2
  <2> QED BY <2>3, <2>4
<1>4. rank \in [I -> 1..N]
  <2> HIDE DEF upto, N
  <2> QED BY <1>2
<1> HIDE DEF rank, N
<1>5. \A x, y \in I : x # y => rank[x] < rank[y] \/ rank[y] < rank[x]
  BY <1>3, EarlierOrders
<1>6. rank \in Injection(I, 1..N)
  <2>1. ASSUME NEW x \in I, NEW y \in I, rank[x] = rank[y]
        PROVE  x = y
    <3>1. rank[x] \in Int /\ rank[y] \in Int
      BY <1>4
    <3> QED BY <1>5, <2>1, <3>1
  <2> QED BY <1>4, <2>1 DEF Injection, IsInjective
<1>7. rank \in Surjection(I, 1..N)
  <2>1. IsFiniteSet(1..N) /\ Cardinality(1..N) = N
    BY <1>1, FS_Interval
  <2> QED BY <1>6, <2>1, FS_Injection DEF N
<1> DEFINE seq == [n \in 1..N |-> CHOOSE x \in I : rank[x] = n]
<1>8. \A n \in 1..N : seq[n] \in I /\ rank[seq[n]] = n
  BY <1>7 DEF Surjection
<1>9. seq \in [1..N -> I]
  BY <1>8
<1>10. ASSUME NEW m \in 1..N, NEW n \in 1..N, m < n
       PROVE  Earlier(seq[m], seq[n])
  <2>1. /\ seq[m] \in Window /\ seq[n] \in Window /\ seq[m] \in I /\ seq[n] \in I
        /\ rank[seq[m]] = m /\ rank[seq[n]] = n
    BY <1>8
  <2> HIDE DEF seq
  <2>2. seq[m] # seq[n] /\ ~(rank[seq[n]] < rank[seq[m]])
    BY <1>10, <2>1
  <2> QED BY <1>3, <2>1, <2>2, EarlierOrders
<1>11. DOMAIN seq = 1..N
  OBVIOUS
<1> HIDE DEF seq
<1> QED BY <1>9, <1>10, <1>11 DEF N

\* What is sorted is all there is, from the earliest on.
LEMMA SortedIs ==
    ASSUME NEW I \in SUBSET Window, IsFiniteSet(I)
    PROVE  /\ Cardinality(I) \in Nat
           /\ Sorted(I) \in [1..Cardinality(I) -> I]
           /\ \A m, n \in 1..Cardinality(I) : m < n => Earlier(Sorted(I)[m], Sorted(I)[n])
           /\ \A i \in I : \E n \in 1..Cardinality(I) : Sorted(I)[n] = i
<1> DEFINE N == Cardinality(I)
           s == Sorted(I)
<1>1. N \in Nat
  BY FS_CardinalityType
<1>2. s \in [1..N -> I] /\ \A m, n \in DOMAIN s : m < n => Earlier(s[m], s[n])
  <2> DEFINE Is(seq) == \A m, n \in DOMAIN seq : m < n => Earlier(seq[m], seq[n])
  <2>1. s = CHOOSE seq \in [1..N -> I] : Is(seq)
    BY DEF Sorted
  <2>2. \E seq \in [1..N -> I] : Is(seq)
    BY SomeOrder
  <2> HIDE DEF Is, s, N
  <2>3. s \in [1..N -> I] /\ Is(s)
    BY <2>1, <2>2
  <2> QED BY <2>3 DEF Is
<1> HIDE DEF s, N
<1>3. DOMAIN s = 1..N
  BY <1>2
<1>4. s \in Injection(1..N, I)
  <2>1. ASSUME NEW m \in 1..N, NEW n \in 1..N, s[m] = s[n]
        PROVE  m = n
    <3>1. s[m] \in Window
      BY <1>2
    <3>2. ~(m < n) /\ ~(n < m)
      BY <1>2, <1>3, <2>1, <3>1, EarlierOrders
    <3>3. m \in Int /\ n \in Int
      OBVIOUS
    <3> QED BY <3>2, <3>3
  <2> QED BY <1>2, <2>1 DEF Injection, IsInjective
<1>5. s \in Surjection(1..N, I)
  <2>1. IsFiniteSet(1..N) /\ Cardinality(1..N) = N
    BY <1>1, FS_Interval
  <2> QED BY <1>4, <2>1, FS_Injection DEF N
<1> QED BY <1>1, <1>2, <1>3, <1>5 DEF Surjection, s, N

\* The recursive function Merged exists, and does what it says.
LEMMA MergedUnfold ==
    ASSUME NEW I, Cardinality(I) \in Nat
    PROVE  /\ Merged(I)[0] = <<>>
           /\ \A n \in Nat : n < Cardinality(I) =>
                  Merged(I)[n + 1] = Coalesce(Merged(I)[n], Sorted(I)[n + 1])
<1> DEFINE N == Cardinality(I)
           s == Sorted(I)
           Eq(f, m) == f = [n \in 0..m |-> IF n = 0 THEN <<>> ELSE Coalesce(f[n - 1], s[n])]
           S == {m \in Nat : \E f : Eq(f, m)}
<1>1. 0 \in S
  <2> DEFINE f == [n \in 0..0 |-> <<>>]
  <2>1. Eq(f, 0)
    OBVIOUS
  <2> QED BY <2>1
<1>2. ASSUME NEW m \in Nat, m \in S
      PROVE  m + 1 \in S
  <2>1. PICK f : Eq(f, m)
    BY <1>2
  <2> DEFINE h == [n \in 0..(m + 1) |-> IF n = m + 1 THEN Coalesce(f[m], s[m + 1]) ELSE f[n]]
  <2>2. ASSUME NEW n \in 0..(m + 1)
        PROVE  h[n] = IF n = 0 THEN <<>> ELSE Coalesce(h[n - 1], s[n])
    <3>1. CASE n = m + 1
      <4>1. h[n - 1] = f[m] /\ n # 0
        BY <3>1
      <4> QED BY <3>1, <4>1
    <3>2. CASE n # m + 1 /\ n # 0
      <4>1. n \in 0..m /\ n - 1 \in 0..m /\ n - 1 # m + 1
        BY <3>2
      <4>2. f[n] = Coalesce(f[n - 1], s[n])
        BY <2>1, <3>2, <4>1
      <4>3. h[n] = f[n] /\ h[n - 1] = f[n - 1]
        BY <3>2, <4>1
      <4> QED BY <3>2, <4>2, <4>3
    <3>3. CASE n = 0
      BY <2>1, <3>3
    <3> QED BY <3>1, <3>2, <3>3
  <2>3. Eq(h, m + 1)
    BY <2>2
  <2> HIDE DEF h
  <2>4. m + 1 \in Nat
    OBVIOUS
  <2> QED BY <2>3, <2>4
<1> HIDE DEF S
<1>3. N \in S
  BY <1>1, <1>2, AllNumbers
<1>4. Eq(Merged(I), N)
  BY <1>3 DEF S, Merged
<1> QED BY <1>4

-----------------------------------------------------------------------------
\* A day is in one of the spans.
InSpans(spans, day) == \E j \in 1..Len(spans) : Covers(spans[j], day)

\* No span starts before the first or ends after the last.
Within(spans) ==
    \A j \in 1..Len(spans) :
        spans[1].start <= spans[j].start /\ spans[j].end <= spans[Len(spans)].end

\* A window that starts no earlier than the last span joins it, when it touches.
LEMMA JoinIs ==
    ASSUME NEW spans \in Seq(Span), NEW i \in Window, spans # <<>>,
           spans[Len(spans)].start <= i.start, Touches(spans[Len(spans)], i)
    PROVE  LET joined == [spans EXCEPT ![Len(spans)] = Join(@, i)]
           IN  /\ joined \in Seq(Span) /\ joined # <<>>
               /\ joined[Len(joined)].start <= i.start
               /\ \A day \in Int :
                      InSpans(joined, day) <=> InSpans(spans, day) \/ Covers(i, day)
               /\ Within(spans) => Within(joined)
<1> DEFINE n == Len(spans)
           joined == [spans EXCEPT ![n] = Join(@, i)]
<1>1. n \in Nat /\ n > 0 /\ DOMAIN spans = 1..n /\ \A j \in 1..n : spans[j] \in Span
  BY EmptySeq, LenProperties, ElementOfSeq
<1>2. /\ i.start \in Int /\ i.end \in Int /\ i.label \in Nat
      /\ \A j \in 1..n : /\ spans[j].start \in Int /\ spans[j].end \in Int
                         /\ spans[j].labels \in SUBSET Nat
  BY <1>1 DEF Window, Span
<1>3. n \in 1..n
  BY <1>1
<1> HIDE DEF n
<1>4. /\ Join(spans[n], i) \in Span
      /\ Join(spans[n], i).start = spans[n].start
      /\ Join(spans[n], i).end = Larger(spans[n].end, i.end)
  <2>1. spans[n] \in Span /\ i.label \in Nat /\ i.end \in Int
    BY <1>1, <1>2, <1>3
  <2>2. Larger(spans[n].end, i.end) \in Int
    BY <1>2, <1>3 DEF Larger
  <2> QED BY <2>1, <2>2 DEF Join, Span
<1>5. joined \in Seq(Span) /\ Len(joined) = n
  <2>1. joined \in Seq(Span)
    BY <1>1, <1>4, IsASeq
  <2> QED BY <1>1, <2>1, LenProperties
<1>6. joined[n] = Join(spans[n], i) /\ \A j \in 1..n : j # n => joined[j] = spans[j]
  BY <1>1, <1>3
<1> HIDE DEF joined
<1>7. joined # <<>>
  BY <1>1, <1>5, EmptySeq
<1>8. joined[n].start <= i.start
  BY <1>4, <1>6 DEF n
<1>9. spans[n].start <= i.start /\ i.start <= spans[n].end + 1
  BY DEF n, Touches
<1>10. ASSUME NEW day \in Int
       PROVE  InSpans(joined, day) <=> InSpans(spans, day) \/ Covers(i, day)
  <2>1. Covers(joined[n], day) <=> Covers(spans[n], day) \/ Covers(i, day)
    BY <1>2, <1>3, <1>4, <1>6, <1>9 DEF Covers, Larger
  <2>2. InSpans(joined, day) <=> \E j \in 1..n : Covers(joined[j], day)
    BY <1>5 DEF InSpans
  <2>3. InSpans(spans, day) <=> \E j \in 1..n : Covers(spans[j], day)
    BY DEF InSpans, n
  <2> QED BY <1>3, <1>6, <2>1, <2>2, <2>3
<1>11. ASSUME Within(spans)
       PROVE  Within(joined)
  <2>1. \A j \in 1..n : spans[1].start <= spans[j].start /\ spans[j].end <= spans[n].end
    BY <1>11 DEF Within, n
  <2>2. 1 \in 1..n
    BY <1>1
  <2>3. \A j \in 1..n : joined[j].start = spans[j].start
    BY <1>4, <1>6
  <2>4. joined[n].end = Larger(spans[n].end, i.end)
    BY <1>4, <1>6
  <2>5. \A j \in 1..n : joined[j].end <= joined[n].end
    <3>1. spans[n].end <= joined[n].end /\ joined[n].end \in Int
      BY <1>2, <1>3, <2>4 DEF Larger
    <3>2. ASSUME NEW j \in 1..n
          PROVE  joined[j].end <= joined[n].end
      <4>1. CASE j = n
        BY <3>1, <4>1
      <4>2. CASE j # n
        <5>1. joined[j] = spans[j] /\ spans[j].end <= spans[n].end
          BY <1>6, <2>1, <4>2
        <5> QED BY <1>2, <1>3, <3>1, <5>1
      <4> QED BY <4>1, <4>2
    <3> QED BY <3>2
  <2> QED BY <1>5, <2>1, <2>2, <2>3, <2>5 DEF Within
<1> QED BY <1>5, <1>7, <1>8, <1>10, <1>11 DEF joined, n

\* A window that starts later opens a span.
LEMMA OpenIs ==
    ASSUME NEW spans \in Seq(Span), NEW i \in Window,
           spans # <<>> => /\ spans[Len(spans)].start <= i.start
                           /\ ~Touches(spans[Len(spans)], i)
    PROVE  LET more == Append(spans, Opened(i))
           IN  /\ more \in Seq(Span) /\ more # <<>>
               /\ more[Len(more)].start <= i.start
               /\ \A day \in Int :
                      InSpans(more, day) <=> InSpans(spans, day) \/ Covers(i, day)
               /\ Within(spans) /\ i.start <= i.end => Within(more)
<1> DEFINE n == Len(spans)
           more == Append(spans, Opened(i))
<1>1. n \in Nat /\ DOMAIN spans = 1..n /\ \A j \in 1..n : spans[j] \in Span
  BY LenProperties, ElementOfSeq
<1>2. /\ i.start \in Int /\ i.end \in Int /\ i.label \in Nat
      /\ \A j \in 1..n : spans[j].start \in Int /\ spans[j].end \in Int
  BY <1>1 DEF Window, Span
<1>3. Opened(i) \in Span /\ Opened(i).start = i.start /\ Opened(i).end = i.end
  BY <1>2 DEF Opened, Span
<1>4. /\ more \in Seq(Span) /\ Len(more) = n + 1
      /\ more[n + 1] = Opened(i) /\ \A j \in 1..n : more[j] = spans[j]
  BY <1>3, AppendProperties
<1>5. n = 0 \/ (n > 0 /\ spans # <<>> /\ n \in 1..n)
  BY <1>1, EmptySeq
<1>6. n > 0 => spans[n].start <= i.start /\ ~(i.start <= spans[n].end + 1)
  BY <1>5 DEF Touches
<1> HIDE DEF more, n
<1>7. more # <<>>
  BY <1>1, <1>4, EmptySeq
<1>8. more[Len(more)].start <= i.start
  BY <1>2, <1>3, <1>4
<1>9. ASSUME NEW day \in Int
      PROVE  InSpans(more, day) <=> InSpans(spans, day) \/ Covers(i, day)
  <2>1. Covers(more[n + 1], day) <=> Covers(i, day)
    BY <1>3, <1>4 DEF Covers
  <2>2. InSpans(more, day) <=> \E j \in 1..(n + 1) : Covers(more[j], day)
    BY <1>4 DEF InSpans
  <2>3. InSpans(spans, day) <=> \E j \in 1..n : Covers(spans[j], day)
    BY DEF InSpans, n
  <2>4. \A j \in 1..(n + 1) : j \in 1..n \/ j = n + 1
    BY <1>1
  <2>5. n + 1 \in 1..(n + 1) /\ \A j \in 1..n : j \in 1..(n + 1)
    BY <1>1
  <2> QED BY <1>4, <2>1, <2>2, <2>3, <2>4, <2>5
<1>10. ASSUME Within(spans), i.start <= i.end
       PROVE  Within(more)
  <2>1. CASE n = 0
    <3>1. \A j \in 1..(n + 1) : j = 1
      BY <2>1
    <3> QED BY <1>2, <1>3, <1>4, <2>1, <3>1 DEF Within
  <2>2. CASE n > 0
    <3>1. \A j \in 1..n : spans[1].start <= spans[j].start /\ spans[j].end <= spans[n].end
      BY <1>10 DEF Within, n
    <3>2. 1 \in 1..n /\ n \in 1..n
      BY <1>1, <2>2
    <3>3. spans[1].start <= i.start /\ spans[n].end <= i.end
      BY <1>2, <1>6, <1>10, <2>2, <3>1, <3>2
    <3>4. ASSUME NEW j \in 1..(n + 1)
          PROVE  more[1].start <= more[j].start /\ more[j].end <= more[n + 1].end
      <4>1. CASE j = n + 1
        BY <1>2, <1>3, <1>4, <3>2, <3>3, <4>1
      <4>2. CASE j \in 1..n
        <5>1. more[1] = spans[1] /\ more[j] = spans[j] /\ more[n + 1].end = i.end
          BY <1>3, <1>4, <3>2, <4>2
        <5>2. spans[1].start <= spans[j].start /\ spans[j].end <= spans[n].end
          BY <3>1, <4>2
        <5>3. spans[j].end \in Int /\ spans[n].end \in Int
          BY <1>2, <3>2, <4>2
        <5> QED BY <1>2, <3>3, <5>1, <5>2, <5>3
      <4> QED BY <1>1, <4>1, <4>2
    <3> QED BY <1>4, <3>4 DEF Within
  <2> QED BY <1>1, <2>1, <2>2
<1> QED BY <1>4, <1>7, <1>8, <1>9, <1>10 DEF more, n

\* One turn of the loop adds the days of its window, and no other.
LEMMA CoalesceIs ==
    ASSUME NEW spans \in Seq(Span), NEW i \in Window,
           spans # <<>> => spans[Len(spans)].start <= i.start
    PROVE  LET next == Coalesce(spans, i)
           IN  /\ next \in Seq(Span) /\ next # <<>>
               /\ next[Len(next)].start <= i.start
               /\ \A day \in Int :
                      InSpans(next, day) <=> InSpans(spans, day) \/ Covers(i, day)
               /\ Within(spans) /\ i.start <= i.end => Within(next)
<1>1. CASE spans # <<>> /\ Touches(spans[Len(spans)], i)
  <2>1. Coalesce(spans, i) = [spans EXCEPT ![Len(spans)] = Join(@, i)]
    BY <1>1 DEF Coalesce, Last
  <2> QED BY <1>1, <2>1, JoinIs
<1>2. CASE ~(spans # <<>> /\ Touches(spans[Len(spans)], i))
  <2>1. Coalesce(spans, i) = Append(spans, Opened(i))
    BY <1>2 DEF Coalesce, Last
  <2> QED BY <1>2, <2>1, OpenIs
<1> QED BY <1>1, <1>2

\* Merging loses no day and bridges no gap, in whatever order windows come and
\* however they overlap.
LEMMA MergeIs ==
    ASSUME NEW I \in SUBSET Window, IsFiniteSet(I)
    PROVE  /\ MergeDayIntervals(I) \in Seq(Span)
           /\ MergeDayIntervals(I) = <<>> <=> I = {}
           /\ \A day \in Int :
                  InSpans(MergeDayIntervals(I), day) <=> \E i \in I : Covers(i, day)
           /\ (\A i \in I : i.start <= i.end) => Within(MergeDayIntervals(I))
<1> DEFINE N == Cardinality(I)
           s == Sorted(I)
           Sound(spans, n) ==
               /\ spans \in Seq(Span)
               /\ spans = <<>> <=> n = 0
               /\ spans # <<>> => spans[Len(spans)].start <= s[n].start
               /\ \A day \in Int : InSpans(spans, day) <=> \E m \in 1..n : Covers(s[m], day)
               /\ (\A i \in I : i.start <= i.end) => Within(spans)
           S == {n \in Nat : n <= N => Sound(Merged(I)[n], n)}
<1>1. /\ N \in Nat /\ s \in [1..N -> I]
      /\ \A m, n \in 1..N : m < n => Earlier(s[m], s[n])
      /\ \A i \in I : \E n \in 1..N : s[n] = i
  BY SortedIs
<1>2. /\ Merged(I)[0] = <<>>
      /\ \A n \in Nat : n < N => Merged(I)[n + 1] = Coalesce(Merged(I)[n], s[n + 1])
  BY <1>1, MergedUnfold
<1> HIDE DEF N, s
<1>3. 0 \in S
  <2>1. <<>> \in Seq(Span) /\ Len(<<>>) = 0
    BY EmptySeq
  <2>2. \A day : ~InSpans(<<>>, day)
    BY <2>1 DEF InSpans
  <2>3. Within(<<>>)
    BY <2>1 DEF Within
  <2>4. \A day \in Int : ~\E m \in 1..0 : Covers(s[m], day)
    OBVIOUS
  <2>5. Sound(<<>>, 0)
    BY <2>1, <2>2, <2>3, <2>4
  <2> HIDE DEF Sound
  <2> QED BY <1>2, <2>5
<1>4. ASSUME NEW n \in Nat, n \in S
      PROVE  n + 1 \in S
  <2> SUFFICES ASSUME n + 1 <= N
               PROVE  Sound(Merged(I)[n + 1], n + 1)
    OBVIOUS
  <2> DEFINE spans == Merged(I)[n]
             i == s[n + 1]
             next == Coalesce(spans, i)
  <2>1. n + 1 \in 1..N /\ n < N /\ (n # 0 => n \in 1..N /\ n < n + 1)
    BY <1>1
  <2>2. Sound(spans, n)
    BY <1>1, <1>4, <2>1
  <2>3. i \in I /\ i \in Window
    BY <1>1, <2>1
  <2>4. n # 0 => s[n].start <= i.start
    <3>1. ASSUME n # 0
          PROVE  s[n] \in Window /\ Earlier(s[n], i)
      BY <1>1, <2>1, <3>1
    <3> QED BY <2>3, <3>1, EarlierOrders
  <2>5. Merged(I)[n + 1] = next
    BY <1>2, <2>1
  <2>6. spans \in Seq(Span) /\ (spans # <<>> => spans[Len(spans)].start <= i.start)
    <3>1. spans \in Seq(Span) /\ (spans # <<>> => n # 0 /\ spans[Len(spans)].start <= s[n].start)
      BY <2>2
    <3>2. spans # <<>> => spans[Len(spans)] \in Span
      BY <3>1, EmptySeq, LenProperties, ElementOfSeq
    <3>3. n # 0 => s[n] \in Window
      BY <1>1, <2>1
    <3> HIDE DEF spans, i
    <3>4. spans # <<>> => /\ spans[Len(spans)].start \in Int /\ s[n].start \in Int
                          /\ i.start \in Int
      BY <2>3, <3>1, <3>2, <3>3 DEF Window, Span
    <3> QED BY <2>4, <3>1, <3>4
  <2> HIDE DEF spans, i
  <2>7. /\ next \in Seq(Span) /\ next # <<>>
        /\ next[Len(next)].start <= i.start
        /\ \A day \in Int : InSpans(next, day) <=> InSpans(spans, day) \/ Covers(i, day)
        /\ Within(spans) /\ i.start <= i.end => Within(next)
    BY <2>3, <2>6, CoalesceIs
  <2> HIDE DEF next
  <2>8. ASSUME NEW day \in Int
        PROVE  InSpans(next, day) <=> \E m \in 1..(n + 1) : Covers(s[m], day)
    <3>1. InSpans(next, day) <=> (\E m \in 1..n : Covers(s[m], day)) \/ Covers(i, day)
      BY <2>2, <2>7
    <3>2. \A m \in 1..(n + 1) : m \in 1..n \/ m = n + 1
      OBVIOUS
    <3>3. n + 1 \in 1..(n + 1) /\ \A m \in 1..n : m \in 1..(n + 1)
      OBVIOUS
    <3> QED BY <3>1, <3>2, <3>3 DEF i
  <2>9. (\A j \in I : j.start <= j.end) => Within(next)
    BY <2>2, <2>3, <2>7
  <2>10. n + 1 # 0 /\ next[Len(next)].start <= s[n + 1].start
    BY <2>7 DEF i
  <2> QED BY <2>5, <2>7, <2>8, <2>9, <2>10
<1> HIDE DEF S
<1>5. N \in S
  BY <1>1, <1>3, <1>4, AllNumbers
<1>6. Sound(MergeDayIntervals(I), N)
  <2>1. N <= N
    BY <1>1
  <2> QED BY <1>5, <2>1 DEF S, MergeDayIntervals, N
<1>7. N = 0 <=> I = {}
  BY FS_EmptySet DEF N
<1>8. \A day \in Int : (\E m \in 1..N : Covers(s[m], day)) <=> \E i \in I : Covers(i, day)
  BY <1>1
<1> QED BY <1>6, <1>7, <1>8

\* A span is found for a day exactly when one covers it.
LEMMA FoundIs ==
    ASSUME NEW spans \in Seq(Span), NEW day
    PROVE  FindCoverage(spans, day) # None <=> InSpans(spans, day)
<1> DEFINE covering == {n \in DOMAIN spans : Covers(spans[n], day)}
<1>1. DOMAIN spans = 1..Len(spans) /\ Len(spans) \in Nat
  BY LenProperties
<1>2. InSpans(spans, day) <=> covering # {}
  BY <1>1 DEF InSpans
<1>3. CASE covering = {}
  BY <1>2, <1>3 DEF FindCoverage
<1>4. CASE covering # {}
  <2>1. covering \in SUBSET Nat
    BY <1>1
  <2>2. covering \in SUBSET (1..Len(spans))
    BY <1>1
  <2>3. FindCoverage(spans, day) = spans[Min(covering)]
    BY <1>4 DEF FindCoverage
  <2> HIDE DEF covering
  <2>4. \E n \in covering : \A m \in covering : n <= m
    BY <1>4, <2>1, LeastNumber
  <2>5. Min(covering) \in covering
    BY <2>4 DEF Min
  <2>6. spans[Min(covering)] \in Span
    BY <2>2, <2>5, ElementOfSeq
  <2> QED BY <1>2, <1>4, <2>3, <2>6, NoneAssumption DEF Span
<1> QED BY <1>3, <1>4

-----------------------------------------------------------------------------
(* The invariant.                                                          *)

\* What a type, an identifier and an address are encoded to.
Named(ip, type, identifier) == Encode(FromAnchor(ip, identifier, type))

Shape ==
    /\ ct \subseteq Cert /\ IsFiniteSet(ct)
    /\ seals \subseteq Record /\ IsFiniteSet(seals)
    /\ now \in Start..End

\* The last RUUID says what was asked for, and a day that has come.
MintedInv ==
    minted # None =>
        /\ minted \in Minted
        /\ minted.bits = Named(minted.ip, minted.type, minted.identifier)
        /\ minted.day # None =>
              /\ minted.identifier \div 2 ^ SequenceBits = minted.day
              /\ minted.day <= DaysSinceEpoch(now)

\* A day of the window that has come.
InWindow(s, day) ==
    /\ DaysSinceEpoch(s.first) <= day /\ day <= DaysSinceEpoch(s.last)
    /\ day <= DaysSinceEpoch(now)

CertOf(s) ==
    [serial |-> s.serial, ip |-> s.ip, key |-> s.key, first |-> s.first, last |-> s.last]

\* Every record is of an RUUID with a day in its window, and CT has the
\* certificate of a production one.
SealsInv ==
    \A s \in seals :
        /\ \E type \in Types, identifier \in Values(IdentifierBits) :
              /\ s.ruuid = Named(s.ip, type, identifier)
              /\ InWindow(s, identifier \div 2 ^ SequenceBits)
        /\ ~s.staging => CertOf(s) \in ct

IInv == Shape /\ MintedInv /\ SealsInv

\* What is encoded for an address has fields, and they are read back.
LEMMA NamedReadsBack ==
    ASSUME NEW ip \in Address, NEW type \in Types, NEW identifier \in Values(IdentifierBits)
    PROVE  /\ FromAnchor(ip, identifier, type) \in Fields
           /\ Named(ip, type, identifier) \in Nat
           /\ Decode(Named(ip, type, identifier)) = FromAnchor(ip, identifier, type)
<1>1. FromAnchor(ip, identifier, type) \in Fields
  BY MintingAssumption, FixedAssumption, NetworkFits DEF FromAnchor, Fields
<1> QED BY <1>1, DecodesWhatWasEncoded DEF Named

\* A certificate issued now has its place in the calendar.
LEMMA IssuedIsCert ==
    ASSUME Shape, NEW ip \in Address, NEW k \in Key,
           NEW life \in {Lifetime, SealLifetime}
    PROVE  Issued(ip, k, life) \in Cert
<1>1. /\ Start \in Int /\ End \in Int /\ Backdate \in Nat /\ life \in Nat
      /\ Lifetime \in Nat /\ SealLifetime \in Nat
  BY MintingAssumption
<1>2. Larger(SealLifetime, Lifetime) \in Nat /\ life <= Larger(SealLifetime, Lifetime)
  BY <1>1 DEF Larger
<1>3. now \in Int /\ Start <= now /\ now <= End
  BY <1>1 DEF Shape
<1>4. now - Backdate \in Instant /\ now + life \in Instant
  BY <1>1, <1>2, <1>3 DEF Instant
<1>5. Cardinality(ct) + Cardinality(seals) \in Nat
  BY FS_CardinalityType DEF Shape
<1> QED BY <1>4, <1>5 DEF Issued, Cert

\* Adding a certificate leaves everything sound, whatever else stays.
LEMMA CertsOnlyAdd ==
    ASSUME IInv, NEW c \in Cert, ct' \in {ct, ct \cup {c}}, UNCHANGED <<seals, now>>,
           minted' = None
    PROVE  IInv'
<1>1. Shape'
  BY FS_AddElement DEF IInv, Shape
<1>2. MintedInv'
  BY DEF MintedInv
<1>3. SealsInv'
  BY DEF IInv, SealsInv, InWindow
<1> QED BY <1>1, <1>2, <1>3 DEF IInv

\* The invariant holds at first.
LEMMA InitInvariant == Init => IInv
<1> SUFFICES ASSUME Init PROVE IInv
  OBVIOUS
<1>1. Start \in Start..End
  BY MintingAssumption
<1> QED BY <1>1, FS_EmptySet DEF Init, IInv, Shape, MintedInv, SealsInv

\* What is minted says what was asked for, when its day is the identifier's.
LEMMA MintedIsSound ==
    ASSUME NEW ip \in Address, NEW type \in Types,
           NEW identifier \in Values(IdentifierBits),
           NEW day \in Values(DayBits) \cup {None},
           day = None \/ /\ identifier \div 2 ^ SequenceBits = day
                         /\ day <= DaysSinceEpoch(now),
           now' = now, minted' = Mint(ip, type, identifier, day)
    PROVE  MintedInv'
<1>1. Mint(ip, type, identifier, day)
        = [bits |-> Named(ip, type, identifier), ip |-> ip, type |-> type,
           identifier |-> identifier, day |-> day]
  BY DEF Mint, Named
<1>2. minted' \in Minted
  BY <1>1, NamedReadsBack DEF Minted
<1>3. minted'.bits = Named(minted'.ip, minted'.type, minted'.identifier)
  BY <1>1
<1>4. minted'.day = day /\ minted'.identifier = identifier
  BY <1>1
<1> QED BY <1>2, <1>3, <1>4 DEF MintedInv, Named

\* generate mints what it was asked for.
LEMMA GenerateKeeps ==
    ASSUME IInv, NEW ip \in Address, NEW type \in Types, NEW given,
           NEW opaque \in BOOLEAN, NEW day \in Requested, NEW random \in Random,
           Generate(ip, type, given, opaque, day, random)
    PROVE  IInv'
<1> DEFINE instant == IF day = None THEN now ELSE ParseDay(day)
           built == StructuredIdentifier(instant, random % 2 ^ SequenceBits)
<1>1. UNCHANGED <<ct, seals, now>> /\ (day # None => day <= DaysSinceEpoch(now))
  BY DEF Generate
<1>2. \/ given \in Values(IdentifierBits) /\ minted' = Mint(ip, type, given, None)
      \/ minted' = Mint(ip, type, random, None)
      \/ FitsDay(instant) /\ minted' = Mint(ip, type, built, DaysSinceEpoch(instant))
  BY DEF Generate
<1>3. Shape' /\ SealsInv'
  BY <1>1 DEF IInv, Shape, SealsInv, InWindow
<1>4. random \in Values(IdentifierBits) /\ random \in Nat
  BY MintingAssumption, Widths, PowerType DEF Values
<1>5. CASE given \in Values(IdentifierBits) /\ minted' = Mint(ip, type, given, None)
  <2>1. MintedInv'
    BY <1>1, <1>5, MintedIsSound
  <2> QED BY <1>3, <2>1 DEF IInv
<1>6. CASE minted' = Mint(ip, type, random, None)
  <2>1. MintedInv'
    BY <1>1, <1>4, <1>6, MintedIsSound
  <2> QED BY <1>3, <2>1 DEF IInv
<1>7. CASE FitsDay(instant) /\ minted' = Mint(ip, type, built, DaysSinceEpoch(instant))
  <2>1. now \in Int
    BY MintingAssumption DEF IInv, Shape
  <2>2. instant \in Int /\ DaysSinceEpoch(instant) <= DaysSinceEpoch(now)
    <3>1. CASE day = None
      BY <2>1, <3>1, DayType
    <3>2. CASE day # None
      BY <1>1, <3>2, MintingAssumption, DaysAreInstants
    <3> QED BY <3>1, <3>2
  <2>3. /\ built \in Values(IdentifierBits)
        /\ built \div 2 ^ SequenceBits = DaysSinceEpoch(instant)
    BY <1>4, <1>7, <2>2, SequenceFits, DayReadsBack
  <2>4. DaysSinceEpoch(instant) \in Values(DayBits)
    BY <1>7 DEF FitsDay
  <2> HIDE DEF built, instant
  <2>5. MintedInv'
    BY <1>1, <1>7, <2>2, <2>3, <2>4, MintedIsSound
  <2> QED BY <1>3, <2>5 DEF IInv
<1> QED BY <1>2, <1>5, <1>6, <1>7

\* The day that is picked is in the window and has come.
LEMMA PickedDayIsInWindow ==
    ASSUME now \in Int, NEW first \in Int, NEW last \in Int, NEW requested \in Requested,
           NEW day, day = PickAnchorDay(first, last, requested), day # None
    PROVE  /\ day \in Int /\ day <= DaysSinceEpoch(now)
           /\ DaysSinceEpoch(first) <= day /\ day <= DaysSinceEpoch(last)
<1>1. DaysSinceEpoch(last) \in Int /\ DaysSinceEpoch(now) \in Int
  BY DayType
<1>2. requested = None \/ requested \in Int
  BY MintingAssumption
<1> QED BY <1>1, <1>2 DEF PickAnchorDay

\* seal records the certificate with an RUUID for a day of its window, or
\* nothing at all.
LEMMA SealKeeps ==
    ASSUME IInv, NEW ip \in Address, NEW text \in Text, NEW k \in Key, NEW type \in Types,
           NEW production \in BOOLEAN, NEW requested \in Requested,
           NEW random \in Values(SequenceBits),
           Seal(ip, text, k, type, production, requested, random)
    PROVE  IInv'
<1> DEFINE cert == Issued(ip, k, SealLifetime)
           day == PickAnchorDay(cert.first, cert.last, requested)
           built == StructuredIdentifier(ParseDay(day), random)
           record == [serial |-> cert.serial, ip |-> ip, text |-> text, key |-> k,
                      first |-> cert.first, last |-> cert.last,
                      ruuid |-> Named(ip, type, built), staging |-> ~production]
<1>1. cert \in Cert
  BY IssuedIsCert DEF IInv
<1>2. now' = now /\ ct' \in {ct, ct \cup {cert}}
  BY DEF Seal
<1>3. CASE day # None /\ FitsDay(ParseDay(day))
  <2>1. /\ seals' = seals \cup {record}
        /\ minted' = [bits |-> Named(ip, type, built), ip |-> ip, type |-> type,
                      identifier |-> built, day |-> day]
        /\ ct' = IF production THEN ct \cup {cert} ELSE ct
    BY <1>3 DEF Seal, Mint, Named
  <2>2. now \in Int /\ cert.first \in Int /\ cert.last \in Int
    BY <1>1, MintingAssumption DEF IInv, Shape, Cert, Instant
  <2>3. cert = CertOf(record)
    BY DEF Issued, CertOf
  <2> HIDE DEF cert
  <2>4. InWindow(record, day) /\ day \in Int /\ day <= DaysSinceEpoch(now)
    BY <1>3, <2>2, PickedDayIsInWindow DEF InWindow
  <2>5. DaysSinceEpoch(ParseDay(day)) = day /\ ParseDay(day) \in Int
    BY <2>4, DaysAreInstants
  <2>6. built \in Values(IdentifierBits) /\ built \div 2 ^ SequenceBits = day
    BY <1>3, <2>5, DayReadsBack
  <2>7. day \in Values(DayBits)
    BY <1>3, <2>5 DEF FitsDay
  <2> HIDE DEF day, built
  <2>8. Named(ip, type, built) \in Nat
    BY <2>6, NamedReadsBack
  <2>9. record \in Record
    BY <1>1, <2>8 DEF Cert, Record
  <2> HIDE DEF record
  <2>10. Shape'
    <3>1. ct' \subseteq Cert /\ seals' \subseteq Record /\ now' \in Start..End
      BY <1>1, <1>2, <2>1, <2>9 DEF IInv, Shape
    <3>2. IsFiniteSet(ct') /\ IsFiniteSet(seals')
      BY <1>2, <2>1, FS_AddElement DEF IInv, Shape
    <3> QED BY <3>1, <3>2 DEF Shape
  <2>11. MintedInv'
    BY <1>2, <2>1, <2>4, <2>6, <2>7, <2>8 DEF MintedInv, Minted, Named
  <2>12. ASSUME NEW s \in seals'
         PROVE  /\ \E t \in Types, identifier \in Values(IdentifierBits) :
                      /\ s.ruuid = Named(s.ip, t, identifier)
                      /\ InWindow(s, identifier \div 2 ^ SequenceBits)
                /\ ~s.staging => CertOf(s) \in ct'
    <3>1. CASE s \in seals
      BY <1>2, <3>1 DEF IInv, SealsInv
    <3>2. CASE s = record
      <4> USE DEF record
      <4>1. s.ruuid = Named(s.ip, type, built) /\ InWindow(s, built \div 2 ^ SequenceBits)
        BY <2>4, <2>6, <3>2
      <4>2. ~s.staging => CertOf(s) \in ct'
        BY <2>1, <2>3, <3>2
      <4> QED BY <2>6, <4>1, <4>2
    <3> QED BY <2>1, <3>1, <3>2
  <2>13. SealsInv'
    BY <1>2, <2>12 DEF SealsInv, InWindow, CertOf, Named
  <2> QED BY <2>10, <2>11, <2>13 DEF IInv
<1>4. CASE ~(day # None /\ FitsDay(ParseDay(day)))
  <2>1. minted' = None /\ seals' = seals
    BY <1>4 DEF Seal
  <2> QED BY <1>1, <1>2, <2>1, CertsOnlyAdd
<1> QED BY <1>3, <1>4

\* A day that has come has come for good.
LEMMA TickKeeps ==
    ASSUME IInv, Tick
    PROVE  IInv'
<1>1. /\ now \in Start..End /\ now < End /\ now' = now + 1 /\ minted' = None
      /\ UNCHANGED <<ct, seals>> /\ Start \in Int /\ End \in Int
  BY MintingAssumption DEF IInv, Shape, Tick
<1>2. now \in Int /\ now' \in Start..End
  BY <1>1
<1>3. DaysSinceEpoch(now) <= DaysSinceEpoch(now')
  BY <1>1, <1>2, DaysPass
<1>4. DaysSinceEpoch(now) \in Int /\ DaysSinceEpoch(now') \in Int
  BY <1>1, <1>2, DayType
<1>5. Shape'
  BY <1>1, <1>2 DEF IInv, Shape
<1>6. MintedInv'
  BY <1>1 DEF MintedInv
<1>7. ASSUME NEW s \in seals, NEW identifier \in Values(IdentifierBits),
             InWindow(s, identifier \div 2 ^ SequenceBits)
      PROVE  InWindow(s, identifier \div 2 ^ SequenceBits)'
  <2>1. identifier \div 2 ^ SequenceBits \in Int
    BY Widths, PowerType DEF Values
  <2> QED BY <1>3, <1>4, <1>7, <2>1 DEF InWindow
<1>8. SealsInv'
  BY <1>1, <1>7 DEF IInv, SealsInv
<1> QED BY <1>5, <1>6, <1>8 DEF IInv

-----------------------------------------------------------------------------
(* The theorems.                                                           *)

\* What is typed is an address, in a text.
LEMMA TypedAddress ==
    ASSUME NEW a \in Typed
    PROVE  a.ip \in Address /\ a.text \in Text
BY MintingAssumption

\* Every step keeps the invariant.
LEMMA InvariantStep == IInv /\ [Next]_vars => IInv'
<1> SUFFICES ASSUME IInv, [Next]_vars PROVE IInv'
  OBVIOUS
<1>1. ASSUME NEW ip \in Address, NEW type \in Types, NEW given \in Given,
             NEW opaque \in BOOLEAN, NEW day \in Requested, NEW random \in Random,
             Generate(ip, type, given, opaque, day, random)
      PROVE  IInv'
  BY <1>1, GenerateKeeps
<1>2. ASSUME NEW a \in Typed, NEW k \in Key, NEW type \in Types,
             NEW production \in BOOLEAN, NEW day \in Requested, NEW random \in Random,
             Seal(a.ip, a.text, k, type, production, day, random % 2 ^ SequenceBits)
      PROVE  IInv'
  <2>1. random \in Nat
    BY MintingAssumption, Widths, PowerType DEF Values
  <2> QED BY <1>2, <2>1, TypedAddress, SequenceFits, SealKeeps
<1>3. ASSUME NEW ip \in Address, NEW k \in Key, SealFails(ip, k)
      PROVE  IInv'
  <2>1. Issued(ip, k, SealLifetime) \in Cert
    BY IssuedIsCert DEF IInv
  <2> QED BY <1>3, <2>1, CertsOnlyAdd DEF SealFails
<1>4. ASSUME NEW ip \in Address, NEW k \in Key, Certify(ip, k)
      PROVE  IInv'
  <2>1. Issued(ip, k, Lifetime) \in Cert
    BY IssuedIsCert DEF IInv
  <2> QED BY <1>4, <2>1, CertsOnlyAdd DEF Certify
<1>5. CASE Tick
  BY <1>5, TickKeeps
<1>6. CASE UNCHANGED vars
  BY <1>6 DEF vars, IInv, Shape, MintedInv, SealsInv, InWindow
<1> QED BY <1>1, <1>2, <1>3, <1>4, <1>5, <1>6 DEF Next

\* The invariant always holds.
LEMMA Invariance == Spec => []IInv
<1>1. Init => IInv
  BY InitInvariant
<1>2. IInv /\ [Next]_vars => IInv'
  BY InvariantStep
<1> QED BY <1>1, <1>2, PTL DEF Spec

\* What is minted decodes to fields; records and certificates have their types.
THEOREM MintingTypeCorrect == Spec => []TypeOK
<1>1. IInv => TypeOK
  <2> SUFFICES ASSUME IInv PROVE TypeOK
    OBVIOUS
  <2>1. ASSUME minted # None
        PROVE  minted \in Minted /\ Decode(minted.bits) \in Fields
    <3>1. /\ minted \in Minted
          /\ minted.bits = Named(minted.ip, minted.type, minted.identifier)
      BY <2>1 DEF IInv, MintedInv
    <3>2. /\ minted.ip \in Address /\ minted.type \in Types
          /\ minted.identifier \in Values(IdentifierBits)
      BY <3>1 DEF Minted
    <3> QED BY <3>1, <3>2, NamedReadsBack
  <2> QED BY <2>1 DEF IInv, Shape, TypeOK
<1> QED BY <1>1, Invariance, PTL

\* Every reader gets what the minter of the last RUUID was asked for: the
\* fields in their places, the network of the address, and the reverse name at
\* which its issuer publishes (core.py, and resolve.py reverse_dns_name).
THEOREM MintedIsRead == Spec => []MintedReadsBack
<1>1. IInv => MintedReadsBack
  <2> SUFFICES ASSUME IInv, minted # None
               PROVE  LET f == Decode(minted.bits)
                      IN  /\ f.identifier = minted.identifier /\ f.type = minted.type
                          /\ f.version = VERSION /\ f.variant = VARIANT
                          /\ Encode(f) = minted.bits
                          /\ minted.day # None => DayCount(f) = minted.day
                          /\ ~Ambiguous(minted.ip) =>
                                /\ InNetwork(minted.ip, f)
                                /\ ReverseDnsName(f) = ReverseName(minted.ip)
    BY DEF MintedReadsBack
  <2> DEFINE f == Decode(minted.bits)
  <2>1. /\ minted.ip \in Address /\ minted.type \in Types
        /\ minted.identifier \in Values(IdentifierBits)
        /\ minted.bits = Named(minted.ip, minted.type, minted.identifier)
        /\ minted.day # None => minted.identifier \div 2 ^ SequenceBits = minted.day
    BY DEF IInv, MintedInv, Minted
  <2>2. f = FromAnchor(minted.ip, minted.identifier, minted.type)
    BY <2>1, NamedReadsBack
  <2> HIDE DEF f
  <2>3. /\ f.identifier = minted.identifier /\ f.type = minted.type
        /\ f.version = VERSION /\ f.variant = VARIANT
        /\ f.network = NetworkOf(minted.ip)
    BY <2>2 DEF FromAnchor
  <2>4. Encode(f) = minted.bits
    BY <2>1, <2>2 DEF Named
  <2>5. minted.day # None => DayCount(f) = minted.day
    BY <2>1, <2>3 DEF DayCount
  <2>6. ~Ambiguous(minted.ip) =>
           InNetwork(minted.ip, f) /\ ReverseDnsName(f) = ReverseName(minted.ip)
    BY <2>1, <2>3, AnchorReadsBack, MintingAssumption
  <2> QED BY <2>3, <2>4, <2>5, <2>6 DEF f
<1> QED BY <1>1, Invariance, PTL

\* No RUUID that generate or seal minted from a day names a day to come, at the
\* time or ever after (cmd_generate and _pick_anchor_day).
THEOREM DaysHaveCome == Spec => []NoDayToCome
<1>1. IInv => NoDayToCome
  <2> SUFFICES ASSUME IInv PROVE NoDayToCome
    OBVIOUS
  <2>1. ASSUME NEW ip \in Address, NEW type \in Types,
               NEW identifier \in Values(IdentifierBits)
        PROVE  DayCount(Decode(Named(ip, type, identifier)))
                  = identifier \div 2 ^ SequenceBits
    <3>1. Decode(Named(ip, type, identifier)) = FromAnchor(ip, identifier, type)
      BY NamedReadsBack
    <3>2. FromAnchor(ip, identifier, type).identifier = identifier
      BY DEF FromAnchor
    <3> QED BY <3>1, <3>2 DEF DayCount
  <2>2. ASSUME minted # None, minted.day # None
        PROVE  DayCount(Decode(minted.bits)) <= DaysSinceEpoch(now)
    <3>1. /\ minted \in Minted
          /\ minted.bits = Named(minted.ip, minted.type, minted.identifier)
          /\ minted.identifier \div 2 ^ SequenceBits = minted.day
          /\ minted.day <= DaysSinceEpoch(now)
      BY <2>2 DEF IInv, MintedInv
    <3>2. /\ minted.ip \in Address /\ minted.type \in Types
          /\ minted.identifier \in Values(IdentifierBits)
      BY <3>1 DEF Minted
    <3> QED BY <2>1, <3>1, <3>2
  <2>3. ASSUME NEW s \in seals
        PROVE  DayCount(Decode(s.ruuid)) <= DaysSinceEpoch(now)
    <3>1. PICK type \in Types, identifier \in Values(IdentifierBits) :
             /\ s.ruuid = Named(s.ip, type, identifier)
             /\ InWindow(s, identifier \div 2 ^ SequenceBits)
      BY DEF IInv, SealsInv
    <3>2. s.ip \in Address
      BY DEF IInv, Shape, Record
    <3> QED BY <2>1, <3>1, <3>2 DEF InWindow
  <2> QED BY <2>2, <2>3 DEF NoDayToCome
<1> QED BY <1>1, Invariance, PTL

\* For every RUUID with a record of a production seal, CT holds a genesis
\* certificate under the recorded key, and a query for the address the RUUID
\* spells out finds it when that address was sealed (seal_ruuid on one side,
\* _cert_is_genesis on the other).
THEOREM SealsAreProvable == Spec => []SealedIsProvable
<1>1. IInv => SealedIsProvable
  <2> SUFFICES ASSUME IInv, NEW s \in seals, ~s.staging, ~Ambiguous(s.ip)
               PROVE  LET f == Decode(s.ruuid)
                          genesis(certs) == {c \in certs : c.key = s.key /\ CertIsGenesis(c, f)}
                      IN  /\ genesis(ct) # {}
                          /\ AnchorIp(f) = s.ip => genesis(CertsForIp(ct, AnchorIp(f))) # {}
    BY DEF SealedIsProvable
  <2> DEFINE f == Decode(s.ruuid)
             genesis(certs) == {c \in certs : c.key = s.key /\ CertIsGenesis(c, f)}
             c0 == CertOf(s)
  <2>1. s.ip \in Address /\ s.ip # None
    BY MintingAssumption DEF IInv, Shape, Record
  <2>2. PICK type \in Types, identifier \in Values(IdentifierBits) :
           /\ s.ruuid = Named(s.ip, type, identifier)
           /\ InWindow(s, identifier \div 2 ^ SequenceBits)
    BY DEF IInv, SealsInv
  <2>3. f = FromAnchor(s.ip, identifier, type)
    BY <2>1, <2>2, NamedReadsBack
  <2>4. c0 \in ct /\ c0.ip = s.ip /\ c0.key = s.key /\ c0.first = s.first /\ c0.last = s.last
    BY DEF IInv, SealsInv, CertOf
  <2> HIDE DEF f, c0
  <2>5. f.network = NetworkOf(s.ip) /\ DayCount(f) = identifier \div 2 ^ SequenceBits
    BY <2>3 DEF FromAnchor, DayCount
  <2>6. InNetwork(s.ip, f)
    BY <2>1, <2>5, AnchorReadsBack, MintingAssumption
  <2>7. CertIsGenesis(c0, f)
    BY <2>1, <2>2, <2>4, <2>5, <2>6 DEF CertIsGenesis, InWindow
  <2>8. c0 \in genesis(ct)
    BY <2>4, <2>7
  <2>9. AnchorIp(f) = s.ip => c0 \in genesis(CertsForIp(ct, AnchorIp(f)))
    BY <2>4, <2>7 DEF CertsForIp
  <2> QED BY <2>8, <2>9 DEF f
<1> QED BY <1>1, Invariance, PTL

-----------------------------------------------------------------------------
(* Days that are covered.                                                  *)

\* A day of the window of a certificate, or of a record.
HasDay(c, day) == DaysSinceEpoch(c.first) <= day /\ day <= DaysSinceEpoch(c.last)

\* Finitely many certificates, or records of them.
AreCerts(C) ==
    /\ IsFiniteSet(C)
    /\ \A c \in C : c.serial \in Nat /\ c.first \in Int /\ c.last \in Int

\* The merged windows of certificates cover the days that they have.
LEMMA MergeCovers ==
    ASSUME NEW C, AreCerts(C)
    PROVE  LET spans == MergeDayIntervals({Interval(c) : c \in C})
           IN  /\ spans \in Seq(Span)
               /\ spans = <<>> <=> C = {}
               /\ \A day \in Int : FindCoverage(spans, day) # None <=> InSpans(spans, day)
               /\ \A day \in Int : InSpans(spans, day) <=> \E c \in C : HasDay(c, day)
               /\ (\A c \in C : c.first <= c.last) => Within(spans)
<1> DEFINE I == {Interval(c) : c \in C}
<1>1. ASSUME NEW c \in C
      PROVE  /\ Interval(c) \in Window
             /\ \A day : Covers(Interval(c), day) <=> HasDay(c, day)
             /\ c.first <= c.last => Interval(c).start <= Interval(c).end
  <2>1. /\ c.serial \in Nat /\ c.first \in Int /\ c.last \in Int
        /\ DaysSinceEpoch(c.first) \in Int /\ DaysSinceEpoch(c.last) \in Int
    BY DayType DEF AreCerts
  <2>2. c.first <= c.last => DaysSinceEpoch(c.first) <= DaysSinceEpoch(c.last)
    BY <2>1, DaysPass
  <2> QED BY <2>1, <2>2 DEF Interval, Window, Covers, HasDay
<1>2. I \in SUBSET Window
  BY <1>1
<1>3. IsFiniteSet(I)
  <2> DEFINE window == [c \in C |-> Interval(c)]
  <2>1. window \in Surjection(C, I)
    BY DEF Surjection
  <2> QED BY <2>1, FS_Surjection DEF AreCerts
<1>4. I = {} <=> C = {}
  OBVIOUS
<1>5. \A day : (\E i \in I : Covers(i, day)) <=> \E c \in C : HasDay(c, day)
  BY <1>1
<1>6. (\A c \in C : c.first <= c.last) => \A i \in I : i.start <= i.end
  BY <1>1
<1> HIDE DEF I
<1> QED BY <1>2, <1>3, <1>4, <1>5, <1>6, MergeIs, FoundIs DEF I

\* A key covers the days that one of its certificates has; a day is covered
\* when a certificate has it.
LEMMA GroupsCover ==
    ASSUME NEW C, AreCerts(C), NEW day \in Int
    PROVE  /\ CoveringKeys(GroupsOf(C), day) = {c.key : c \in {x \in C : HasDay(x, day)}}
           /\ IsCovered(GroupsOf(C), day) <=> \E c \in C : HasDay(c, day)
<1> DEFINE of(k) == {x \in C : x.key = k}
           spans(k) == MergeDayIntervals({Interval(c) : c \in of(k)})
           Keys == {c.key : c \in C}
<1>1. ASSUME NEW k
      PROVE  FindCoverage(spans(k), day) # None <=> \E c \in of(k) : HasDay(c, day)
  <2>1. AreCerts(of(k))
    BY FS_Subset DEF AreCerts
  <2> HIDE DEF of
  <2> QED BY <2>1, MergeCovers
<1> HIDE DEF spans, of
<1> DEFINE group(k) == [key |-> k, spans |-> spans(k)]
           found == {k \in Keys : FindCoverage(spans(k), day) # None}
<1>2. GroupsOf(C) = {group(k) : k \in Keys}
  BY DEF GroupsOf, of, spans
<1>3. \A k : group(k).key = k /\ group(k).spans = spans(k)
  OBVIOUS
<1> HIDE DEF group, Keys
<1>4. CoveringKeys(GroupsOf(C), day) = found
  <2> DEFINE covering == {x \in GroupsOf(C) : FindCoverage(x.spans, day) # None}
  <2>1. \A k \in Keys : k \in found <=> group(k) \in covering
    BY <1>2, <1>3
  <2>2. \A g \in covering : \E k \in Keys : g = group(k)
    BY <1>2
  <2>3. CoveringKeys(GroupsOf(C), day) = {g.key : g \in covering}
    BY DEF CoveringKeys
  <2>4. \A k \in found : k \in Keys
    OBVIOUS
  <2> HIDE DEF covering, found
  <2>5. \A k : k \in {g.key : g \in covering} <=> k \in found
    BY <1>3, <2>1, <2>2, <2>4 DEF covering
  <2> QED BY <2>3, <2>5
<1>5. IsCovered(GroupsOf(C), day) <=> \E k \in Keys : FindCoverage(spans(k), day) # None
  <2>1. IsCovered(GroupsOf(C), day) <=> \E k \in Keys : FindCoverage(group(k).spans, day) # None
    BY <1>2 DEF IsCovered
  <2> QED BY <1>3, <2>1
<1>6. \A k : FindCoverage(spans(k), day) # None <=> \E c \in C : c.key = k /\ HasDay(c, day)
  BY <1>1 DEF of
<1>7. CoveringKeys(GroupsOf(C), day) = {c.key : c \in {x \in C : HasDay(x, day)}}
  BY <1>4, <1>6 DEF Keys
<1>8. IsCovered(GroupsOf(C), day) <=> \E c \in C : HasDay(c, day)
  BY <1>5, <1>6 DEF Keys
<1> QED BY <1>7, <1>8

\* What is found for the keys of an address adds nothing for the address.
LEMMA GroupsAreOfTheAddress ==
    ASSUME NEW certs, NEW ip, NEW text
    PROVE  CoverageGroupsFromCt(certs, ip, text) = GroupsOf(CertsNaming(certs, ip, text))
<1> DEFINE all == CertsForIp(certs, ip)
                     \cup UNION {CertsForSpki(certs, c.key) : c \in CertsForIp(certs, ip)}
<1>1. CertsNaming(all, ip, text) = CertsNaming(certs, ip, text)
  BY DEF CertsNaming, CertsForIp, CertsForSpki
<1>2. CoverageGroupsFromCt(certs, ip, text) = GroupsOf(CertsNaming(all, ip, text))
  BY DEF CoverageGroupsFromCt, CoverageGroupsFromCerts
<1> HIDE DEF all
<1> QED BY <1>1, <1>2

\* Certificates of CT and records are certificates.
LEMMA AddressHasCerts ==
    ASSUME Shape
    PROVE  /\ \A certs \in SUBSET ct : AreCerts(certs)
           /\ \A ip, text : AreCerts(SealRecords(seals, ip, text, TRUE))
<1>1. \A i \in Instant : i \in Int
  BY MintingAssumption DEF Instant, Larger
<1>2. \A c \in ct : c.serial \in Nat /\ c.first \in Int /\ c.last \in Int
  BY <1>1 DEF Shape, Cert
<1>3. \A s \in seals : s.serial \in Nat /\ s.first \in Int /\ s.last \in Int
  BY <1>1 DEF Shape, Record
<1>4. ASSUME NEW certs \in SUBSET ct
      PROVE  AreCerts(certs)
  BY <1>2, FS_Subset DEF AreCerts, Shape
<1>5. ASSUME NEW ip, NEW text
      PROVE  AreCerts(SealRecords(seals, ip, text, TRUE))
  <2>1. SealRecords(seals, ip, text, TRUE) \in SUBSET seals
    BY DEF SealRecords
  <2> QED BY <1>3, <2>1, FS_Subset DEF AreCerts, Shape
<1> QED BY <1>4, <1>5

\* The keys that CT proves a day for are those with a certificate that has it.
LEMMA PublicKeys ==
    ASSUME Shape, NEW ip, NEW text, NEW day \in Int
    PROVE  /\ CoveringKeys(CoverageGroupsFromCt(ct, ip, text), day)
                 = {c.key : c \in {x \in CertsNaming(ct, ip, text) : HasDay(x, day)}}
           /\ IsCovered(CoverageGroupsFromCt(ct, ip, text), day)
                 <=> \E c \in CertsNaming(ct, ip, text) : HasDay(c, day)
<1>1. CertsNaming(ct, ip, text) \in SUBSET ct
  BY DEF CertsNaming
<1> QED BY <1>1, AddressHasCerts, GroupsCover, GroupsAreOfTheAddress

\* The days of the calendar are numbers.
LEMMA DaysAreNumbers ==
    ASSUME NEW day \in Days
    PROVE  day \in Int
<1>1. Start - Backdate \in Int /\ End + Larger(SealLifetime, Lifetime) \in Int
  BY MintingAssumption DEF Larger
<1> QED BY <1>1, DayType DEF Days

\* What a step does to CT: nothing, or a certificate is issued.
LEMMA CtSteps ==
    ASSUME [Next]_vars
    PROVE  \/ ct' = ct
           \/ \E ip \in Address, k \in Key, life \in {Lifetime, SealLifetime} :
                  ct' = ct \cup {Issued(ip, k, life)}
<1> DEFINE Grown == \E ip \in Address, k \in Key, life \in {Lifetime, SealLifetime} :
                       ct' = ct \cup {Issued(ip, k, life)}
<1>1. ASSUME UNCHANGED vars PROVE ct' = ct
  BY <1>1 DEF vars
<1>2. ASSUME NEW ip \in Address, NEW type \in Types, NEW given \in Given,
             NEW opaque \in BOOLEAN, NEW day \in Requested, NEW random \in Random,
             Generate(ip, type, given, opaque, day, random)
      PROVE  ct' = ct
  BY <1>2 DEF Generate
<1>3. ASSUME NEW a \in Typed, NEW k \in Key, NEW type \in Types,
             NEW production \in BOOLEAN, NEW day \in Requested, NEW random \in Random,
             Seal(a.ip, a.text, k, type, production, day, random % 2 ^ SequenceBits)
      PROVE  ct' = ct \/ Grown
  <2>1. a.ip \in Address
    BY TypedAddress
  <2>2. ct' = ct \/ ct' = ct \cup {Issued(a.ip, k, SealLifetime)}
    BY <1>3 DEF Seal
  <2> QED BY <2>1, <2>2
<1>4. ASSUME NEW ip \in Address, NEW k \in Key, SealFails(ip, k) \/ Certify(ip, k)
      PROVE  Grown
  BY <1>4 DEF SealFails, Certify
<1>5. ASSUME Tick PROVE ct' = ct
  BY <1>5 DEF Tick
<1> HIDE DEF Grown
<1>6. ct' = ct \/ Grown
  BY <1>1, <1>2, <1>3, <1>4, <1>5 DEF Next
<1> QED BY <1>6 DEF Grown

\* No certificate ends before it starts.
Proper == \A c \in ct : c.first <= c.last

\* A certificate starts before it is issued, and ends after.
LEMMA CertsAreProper == Spec => []Proper
<1>1. Init => Proper
  BY DEF Init, Proper
<1>2. IInv /\ Proper /\ [Next]_vars => Proper'
  <2> SUFFICES ASSUME IInv, Proper, [Next]_vars PROVE Proper'
    OBVIOUS
  <2>1. ASSUME NEW ip, NEW k, NEW life \in {Lifetime, SealLifetime}
        PROVE  Issued(ip, k, life).first <= Issued(ip, k, life).last
    <3>1. now \in Int /\ Backdate \in Nat /\ life \in Nat
      BY MintingAssumption DEF IInv, Shape
    <3>2. now - Backdate <= now + life
      BY <3>1
    <3> QED BY <3>2 DEF Issued
  <2> QED BY <2>1, CtSteps DEF Proper
<1> QED BY <1>1, <1>2, Invariance, PTL DEF Spec

\* What the records of production seals are said to cover CT proves, key by key
\* and day by day, where the address is typed as certificates are read; and the days of an address are those of its keys together
\* (seal.py ip_coverage and coverage_groups, verify.py coverage_groups_from_ct).
THEOREM RecordsAreProved == Spec => []RecordsAreProof
<1>1. IInv => RecordsAreProof
  <2> SUFFICES ASSUME IInv, NEW a \in Typed, NEW day \in Days
               PROVE  /\ a.text = "openssl" =>
                            CoveringKeys(CoverageGroups(seals, a.ip, a.text, TRUE), day)
                               \subseteq CoveringKeys(CoverageGroupsFromCt(ct, a.ip, a.text), day)
                      /\ (FindCoverage(IpCoverage(seals, a.ip, a.text, TRUE), day) # None)
                            = IsCovered(CoverageGroups(seals, a.ip, a.text, TRUE), day)
    BY DEF RecordsAreProof
  <2> DEFINE ip == a.ip
             text == a.text
             S == SealRecords(seals, ip, text, TRUE)
  <2>1. day \in Int
    BY DaysAreNumbers
  <2>2. Shape /\ AreCerts(S)
    BY AddressHasCerts DEF IInv
  <2>3. CoverageGroups(seals, ip, text, TRUE) = GroupsOf(S)
    BY DEF CoverageGroups
  <2>4. \A s \in S : s \in seals /\ s.ip = ip /\ ~s.staging
    BY DEF SealRecords
  <2>5. FindCoverage(IpCoverage(seals, ip, text, TRUE), day) # None
           <=> \E s \in S : HasDay(s, day)
    <3>1. IpCoverage(seals, ip, text, TRUE) = MergeDayIntervals({Interval(s) : s \in S})
      BY DEF IpCoverage
    <3> HIDE DEF S
    <3> QED BY <2>1, <2>2, <3>1, MergeCovers
  <2> HIDE DEF S
  <2>6. /\ CoveringKeys(GroupsOf(S), day) = {s.key : s \in {x \in S : HasDay(x, day)}}
        /\ IsCovered(GroupsOf(S), day) <=> \E s \in S : HasDay(s, day)
    BY <2>1, <2>2, GroupsCover
  <2>7. CoveringKeys(CoverageGroupsFromCt(ct, ip, text), day)
           = {c.key : c \in {x \in CertsNaming(ct, ip, text) : HasDay(x, day)}}
    BY <2>1, <2>2, PublicKeys
  <2>8. ASSUME text = "openssl", NEW s \in S, HasDay(s, day)
        PROVE  \E c \in CertsNaming(ct, ip, text) : HasDay(c, day) /\ c.key = s.key
    <3>1. CertOf(s) \in ct
      BY <2>4 DEF IInv, SealsInv
    <3>2. CertOf(s).ip = ip /\ CertOf(s).key = s.key /\ HasDay(CertOf(s), day)
      BY <2>4, <2>8 DEF CertOf, HasDay
    <3> QED BY <2>8, <3>1, <3>2 DEF CertsNaming
  <2>9. text = "openssl" =>
           CoveringKeys(GroupsOf(S), day)
              \subseteq CoveringKeys(CoverageGroupsFromCt(ct, ip, text), day)
    BY <2>6, <2>7, <2>8
  <2>10. (FindCoverage(IpCoverage(seals, ip, text, TRUE), day) # None)
            = IsCovered(GroupsOf(S), day)
    BY <2>5, <2>6 DEF IsCovered
  <2> QED BY <2>3, <2>9, <2>10
<1> QED BY <1>1, Invariance, PTL

\* An RUUID for an address and a day: a certificate of the address is a genesis
\* for it exactly when its window has the day.
LEMMA GenesisIsOfTheDay ==
    ASSUME NEW ip \in Address, ~Ambiguous(ip), NEW day \in Values(DayBits),
           NEW c, c.ip = ip
    PROVE  CertIsGenesis(c, FromAnchor(ip, StructuredIdentifier(ParseDay(day), 0), 0))
              <=> HasDay(c, day)
<1> DEFINE i == StructuredIdentifier(ParseDay(day), 0)
           f == FromAnchor(ip, i, 0)
<1>1. day \in Int
  BY Widths, PowerType DEF Values
<1>2. ParseDay(day) \in Int /\ DaysSinceEpoch(ParseDay(day)) = day
  BY <1>1, DaysAreInstants
<1>3. 0 \in Values(SequenceBits)
  BY Widths, PowerType DEF Values
<1>4. FitsDay(ParseDay(day))
  BY <1>2 DEF FitsDay
<1>5. i \div 2 ^ SequenceBits = day
  BY <1>2, <1>3, <1>4, DayReadsBack
<1> HIDE DEF i
<1>6. f.network = NetworkOf(ip) /\ f.identifier = i
  BY DEF FromAnchor
<1> HIDE DEF f
<1>7. DayCount(f) = day
  BY <1>5, <1>6 DEF DayCount
<1>8. InNetwork(ip, f) /\ ip # None
  BY <1>6, AnchorReadsBack, MintingAssumption
<1>9. CertIsGenesis(c, f) <=> HasDay(c, day)
  BY <1>7, <1>8 DEF CertIsGenesis, HasDay
<1> QED BY <1>9 DEF f, i

\* The view without keys covers the days of the certificates it lists.
LEMMA WindowsCover ==
    ASSUME Shape, NEW ip, NEW text, NEW day \in Int
    PROVE  IsCovered(CoverageFromWindows(ct, ip, text), day)
              <=> text = ListedText(ip) /\ \E c \in CertsForIp(ct, ip) : HasDay(c, day)
<1> DEFINE listed == {c \in CertsForIp(ct, ip) : text = ListedText(ip)}
           spans == MergeDayIntervals({Interval(c) : c \in listed})
           g == [key |-> None, spans |-> spans]
<1>1. listed \in SUBSET ct
  BY DEF CertsForIp
<1>2. CoverageFromWindows(ct, ip, text) = IF spans = <<>> THEN {} ELSE {g}
  BY DEF CoverageFromWindows
<1>3. (\E c \in listed : HasDay(c, day))
         <=> text = ListedText(ip) /\ \E c \in CertsForIp(ct, ip) : HasDay(c, day)
  OBVIOUS
<1> HIDE DEF listed
<1>4. /\ spans = <<>> <=> listed = {}
      /\ FindCoverage(spans, day) # None <=> \E c \in listed : HasDay(c, day)
  BY <1>1, AddressHasCerts, MergeCovers
<1>5. g.spans = spans
  OBVIOUS
<1> HIDE DEF spans, g
<1>6. IsCovered({g}, day) <=> FindCoverage(g.spans, day) # None
  BY DEF IsCovered
<1>7. ~IsCovered({}, day)
  BY DEF IsCovered
<1>8. CASE spans = <<>>
  BY <1>2, <1>3, <1>4, <1>7, <1>8
<1>9. CASE spans # <<>>
  BY <1>2, <1>3, <1>4, <1>5, <1>6, <1>9
<1> QED BY <1>8, <1>9

\* A key covers a day exactly when one of its certificates makes it the genesis
\* key of an RUUID for the address and the day, and the windows alone cover the
\* same days (merge_day_intervals and crt.sh's windows on one side,
\* _cert_is_genesis on the other), each where its text of the address is the
\* one that is asked for; in another text nothing is covered.
THEOREM CoverageIsOfGenesis == Spec => []CoverageIsGenesis
<1>1. IInv => CoverageIsGenesis
  <2> SUFFICES ASSUME IInv, NEW a \in Typed, ~Ambiguous(a.ip), NEW day \in Values(DayBits)
               PROVE  LET f == FromAnchor(a.ip, StructuredIdentifier(ParseDay(day), 0), 0)
                          genesis == {c \in CertsForIp(ct, a.ip) : CertIsGenesis(c, f)}
                          covering == CoveringKeys(CoverageGroupsFromCt(ct, a.ip, a.text), day)
                      IN  /\ covering = IF a.text = "openssl" THEN {c.key : c \in genesis} ELSE {}
                          /\ IsCovered(CoverageFromWindows(ct, a.ip, a.text), day)
                                = (a.text = ListedText(a.ip) /\ genesis # {})
    BY DEF CoverageIsGenesis
  <2> DEFINE ip == a.ip
             text == a.text
             f == FromAnchor(ip, StructuredIdentifier(ParseDay(day), 0), 0)
             C == CertsForIp(ct, ip)
             genesis == {c \in C : CertIsGenesis(c, f)}
             covering == CoveringKeys(CoverageGroupsFromCt(ct, ip, text), day)
  <2>1. day \in Int /\ ip \in Address /\ Shape
    BY Widths, PowerType, TypedAddress DEF Values, IInv
  <2>2. covering = {c.key : c \in {x \in CertsNaming(ct, ip, text) : HasDay(x, day)}}
    BY <2>1, PublicKeys
  <2>3. \A c \in C : CertIsGenesis(c, f) <=> HasDay(c, day)
    BY <2>1, GenesisIsOfTheDay DEF CertsForIp
  <2>4. CertsNaming(ct, ip, text) = IF text = "openssl" THEN C ELSE {}
    BY DEF CertsNaming, CertsForIp
  <2>5. IsCovered(CoverageFromWindows(ct, ip, text), day)
           <=> text = ListedText(ip) /\ \E c \in C : HasDay(c, day)
    BY <2>1, WindowsCover
  <2> HIDE DEF C, f, covering
  <2>6. covering = IF text = "openssl" THEN {c.key : c \in genesis} ELSE {}
    BY <2>2, <2>3, <2>4
  <2>7. IsCovered(CoverageFromWindows(ct, ip, text), day)
           = (text = ListedText(ip) /\ genesis # {})
    BY <2>3, <2>5 DEF IsCovered
  <2> QED BY <2>6, <2>7 DEF covering, f, C
<1> QED BY <1>1, Invariance, PTL

\* A range from the first to the last covered day has every covered day, and no
\* other when the days are one span (document_disclaims).
LEMMA RangeIsRight ==
    ASSUME NEW spans \in Seq(Span), spans # <<>>, Within(spans), NEW day \in Int
    PROVE  LET range == [from |-> Head(spans).start, to |-> Last(spans).end]
           IN  /\ DocumentDisclaims(range, day) => ~InSpans(spans, day)
               /\ Len(spans) = 1 => (DocumentDisclaims(range, day) <=> ~InSpans(spans, day))
<1> DEFINE n == Len(spans)
           range == [from |-> Head(spans).start, to |-> Last(spans).end]
<1>1. n \in Nat /\ n > 0 /\ \A j \in 1..n : spans[j] \in Span
  BY EmptySeq, LenProperties, ElementOfSeq
<1>2. 1 \in 1..n /\ n \in 1..n
  BY <1>1
<1>3. \A j \in 1..n : spans[j].start \in Int /\ spans[j].end \in Int
  BY <1>1 DEF Span
<1>4. Head(spans) = spans[1] /\ Last(spans) = spans[n]
  BY HeadTailProperties DEF Last
<1>5. \A j \in 1..n : spans[1].start <= spans[j].start /\ spans[j].end <= spans[n].end
  BY DEF Within
<1>6. range.from = spans[1].start /\ range.to = spans[n].end
  BY <1>4
<1>7. range # None
  <2>1. range \in [from: Int, to: Int]
    BY <1>2, <1>3, <1>4
  <2> QED BY <2>1, NoneAssumption
<1>8. InSpans(spans, day) <=> \E j \in 1..n : Covers(spans[j], day)
  BY DEF InSpans
<1> HIDE DEF n, range
<1>9. DocumentDisclaims(range, day) <=> ~(spans[1].start <= day /\ day <= spans[n].end)
  BY <1>6, <1>7 DEF DocumentDisclaims
<1>10. ASSUME NEW j \in 1..n, Covers(spans[j], day)
       PROVE  spans[1].start <= day /\ day <= spans[n].end
  <2>1. spans[j].start <= day /\ day <= spans[j].end
    BY <1>10 DEF Covers
  <2>2. spans[1].start <= spans[j].start /\ spans[j].end <= spans[n].end
    BY <1>5
  <2>3. /\ spans[1].start \in Int /\ spans[n].end \in Int
        /\ spans[j].start \in Int /\ spans[j].end \in Int
    BY <1>2, <1>3
  <2> QED BY <2>1, <2>2, <2>3
<1>11. ASSUME n = 1
       PROVE  InSpans(spans, day) <=> spans[1].start <= day /\ day <= spans[n].end
  <2>1. \A j \in 1..n : j = 1
    BY <1>11
  <2> QED BY <1>2, <1>8, <1>11, <2>1 DEF Covers
<1> QED BY <1>8, <1>9, <1>10, <1>11 DEF n, range

\* A controller that claims its days from the first to the last disclaims none
\* that CT proves for it, and disclaims every other when they are one span: it
\* is called neither an impostor nor a successor by mistake (document_disclaims).
THEOREM HonestRangesAreRight == Spec => []HonestRangeIsRight
<1>1. IInv /\ Proper => HonestRangeIsRight
  <2> SUFFICES ASSUME IInv, Proper, NEW a \in Typed,
                      NEW g \in CoverageGroupsFromCt(ct, a.ip, a.text), NEW day \in Days
               PROVE  LET range == [from |-> Head(g.spans).start, to |-> Last(g.spans).end]
                          covered == FindCoverage(g.spans, day) # None
                      IN  /\ DocumentDisclaims(range, day) => ~covered
                          /\ Len(g.spans) = 1 => (DocumentDisclaims(range, day) = ~covered)
    BY DEF HonestRangeIsRight
  <2> DEFINE C == CertsNaming(ct, a.ip, a.text)
             of(k) == {x \in C : x.key = k}
             range == [from |-> Head(g.spans).start, to |-> Last(g.spans).end]
  <2>1. day \in Int
    BY DaysAreNumbers
  <2>2. AreCerts(C)
    BY AddressHasCerts DEF IInv, CertsNaming
  <2>3. \A c \in C : c.first <= c.last
    BY DEF Proper, CertsNaming
  <2>4. g \in GroupsOf(C)
    BY GroupsAreOfTheAddress
  <2> HIDE DEF C
  <2>5. PICK k \in {c.key : c \in C} :
           g = [key |-> k, spans |-> MergeDayIntervals({Interval(c) : c \in of(k)})]
    BY <2>4 DEF GroupsOf
  <2>6. AreCerts(of(k)) /\ of(k) # {} /\ \A c \in of(k) : c.first <= c.last
    BY <2>2, <2>3, FS_Subset DEF AreCerts
  <2> HIDE DEF of
  <2>7. g.spans = MergeDayIntervals({Interval(c) : c \in of(k)})
    BY <2>5
  <2>8. /\ g.spans \in Seq(Span) /\ g.spans # <<>> /\ Within(g.spans)
        /\ FindCoverage(g.spans, day) # None <=> InSpans(g.spans, day)
    BY <2>1, <2>6, <2>7, MergeCovers
  <2>9. /\ DocumentDisclaims(range, day) => ~InSpans(g.spans, day)
        /\ Len(g.spans) = 1 => (DocumentDisclaims(range, day) <=> ~InSpans(g.spans, day))
    BY <2>1, <2>8, RangeIsRight
  <2>10. DocumentDisclaims(range, day) \in BOOLEAN
    BY DEF DocumentDisclaims
  <2> HIDE DEF range
  <2>11. /\ DocumentDisclaims(range, day) => ~(FindCoverage(g.spans, day) # None)
         /\ Len(g.spans) = 1
               => (DocumentDisclaims(range, day) = ~(FindCoverage(g.spans, day) # None))
    BY <2>8, <2>9, <2>10
  <2> QED BY <2>11 DEF range
<1> QED BY <1>1, Invariance, CertsAreProper, PTL

\* A day that was covered for a key stays covered, whatever is issued later:
\* nothing leaves CT, and merging more windows loses no day.
THEOREM CoverageNeverShrinks == Spec => CoverageOnlyGrows
<1>1. IInv /\ IInv' /\ [Next]_vars
         => [ct' # ct =>
                \A a \in Typed, day \in Days :
                    CoveringKeys(CoverageGroupsFromCt(ct, a.ip, a.text), day)
                        \subseteq CoveringKeys(CoverageGroupsFromCt(ct', a.ip, a.text), day)]_vars
  <2> SUFFICES ASSUME IInv, IInv', [Next]_vars, NEW a \in Typed, NEW day \in Days
               PROVE  CoveringKeys(CoverageGroupsFromCt(ct, a.ip, a.text), day)
                         \subseteq CoveringKeys(CoverageGroupsFromCt(ct', a.ip, a.text), day)
    OBVIOUS
  <2> DEFINE ip == a.ip
             text == a.text
  <2>1. day \in Int
    BY DaysAreNumbers
  <2>2. Shape /\ Shape'
    BY DEF IInv
  <2>3. ct \subseteq ct'
    BY CtSteps
  <2>4. CoveringKeys(CoverageGroupsFromCt(ct, ip, text), day)
           = {c.key : c \in {x \in CertsNaming(ct, ip, text) : HasDay(x, day)}}
    BY <2>1, <2>2, PublicKeys
  <2>5. CoveringKeys(CoverageGroupsFromCt(ct', ip, text), day)
           = {c.key : c \in {x \in CertsNaming(ct', ip, text) : HasDay(x, day)}}
    <3>1. AreCerts(CertsNaming(ct', ip, text))
      <4>1. ct' \subseteq Cert /\ IsFiniteSet(ct')
        BY <2>2 DEF Shape
      <4>2. \A i \in Instant : i \in Int
        BY MintingAssumption DEF Instant, Larger
      <4>3. \A c \in ct' : c.serial \in Nat /\ c.first \in Int /\ c.last \in Int
        BY <4>1, <4>2 DEF Cert
      <4>4. CertsNaming(ct', ip, text) \in SUBSET ct'
        BY DEF CertsNaming
      <4> QED BY <4>1, <4>3, <4>4, FS_Subset DEF AreCerts
    <3> QED BY <2>1, <3>1, GroupsCover, GroupsAreOfTheAddress
  <2>6. CertsNaming(ct, ip, text) \subseteq CertsNaming(ct', ip, text)
    BY <2>3 DEF CertsNaming
  <2> QED BY <2>4, <2>5, <2>6
<1> QED BY <1>1, Invariance, PTL DEF Spec, CoverageOnlyGrows

=============================================================================
