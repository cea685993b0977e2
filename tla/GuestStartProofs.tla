--------------------------- MODULE GuestStartProofs ---------------------------
(***************************************************************************)
(* Proofs about GuestStart, the room code it begins with and the           *)
(* add_port_forward it calls: a code that was typed is read as the room's, *)
(* whose network is its own, and whoever is let in is in that network and  *)
(* has every port, whatever became of the CLI processes, each of which is  *)
(* waited for.                                                             *)
(*                                                                         *)
(* The first part is about RoomCode: from_value and the loop of parse are  *)
(* inverse, a window of the text is the code of a room exactly when parse  *)
(* takes it for one, and no two rooms have a network in common.            *)
(*                                                                         *)
(* In the second, after lemmas about swap_remove and the list of rules,    *)
(* the invariant is split into what it says of the vector of rules         *)
(* (Vector), of the rest (Around) and of both (RulesCovered), with a lemma *)
(* for each action.                                                        *)
(***************************************************************************)
EXTENDS GuestStart, FiniteSetTheorems, TLAPS

(* Room codes. *)

\* The loop of parse over the digits of a code, whose body is WithDigit.
Digitwise == INSTANCE Loops WITH Body <- WithDigit

\* The sizes of a code.
LEMMA CodeSizes ==
  /\ Base \in Nat \ {0}
  /\ Group \in Nat \ {0}
  /\ Digits \in Nat \ {0} /\ Digits = 4 * Group
  /\ Size \in Nat /\ Size = 4 * Group + 5
  /\ DOMAIN Chars = 1 .. Base
  /\ \A i, j \in 1 .. Base : Chars[i] = Chars[j] => i = j
<1>1. Chars \in Seq(STRING) /\ IsInjective(Chars) /\ Group \in Nat \ {0}
  BY RoomCodeAssumption
<1>2. Base \in Nat /\ DOMAIN Chars = 1 .. Base
  BY <1>1 DEF Base
<1>3. Base # 0
  <2>1. "0" \in ToSet(Chars)
    BY RoomCodeAssumption
  <2>2. PICK i \in DOMAIN Chars : Chars[i] = "0"
    BY <2>1 DEF ToSet
  <2>3. QED
    BY <1>2, <2>2
<1>4. \A i, j \in 1 .. Base : Chars[i] = Chars[j] => i = j
  BY <1>1, <1>2 DEF IsInjective
<1>5. Digits \in Nat \ {0} /\ Digits = 4 * Group
  BY <1>1 DEF Digits
<1>6. QED
  BY <1>1, <1>2, <1>3, <1>4, <1>5 DEF Size

\* Division by a product is division by its factors.
LEMMA DivisionTwice ==
  ASSUME NEW v \in Nat, NEW p \in Nat \ {0}, NEW b \in Nat \ {0}
  PROVE  (v \div p) \div b = v \div (p * b)
<1> DEFINE q == v \div p
<1> DEFINE r == v % p
<1> DEFINE s == q \div b
<1> DEFINE t == q % b
<1>1. q \in Nat /\ r \in 0 .. p - 1 /\ v = p * q + r
  OBVIOUS
<1> HIDE DEF q, r
<1>2. s \in Nat /\ t \in 0 .. b - 1 /\ q = b * s + t
  BY <1>1
<1> HIDE DEF s, t
<1>3. p * b \in Nat \ {0} /\ p * t \in Nat /\ p * s \in Nat /\ (p * b) * s \in Nat
  BY <1>2
<1>4. v = (p * b) * s + (p * t + r)
  <2>1. p * q = (p * b) * s + p * t
    BY <1>1, <1>2
  <2>2. QED
    BY <1>1, <1>2, <1>3, <2>1
<1>5. p * t + r \in 0 .. p * b - 1
  <2>1. p * t <= p * (b - 1)
    BY <1>2
  <2>2. p * (b - 1) = p * b - p
    OBVIOUS
  <2>3. QED
    BY <1>1, <1>2, <1>3, <2>1, <2>2
<1> DEFINE m == p * b
<1> DEFINE rest == p * t + r
<1>6. m \in Nat \ {0} /\ rest \in 0 .. m - 1 /\ v = m * s + rest
  BY <1>3, <1>4, <1>5
<1>7. s = v \div m
  <2> HIDE DEF m, rest
  <2>1. QED
    BY <1>2, <1>6
<1>8. QED
  BY <1>7 DEF s, q

\* A number is its quotient and its remainder, and these are all it is.
LEMMA DivisionParts ==
  ASSUME NEW v \in Nat, NEW b \in Nat \ {0}
  PROVE  v \div b \in Nat /\ v % b \in 0 .. b - 1 /\ v = (v \div b) * b + (v % b)
OBVIOUS

LEMMA DivisionOf ==
  ASSUME NEW q \in Nat, NEW b \in Nat \ {0}, NEW r \in 0 .. b - 1
  PROVE  (q * b + r) \div b = q /\ (q * b + r) % b = r
OBVIOUS

\* A product grows by one of its factors when the other grows.
LEMMA ProductGrows ==
  ASSUME NEW b \in Nat, NEW n \in Nat, NEW m \in Nat, n + 1 <= m
  PROVE  n * b + b <= m * b
<1>1. PICK k \in Nat : m = n + 1 + k
  <2>1. m - (n + 1) \in Nat /\ m = n + 1 + (m - (n + 1))
    OBVIOUS
  <2>2. QED
    BY <2>1
<1>2. m * b = n * b + b + k * b
  BY <1>1
<1>3. n * b \in Nat /\ k * b \in Nat
  BY <1>1
<1>4. QED
  BY <1>2, <1>3

\* Powers of the base.
LEMMA Powers ==
  /\ Power[0] = 1
  /\ \A k \in 0 .. Digits : Power[k] \in Nat \ {0}
  /\ \A k \in 0 .. Digits - 1 : Power[k + 1] = Power[k] * Base
<1> DEFINE IsPower(f, n) == f = [k \in 0 .. n |-> IF k = 0 THEN 1 ELSE f[k - 1] * Base]
<1> DEFINE G == {n \in Nat : \E f : IsPower(f, n)}
<1>0. Base \in Nat \ {0} /\ Digits \in Nat
  BY CodeSizes
<1>1. 0 \in G
  <2>1. IsPower([k \in 0 .. 0 |-> 1], 0)
    OBVIOUS
  <2>2. QED
    BY <2>1
<1>2. ASSUME NEW n \in G PROVE n + 1 \in G
  <2>1. PICK f : IsPower(f, n)
    OBVIOUS
  <2> DEFINE g == [k \in 0 .. n + 1 |-> IF k = n + 1 THEN f[n] * Base ELSE f[k]]
  <2>2. IsPower(g, n + 1)
    <3>1. ASSUME NEW k \in 0 .. n + 1
          PROVE  g[k] = IF k = 0 THEN 1 ELSE g[k - 1] * Base
      <4>1. CASE k = n + 1
        BY <4>1
      <4>2. CASE k # n + 1
        <5>1. k \in 0 .. n /\ (k # 0 => k - 1 \in 0 .. n)
          BY <4>2
        <5>2. f[k] = IF k = 0 THEN 1 ELSE f[k - 1] * Base
          BY <2>1, <5>1
        <5>3. QED
          BY <4>2, <5>1, <5>2
      <4>3. QED
        BY <4>1, <4>2
    <3>2. g = [k \in 0 .. n + 1 |-> g[k]]
      OBVIOUS
    <3> HIDE DEF g
    <3>3. QED
      BY <3>1, <3>2
  <2>3. n \in Nat /\ n + 1 \in Nat
    OBVIOUS
  <2> HIDE DEF g, IsPower
  <2>4. QED
    BY <2>2, <2>3
<1>3. \E f : IsPower(f, Digits)
  <2>1. G \subseteq Nat
    OBVIOUS
  <2> HIDE DEF G
  <2>2. G = Nat
    BY <1>1, <1>2, <2>1, Digitwise!NatInd
  <2>3. QED
    BY <1>0, <2>2 DEF G
<1>4. IsPower(Power, Digits)
  BY <1>3 DEF Power
<1>5. /\ Power[0] = 1
      /\ \A k \in 0 .. Digits - 1 : Power[k + 1] = Power[k] * Base
  BY <1>0, <1>4
<1> DEFINE P == {n \in Nat : n <= Digits => Power[n] \in Nat \ {0}}
<1>6. ASSUME NEW n \in P PROVE n + 1 \in P
  <2>1. CASE n + 1 <= Digits
    <3>1. Power[n] \in Nat \ {0} /\ Power[n + 1] = Power[n] * Base
      BY <1>0, <1>5, <2>1
    <3>2. QED
      BY <1>0, <3>1
  <2>2. QED
    BY <2>1
<1>7. P = Nat
  <2>1. P \subseteq Nat /\ 0 \in P
    BY <1>5
  <2> HIDE DEF P
  <2>2. QED
    BY <1>6, <2>1, Digitwise!NatInd
<1>8. QED
  BY <1>0, <1>5, <1>7

-----------------------------------------------------------------------------

\* Division by the powers of the base.
LEMMA Quotients ==
  ASSUME NEW v \in Nat
  PROVE  /\ v \div Power[0] = v
         /\ \A k \in 0 .. Digits : v \div Power[k] \in Nat
         /\ \A k \in 0 .. Digits - 1 : (v \div Power[k]) \div Base = v \div Power[k + 1]
         /\ \A k \in 1 .. Digits : (v \div Base) \div Power[k - 1] = v \div Power[k]
<1>0. Base \in Nat \ {0} /\ Digits \in Nat
  BY CodeSizes
<1>1. v \div Power[0] = v
  BY Powers
<1>2. \A k \in 0 .. Digits : v \div Power[k] \in Nat
  BY Powers, DivisionParts
<1>3. ASSUME NEW k \in 0 .. Digits - 1
      PROVE  (v \div Power[k]) \div Base = v \div Power[k + 1]
  <2>1. Power[k] \in Nat \ {0} /\ Power[k + 1] = Power[k] * Base
    BY <1>0, Powers
  <2>2. QED
    BY <1>0, <2>1, DivisionTwice
<1>4. ASSUME NEW k \in 1 .. Digits
      PROVE  (v \div Base) \div Power[k - 1] = v \div Power[k]
  <2>1. k - 1 \in 0 .. Digits - 1 /\ (k - 1) + 1 = k
    BY <1>0
  <2>2. Power[k - 1] \in Nat \ {0} /\ Power[k] = Power[k - 1] * Base
    BY <1>0, <2>1, Powers
  <2>3. Power[k] = Base * Power[k - 1]
    BY <1>0, <2>2
  <2>4. (v \div Base) \div Power[k - 1] = v \div (Base * Power[k - 1])
    BY <1>0, <2>2, DivisionTwice
  <2>5. QED
    BY <2>3, <2>4
<1>5. QED
  BY <1>1, <1>2, <1>3, <1>4

\* What from_value writes are digits.
LEMMA DigitsTyped ==
  ASSUME NEW v \in Nat
  PROVE  /\ DOMAIN DigitsOf(v) = 1 .. Digits
         /\ DigitsOf(v) \in Seq(0 .. Base - 1)
         /\ \A i \in 1 .. Digits : /\ DigitsOf(v)[i] = (v \div Power[i - 1]) % Base
                                   /\ DigitsOf(v)[i] \in 0 .. Base - 1
<1>1. Base \in Nat \ {0} /\ Digits \in Nat
  BY CodeSizes
<1>2. \A i \in 1 .. Digits : (v \div Power[i - 1]) % Base \in 0 .. Base - 1
  <2> SUFFICES ASSUME NEW i \in 1 .. Digits
               PROVE  (v \div Power[i - 1]) % Base \in 0 .. Base - 1
    OBVIOUS
  <2>1. i - 1 \in 0 .. Digits
    BY <1>1
  <2>2. v \div Power[i - 1] \in Nat
    BY <2>1, Quotients
  <2>3. QED
    BY <1>1, <2>2, DivisionParts
<1>3. DigitsOf(v) = [i \in 1 .. Digits |-> (v \div Power[i - 1]) % Base]
  BY DEF DigitsOf
<1>4. DigitsOf(v) \in [1 .. Digits -> 0 .. Base - 1]
  BY <1>2, <1>3
<1>5. QED
  BY <1>1, <1>3, <1>4

\* The number that digits stand for, read as parse does, from the highest.
Reading(digits) == Digitwise!Loop(0, [k \in 1 .. Digits |-> digits[Digits + 1 - k]])

\* Reading what from_value wrote gives the number: after k digits it is what is
\* left of the number when the lower ones are cut off.
LEMMA ReadingOfDigits ==
  ASSUME NEW v \in Numbers
  PROVE  Reading(DigitsOf(v)) = v
<1> DEFINE items == [k \in 1 .. Digits |-> DigitsOf(v)[Digits + 1 - k]]
<1> DEFINE I == {p \in Nat \X Nat : p[1] <= Digits => p[2] = v \div Power[Digits - p[1]]}
<1>0. /\ Base \in Nat \ {0} /\ Digits \in Nat \ {0}
      /\ Power[Digits] \in Nat \ {0} /\ v \in Nat /\ v < Power[Digits]
  BY CodeSizes, Powers DEF Numbers
<1>1. items \in Seq(Nat) /\ Len(items) = Digits /\ DOMAIN items = 1 .. Digits
  <2>1. \A k \in 1 .. Digits : DigitsOf(v)[Digits + 1 - k] \in Nat
    BY <1>0, DigitsTyped
  <2>2. items \in [1 .. Digits -> Nat]
    BY <2>1
  <2>3. QED
    BY <1>0, <2>2
<1>2. \A k \in 0 .. Digits - 1 : items[k + 1] = (v \div Power[Digits - (k + 1)]) % Base
  BY <1>0, DigitsTyped
<1> HIDE DEF items
<1>3. <<0, 0>> \in I
  <2>1. v \div Power[Digits] = 0
    BY <1>0
  <2>2. QED
    BY <1>0, <2>1
<1>4. ASSUME NEW k \in 0 .. Digits - 1, NEW acc, <<k, acc>> \in I
      PROVE  <<k + 1, WithDigit(acc, items[k + 1])>> \in I
  <2> DEFINE n == Digits - (k + 1)
  <2> DEFINE q == v \div Power[n]
  <2>1. n \in 0 .. Digits - 1 /\ n + 1 = Digits - k
    BY <1>0
  <2>2. acc = v \div Power[n + 1]
    BY <1>0, <1>4, <2>1
  <2>3. q \in Nat /\ q \div Base = acc
    BY <1>0, <2>1, <2>2, Quotients
  <2>4. items[k + 1] = q % Base
    BY <1>2
  <2> HIDE DEF q
  <2>5. WithDigit(acc, items[k + 1]) = q
    <3>1. q = (q \div Base) * Base + (q % Base)
      BY <1>0, <2>3, DivisionParts
    <3>2. QED
      BY <2>3, <2>4, <3>1 DEF WithDigit
  <2>6. QED
    BY <1>0, <2>3, <2>5 DEF q
<1> HIDE DEF I
<1>5. <<Digits, Digitwise!Loop(0, items)>> \in I
  BY <1>1, <1>3, <1>4, Digitwise!LoopInvariant
<1>6. Digitwise!Loop(0, items) = v \div Power[0]
  BY <1>0, <1>5 DEF I
<1>7. QED
  BY <1>0, <1>6, Quotients DEF Reading, items

\* And what is read is a number whose digits are those.
LEMMA DigitsOfReading ==
  ASSUME NEW digits, \A i \in 1 .. Digits : digits[i] \in 0 .. Base - 1
  PROVE  /\ Reading(digits) \in Numbers
         /\ \A i \in 1 .. Digits : DigitsOf(Reading(digits))[i] = digits[i]
<1> DEFINE items == [k \in 1 .. Digits |-> digits[Digits + 1 - k]]
<1> DEFINE Holds(k, acc) ==
      /\ acc < Power[k]
      /\ \A j \in 0 .. k - 1 : (acc \div Power[j]) % Base = digits[Digits - k + 1 + j]
<1> DEFINE I == {p \in Nat \X Nat : p[1] <= Digits => Holds(p[1], p[2])}
<1>0. Base \in Nat \ {0} /\ Digits \in Nat \ {0}
  BY CodeSizes
<1>1. items \in Seq(Nat) /\ Len(items) = Digits /\ DOMAIN items = 1 .. Digits
  <2>1. items \in [1 .. Digits -> Nat]
    BY <1>0
  <2>2. QED
    BY <1>0, <2>1
<1>2. \A k \in 0 .. Digits - 1 : /\ items[k + 1] = digits[Digits - k]
                                 /\ items[k + 1] \in 0 .. Base - 1
  BY <1>0
<1> HIDE DEF items
<1>3. <<0, 0>> \in I
  BY <1>0, Powers
<1>4. ASSUME NEW k \in 0 .. Digits - 1, NEW acc, <<k, acc>> \in I
      PROVE  <<k + 1, WithDigit(acc, items[k + 1])>> \in I
  <2> DEFINE d == items[k + 1]
  <2> DEFINE new == acc * Base + d
  <2>1. acc \in Nat /\ Holds(k, acc) /\ k <= Digits
    BY <1>0, <1>4
  <2>2. d = digits[Digits - k] /\ d \in 0 .. Base - 1
    BY <1>2
  <2> HIDE DEF d
  <2>3. new \in Nat /\ new \div Base = acc /\ new % Base = d
    <3>1. acc \in Nat /\ acc * Base \in Nat
      BY <1>0, <2>1
    <3>2. new \in Nat
      BY <2>2, <3>1
    <3>3. new \div Base = acc /\ new % Base = d
      BY <1>0, <2>2, <3>1, DivisionOf
    <3>4. QED
      BY <3>2, <3>3
  <2>4. new < Power[k + 1]
    <3>1. /\ Power[k] \in Nat \ {0} /\ Power[k + 1] = Power[k] * Base
          /\ acc + 1 <= Power[k]
      BY <1>0, <2>1, Powers
    <3>2. acc * Base + Base <= Power[k] * Base
      BY <1>0, <2>1, <3>1, ProductGrows
    <3>3. acc * Base \in Nat /\ Power[k] * Base \in Nat
      BY <1>0, <2>1, <3>1
    <3>4. QED
      BY <1>0, <2>2, <3>1, <3>2, <3>3
  <2> HIDE DEF new
  <2>5. ASSUME NEW j \in 0 .. k
        PROVE  (new \div Power[j]) % Base = digits[Digits - (k + 1) + 1 + j]
    <3>1. CASE j = 0
      <4>1. new \div Power[0] = new
        BY <2>3, Quotients
      <4>2. Digits - (k + 1) + 1 + j = Digits - k
        BY <1>0, <3>1
      <4>3. QED
        BY <2>2, <2>3, <3>1, <4>1, <4>2
    <3>2. CASE j # 0
      <4>1. j \in 1 .. Digits /\ j - 1 \in 0 .. k - 1
        BY <1>0, <3>2
      <4>2. new \div Power[j] = acc \div Power[j - 1]
        BY <2>3, <4>1, Quotients
      <4>3. Digits - k + 1 + (j - 1) = Digits - (k + 1) + 1 + j
        BY <1>0
      <4>4. (acc \div Power[j - 1]) % Base = digits[Digits - k + 1 + (j - 1)]
        BY <2>1, <4>1
      <4>5. QED
        BY <4>2, <4>3, <4>4
    <3>3. QED
      BY <3>1, <3>2
  <2>6. WithDigit(acc, items[k + 1]) = new
    BY DEF WithDigit, new, d
  <2>7. Holds(k + 1, new)
    BY <2>4, <2>5
  <2> HIDE DEF Holds
  <2>8. QED
    BY <2>3, <2>6, <2>7
<1> HIDE DEF I
<1>5. <<Digits, Digitwise!Loop(0, items)>> \in I
  BY <1>1, <1>3, <1>4, Digitwise!LoopInvariant
<1> DEFINE v == Reading(digits)
<1>6. v = Digitwise!Loop(0, items)
  BY DEF Reading, items
<1>7. v \in Nat /\ Holds(Digits, v)
  BY <1>0, <1>5, <1>6 DEF I
<1> HIDE DEF v
<1>8. v \in Numbers
  BY <1>0, <1>7, Powers DEF Numbers
<1>9. ASSUME NEW i \in 1 .. Digits PROVE DigitsOf(v)[i] = digits[i]
  <2>1. i - 1 \in 0 .. Digits - 1 /\ Digits - Digits + 1 + (i - 1) = i
    BY <1>0
  <2>2. (v \div Power[i - 1]) % Base = digits[i]
    BY <1>7, <2>1
  <2>3. QED
    BY <1>7, <2>2, DigitsTyped
<1>10. QED
  BY <1>8, <1>9 DEF v

-----------------------------------------------------------------------------

\* A digit's place in a code is no dash, and the digit at that place is it.
LEMMA PlacesOfDigits ==
  ASSUME NEW d \in 1 .. Digits
  PROVE  PlaceOf(d) \in 3 .. Size /\ ~IsDash(PlaceOf(d)) /\ DigitAt(PlaceOf(d)) = d
<1> DEFINE q == (d - 1) \div Group
<1> DEFINE r == (d - 1) % Group
<1>0. Group \in Nat \ {0} /\ Group + 1 \in Nat \ {0} /\ d - 1 \in Nat /\ d <= 4 * Group
      /\ Size = 4 * Group + 5 /\ d \in Nat
  BY CodeSizes
<1>1. q \in Nat /\ r \in 0 .. Group - 1 /\ d - 1 = q * Group + r
  BY <1>0, DivisionParts
<1>2. PlaceOf(d) = 2 + d + q
  BY DEF PlaceOf
<1> HIDE DEF q, r
<1>3. q <= 3
  <2>1. CASE q >= 4
    <3>1. q * Group >= 4 * Group
      BY <1>0, <1>1, <2>1
    <3>2. QED
      BY <1>0, <1>1, <3>1
  <2>2. QED
    BY <1>1, <2>1
<1>4. PlaceOf(d) - 2 = q * (Group + 1) + (r + 1)
  <2>1. q * (Group + 1) = q * Group + q
    BY <1>0, <1>1
  <2>2. QED
    BY <1>0, <1>1, <1>2, <2>1
<1>5. r + 1 \in 0 .. (Group + 1) - 1
  BY <1>0, <1>1
<1>6. (PlaceOf(d) - 2) \div (Group + 1) = q /\ (PlaceOf(d) - 2) % (Group + 1) = r + 1
  <2> DEFINE m == Group + 1
  <2> DEFINE t == r + 1
  <2>1. m \in Nat \ {0} /\ t \in 0 .. m - 1 /\ PlaceOf(d) - 2 = q * m + t
    BY <1>0, <1>4, <1>5
  <2>2. Group + 1 = m /\ r + 1 = t
    OBVIOUS
  <2> HIDE DEF m, t
  <2>3. QED
    BY <1>1, <2>1, <2>2, DivisionOf
<1>7. PlaceOf(d) \in 3 .. Size
  BY <1>0, <1>1, <1>2, <1>3
<1>8. ~IsDash(PlaceOf(d))
  BY <1>1, <1>6 DEF IsDash
<1>9. DigitAt(PlaceOf(d)) = d
  BY <1>0, <1>1, <1>2, <1>6 DEF DigitAt
<1>10. QED
  BY <1>7, <1>8, <1>9

\* Every other place behind the prefix that is no dash is that of a digit.
LEMMA DigitsAtPlaces ==
  ASSUME NEW i \in 3 .. Size, ~IsDash(i)
  PROVE  DigitAt(i) \in 1 .. Digits /\ PlaceOf(DigitAt(i)) = i
<1> DEFINE q == (i - 2) \div (Group + 1)
<1> DEFINE r == (i - 2) % (Group + 1)
<1>0. Group \in Nat \ {0} /\ Group + 1 \in Nat \ {0} /\ i - 2 \in Nat /\ i <= 4 * Group + 5
      /\ Digits = 4 * Group /\ i \in Nat /\ i > 2
  BY CodeSizes
<1>1. q \in Nat /\ r \in 0 .. Group /\ i - 2 = q * (Group + 1) + r
  <2> DEFINE m == Group + 1
  <2> DEFINE n == i - 2
  <2>1. m \in Nat \ {0} /\ n \in Nat
    BY <1>0
  <2>2. n \div m \in Nat /\ n % m \in 0 .. m - 1 /\ n = (n \div m) * m + (n % m)
    <3> HIDE DEF m, n
    <3>1. QED
      BY <2>1, DivisionParts
  <2>3. m - 1 = Group
    BY <1>0
  <2>4. QED
    BY <2>2, <2>3
<1>2. r # 0
  BY <1>0 DEF IsDash
<1>3. DigitAt(i) = i - 2 - q
  BY DEF DigitAt
<1> HIDE DEF q, r
<1>4. q <= 3
  <2>1. CASE q >= 4
    <3>1. q * (Group + 1) >= 4 * (Group + 1)
      BY <1>0, <1>1, <2>1
    <3>2. QED
      BY <1>0, <1>1, <1>2, <3>1
  <2>2. QED
    BY <1>1, <2>1
<1>5. DigitAt(i) - 1 = q * Group + (r - 1)
  <2>1. q * (Group + 1) = q * Group + q
    BY <1>0, <1>1
  <2>2. q * Group \in Nat
    BY <1>0, <1>1
  <2>3. QED
    BY <1>0, <1>1, <1>3, <2>1, <2>2
<1>6. r - 1 \in 0 .. Group - 1 /\ q * Group \in Nat /\ q * Group <= 3 * Group
  BY <1>0, <1>1, <1>2, <1>4
<1>7. (DigitAt(i) - 1) \div Group = q
  <2> DEFINE t == r - 1
  <2>1. t \in 0 .. Group - 1 /\ DigitAt(i) - 1 = q * Group + t
    BY <1>5, <1>6
  <2> HIDE DEF t
  <2>2. (q * Group + t) \div Group = q
    BY <1>0, <1>1, <2>1, DivisionOf
  <2>3. QED
    BY <2>1, <2>2
<1>8. DigitAt(i) \in 1 .. Digits
  <2>1. DigitAt(i) \in Int
    BY <1>0, <1>1, <1>3
  <2>2. QED
    BY <1>0, <1>5, <1>6, <2>1
<1>9. PlaceOf(DigitAt(i)) = i
  BY <1>0, <1>1, <1>3, <1>7 DEF PlaceOf
<1>10. QED
  BY <1>8, <1>9

\* A character is looked up as the one it is read as.
LEMMA LookupReads ==
  ASSUME NEW c
  PROVE  /\ LookupChar(Upper(c)) \in 0 .. Base
         /\ \A d \in 0 .. Base - 1 : LookupChar(Upper(c)) = d <=> Legible(c) = Chars[d + 1]
<1> DEFINE found == {j \in DOMAIN Chars : Chars[j] = Legible(c)}
<1>0. /\ Base \in Nat \ {0} /\ DOMAIN Chars = 1 .. Base
      /\ \A i, j \in 1 .. Base : Chars[i] = Chars[j] => i = j
  BY CodeSizes
<1>1. LookupChar(Upper(c)) = IF found = {} THEN Base ELSE (CHOOSE j \in found : TRUE) - 1
  BY DEF LookupChar, Legible
<1>2. \A d \in 0 .. Base - 1 : d + 1 \in 1 .. Base
  BY <1>0
<1>3. CASE found = {}
  BY <1>0, <1>1, <1>2, <1>3
<1>4. ASSUME NEW j \in found
      PROVE  /\ LookupChar(Upper(c)) = j - 1 /\ j \in 1 .. Base /\ Chars[j] = Legible(c)
             /\ \A k \in 1 .. Base : Legible(c) = Chars[k] <=> k = j
  <2>1. j \in 1 .. Base /\ Chars[j] = Legible(c)
    BY <1>0
  <2>2. \A k \in found : k = j
    BY <1>0, <2>1
  <2> HIDE DEF found
  <2>3. (CHOOSE k \in found : TRUE) = j
    BY <2>2
  <2>4. QED
    BY <1>0, <1>1, <2>1, <2>3
<1> HIDE DEF found
<1>5. ASSUME NEW j \in found
      PROVE  /\ LookupChar(Upper(c)) \in 0 .. Base
             /\ \A d \in 0 .. Base - 1 : LookupChar(Upper(c)) = d <=> Legible(c) = Chars[d + 1]
  <2>1. LookupChar(Upper(c)) = j - 1 /\ j \in 1 .. Base
    BY <1>4
  <2>2. \A d \in 0 .. Base - 1 : Legible(c) = Chars[d + 1] <=> d + 1 = j
    BY <1>2, <1>4
  <2>3. QED
    BY <1>0, <2>1, <2>2
<1>6. QED
  BY <1>3, <1>5

\* The other characters of a code are read as themselves.
LEMMA SignsRead ==
  ASSUME NEW c
  PROVE  /\ Legible(c) = "U" <=> Upper(c) = "U"
         /\ Legible(c) = "/" <=> Upper(c) = "/"
         /\ Legible(c) = "-" <=> Upper(c) = "-"
BY DEF Legible

\* The digits at the places of a window.
Lookups(w) == [d \in 1 .. Digits |-> LookupChar(w[PlaceOf(d)])]

\* The value of a window is what parse reads from its digits.
LEMMA ValueIsReading ==
  ASSUME NEW w
  PROVE  ValueOf(w) = Reading(Lookups(w))
<1>1. Digits \in Nat
  BY CodeSizes
<1>2. [k \in 1 .. Digits |-> LookupChar(w[PlaceOf(Digits + 1 - k)])]
        = [k \in 1 .. Digits |-> Lookups(w)[Digits + 1 - k]]
  BY <1>1 DEF Lookups
<1>3. ValueOf(w) = Digitwise!Loop(0, [k \in 1 .. Digits |-> LookupChar(w[PlaceOf(Digits + 1 - k)])])
  BY DEF ValueOf, Digitwise!Loop, FoldLeft, Digitwise!FoldLeft, MapThenFoldSet,
         Digitwise!MapThenFoldSet, Max, Digitwise!Max
<1>4. QED
  BY <1>2, <1>3 DEF Reading

\* What a window of a text shows at its places, and which rooms it is the code of.
Window(t, k) == [i \in 1 .. Size |-> Upper(t[k + i - 1])]

RoomsAt(t, k) ==
  {room \in Rooms : \A i \in 1 .. Size : Legible(t[k + i - 1]) = CodeOf[room][i]}

\* Rooms are the numbers that create_room makes: the multiples of Modulus.
LEMMA RoomNumbers == Rooms = {v \in Numbers : v % Modulus = 0}
<1>0. Modulus \in Nat \ {0} /\ Power[Digits] \in Nat \ {0}
  BY RoomCodeAssumption, Powers, CodeSizes
<1>1. ASSUME NEW v \in Numbers PROVE Rounded(v) \in Numbers /\ Rounded(v) % Modulus = 0
  <2>1. v \in Nat /\ v < Power[Digits]
    BY <1>0, <1>1 DEF Numbers
  <2> DEFINE q == v \div Modulus
  <2> DEFINE r == v % Modulus
  <2>2. q \in Nat /\ r \in 0 .. Modulus - 1 /\ v = q * Modulus + r
    BY <1>0, <2>1, DivisionParts
  <2>3. Rounded(v) = v - r
    BY DEF Rounded
  <2> HIDE DEF q, r
  <2>4. q * Modulus \in Nat
    BY <1>0, <2>2
  <2>5. Rounded(v) = q * Modulus + 0 /\ Rounded(v) \in Nat /\ Rounded(v) <= v
    BY <1>0, <2>1, <2>2, <2>3, <2>4
  <2>6. 0 \in 0 .. Modulus - 1
    BY <1>0
  <2>7. (q * Modulus + 0) % Modulus = 0
    BY <1>0, <2>2, <2>6, DivisionOf
  <2>8. Rounded(v) % Modulus = 0
    BY <2>5, <2>7
  <2>9. Rounded(v) \in Numbers
    BY <1>0, <2>1, <2>5 DEF Numbers
  <2>10. QED
    BY <2>8, <2>9
<1>2. ASSUME NEW v \in Numbers, v % Modulus = 0 PROVE v \in Rooms
  <2>1. Rounded(v) = v
    BY <1>0, <1>2 DEF Rounded, Numbers
  <2>2. QED
    BY <2>1 DEF Rooms
<1>3. QED
  BY <1>1, <1>2 DEF Rooms

\* A window that parse accepts has a number as its value, whose digits are
\* those looked up.
LEMMA CodesHaveValues ==
  ASSUME NEW w, IsCode(w), \A i \in 1 .. Size : \E c : w[i] = Upper(c)
  PROVE  /\ ValueOf(w) \in Numbers
         /\ \A d \in 1 .. Digits : /\ Lookups(w)[d] \in 0 .. Base - 1
                                   /\ DigitsOf(ValueOf(w))[d] = Lookups(w)[d]
<1>0. Base \in Nat \ {0}
  BY CodeSizes
<1>1. ASSUME NEW d \in 1 .. Digits PROVE Lookups(w)[d] \in 0 .. Base - 1
  <2>1. PlaceOf(d) \in 3 .. Size /\ ~IsDash(PlaceOf(d)) /\ PlaceOf(d) \in 1 .. Size
    <3>1. PlaceOf(d) \in 3 .. Size /\ ~IsDash(PlaceOf(d)) /\ Size \in Nat
      BY PlacesOfDigits, CodeSizes
    <3>2. QED
      BY <3>1
  <2>2. LookupChar(w[PlaceOf(d)]) # Base
    BY <2>1 DEF IsCode
  <2>3. LookupChar(w[PlaceOf(d)]) \in 0 .. Base
    BY <2>1, LookupReads
  <2>4. Lookups(w)[d] = LookupChar(w[PlaceOf(d)])
    BY DEF Lookups
  <2>5. QED
    BY <1>0, <2>2, <2>3, <2>4
<1>2. QED
  BY <1>1, ValueIsReading, DigitsOfReading

\* A window is read as the code of a room exactly when parse accepts it and
\* gets the room as its value.
LEMMA WindowMatches ==
  ASSUME NEW t, NEW k, NEW room \in Numbers
  PROVE  (\A i \in 1 .. Size : Legible(t[k + i - 1]) = Code(room)[i])
           <=> IsCode(Window(t, k)) /\ ValueOf(Window(t, k)) = room
<1> DEFINE w == Window(t, k)
<1> DEFINE c(i) == t[k + i - 1]
<1>0. /\ Base \in Nat \ {0} /\ Size \in Nat /\ Size >= 5 /\ room \in Nat
      /\ 1 \in 1 .. Size /\ 2 \in 1 .. Size
  BY CodeSizes, Powers DEF Numbers
<1>1. \A i \in 1 .. Size : w[i] = Upper(c(i))
  BY DEF Window
<1>2. /\ Code(room)[1] = "U"
      /\ Code(room)[2] = "/"
      /\ \A i \in 3 .. Size :
           Code(room)[i] = IF IsDash(i) THEN "-" ELSE Chars[DigitsOf(room)[DigitAt(i)] + 1]
  <2>1. ~IsDash(1) /\ ~IsDash(2)
    BY DEF IsDash
  <2>2. \A i \in 3 .. Size : i # 1 /\ i # 2 /\ i \in 1 .. Size
    OBVIOUS
  <2>3. QED
    BY <1>0, <2>1, <2>2 DEF Code
<1>3. \A i \in 1 .. Size : i = 1 \/ i = 2 \/ i \in 3 .. Size
  BY <1>0
<1>4. \A i \in 3 .. Size : i \in 1 .. Size
  OBVIOUS
<1> HIDE DEF w, c
<1>5. ASSUME \A i \in 1 .. Size : Legible(c(i)) = Code(room)[i]
      PROVE  IsCode(w) /\ ValueOf(w) = room
  <2>1. w[1] = "U" /\ w[2] = "/"
    BY <1>0, <1>1, <1>2, <1>5, SignsRead
  <2>2. ASSUME NEW i \in 3 .. Size, IsDash(i) PROVE w[i] = "-"
    BY <1>1, <1>2, <1>4, <1>5, <2>2, SignsRead
  <2>3. ASSUME NEW i \in 3 .. Size, ~IsDash(i)
        PROVE  /\ LookupChar(w[i]) = DigitsOf(room)[DigitAt(i)]
               /\ DigitsOf(room)[DigitAt(i)] \in 0 .. Base - 1
    <3>1. DigitsOf(room)[DigitAt(i)] \in 0 .. Base - 1
      BY <1>0, <2>3, DigitsAtPlaces, DigitsTyped
    <3>2. Legible(c(i)) = Chars[DigitsOf(room)[DigitAt(i)] + 1]
      BY <1>2, <1>4, <1>5, <2>3
    <3>3. LookupChar(Upper(c(i))) = DigitsOf(room)[DigitAt(i)]
      BY <3>1, <3>2, LookupReads
    <3>4. QED
      BY <1>1, <1>4, <3>1, <3>3
  <2>4. IsCode(w)
    BY <1>0, <2>1, <2>2, <2>3 DEF IsCode
  <2>5. ASSUME NEW d \in 1 .. Digits PROVE Lookups(w)[d] = DigitsOf(room)[d]
    BY <2>3, PlacesOfDigits DEF Lookups
  <2>6. Reading(Lookups(w)) = Reading(DigitsOf(room))
    <3>1. \A n \in 1 .. Digits : Digits + 1 - n \in 1 .. Digits
      BY CodeSizes
    <3>2. [n \in 1 .. Digits |-> Lookups(w)[Digits + 1 - n]]
            = [n \in 1 .. Digits |-> DigitsOf(room)[Digits + 1 - n]]
      BY <2>5, <3>1
    <3>3. QED
      BY <3>2 DEF Reading
  <2>7. QED
    BY <2>4, <2>6, ValueIsReading, ReadingOfDigits
<1>6. ASSUME IsCode(w), ValueOf(w) = room, NEW i \in 1 .. Size
      PROVE  Legible(c(i)) = Code(room)[i]
  <2>1. CASE i = 1 \/ i = 2
    BY <1>0, <1>1, <1>2, <1>6, <2>1, SignsRead DEF IsCode
  <2>2. CASE i \in 3 .. Size /\ IsDash(i)
    BY <1>1, <1>2, <1>6, <2>2, SignsRead DEF IsCode
  <2>3. CASE i \in 3 .. Size /\ ~IsDash(i)
    <3> DEFINE d == DigitAt(i)
    <3>1. d \in 1 .. Digits /\ PlaceOf(d) = i
      BY <2>3, DigitsAtPlaces
    <3>2. /\ Lookups(w)[d] \in 0 .. Base - 1
          /\ DigitsOf(room)[d] = Lookups(w)[d]
      BY <1>1, <1>6, <3>1, CodesHaveValues
    <3>3. Lookups(w)[d] = LookupChar(Upper(c(i)))
      BY <1>1, <3>1 DEF Lookups
    <3>4. Legible(c(i)) = Chars[DigitsOf(room)[d] + 1]
      BY <3>2, <3>3, LookupReads
    <3>5. QED
      BY <1>2, <2>3, <3>4
  <2>4. QED
    BY <1>3, <2>1, <2>2, <2>3
<1>7. QED
  BY <1>5, <1>6 DEF w, c

\* So the rooms a window shows are at most one: its value.
LEMMA RoomsAtWindow ==
  ASSUME NEW t, NEW k
  PROVE  RoomsAt(t, k) =
           IF IsCode(Window(t, k)) /\ ValueOf(Window(t, k)) % Modulus = 0
           THEN {ValueOf(Window(t, k))} ELSE {}
<1> DEFINE w == Window(t, k)
<1>1. \A room \in Rooms : room \in Numbers /\ room % Modulus = 0 /\ CodeOf[room] = Code(room)
  BY RoomNumbers DEF CodeOf
<1>2. \A room \in Rooms : room \in RoomsAt(t, k) <=> IsCode(w) /\ ValueOf(w) = room
  BY <1>1, WindowMatches DEF RoomsAt
<1>3. IsCode(w) => ValueOf(w) \in Numbers
  <2>1. \A i \in 1 .. Size : \E c : w[i] = Upper(c)
    BY DEF Window
  <2>2. QED
    BY <2>1, CodesHaveValues
<1>4. IsCode(w) /\ ValueOf(w) % Modulus = 0 => ValueOf(w) \in Rooms
  BY <1>3, RoomNumbers
<1>5. RoomsAt(t, k) \subseteq Rooms
  BY DEF RoomsAt
<1> HIDE DEF w
<1>6. RoomsAt(t, k) = IF IsCode(w) /\ ValueOf(w) % Modulus = 0 THEN {ValueOf(w)} ELSE {}
  BY <1>1, <1>2, <1>4, <1>5
<1>7. QED
  BY <1>6 DEF w

\* The value of the first window that is a room, or none.
LEMMA ParsedIsFirst ==
  ASSUME NEW t \in Seq(STRING)
  PROVE  LET places == {k \in 1 .. Len(t) - Size + 1 : RoomsAt(t, k) # {}}
         IN  /\ places = {} => Parse(t) = NoRoom
             /\ places # {} =>
                  /\ RoomsAt(t, CHOOSE k \in places : \A j \in places : k <= j) = {Parse(t)}
                  /\ Parse(t) \in Rooms
<1> DEFINE places == {k \in 1 .. Len(t) - Size + 1 : RoomsAt(t, k) # {}}
<1> DEFINE first == CHOOSE k \in places : \A j \in places : k <= j
<1>0. Len(t) \in Nat /\ Size \in Nat
  BY CodeSizes
<1>1. /\ DOMAIN Windows(t) = 1 .. Len(t) - Size + 1
      /\ \A k \in 1 .. Len(t) - Size + 1 : Windows(t)[k] = Window(t, k)
  BY DEF Windows, Window
<1> DEFINE rooms == {k \in DOMAIN Windows(t) :
                       IsCode(Windows(t)[k]) /\ ValueOf(Windows(t)[k]) % Modulus = 0}
<1>2. places = rooms
  <2>1. ASSUME NEW k \in 1 .. Len(t) - Size + 1
        PROVE  RoomsAt(t, k) # {} <=>
                 IsCode(Windows(t)[k]) /\ ValueOf(Windows(t)[k]) % Modulus = 0
    <3>1. Windows(t)[k] = Window(t, k)
      BY <1>1
    <3>2. QED
      BY <3>1, RoomsAtWindow
  <2>2. QED
    BY <1>1, <2>1
<1>3. Parse(t) = IF places = {} THEN NoRoom ELSE ValueOf(Windows(t)[first])
  <2>1. Parse(t) = IF rooms = {} THEN NoRoom
                   ELSE ValueOf(Windows(t)[CHOOSE k \in rooms : \A j \in rooms : k <= j])
    BY DEF Parse
  <2> HIDE DEF places, rooms
  <2>2. QED
    BY <1>2, <2>1
<1>4. ASSUME places # {} PROVE first \in places
  <2>1. places \in SUBSET Nat
    BY <1>0
  <2>2. PICK k \in places : \A j \in places : ~(j < k)
    <3> HIDE DEF places
    <3>1. QED
      BY <1>4, <2>1, Digitwise!Least
  <2>3. \A j \in places : k <= j
    BY <2>1, <2>2
  <2> HIDE DEF places
  <2>4. QED
    BY <2>2, <2>3
<1>5. ASSUME places # {} PROVE RoomsAt(t, first) = {Parse(t)} /\ Parse(t) \in Rooms
  <2>1. /\ first \in 1 .. Len(t) - Size + 1
        /\ RoomsAt(t, first) # {}
    BY <1>4, <1>5
  <2>2. Parse(t) = ValueOf(Window(t, first))
    BY <1>1, <1>3, <1>5, <2>1
  <2> HIDE DEF first
  <2>3. RoomsAt(t, first) = {Parse(t)}
    BY <2>1, <2>2, RoomsAtWindow
  <2>4. QED
    BY <2>3 DEF RoomsAt
<1>6. QED
  BY <1>3, <1>5

\* The digits of a room are those of its network, and say which room it is.
LEMMA NetworksDiffer ==
  ASSUME NEW one \in Rooms, NEW other \in Rooms, Network(one) = Network(other)
  PROVE  one = other
<1>0. /\ Digits \in Nat /\ Digits = 4 * Group /\ Group \in Nat \ {0}
      /\ Digits \div 2 = 2 * Group /\ one \in Numbers /\ other \in Numbers
      /\ one \in Nat /\ other \in Nat
  BY CodeSizes, RoomNumbers, Powers DEF Numbers
<1> DEFINE a == DigitsOf(one)
<1> DEFINE b == DigitsOf(other)
<1> DEFINE h == Digits \div 2
<1>1. /\ a \in Seq(0 .. Base - 1) /\ Len(a) = Digits
      /\ b \in Seq(0 .. Base - 1) /\ Len(b) = Digits
  BY <1>0, DigitsTyped
<1>2. /\ SubSeq(a, 1, h) = SubSeq(b, 1, h)
      /\ SubSeq(a, h + 1, Digits) = SubSeq(b, h + 1, Digits)
  BY DEF Network
<1>3. h \in 0 .. Digits
  BY <1>0
<1> HIDE DEF a, b, h
<1>4. ASSUME NEW i \in 1 .. h PROVE a[i] = b[i]
  <2>1. SubSeq(a, 1, h)[i] = a[i] /\ SubSeq(b, 1, h)[i] = b[i]
    BY <1>0, <1>1, <1>3
  <2>2. QED
    BY <1>2, <2>1
<1>5. ASSUME NEW i \in h + 1 .. Digits PROVE a[i] = b[i]
  <2>1. i - h \in 1 .. Digits - h /\ h + 1 + (i - h) - 1 = i
    BY <1>0, <1>3
  <2>2. /\ SubSeq(a, h + 1, Digits)[i - h] = a[i]
        /\ SubSeq(b, h + 1, Digits)[i - h] = b[i]
    BY <1>0, <1>1, <1>3, <2>1
  <2>3. QED
    BY <1>2, <2>2
<1>6. \A i \in 1 .. Digits : i \in 1 .. h \/ i \in h + 1 .. Digits
  BY <1>0, <1>3
<1>7. a = b
  BY <1>0, <1>1, <1>4, <1>5, <1>6
<1>8. QED
  BY <1>0, <1>7, ReadingOfDigits DEF a, b

\* However a code is typed, in whatever text, parse finds the leftmost code of
\* a room, as create_room writes them, and no room only if there is none.
THEOREM FindsFirstRoom == Spec => []ParseFindsFirstRoom
<1> DEFINE TextTyped == text \in Seq(STRING)
<1>1. GuestStartInit => TextTyped
  BY GuestStartAssumption DEF GuestStartInit
<1>2. TextTyped /\ [GuestStartNext]_vars => TextTyped'
  <2> SUFFICES ASSUME TextTyped, [GuestStartNext]_vars PROVE TextTyped'
    OBVIOUS
  <2>1. CASE Submit
    BY <2>1 DEF Submit
  <2>2. CASE UNCHANGED text
    BY <2>2
  <2>3. QED
    BY <2>1, <2>2
    DEF GuestStartNext, Discover, ScaffoldingForwarded, Dial, MinecraftForwarded,
        InForward, startVars, vars
<1>3. TextTyped => ParseFindsFirstRoom
  BY ParsedIsFirst DEF ParseFindsFirstRoom, RoomsAt
<1>4. QED
  BY <1>1, <1>2, <1>3, PTL DEF Spec

\* Whoever has joined a network is in that of one room, and no two rooms have
\* the same.
THEOREM RoomsHaveOwnNetworks == Spec => []RoomsApart
<1> DEFINE OfRoom == network = NoNetwork \/ \E room \in Rooms : network = Network(room)
<1> DEFINE J == text \in Seq(STRING) /\ OfRoom
<1>1. GuestStartInit => J
  BY GuestStartAssumption DEF GuestStartInit
<1>2. J /\ [GuestStartNext]_vars => J'
  <2> SUFFICES ASSUME J, [GuestStartNext]_vars PROVE J'
    OBVIOUS
  <2>1. CASE Submit
    <3>1. Parse(text) # NoRoom => Parse(text) \in Rooms
      BY ParsedIsFirst
    <3>2. text' \in Seq(STRING)
      BY <2>1 DEF Submit
    <3>3. CASE Parse(text) = NoRoom
      BY <2>1, <3>2, <3>3 DEF Submit
    <3>4. CASE Parse(text) # NoRoom
      BY <2>1, <3>1, <3>2, <3>4 DEF Submit
    <3>5. QED
      BY <3>3, <3>4
  <2>2. CASE UNCHANGED <<text, network>>
    BY <2>2
  <2>3. QED
    BY <2>1, <2>2
    DEF GuestStartNext, Discover, ScaffoldingForwarded, Dial, MinecraftForwarded,
        InForward, startVars, vars
<1>3. J => RoomsApart
  <2> SUFFICES ASSUME J, network # NoNetwork
               PROVE  Cardinality({room \in Rooms : Network(room) = network}) = 1
    BY DEF RoomsApart
  <2>1. PICK one \in Rooms : network = Network(one)
    OBVIOUS
  <2>2. {room \in Rooms : Network(room) = network} = {one}
    BY <2>1, NetworksDiffer
  <2>3. QED
    BY <2>2, FS_Singleton
<1>4. QED
  BY <1>1, <1>2, <1>3, PTL DEF Spec

-----------------------------------------------------------------------------
(* From the code to the forwarded ports. *)

\* swap_remove puts the last element where the removed one was.
LEMMA SwapRemoveProperties ==
  ASSUME NEW E, NEW list \in Seq(E), NEW i \in 1 .. Len(list)
  PROVE  /\ SwapRemove(list, i) \in Seq(E)
         /\ Len(SwapRemove(list, i)) = Len(list) - 1
         /\ \A j \in 1 .. Len(list) - 1 :
              SwapRemove(list, i)[j] = IF j = i THEN list[Len(list)] ELSE list[j]
<1> DEFINE moved == [list EXCEPT ![i] = Last(list)]
<1>1. list[Len(list)] \in E /\ Len(list) \in Nat
  OBVIOUS
<1>2. /\ moved \in Seq(E) /\ Len(moved) = Len(list)
      /\ \A j \in 1 .. Len(list) : moved[j] = IF j = i THEN list[Len(list)] ELSE list[j]
  BY <1>1 DEF Last
<1>3. SwapRemove(list, i) = SubSeq(moved, 1, Len(moved) - 1)
  BY DEF SwapRemove, Front
<1> HIDE DEF moved
<1>4. QED
  BY <1>1, <1>2, <1>3

\* The list of Minecraft's rules: four, all different.
LEMMA RuleFacts ==
  /\ MinecraftRules \in Seq(AllRules)
  /\ Len(MinecraftRules) = 4
  /\ \A i, j \in DOMAIN MinecraftRules : MinecraftRules[i] = MinecraftRules[j] => i = j
  /\ ToSet(MinecraftRules) = {MinecraftRules[i] : i \in DOMAIN MinecraftRules}
  /\ AllRules = {ScaffoldingRule} \cup ToSet(MinecraftRules)
  /\ ScaffoldingRule \in AllRules
<1>1. ToSet(MinecraftRules) = {MinecraftRules[i] : i \in DOMAIN MinecraftRules}
  BY DEF ToSet
<1>2. AllRules = {ScaffoldingRule} \cup ToSet(MinecraftRules)
  BY DEF AllRules
<1>3. Len(MinecraftRules) = 4 /\ DOMAIN MinecraftRules = 1 .. 4
  BY DEF MinecraftRules
<1>4. MinecraftRules \in Seq(ToSet(MinecraftRules))
  <2>1. MinecraftRules = [i \in 1 .. 4 |-> MinecraftRules[i]]
    BY DEF MinecraftRules
  <2>2. QED
    BY <1>1, <1>3, <2>1
<1>5. \A i, j \in DOMAIN MinecraftRules : MinecraftRules[i] = MinecraftRules[j] => i = j
  <2>1. /\ MinecraftRules[1] = <<"0.0.0.0", "tcp", "minecraft">>
        /\ MinecraftRules[2] = <<"0.0.0.0", "udp", "minecraft">>
        /\ MinecraftRules[3] = <<"[::]", "tcp", "minecraft">>
        /\ MinecraftRules[4] = <<"[::]", "udp", "minecraft">>
    BY DEF MinecraftRules
  <2>2. \A i \in 1 .. 4 : i \in {1, 2, 3, 4}
    OBVIOUS
  <2>3. QED
    BY <1>3, <2>1, <2>2
<1>6. QED
  BY <1>1, <1>2, <1>3, <1>4, <1>5

\* A set counted off by a list of four has four elements.
LEMMA FourRules ==
  ASSUME NEW f, NEW S, f \in Bijection(1 .. 4, S)
  PROVE  IsFiniteSet(S) /\ Cardinality(S) = 4
<1>1. IsFiniteSet(1 .. 4) /\ Cardinality(1 .. 4) = IF 1 > 4 THEN 0 ELSE 4 - 1 + 1
  <2>1. 1 \in Int /\ 4 \in Int
    OBVIOUS
  <2>2. QED
    BY <2>1, FS_Interval
<1>2. IsFiniteSet(1 .. 4) /\ Cardinality(1 .. 4) = 4
  BY <1>1
<1>3. ExistsBijection(1 .. 4, S)
  BY DEF ExistsBijection
<1>4. QED
  BY <1>2, <1>3, FS_Bijection

\* So the bound on the cursor that TypeOK states leaves room for them.
LEMMA EnoughRules == Cardinality(Rules) \in Nat /\ Len(MinecraftRules) <= Cardinality(Rules)
<1> DEFINE S == ToSet(MinecraftRules)
<1>1. MinecraftRules \in Bijection(1 .. 4, S)
  BY RuleFacts DEF Bijection, Injection, Surjection, IsInjective
<1>2. IsFiniteSet(S) /\ Cardinality(S) = 4
  BY <1>1, FourRules
<1>3. IsFiniteSet(Rules) /\ S \subseteq Rules
  BY <1>2, FS_AddElement, RuleFacts, RulesAssumption
<1>4. Cardinality(S) <= Cardinality(Rules) /\ Cardinality(Rules) \in Nat
  BY <1>3, FS_Subset, FS_CardinalityType
<1>5. QED
  BY <1>2, <1>4, RuleFacts

USE PortForwardsAssumption, RulesAssumption, GuestStartAssumption

-----------------------------------------------------------------------------
(* The parts of the invariant, and the steps inside add_port_forward. *)

Children == {"none", "running", "added", "failed"}
Slots == [rule : Rules, child : Children]

\* The invariant's two halves: the vector, and what is around it.
Vector ==
  /\ processes \in Seq(Slots)
  /\ cursor \in Nat
  /\ RulesOnce
  /\ VectorBounded
  /\ ChildrenByPlace

Around ==
  /\ place \in {"idle", "spawn", "wait", "sleep"} \cup Returned
  /\ time \in 0 .. Rounds
  /\ installed \subseteq Rules
  /\ alive \in BOOLEAN
  /\ linked \in BOOLEAN
  /\ hosted \in Rooms
  /\ stage \in Stages
  /\ tries \in 0 .. DiscoverTries
  /\ SameNetwork
  /\ CallPlaced

\* Together with RulesCovered they are the inductive invariant.
LEMMA Halves == IInv <=> Vector /\ Around /\ RulesCovered
<1>1. ASSUME Vector, Around, RulesCovered PROVE IInv
  <2>1. cursor \in 0 .. Cardinality(Rules)
    BY <1>1, EnoughRules, RuleFacts DEF Vector, VectorBounded
  <2>2. TypeOK
    BY <1>1, <2>1 DEF TypeOK, ForwardTypeOK, Vector, Around, Slots, Children
  <2>3. QED
    BY <1>1, <2>2 DEF IInv, Vector, Around
<1>2. ASSUME IInv PROVE Vector /\ Around /\ RulesCovered
  BY <1>2, EnoughRules DEF IInv, TypeOK, ForwardTypeOK, Vector, Around, Slots, Children
<1>3. QED
  BY <1>1, <1>2

\* The rules that are still in the vector.
Asked == {processes[i].rule : i \in DOMAIN processes}

\* What the steps need to know of the vector.
LEMMA VectorFacts ==
  ASSUME Vector
  PROVE  /\ DOMAIN processes = 1 .. Len(processes)
         /\ Len(processes) \in Nat
         /\ Len(processes) <= 4
         /\ cursor <= 4
         /\ \A i \in DOMAIN processes : processes[i] \in Slots
BY RuleFacts DEF Vector, VectorBounded

\* The vector with another child at one place.
LEMMA ChildSet ==
  ASSUME Vector, NEW i \in DOMAIN processes, NEW c \in Children,
         processes' = [processes EXCEPT ![i].child = c]
  PROVE  /\ processes' \in Seq(Slots)
         /\ Len(processes') = Len(processes)
         /\ DOMAIN processes' = DOMAIN processes
         /\ \A j \in DOMAIN processes :
              /\ processes'[j].rule = processes[j].rule
              /\ processes'[j].child = IF j = i THEN c ELSE processes[j].child
         /\ RulesOnce'
         /\ Asked' = Asked
<1>1. /\ processes \in Seq(Slots)
      /\ DOMAIN processes = 1 .. Len(processes)
      /\ Len(processes) \in Nat
      /\ \A j \in DOMAIN processes : processes[j] \in Slots
  BY VectorFacts DEF Vector
<1>2. DOMAIN processes' = DOMAIN processes
  OBVIOUS
<1>3. \A j \in DOMAIN processes :
        /\ processes'[j] \in Slots
        /\ processes'[j].rule = processes[j].rule
        /\ processes'[j].child = IF j = i THEN c ELSE processes[j].child
  BY <1>1 DEF Slots
<1>4. processes' \in Seq(Slots) /\ Len(processes') = Len(processes)
  <2>1. processes' = [j \in 1 .. Len(processes) |-> processes'[j]]
    BY <1>1
  <2>2. QED
    BY <1>1, <1>3, <2>1
<1>5. RulesOnce'
  BY <1>2, <1>3 DEF Vector, RulesOnce
<1>6. Asked' = Asked
  BY <1>2, <1>3 DEF Asked
<1>7. QED
  BY <1>2, <1>3, <1>4, <1>5, <1>6

\* Starting a CLI process keeps the invariant.
LEMMA SpawnStep == IInv /\ Spawn /\ UNCHANGED startVars => IInv'
<1> SUFFICES ASSUME IInv, Spawn, UNCHANGED startVars PROVE IInv'
  OBVIOUS
<1>0. Vector /\ Around /\ RulesCovered
  BY Halves
<1>1. /\ place = "spawn" /\ stage \in Calling /\ time < Rounds
      /\ UNCHANGED <<time, installed, alive, linked, hosted, text, network, stage, tries>>
  BY <1>0 DEF Spawn, startVars, Around, CallPlaced
<1>2. CASE place' = "false" /\ UNCHANGED <<processes, cursor>>
  <2>1. CutShort'
    BY <1>1, <1>2 DEF CutShort
  <2>2. ChildrenByPlace'
    BY <1>0, <1>1, <1>2, <2>1 DEF Vector, ChildrenByPlace
  <2>3. Vector'
    BY <1>0, <1>2, <2>2 DEF Vector, RulesOnce, VectorBounded
  <2>4. Around'
    BY <1>0, <1>1, <1>2 DEF Around, Returned, SameNetwork, CallPlaced, Calling
  <2>5. RulesCovered'
    BY <1>0, <1>1, <1>2 DEF RulesCovered
  <2>6. QED
    BY <2>3, <2>4, <2>5, Halves, PTL
<1>3. CASE /\ processes' = [processes EXCEPT ![cursor].child = "running"]
           /\ IF cursor = Len(processes) THEN place' = "wait" /\ UNCHANGED cursor
                                         ELSE cursor' = cursor + 1 /\ UNCHANGED place
  <2>0. /\ cursor \in DOMAIN processes /\ cursor \in 1 .. Len(processes)
        /\ DOMAIN processes = 1 .. Len(processes)
        /\ Len(processes) \in Nat /\ Len(processes) <= 4
    BY <1>0, <1>1, VectorFacts DEF Vector, ChildrenByPlace
  <2>1. /\ processes' \in Seq(Slots)
        /\ Len(processes') = Len(processes)
        /\ DOMAIN processes' = DOMAIN processes
        /\ \A j \in DOMAIN processes :
             /\ processes'[j].rule = processes[j].rule
             /\ processes'[j].child = IF j = cursor THEN "running" ELSE processes[j].child
        /\ RulesOnce'
        /\ Asked' = Asked
    BY <1>0, <1>3, <2>0, ChildSet DEF Children
  <2>2. \A j \in DOMAIN processes :
          processes[j].child \in IF j < cursor THEN {"running", "added", "failed"}
                                              ELSE {"none", "failed"}
    BY <1>0, <1>1 DEF Vector, ChildrenByPlace
  <2>3. cursor' \in 1 .. Len(processes) /\ place' \in {"spawn", "wait"}
    BY <1>1, <1>3, <2>0
  <2>4. ChildrenByPlace'
    <3>1. CASE cursor = Len(processes)
      BY <1>1, <1>3, <2>0, <2>1, <2>2, <3>1 DEF ChildrenByPlace, CutShort
    <3>2. CASE cursor # Len(processes)
      BY <1>1, <1>3, <2>0, <2>1, <2>2, <3>2 DEF ChildrenByPlace, CutShort
    <3>3. QED
      BY <3>1, <3>2
  <2>5. Vector'
    BY <1>0, <2>0, <2>1, <2>3, <2>4, RuleFacts DEF Vector, VectorBounded
  <2>6. Around'
    BY <1>0, <1>1, <2>3 DEF Around, SameNetwork, CallPlaced, Calling
  <2>7. RulesCovered'
    BY <1>0, <1>1, <2>1, <2>3 DEF RulesCovered, Called, Asked
  <2>8. QED
    BY <2>5, <2>6, <2>7, Halves, PTL
<1>4. QED
  BY <1>2, <1>3 DEF Spawn

\* So does waiting for one.  The slot that swap_remove moves comes from behind
\* the cursor, where all have failed, so nothing is passed over.
LEMMA WaitStep == IInv /\ Wait /\ UNCHANGED startVars => IInv'
<1> SUFFICES ASSUME IInv, Wait, UNCHANGED startVars PROVE IInv'
  OBVIOUS
<1>0. Vector /\ Around /\ RulesCovered
  BY Halves
<1> DEFINE left == IF processes[cursor].child = "added" THEN SwapRemove(processes, cursor)
                                                       ELSE processes
<1>1. /\ place = "wait" /\ stage \in Calling
      /\ processes[cursor].child \in {"added", "failed"}
      /\ processes' = left
      /\ cursor' = cursor - 1
      /\ place' = IF cursor > 1 THEN "wait" ELSE IF left = <<>> THEN "true" ELSE "sleep"
      /\ UNCHANGED <<time, installed, alive, linked, hosted, text, network, stage, tries>>
  BY <1>0 DEF Wait, startVars, Around, CallPlaced
<1>2. /\ cursor \in DOMAIN processes /\ cursor \in 1 .. Len(processes)
      /\ DOMAIN processes = 1 .. Len(processes)
      /\ Len(processes) \in Nat /\ Len(processes) <= 4
      /\ processes \in Seq(Slots)
      /\ \A i \in DOMAIN processes : processes[i] \in Slots
  BY <1>0, <1>1, VectorFacts DEF Vector, ChildrenByPlace
<1>3. \A i \in DOMAIN processes :
        processes[i].child \in IF i > cursor THEN {"failed"} ELSE {"running", "added", "failed"}
  BY <1>0, <1>1 DEF Vector, ChildrenByPlace
\* What is left: each slot was in the vector, at another place only if it was
\* the last one and moved to the cursor; only an added rule is gone.
<1>4. /\ left \in Seq(Slots)
      /\ Len(left) \in Nat /\ Len(left) <= Len(processes) /\ cursor - 1 <= Len(left)
      /\ DOMAIN left = 1 .. Len(left)
      /\ \A i \in 1 .. Len(left) :
           \E k \in 1 .. Len(processes) :
             /\ left[i] = processes[k]
             /\ i < cursor => k = i
             /\ i >= cursor => processes[k].child = "failed"
      /\ \A i, j \in 1 .. Len(left) : left[i].rule = left[j].rule => i = j
      /\ \A k \in 1 .. Len(processes) :
           \/ \E i \in 1 .. Len(left) : left[i] = processes[k]
           \/ k = cursor /\ processes[k].child = "added"
  <2>1. CASE processes[cursor].child = "added"
    <3>1. left = SwapRemove(processes, cursor)
      BY <2>1
    <3> DEFINE n == Len(processes)
    <3> HIDE DEF left
    <3>2. /\ left \in Seq(Slots) /\ Len(left) = n - 1
          /\ \A i \in 1 .. n - 1 : left[i] = IF i = cursor THEN processes[n] ELSE processes[i]
      <4>1. processes \in Seq(Slots) /\ cursor \in 1 .. Len(processes)
        BY <1>2
      <4>2. QED
        BY <3>1, <4>1, SwapRemoveProperties
    <3>3. n \in Nat /\ n >= 1 /\ cursor <= n /\ cursor \in Nat /\ cursor >= 1
      BY <1>2
    <3>4. \A i \in 1 .. n - 1 : \E k \in 1 .. n :
             /\ left[i] = processes[k]
             /\ i < cursor => k = i
             /\ i >= cursor => processes[k].child = "failed"
      <4> SUFFICES ASSUME NEW i \in 1 .. n - 1
                   PROVE  \E k \in 1 .. n :
                            /\ left[i] = processes[k]
                            /\ i < cursor => k = i
                            /\ i >= cursor => processes[k].child = "failed"
        OBVIOUS
      <4>1. CASE i = cursor
        <5>1. n \in DOMAIN processes /\ n > cursor
          BY <1>2, <3>3, <4>1
        <5>2. processes[n].child = "failed"
          BY <1>3, <5>1
        <5>3. QED
          BY <3>2, <3>3, <4>1, <5>2
      <4>2. CASE i # cursor
        <5>1. i \in DOMAIN processes /\ left[i] = processes[i]
          BY <1>2, <3>2, <4>2
        <5>2. i > cursor => processes[i].child = "failed"
          BY <1>3, <5>1
        <5>3. QED
          BY <1>2, <3>3, <4>2, <5>1, <5>2
      <4>3. QED
        BY <4>1, <4>2
    <3>5. \A i, j \in 1 .. n - 1 : left[i].rule = left[j].rule => i = j
      <4>1. \A i, j \in 1 .. n : processes[i].rule = processes[j].rule => i = j
        BY <1>0, <1>2 DEF Vector, RulesOnce
      <4>2. \A i \in 1 .. n - 1 : i \in 1 .. n /\ i # n /\ n \in 1 .. n
        BY <3>3
      <4> HIDE DEF n
      <4>3. QED
        BY <3>2, <4>1, <4>2
    <3>6. \A k \in 1 .. n :
           \/ \E i \in 1 .. n - 1 : left[i] = processes[k]
           \/ k = cursor /\ processes[k].child = "added"
      <4> SUFFICES ASSUME NEW k \in 1 .. n, k # cursor
                   PROVE  \E i \in 1 .. n - 1 : left[i] = processes[k]
        BY <2>1
      <4>1. CASE k = n
        <5>1. cursor \in 1 .. n - 1
          BY <3>3, <4>1
        <5>2. QED
          BY <3>2, <4>1, <5>1
      <4>2. CASE k # n
        <5>1. k \in 1 .. n - 1
          BY <3>3, <4>2
        <5>2. QED
          BY <3>2, <5>1
      <4>3. QED
        BY <4>1, <4>2
    <3>7. Len(left) \in Nat /\ Len(left) <= n /\ cursor - 1 <= Len(left) /\ DOMAIN left = 1 .. Len(left)
      BY <3>2, <3>3
    <3>8. QED
      BY <3>2, <3>4, <3>5, <3>6, <3>7
  <2>2. CASE processes[cursor].child # "added"
    <3>1. left = processes /\ processes[cursor].child = "failed"
      BY <1>1, <2>2
    <3> HIDE DEF left
    <3>2. \A i \in 1 .. Len(processes) : i >= cursor => processes[i].child = "failed"
      BY <1>2, <1>3, <3>1
    <3>3. QED
      BY <1>0, <1>2, <3>1, <3>2 DEF Vector, RulesOnce
  <2>3. QED
    BY <2>1, <2>2
<1> HIDE DEF left
<1>5. cursor' \in Nat /\ cursor' <= 4 /\ cursor' <= Len(left) /\ (cursor > 1 => cursor' >= 1)
  BY <1>1, <1>2, <1>4
<1>6. \A i \in DOMAIN left :
        left[i].child \in IF i > cursor - 1 THEN {"failed"} ELSE {"running", "added", "failed"}
  <2> SUFFICES ASSUME NEW i \in 1 .. Len(left)
               PROVE  left[i].child \in IF i > cursor - 1 THEN {"failed"}
                                                          ELSE {"running", "added", "failed"}
    BY <1>4
  <2>1. PICK k \in 1 .. Len(processes) :
          /\ left[i] = processes[k]
          /\ i < cursor => k = i
          /\ i >= cursor => processes[k].child = "failed"
    BY <1>4
  <2>2. QED
    BY <1>2, <1>3, <2>1
<1>7. place' \in {"wait", "sleep", "true"}
  BY <1>1
<1>8. ChildrenByPlace'
  <2>1. place' = "wait" => cursor' \in 1 .. Len(processes')
    BY <1>1, <1>2, <1>4, <1>5
  <2>2. place' = "true" => processes' = <<>>
    BY <1>1
  <2>3. place' = "sleep" => /\ processes' # <<>>
                            /\ \A i \in DOMAIN processes' : processes'[i].child = "failed"
    BY <1>1, <1>2, <1>4, <1>6
  <2>4. QED
    BY <1>1, <1>6, <1>7, <2>1, <2>2, <2>3 DEF ChildrenByPlace, CutShort
<1>9. Vector'
  BY <1>1, <1>2, <1>4, <1>5, <1>8, RuleFacts DEF Vector, VectorBounded, RulesOnce
<1>10. Around'
  BY <1>0, <1>1, <1>7 DEF Around, Returned, SameNetwork, CallPlaced, Calling
<1>11. RulesCovered'
  <2> SUFFICES ASSUME alive
               PROVE  /\ \A i \in DOMAIN left : left[i].child = "added" => left[i].rule \in installed
                      /\ Called \subseteq installed \cup {left[i].rule : i \in DOMAIN left}
    BY <1>0, <1>1 DEF RulesCovered, Called
  <2>1. /\ \A k \in 1 .. Len(processes) :
             processes[k].child = "added" => processes[k].rule \in installed
        /\ Called \subseteq installed \cup {processes[k].rule : k \in 1 .. Len(processes)}
    BY <1>0, <1>1, <1>2 DEF RulesCovered
  <2>2. \A i \in 1 .. Len(left) : left[i].child = "added" => left[i].rule \in installed
    BY <1>4, <2>1
  <2>3. \A k \in 1 .. Len(processes) :
          processes[k].rule \in installed \cup {left[i].rule : i \in 1 .. Len(left)}
    BY <1>4, <2>1
  <2>4. Called \subseteq installed \cup {left[i].rule : i \in 1 .. Len(left)}
    <3> SUFFICES ASSUME NEW r \in Called, r \notin installed
                 PROVE  r \in {left[i].rule : i \in 1 .. Len(left)}
      OBVIOUS
    <3>1. PICK k \in 1 .. Len(processes) : processes[k].rule = r
      BY <2>1
    <3>2. QED
      BY <2>3, <3>1
  <2>5. DOMAIN left = 1 .. Len(left)
    BY <1>4
  <2>6. QED
    BY <2>2, <2>4, <2>5
<1>12. QED
  BY <1>9, <1>10, <1>11, Halves, PTL

\* So does the pause, before the next round or the last one's failure.
LEMMA SleepStep == IInv /\ Sleep /\ UNCHANGED startVars => IInv'
<1> SUFFICES ASSUME IInv, Sleep, UNCHANGED startVars PROVE IInv'
  OBVIOUS
<1>0. Vector /\ Around /\ RulesCovered
  BY Halves
<1>1. /\ place = "sleep" /\ stage \in Calling /\ time \in 0 .. Rounds /\ time < Rounds
      /\ time' = time + 1
      /\ \/ time' < Rounds /\ place' = "spawn" /\ cursor' = 1
         \/ ~(time' < Rounds) /\ place' = "false" /\ cursor' = cursor
      /\ UNCHANGED <<processes, installed, alive, linked, hosted, text, network, stage, tries>>
  BY <1>0 DEF Sleep, startVars, Around, CallPlaced
<1>2. /\ processes # <<>>
      /\ \A i \in DOMAIN processes : processes[i].child = "failed"
      /\ processes \in Seq(Slots) /\ Len(processes) \in Nat
      /\ DOMAIN processes = 1 .. Len(processes)
      /\ cursor \in Nat /\ cursor <= Len(MinecraftRules)
  BY <1>0, <1>1, VectorFacts DEF Vector, VectorBounded, ChildrenByPlace, CutShort
<1>3. 1 \in 1 .. Len(processes)
  BY <1>2
<1>4. ChildrenByPlace'
  <2>1. CASE place' = "spawn"
    BY <1>1, <1>2, <1>3, <2>1 DEF ChildrenByPlace, CutShort
  <2>2. CASE place' = "false" /\ ~(time' < Rounds)
    BY <1>1, <1>2, <2>2 DEF ChildrenByPlace, CutShort
  <2>3. QED
    BY <1>1, <2>1, <2>2
<1>5. Vector'
  BY <1>0, <1>1, <1>2, <1>4, RuleFacts DEF Vector, VectorBounded, RulesOnce
<1>6. Around'
  <2>1. time' \in 0 .. Rounds /\ place' \in {"spawn", "false"} /\ (place' = "spawn" => time' < Rounds)
    BY <1>1
  <2>2. QED
    BY <1>0, <1>1, <2>1 DEF Around, Returned, SameNetwork, CallPlaced, Calling
<1>7. RulesCovered'
  BY <1>0, <1>1 DEF RulesCovered, Called
<1>8. QED
  BY <1>5, <1>6, <1>7, Halves, PTL

\* So does the end of a CLI process: it is added only if EasyTier has the rule.
LEMMA ExitStep ==
  ASSUME IInv, NEW i \in DOMAIN processes, Exit(i), UNCHANGED startVars
  PROVE  IInv'
<1>0. Vector /\ Around /\ RulesCovered
  BY Halves
<1>1. PICK c \in {"added", "failed"}, more \in {{}, {processes[i].rule}} :
        /\ processes[i].child = "running"
        /\ processes' = [processes EXCEPT ![i].child = c]
        /\ installed' = installed \cup more
        /\ more # {} => alive
        /\ c = "added" => more # {}
        /\ UNCHANGED <<place, cursor, time, alive, linked, hosted, text, network, stage, tries>>
  BY <1>0 DEF Exit, startVars, Around
<1>2. /\ processes' \in Seq(Slots)
      /\ Len(processes') = Len(processes)
      /\ DOMAIN processes' = DOMAIN processes
      /\ \A j \in DOMAIN processes :
           /\ processes'[j].rule = processes[j].rule
           /\ processes'[j].child = IF j = i THEN c ELSE processes[j].child
      /\ RulesOnce'
      /\ Asked' = Asked
  <2>1. c \in Children /\ processes' = [processes EXCEPT ![i].child = c]
    BY <1>1 DEF Children
  <2>2. QED
    BY <1>0, <2>1, ChildSet
<1>3. processes[i] \in Slots
  BY <1>0, VectorFacts
<1>4. ChildrenByPlace'
  <2>1. place \notin {"idle", "true", "sleep"} /\ (place = "false" => CutShort)
    BY <1>0, <1>1 DEF Vector, ChildrenByPlace, CutShort
  <2>2. CASE place = "spawn"
    BY <1>0, <1>1, <1>2, <2>2 DEF Vector, ChildrenByPlace, CutShort
  <2>3. CASE place = "wait"
    BY <1>0, <1>1, <1>2, <2>3 DEF Vector, ChildrenByPlace, CutShort
  <2>4. CASE place = "false"
    BY <1>0, <1>1, <1>2, <2>1, <2>4 DEF Vector, ChildrenByPlace, CutShort
  <2>5. QED
    BY <1>0, <2>1, <2>2, <2>3, <2>4 DEF Around, Returned
<1>5. Vector'
  BY <1>0, <1>1, <1>2, <1>4 DEF Vector, VectorBounded
<1>6. Around'
  <2>1. more \subseteq Rules
    BY <1>3 DEF Slots
  <2>2. installed' \subseteq Rules
    BY <1>0, <1>1, <2>1 DEF Around
  <2>3. UNCHANGED <<place, time, alive, linked, hosted, network, stage, tries>>
    BY <1>1
  <2>4. QED
    BY <1>0, <2>2, <2>3 DEF Around, SameNetwork, CallPlaced
<1>7. RulesCovered'
  <2> SUFFICES ASSUME alive PROVE RulesCovered'
    BY <1>1 DEF RulesCovered
  <2>1. /\ alive' /\ place' = place /\ stage' = stage /\ Called' = Called
        /\ installed \subseteq installed'
    BY <1>1 DEF Called
  <2>2. ASSUME NEW j \in DOMAIN processes', processes'[j].child = "added"
        PROVE  processes'[j].rule \in installed'
    <3>1. CASE j = i
      <4>1. processes[i].rule \in installed'
        BY <1>1, <1>2, <2>2, <3>1
      <4>2. QED
        BY <1>2, <3>1, <4>1
    <3>2. CASE j # i
      BY <1>0, <1>2, <2>1, <2>2, <3>2 DEF RulesCovered
    <3>3. QED
      BY <3>1, <3>2
  <2>3. place' \notin {"idle", "false"} => Called' \subseteq installed' \cup Asked'
    BY <1>0, <1>2, <2>1 DEF RulesCovered, Asked
  <2>4. stage' \in {"forward minecraft", "joined"} => ScaffoldingRule \in installed'
    BY <1>0, <2>1 DEF RulesCovered
  <2>5. QED
    BY <2>2, <2>3, <2>4 DEF RulesCovered, Asked
<1>8. QED
  BY <1>5, <1>6, <1>7, Halves, PTL

\* So does the end of EasyTier, after which nothing is promised.
LEMMA CrashStep == IInv /\ Crash /\ UNCHANGED startVars => IInv'
<1> SUFFICES ASSUME IInv, Crash, UNCHANGED startVars PROVE IInv'
  OBVIOUS
<1>0. Vector /\ Around /\ RulesCovered
  BY Halves
<1>1. Vector'
  BY <1>0 DEF Crash, Vector, VectorBounded, RulesOnce, ChildrenByPlace, CutShort
<1>2. Around'
  BY <1>0 DEF Crash, startVars, Around, SameNetwork, CallPlaced
<1>3. RulesCovered'
  BY DEF Crash, RulesCovered
<1>4. QED
  BY <1>1, <1>2, <1>3, Halves, PTL

-----------------------------------------------------------------------------
(* The steps of start_guest, and the theorems. *)

\* A step of start_guest that leaves add_port_forward alone.
LEMMA StageStep ==
  ASSUME Vector, RulesCovered, UNCHANGED forwardVars, Around',
         \/ /\ place \in {"idle", "false"}
            /\ stage' \notin {"forward minecraft", "joined"}
         \/ /\ Called' = Called
            /\ stage' \in {"forward minecraft", "joined"}
                 => stage \in {"forward minecraft", "joined"}
  PROVE  IInv'
<1>1. Vector'
  BY DEF forwardVars, Vector, VectorBounded, RulesOnce, ChildrenByPlace, CutShort
<1>2. RulesCovered'
  BY DEF forwardVars, RulesCovered
<1>3. QED
  BY <1>1, <1>2, Halves, PTL

\* Reading the code keeps the invariant.
LEMMA SubmitStep == IInv /\ Submit => IInv'
<1> SUFFICES ASSUME IInv, Submit PROVE IInv'
  OBVIOUS
<1>0. Vector /\ Around /\ RulesCovered
  BY Halves
<1>1. /\ stage = "typed" /\ stage' \in {"refused", "discover"}
      /\ UNCHANGED <<hosted, tries, forwardVars>>
  BY DEF Submit
<1>2. place = "idle"
  BY <1>0, <1>1 DEF Around, CallPlaced
<1>3. Around'
  BY <1>0, <1>1, <1>2 DEF Around, SameNetwork, CallPlaced, Calling, Stages, forwardVars
<1>4. stage' \notin {"forward minecraft", "joined"}
  BY <1>1
<1>5. QED
  BY <1>0, <1>1, <1>2, <1>3, <1>4, StageStep DEF Called

\* The call of add_port_forward with some of the rules.
\* The call of add_port_forward with some rules, from an empty vector: each
\* rule is in the vector, or EasyTier has it, or the call has failed.
LEMMA ForwardCall ==
  ASSUME Vector, Around, place \in {"idle", "true"},
         NEW rules \in Seq(Rules), Len(rules) \in 1 .. Len(MinecraftRules),
         \A i, j \in DOMAIN rules : rules[i] = rules[j] => i = j,
         Forward(rules)
  PROVE  /\ Vector'
         /\ place' \in {"spawn", "true", "false"}
         /\ time' = 0
         /\ installed' \subseteq Rules /\ installed \subseteq installed'
         /\ alive' = alive /\ linked' = linked
         /\ alive' =>
              /\ \A i \in DOMAIN processes' : processes'[i].child # "added"
              /\ place' # "false" =>
                   \A i \in DOMAIN rules : rules[i] \in installed' \cup Asked'
<1>1. /\ processes = <<>> /\ cursor \in Nat /\ cursor <= Len(MinecraftRules)
      /\ installed \subseteq Rules
  BY DEF Vector, VectorBounded, ChildrenByPlace, Around
<1>2. DOMAIN rules = 1 .. Len(rules) /\ Len(rules) \in Nat /\ Len(rules) <= 4 /\ Len(rules) >= 1
  <2>1. DOMAIN rules = 1 .. Len(rules) /\ Len(rules) \in Nat
    OBVIOUS
  <2>2. Len(rules) \in 1 .. 4
    BY RuleFacts
  <2>3. QED
    BY <2>1, <2>2
<1>3. time' = 0 /\ alive' = alive /\ linked' = linked
  BY DEF Forward
<1>4. CASE /\ processes' = [i \in DOMAIN rules |-> [rule |-> rules[i], child |-> "none"]]
           /\ place' = "spawn"
           /\ cursor' = 1
           /\ UNCHANGED installed
  <2>1. \A i \in 1 .. Len(rules) :
          /\ processes'[i] \in Slots
          /\ processes'[i].rule = rules[i]
          /\ processes'[i].child = "none"
    <3>1. \A i \in 1 .. Len(rules) : rules[i] \in Rules
      OBVIOUS
    <3>2. QED
      BY <1>2, <1>4, <3>1 DEF Slots, Children
  <2>2. /\ processes' \in Seq(Slots)
        /\ Len(processes') = Len(rules)
        /\ DOMAIN processes' = 1 .. Len(rules)
    <3>1. processes' = [i \in 1 .. Len(rules) |-> processes'[i]]
      BY <1>2, <1>4
    <3>2. QED
      BY <1>2, <2>1, <3>1
  <2>3. RulesOnce'
    BY <1>2, <2>1, <2>2 DEF RulesOnce
  <2>4. ChildrenByPlace'
    BY <1>2, <1>4, <2>1, <2>2 DEF ChildrenByPlace
  <2>5. Vector'
    BY <1>2, <1>4, <2>2, <2>3, <2>4, RuleFacts DEF Vector, VectorBounded
  <2>6. \A i \in DOMAIN rules : rules[i] \in Asked'
    BY <1>2, <2>1, <2>2 DEF Asked
  <2>7. QED
    BY <1>1, <1>3, <1>4, <2>1, <2>2, <2>5, <2>6
<1>5. CASE /\ place' = "true" /\ installed' = installed \cup ToSet(rules)
           /\ UNCHANGED <<processes, cursor>>
  <2>1. ToSet(rules) = {rules[i] : i \in DOMAIN rules}
    BY DEF ToSet
  <2>2. Vector'
    BY <1>5 DEF Vector, VectorBounded, RulesOnce, ChildrenByPlace
  <2>3. installed' \subseteq Rules /\ \A i \in DOMAIN rules : rules[i] \in installed'
    BY <1>1, <1>5, <2>1
  <2>4. DOMAIN processes' = {}
    BY <1>1, <1>5
  <2>5. QED
    BY <1>3, <1>5, <2>2, <2>3, <2>4
<1>6. CASE place' = "false" /\ UNCHANGED <<installed, processes, cursor>>
  <2>1. Vector'
    BY <1>6 DEF Vector, VectorBounded, RulesOnce, ChildrenByPlace
  <2>2. DOMAIN processes' = {}
    BY <1>1, <1>6
  <2>3. QED
    BY <1>1, <1>3, <1>6, <2>1, <2>2
<1>7. QED
  BY <1>4, <1>5, <1>6 DEF Forward

\* A round of the search keeps the invariant.  The members name a server only
\* if the network is the host's.
LEMMA DiscoverStep == IInv /\ Discover => IInv'
<1> SUFFICES ASSUME IInv, Discover PROVE IInv'
  OBVIOUS
<1>0. Vector /\ Around /\ RulesCovered
  BY Halves
<1>1. stage = "discover" /\ place = "idle" /\ UNCHANGED <<hosted, text, network>>
  BY <1>0 DEF Discover, Around, CallPlaced
<1>2. CASE stage' \in {"crashed", "not found"} /\ UNCHANGED <<tries, forwardVars>>
  <2>1. Around'
    BY <1>0, <1>1, <1>2 DEF Around, SameNetwork, CallPlaced, Calling, Stages, forwardVars
  <2>2. QED
    BY <1>0, <1>1, <1>2, <2>1, StageStep
<1>3. CASE tries < DiscoverTries /\ tries' = tries + 1 /\ UNCHANGED <<stage, forwardVars>>
  <2>1. tries' \in 0 .. DiscoverTries
    BY <1>0, <1>3 DEF Around
  <2>2. Around'
    BY <1>0, <1>1, <1>3, <2>1 DEF Around, SameNetwork, CallPlaced, forwardVars
  <2>3. QED
    BY <1>0, <1>1, <1>3, <2>2, StageStep
<1>4. ASSUME NEW members \in MemberLists, \E i \in DOMAIN members : IsServer(members[i]),
             Forward(<<ScaffoldingRule>>), stage' = "forward scaffolding", tries' = tries
      PROVE  IInv'
  <2> DEFINE rules == <<ScaffoldingRule>>
  <2>1. /\ rules \in Seq(Rules) /\ Len(rules) = 1 /\ DOMAIN rules = {1}
        /\ rules[1] = ScaffoldingRule
    BY RuleFacts
  <2> HIDE DEF rules
  <2>2. /\ Vector'
        /\ place' \in {"spawn", "true", "false"}
        /\ time' = 0
        /\ installed' \subseteq Rules
        /\ alive' = alive /\ linked' = linked
        /\ alive' =>
             /\ \A i \in DOMAIN processes' : processes'[i].child # "added"
             /\ place' # "false" => \A i \in DOMAIN rules : rules[i] \in installed' \cup Asked'
    <3>0. Len(MinecraftRules) = 4
      BY RuleFacts
    <3>1. Len(rules) \in 1 .. Len(MinecraftRules)
      BY <2>1, <3>0
    <3>2. Forward(rules)
      BY <1>4 DEF rules
    <3>3. QED
      BY <1>0, <1>1, <2>1, <3>1, <3>2, ForwardCall
  <2>3. network = Network(hosted)
    <3>1. PICK i \in DOMAIN members : IsServer(members[i])
      BY <1>4
    <3>2. members # <<>>
      BY <3>1
    <3>3. PICK a \in Others, b \in Others : members = <<Member("guest", TRUE, TRUE), a, b>>
      <4> DEFINE list(two) == <<Member("guest", TRUE, TRUE), two[1], two[2]>>
      <4>1. MemberLists = {list(two) : two \in Others \X Others} \cup {<<>>}
        BY DEF MemberLists
      <4> HIDE DEF list
      <4>2. PICK two \in Others \X Others : members = list(two)
        BY <1>4, <3>2, <4>1
      <4>3. two[1] \in Others /\ two[2] \in Others
        OBVIOUS
      <4>4. QED
        BY <4>2, <4>3 DEF list
    <3>4. members[i] \in {members[1], a, b} /\ members[1] = Member("guest", TRUE, TRUE)
      <4> DEFINE local == Member("guest", TRUE, TRUE)
      <4> HIDE DEF local
      <4>1. members = <<local, a, b>>
        BY <3>3 DEF local
      <4>2. i \in 1 .. 3
        BY <3>1, <4>1
      <4>3. i \in {1, 2, 3}
        BY <4>2
      <4>4. members[1] = local /\ members[2] = a /\ members[3] = b
        BY <4>1
      <4>5. QED
        BY <4>3, <4>4 DEF local
    <3>5. members[i].name = "server" /\ members[i] # members[1]
      BY <3>1, <3>4 DEF IsServer, Member
    <3>6. members[i] \in Others
      BY <3>4, <3>5
    <3>7. Member("guest", TRUE, FALSE).name # "server"
          /\ Member("server with no port", TRUE, FALSE).name # "server"
      BY DEF Member
    <3>8. QED
      BY <3>5, <3>6, <3>7 DEF Others
  <2>4. Around'
    <3>1. 0 \in 0 .. Rounds /\ 0 < Rounds
      OBVIOUS
    <3>2. CallPlaced'
      BY <1>4, <2>2, <3>1 DEF CallPlaced, Calling
    <3>3. SameNetwork'
      BY <1>1, <2>3 DEF SameNetwork
    <3>4. QED
      BY <1>0, <1>1, <1>4, <2>2, <3>1, <3>2, <3>3 DEF Around, Returned, Stages
  <2>5. RulesCovered'
    BY <1>4, <2>1, <2>2 DEF RulesCovered, Called, Asked
  <2>6. QED
    BY <2>2, <2>4, <2>5, Halves, PTL
<1>5. QED
  BY <1>2, <1>3, <1>4 DEF Discover

\* So does asking for the port of Minecraft.
LEMMA DialStep == IInv /\ Dial => IInv'
<1> SUFFICES ASSUME IInv, Dial PROVE IInv'
  OBVIOUS
<1>0. Vector /\ Around /\ RulesCovered
  BY Halves
<1>1. stage = "dial" /\ place = "true" /\ UNCHANGED <<hosted, text, network, tries>>
  BY <1>0 DEF Dial, Around, CallPlaced
<1>2. CASE stage' = "failed" /\ UNCHANGED forwardVars
  <2>1. Around'
    BY <1>0, <1>1, <1>2 DEF Around, SameNetwork, CallPlaced, Calling, Stages, forwardVars
  <2>2. Called' = Called
    BY <1>1, <1>2 DEF Called
  <2>3. QED
    BY <1>0, <1>2, <2>1, <2>2, StageStep
<1>3. CASE /\ ScaffoldingRule \in installed
           /\ Forward(MinecraftRules)
           /\ stage' = "forward minecraft"
  <2>1. MinecraftRules \in Seq(Rules)
    BY RuleFacts
  <2>2. /\ Vector'
        /\ place' \in {"spawn", "true", "false"}
        /\ time' = 0
        /\ installed' \subseteq Rules /\ installed \subseteq installed'
        /\ alive' = alive /\ linked' = linked
        /\ alive' =>
             /\ \A i \in DOMAIN processes' : processes'[i].child # "added"
             /\ place' # "false" =>
                  \A i \in DOMAIN MinecraftRules : MinecraftRules[i] \in installed' \cup Asked'
    <3>1. Len(MinecraftRules) \in 1 .. Len(MinecraftRules)
      BY RuleFacts
    <3>2. \A i, j \in DOMAIN MinecraftRules : MinecraftRules[i] = MinecraftRules[j] => i = j
      BY RuleFacts
    <3>3. QED
      BY <1>0, <1>1, <1>3, <2>1, <3>1, <3>2, ForwardCall
  <2>3. Around'
    <3>1. 0 \in 0 .. Rounds /\ 0 < Rounds
      OBVIOUS
    <3>2. CallPlaced'
      BY <1>3, <2>2, <3>1 DEF CallPlaced, Calling
    <3>3. SameNetwork'
      BY <1>0, <1>1 DEF Around, SameNetwork
    <3>4. QED
      BY <1>0, <1>1, <1>3, <2>2, <3>1, <3>2, <3>3 DEF Around, Returned, Stages
  <2>4. Called' = ToSet(MinecraftRules)
    BY <1>3 DEF Called
  <2>5. RulesCovered'
    <3>1. Called' = {MinecraftRules[i] : i \in DOMAIN MinecraftRules}
      BY <2>4, RuleFacts
    <3>2. alive' /\ place' # "false" => Called' \subseteq installed' \cup Asked'
      BY <2>2, <3>1
    <3>3. ScaffoldingRule \in installed'
      BY <1>3, <2>2
    <3>4. QED
      BY <2>2, <3>2, <3>3 DEF RulesCovered, Asked
  <2>6. QED
    BY <2>2, <2>3, <2>5, Halves, PTL
<1>4. QED
  BY <1>2, <1>3 DEF Dial

\* add_port_forward has returned, for either list of rules.
LEMMA ReturnStep == IInv /\ (ScaffoldingForwarded \/ MinecraftForwarded) => IInv'
<1> SUFFICES ASSUME IInv, ScaffoldingForwarded \/ MinecraftForwarded PROVE IInv'
  OBVIOUS
<1>0. Vector /\ Around /\ RulesCovered
  BY Halves
<1>1. /\ place \in Returned
      /\ UNCHANGED <<hosted, text, network, tries, forwardVars>>
      /\ \/ stage = "forward scaffolding" /\ stage' = IF place = "true" THEN "dial" ELSE "crashed"
         \/ stage = "forward minecraft" /\ stage' = IF place = "true" THEN "joined" ELSE "crashed"
  BY DEF ScaffoldingForwarded, MinecraftForwarded
<1>2. Around'
  BY <1>0, <1>1 DEF Around, Returned, SameNetwork, CallPlaced, Calling, Stages, forwardVars
<1>3. place = "true" => Called' = Called
  BY <1>1 DEF Called
<1>4. stage' = "joined" => stage = "forward minecraft"
  BY <1>1
<1>5. QED
  BY <1>0, <1>1, <1>2, <1>3, <1>4, StageStep DEF Returned

\* So does nothing at all.
LEMMA StutterStep == IInv /\ UNCHANGED vars => IInv'
<1> SUFFICES ASSUME IInv, UNCHANGED vars PROVE IInv'
  OBVIOUS
<1>1. Vector /\ Around /\ RulesCovered
  BY Halves
<1>2. Around'
  BY <1>1 DEF vars, startVars, forwardVars, Around, SameNetwork, CallPlaced
<1>3. Called' = Called /\ stage' = stage /\ UNCHANGED forwardVars
  BY DEF vars, startVars, Called
<1>4. QED
  BY <1>1, <1>2, <1>3, StageStep

\* The invariant holds at first.
LEMMA InitInv == GuestStartInit => IInv
<1> SUFFICES ASSUME GuestStartInit PROVE IInv
  OBVIOUS
<1> USE DEF GuestStartInit, ForwardInit
<1>1. Vector
  BY RuleFacts DEF Vector, RulesOnce, VectorBounded, ChildrenByPlace
<1>2. hosted \in Rooms
  BY DEF Rooms
<1>3. Around
  BY <1>2 DEF Around, SameNetwork, CallPlaced, Calling, Stages
<1>4. RulesCovered
  BY DEF RulesCovered
<1>5. QED
  BY <1>1, <1>3, <1>4, Halves

\* The inductive invariant holds in every reachable state.
THEOREM Inductive == Spec => []IInv
<1>1. IInv /\ [GuestStartNext]_vars => IInv'
  BY SubmitStep, DiscoverStep, DialStep, ReturnStep, StutterStep,
     SpawnStep, WaitStep, SleepStep, CrashStep, ExitStep
  DEF GuestStartNext, InForward, ForwardStep
<1>2. QED
  BY <1>1, InitInv, PTL DEF Spec

\* In every reachable state of the vector, as it shrinks under the loop's index:
\* no rule twice, none retried that was added, every process waited for in its
\* round - but for the processes that a call leaves behind when the next one
\* cannot be started, which are of that round and before the cursor.
THEOREM ChildrenReaped == Spec => []EveryChildReaped
<1>1. ASSUME IInv PROVE EveryChildReaped
  <2>1. Vector
    BY <1>1, Halves
  <2>2. place \in {"sleep"} \cup Returned /\ ~CutShort =>
          \A i \in DOMAIN processes : processes[i].child = "failed"
    BY <2>1 DEF Vector, ChildrenByPlace, Returned
  <2>3. place = "spawn" \/ CutShort =>
          \A i \in DOMAIN processes : i >= cursor => processes[i].child \in {"none", "failed"}
    BY <2>1, VectorFacts DEF Vector, ChildrenByPlace
  <2>4. place = "wait" =>
          \A i \in DOMAIN processes : i > cursor => processes[i].child = "failed"
    BY <2>1, VectorFacts DEF Vector, ChildrenByPlace
  <2>5. QED
    BY <2>1, <2>2, <2>3, <2>4 DEF Vector, RulesOnce, EveryChildReaped
<1>2. QED
  BY <1>1, Inductive, PTL

\* Who has joined is in the host's network, and while EasyTier runs it has all
\* the rules, however often a CLI process failed, lied or was started again.
THEOREM GuestConnected == Spec => []JoinedIsConnected
<1>1. ASSUME IInv PROVE JoinedIsConnected
  <2>1. Vector /\ Around /\ RulesCovered /\ TypeOK
    BY <1>1, Halves DEF IInv
  <2>2. ASSUME stage = "joined", alive PROVE installed = AllRules
    <3>1. place = "true" /\ processes = <<>>
      BY <2>1, <2>2 DEF Around, CallPlaced, Vector, ChildrenByPlace
    <3>2. Called \subseteq installed /\ ScaffoldingRule \in installed
      BY <2>1, <2>2, <3>1 DEF RulesCovered
    <3>3. QED
      BY <2>1, <2>2, <3>2, RuleFacts DEF Around, Called
  <2>3. QED
    BY <2>1, <2>2 DEF Around, SameNetwork, JoinedIsConnected
<1>2. QED
  BY <1>1, Inductive, PTL

=============================================================================
