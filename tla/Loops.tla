-------------------------------- MODULE Loops --------------------------------
(***************************************************************************)
(* The loop invariant of FoldLeft, by which the modules beside this one    *)
(* prove what a loop of the program computes.                              *)
(*                                                                         *)
(* A loop over the items of a list is FoldLeft(Body, start, items).  The   *)
(* theorem of this module is that a set I of pairs <<rounds, value>> that  *)
(* holds the start, and with a value also what the next round makes of it, *)
(* holds the result.  The invariant is a set and the body a constant of    *)
(* the module (one INSTANCE per loop) because the provers take neither as  *)
(* an operator in a hypothesis; induction on the rounds is done here, from *)
(* the well-foundedness of < on Nat.                                       *)
(***************************************************************************)
EXTENDS Integers, SequencesExt, WellFoundedInduction, TLAPS

CONSTANT Body(_, _)   \* what a round makes of a value and an item

Loop(start, items) == FoldLeft(Body, start, items)

\* A set of numbers that is not empty has a least element.
LEMMA Least ==
  ASSUME NEW T \in SUBSET Nat, T # {}
  PROVE  \E x \in T : \A y \in T : ~(y < x)
<1> DEFINE R == {p \in Nat \X Nat : p[1] < p[2]}
<1>1. IsWellFoundedOn(R, Nat)
  BY NatLessThanWellFounded DEF OpToRel
<1> HIDE DEF R
<1>2. \E x \in T : \A y \in T : ~(<<y, x>> \in R)
  BY <1>1, WFMin
<1>3. \A x, y \in T : y < x => <<y, x>> \in R
  BY DEF R
<1>4. QED
  BY <1>2, <1>3

\* Induction: a set with 0, and with each number its successor, is Nat.
LEMMA NatInd ==
  ASSUME NEW G \in SUBSET Nat, 0 \in G, \A n \in G : n + 1 \in G
  PROVE  G = Nat
<1> SUFFICES ASSUME Nat \ G # {} PROVE FALSE
  OBVIOUS
<1>1. PICK x \in Nat \ G : \A y \in Nat \ G : ~(y < x)
  BY Least
<1>2. x # 0 /\ x - 1 \in Nat /\ ~(x <= x - 1)
  OBVIOUS
<1>3. x - 1 \in G
  BY <1>1, <1>2
<1>4. QED
  BY <1>1, <1>3

\* The fold takes the indices from the greatest down.
LEMMA MaxTop ==
  ASSUME NEW n \in Nat, NEW s \in SUBSET (1 .. n), n \in s
  PROVE  Max(s) = n
<1>1. \A y \in s : n >= y
  OBVIOUS
<1>2. \A x \in s : (\A y \in s : x >= y) => x = n
  OBVIOUS
<1>3. QED
  BY <1>1, <1>2 DEF Max

\* The function by which MapThenFoldSet is defined, for the indices 1 .. n.
IsIter(f, start, items, n) ==
  f = [s \in SUBSET (1 .. n) |->
         IF s = {} THEN start ELSE Body(f[s \ {Max(s)}], items[Max(s)])]

\* There is such a function, so CHOOSE finds one.
LEMMA IterExists ==
  ASSUME NEW start, NEW items, NEW n \in Nat
  PROVE  \E f : IsIter(f, start, items, n)
<1> DEFINE G == {m \in Nat : \E f : IsIter(f, start, items, m)}
<1>1. 0 \in G
  <2> DEFINE f == [s \in SUBSET (1 .. 0) |-> start]
  <2>1. \A s \in SUBSET (1 .. 0) : s = {}
    OBVIOUS
  <2>2. IsIter(f, start, items, 0)
    BY <2>1 DEF IsIter
  <2>3. QED
    BY <2>2
<1>2. ASSUME NEW m \in G PROVE m + 1 \in G
  <2>1. PICK f : IsIter(f, start, items, m)
    OBVIOUS
  <2> DEFINE g == [s \in SUBSET (1 .. m + 1) |->
                     IF m + 1 \in s THEN Body(f[s \ {m + 1}], items[m + 1]) ELSE f[s]]
  <2>2. ASSUME NEW s \in SUBSET (1 .. m + 1)
        PROVE  g[s] = IF s = {} THEN start ELSE Body(g[s \ {Max(s)}], items[Max(s)])
    <3>1. CASE m + 1 \in s
      <4>1. Max(s) = m + 1
        BY <3>1, MaxTop
      <4>2. g[s \ {m + 1}] = f[s \ {m + 1}]
        OBVIOUS
      <4>3. g[s] = Body(f[s \ {m + 1}], items[m + 1])
        BY <3>1
      <4> HIDE DEF g
      <4>4. QED
        BY <3>1, <4>1, <4>2, <4>3
    <3>2. CASE m + 1 \notin s
      <4>0. \A i \in 1 .. m + 1 : i # m + 1 => i \in 1 .. m
        OBVIOUS
      <4>1. s \in SUBSET (1 .. m) /\ s \ {Max(s)} \in SUBSET (1 .. m)
        BY <3>2, <4>0
      <4>2. g[s] = f[s]
        BY <3>2
      <4>3. g[s \ {Max(s)}] = f[s \ {Max(s)}]
        BY <3>2
      <4>4. f[s] = IF s = {} THEN start ELSE Body(f[s \ {Max(s)}], items[Max(s)])
        BY <2>1, <4>1 DEF IsIter
      <4> HIDE DEF g
      <4>5. QED
        BY <4>2, <4>3, <4>4
    <3>3. QED
      BY <3>1, <3>2
  <2>3. IsIter(g, start, items, m + 1)
    <3>1. g = [s \in SUBSET (1 .. m + 1) |-> g[s]]
      OBVIOUS
    <3> HIDE DEF g
    <3>2. QED
      BY <2>2, <3>1 DEF IsIter
  <2>4. QED
    BY <2>3
<1>3. G = Nat
  <2> G \subseteq Nat
    OBVIOUS
  <2> HIDE DEF G
  <2>1. QED
    BY <1>1, <1>2, NatInd
<1>4. QED
  BY <1>3

\* What holds before the first round, and after each round if it held before,
\* holds of the result of the loop.
THEOREM LoopInvariant ==
  ASSUME NEW S, NEW items \in Seq(S), NEW start, NEW I,
         <<0, start>> \in I,
         \A k \in 0 .. Len(items) - 1 : \A acc :
           <<k, acc>> \in I => <<k + 1, Body(acc, items[k + 1])>> \in I
  PROVE  <<Len(items), Loop(start, items)>> \in I
<1> DEFINE n == Len(items)
<1> DEFINE iter == CHOOSE f : IsIter(f, start, items, n)
<1>0. n \in Nat /\ DOMAIN items = 1 .. n
  OBVIOUS
<1>1. Loop(start, items) = iter[1 .. n]
  BY <1>0 DEF Loop, FoldLeft, MapThenFoldSet, IsIter
<1>2. IsIter(iter, start, items, n)
  BY <1>0, IterExists
<1> HIDE DEF iter
<1> HIDE DEF n
<1> DEFINE G == {k \in Nat : k <= n => <<k, iter[1 .. k]>> \in I}
<1>3. 0 \in G
  <2>1. iter[1 .. 0] = start
    BY <1>0, <1>2 DEF IsIter
  <2>2. QED
    BY <2>1
<1>4. ASSUME NEW k \in G PROVE k + 1 \in G
  <2> SUFFICES ASSUME k + 1 <= n PROVE <<k + 1, iter[1 .. k + 1]>> \in I
    OBVIOUS
  <2>1. Max(1 .. k + 1) = k + 1
    BY MaxTop
  <2>2. (1 .. k + 1) \ {k + 1} = 1 .. k
    OBVIOUS
  <2>3. 1 .. k + 1 # {} /\ 1 .. k + 1 \in SUBSET (1 .. n)
    <3>1. k + 1 \in 1 .. k + 1 /\ \A i \in 1 .. k + 1 : i \in 1 .. n
      BY <1>0
    <3>2. QED
      BY <3>1
  <2>4. iter[1 .. k + 1] = Body(iter[1 .. k], items[k + 1])
    BY <1>2, <2>1, <2>2, <2>3 DEF IsIter
  <2>5. <<k, iter[1 .. k]>> \in I /\ k \in 0 .. Len(items) - 1
    BY <1>0 DEF n
  <2>6. QED
    BY <2>4, <2>5
<1>5. G = Nat
  <2> G \subseteq Nat
    OBVIOUS
  <2> HIDE DEF G
  <2>1. QED
    BY <1>3, <1>4, NatInd
<1>6. QED
  BY <1>0, <1>1, <1>5 DEF n

-----------------------------------------------------------------------------
(* What the operators on lists do that loops shorten and lengthen them by.  *)

\* RemoveAt shortens a list by one and moves up what stood behind.
LEMMA RemoveAtProperties ==
  ASSUME NEW E, NEW s \in Seq(E), NEW i \in 1 .. Len(s)
  PROVE  /\ RemoveAt(s, i) \in Seq(E)
         /\ Len(RemoveAt(s, i)) = Len(s) - 1
         /\ \A j \in 1 .. Len(s) - 1 :
              RemoveAt(s, i)[j] = IF j < i THEN s[j] ELSE s[j + 1]
<1> DEFINE a == SubSeq(s, 1, i - 1)
<1> DEFINE b == SubSeq(s, i + 1, Len(s))
<1>1. /\ a \in Seq(E) /\ Len(a) = i - 1 /\ \A j \in 1 .. i - 1 : a[j] = s[j]
  OBVIOUS
<1>2. /\ b \in Seq(E) /\ Len(b) = Len(s) - i /\ \A j \in 1 .. Len(s) - i : b[j] = s[i + j]
  OBVIOUS
<1>3. RemoveAt(s, i) = a \o b
  BY DEF RemoveAt
<1> HIDE DEF a, b
<1>4. a \o b \in Seq(E) /\ Len(a \o b) = Len(s) - 1
  <2>0. a \in Seq(E) /\ b \in Seq(E)
    BY <1>1, <1>2
  <2>1. a \o b \in Seq(E) /\ Len(a \o b) = Len(a) + Len(b)
    BY <2>0
  <2>2. Len(s) \in Nat
    OBVIOUS
  <2>3. QED
    BY <1>1, <1>2, <2>1, <2>2
<1>5. ASSUME NEW j \in 1 .. Len(s) - 1
      PROVE  (a \o b)[j] = IF j < i THEN s[j] ELSE s[j + 1]
  <2>1. CASE j < i
    BY <1>1, <1>2, <2>1
  <2>2. CASE ~(j < i)
    <3>1. j - (i - 1) \in 1 .. Len(s) - i /\ i + (j - (i - 1)) = j + 1
      BY <2>2
    <3>2. (a \o b)[j] = b[j - (i - 1)]
      BY <1>1, <1>2, <2>2
    <3>3. QED
      BY <1>2, <2>2, <3>1, <3>2
  <2>3. QED
    BY <2>1, <2>2
<1>6. QED
  BY <1>3, <1>4, <1>5

\* InsertAt puts an item in front of what stood at a place.
LEMMA InsertAtProperties ==
  ASSUME NEW E, NEW s \in Seq(E), NEW i \in 1 .. Len(s) + 1, NEW e \in E
  PROVE  /\ InsertAt(s, i, e) \in Seq(E)
         /\ Len(InsertAt(s, i, e)) = Len(s) + 1
         /\ \A j \in 1 .. i - 1 : InsertAt(s, i, e)[j] = s[j]
         /\ InsertAt(s, i, e)[i] = e
         /\ \A j \in i + 1 .. Len(s) + 1 : InsertAt(s, i, e)[j] = s[j - 1]
<1> DEFINE a == SubSeq(s, 1, i - 1)
<1> DEFINE b == SubSeq(s, i, Len(s))
<1> DEFINE c == Append(a, e)
<1>0. Len(s) \in Nat /\ i \in Nat
  OBVIOUS
<1>1. /\ a \in Seq(E) /\ Len(a) = i - 1 /\ \A j \in 1 .. i - 1 : a[j] = s[j]
  OBVIOUS
<1>2. /\ b \in Seq(E) /\ Len(b) = Len(s) + 1 - i
      /\ \A j \in 1 .. Len(s) + 1 - i : b[j] = s[i + j - 1]
  OBVIOUS
<1>3. a \o <<e>> = c
  OBVIOUS
<1> HIDE DEF a, b
<1>4. c \in Seq(E) /\ Len(c) = i /\ c[i] = e /\ \A j \in 1 .. i - 1 : c[j] = s[j]
  BY <1>1
<1> HIDE DEF c
<1>5. InsertAt(s, i, e) = c \o b
  BY <1>3 DEF InsertAt, a, b
<1>6. c \o b \in Seq(E) /\ Len(c \o b) = Len(s) + 1
  <2>0. c \in Seq(E) /\ b \in Seq(E)
    BY <1>2, <1>4
  <2>1. c \o b \in Seq(E) /\ Len(c \o b) = Len(c) + Len(b)
    BY <2>0
  <2>2. QED
    BY <1>0, <1>2, <1>4, <2>1
<1>7. \A j \in 1 .. i : (c \o b)[j] = c[j]
  BY <1>2, <1>4
<1>8. ASSUME NEW j \in i + 1 .. Len(s) + 1 PROVE (c \o b)[j] = s[j - 1]
  <2>1. j - i \in 1 .. Len(s) + 1 - i /\ i + (j - i) - 1 = j - 1
    BY <1>0
  <2>2. (c \o b)[j] = b[j - i]
    BY <1>0, <1>2, <1>4
  <2>3. QED
    BY <1>2, <2>1, <2>2
<1>9. (\A j \in 1 .. i - 1 : (c \o b)[j] = s[j]) /\ (c \o b)[i] = e
  BY <1>0, <1>4, <1>7
<1>10. QED
  BY <1>5, <1>6, <1>8, <1>9
=============================================================================
