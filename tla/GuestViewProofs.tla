---------------------------- MODULE GuestViewProofs ---------------------------
(***************************************************************************)
(* Proofs about GuestView: whatever the host answers, the list a guest     *)
(* shows is well-formed in every state; the reader accepts exactly the     *)
(* player tables; the merge in place comes to a replacement by the answer  *)
(* and reports a change when there is one; the version says so.            *)
(*                                                                         *)
(* The work is in the four loops of a round, each with its loop invariant: *)
(* ReadTo, SortedBy, MergedTo and AddedTo say what has been reached after  *)
(* some rounds, a lemma "...Round" that one more round keeps it, a lemma   *)
(* "...Loop" what follows for the whole loop by module Loops.  They are    *)
(* about PlayerLists, with the profile `me` of any machine: RoomSync's     *)
(* sessions use them too.  The invariant of GuestView's specification is   *)
(* ViewWellFormed itself.                                                  *)
(***************************************************************************)
EXTENDS GuestView, FiniteSetTheorems, TLAPS

\* The four loops of a round: over the items of the answer, the sort, over
\* the profiles shown, over what is new.
Reading == INSTANCE Loops WITH Body <- ReadItem
Sorting == INSTANCE Loops WITH Body <- Insert
Merging == INSTANCE Loops WITH Body <- MergeAt
Adding == INSTANCE Loops WITH Body <- AddNew

\* Each is a FoldLeft of PlayerLists.
LEMMA FoldsAreLoops ==
  ASSUME NEW start, NEW items
  PROVE  /\ FoldLeft(ReadItem, start, items) = Reading!Loop(start, items)
         /\ FoldLeft(Insert, start, items) = Sorting!Loop(start, items)
         /\ FoldLeft(MergeAt, start, items) = Merging!Loop(start, items)
         /\ FoldLeft(AddNew, start, items) = Adding!Loop(start, items)
<1>1. FoldLeft(ReadItem, start, items) = Reading!Loop(start, items)
  BY DEF FoldLeft, MapThenFoldSet, Max, Reading!Loop, Reading!FoldLeft,
         Reading!MapThenFoldSet, Reading!Max
<1>2. FoldLeft(Insert, start, items) = Sorting!Loop(start, items)
  BY DEF FoldLeft, MapThenFoldSet, Max, Sorting!Loop, Sorting!FoldLeft,
         Sorting!MapThenFoldSet, Sorting!Max
<1>3. FoldLeft(MergeAt, start, items) = Merging!Loop(start, items)
  BY DEF FoldLeft, MapThenFoldSet, Max, Merging!Loop, Merging!FoldLeft,
         Merging!MapThenFoldSet, Merging!Max
<1>4. FoldLeft(AddNew, start, items) = Adding!Loop(start, items)
  BY DEF FoldLeft, MapThenFoldSet, Max, Adding!Loop, Adding!FoldLeft,
         Adding!MapThenFoldSet, Adding!Max
<1>5. QED
  BY <1>1, <1>2, <1>3, <1>4

\* Machine ids are numbers.
LEMMA ProfileFields ==
  ASSUME NEW p \in Profile
  PROVE  p.id \in Nat /\ p.id \in Machines /\ p.name \in Names /\ p.kind \in Kinds
BY MachinesAssumption DEF Profile

\* What the profile of the machine that shows the list is.
Locals == {p \in Profile : p.kind = "LOCAL"}

-----------------------------------------------------------------------------
(* Reading the answer. *)

\* What the loop makes of one item.
Relabelled(me, item) == [item EXCEPT !.kind = IF item.id = me.id THEN "LOCAL" ELSE item.kind]

\* What it demands of the first k items.
Believed(me, answer, k) ==
  \A i, j \in 1 .. k :
    /\ answer[i].id # me.id => answer[i].kind # "LOCAL"
    /\ answer[i].id = me.id /\ answer[j].id = me.id => i = j
    /\ Relabelled(me, answer[i]).kind = "HOST" /\ Relabelled(me, answer[j]).kind = "HOST" => i = j

Reads == [me : Locals, players : Seq(Profile), ok : BOOLEAN]

\* What has been read after k items.
ReadTo(me, answer, k, r) ==
  /\ r.me = me
  /\ Len(r.players) = k
  /\ \A i \in 1 .. k : r.players[i] = Relabelled(me, answer[i])
  /\ r.ok <=> Believed(me, answer, k)

\* Only the kind changes, and only that of this machine.
LEMMA RelabelledType ==
  ASSUME NEW me, NEW item \in Profile
  PROVE  /\ Relabelled(me, item) \in Profile
         /\ Relabelled(me, item).id = item.id
         /\ Relabelled(me, item).kind = IF item.id = me.id THEN "LOCAL" ELSE item.kind
         /\ item.id # me.id => Relabelled(me, item) = item
BY DEF Relabelled, Profile, Kinds

\* One more item.
LEMMA ReadRound ==
  ASSUME NEW me \in Locals, NEW answer \in Seq(Profile), NEW k \in 0 .. Len(answer) - 1,
         NEW r \in Reads, ReadTo(me, answer, k, r)
  PROVE  /\ ReadItem(r, answer[k + 1]) \in Reads
         /\ ReadTo(me, answer, k + 1, ReadItem(r, answer[k + 1]))
<1> DEFINE item == answer[k + 1]
<1> DEFINE next == ReadItem(r, item)
<1> DEFINE kind == IF item.id = me.id THEN "LOCAL" ELSE item.kind
<1> DEFINE refused == \/ kind = "LOCAL" /\ (item.id # me.id \/ Has(r, "LOCAL"))
                      \/ kind = "HOST" /\ Has(r, "HOST")
<1>0. /\ item \in Profile /\ r.players \in Seq(Profile) /\ r.ok \in BOOLEAN
      /\ k \in Nat /\ DOMAIN r.players = 1 .. k /\ Len(r.players) = k /\ r.me = me
      /\ \A i \in 1 .. k : answer[i] \in Profile
  BY DEF Reads, ReadTo
<1>1. next = [me |-> me, players |-> Append(r.players, Relabelled(me, item)), ok |-> r.ok /\ ~refused]
  <2> DEFINE longer == Append(r.players, Relabelled(me, item))
  <2> DEFINE ok == r.ok /\ ~refused
  <2>1. next = [r EXCEPT !.players = longer, !.ok = ok]
    BY <1>0 DEF ReadItem, Relabelled
  <2>2. r.me = me
    BY <1>0
  <2> HIDE DEF next, longer, ok
  <2>3. next = [me |-> me, players |-> longer, ok |-> ok]
    BY <2>1, <2>2 DEF Reads
  <2>4. QED
    BY <2>3 DEF longer, ok
<1>2. next \in Reads
  BY <1>0, <1>1, RelabelledType DEF Reads
<1>3. /\ Len(next.players) = k + 1
      /\ \A i \in 1 .. k + 1 : next.players[i] = Relabelled(me, answer[i])
  <2>1. \A i \in 1 .. k : r.players[i] = Relabelled(me, answer[i])
    BY DEF ReadTo
  <2>2. next.players = Append(r.players, Relabelled(me, item))
    BY <1>1
  <2>3. Relabelled(me, item) \in Profile
    BY <1>0, RelabelledType
  <2> HIDE DEF next
  <2>4. QED
    BY <1>0, <2>1, <2>2, <2>3
<1>4. /\ Has(r, "LOCAL") <=> \E i \in 1 .. k : answer[i].id = me.id \/ answer[i].kind = "LOCAL"
      /\ Has(r, "HOST") <=> \E i \in 1 .. k : Relabelled(me, answer[i]).kind = "HOST"
  <2>1. \A i \in 1 .. k : r.players[i] = Relabelled(me, answer[i])
    BY DEF ReadTo
  <2>2. \A i \in 1 .. k : Relabelled(me, answer[i]).kind = "LOCAL"
                            <=> answer[i].id = me.id \/ answer[i].kind = "LOCAL"
    BY <1>0, RelabelledType
  <2>3. \A kd : Has(r, kd) <=> \E i \in 1 .. k : r.players[i].kind = kd
    <3>1. DOMAIN r.players = 1 .. k
      BY <1>0
    <3>2. QED
      BY <3>1 DEF Has, OfKind
  <2>4. Has(r, "LOCAL") <=> \E i \in 1 .. k : Relabelled(me, answer[i]).kind = "LOCAL"
    BY <2>1, <2>3
  <2>5. Has(r, "HOST") <=> \E i \in 1 .. k : Relabelled(me, answer[i]).kind = "HOST"
    BY <2>1, <2>3
  <2>6. QED
    BY <2>2, <2>4, <2>5
<1>5. Believed(me, answer, k + 1) <=> Believed(me, answer, k) /\ ~refused
  <2>0. /\ Relabelled(me, item).kind = kind
        /\ \A i \in 1 .. k + 1 : i \in 1 .. k \/ i = k + 1
        /\ \A i \in 1 .. k : i \in 1 .. k + 1 /\ i # k + 1
        /\ k + 1 \in 1 .. k + 1
    BY <1>0, RelabelledType
  <2>1. ASSUME Believed(me, answer, k + 1) PROVE Believed(me, answer, k)
    BY <2>0, <2>1 DEF Believed
  <2>2. ASSUME Believed(me, answer, k + 1) PROVE ~refused
    <3>1. CASE kind = "LOCAL"
      <4>1. item.id = me.id
        BY <2>0, <2>2, <3>1 DEF Believed
      <4>2. \A i \in 1 .. k : answer[i].id # me.id /\ answer[i].kind # "LOCAL"
        BY <2>0, <2>2, <4>1 DEF Believed
      <4>3. QED
        BY <1>4, <3>1, <4>1, <4>2
    <3>2. CASE kind = "HOST"
      <4>1. \A i \in 1 .. k : Relabelled(me, answer[i]).kind # "HOST"
        BY <2>0, <2>2, <3>2 DEF Believed
      <4>2. QED
        BY <1>4, <3>2, <4>1
    <3>3. QED
      BY <3>1, <3>2
  <2>3. ASSUME Believed(me, answer, k), ~refused PROVE Believed(me, answer, k + 1)
    <3> SUFFICES ASSUME NEW i \in 1 .. k + 1, NEW j \in 1 .. k + 1
        PROVE /\ answer[i].id # me.id => answer[i].kind # "LOCAL"
              /\ answer[i].id = me.id /\ answer[j].id = me.id => i = j
              /\ Relabelled(me, answer[i]).kind = "HOST" /\ Relabelled(me, answer[j]).kind = "HOST"
                   => i = j
      BY DEF Believed
    <3>1. answer[i].id # me.id => answer[i].kind # "LOCAL"
      BY <2>0, <2>3 DEF Believed
    <3>2. answer[i].id = me.id /\ answer[j].id = me.id => i = j
      <4>1. item.id = me.id => kind = "LOCAL"
        OBVIOUS
      <4>2. item.id = me.id => \A n \in 1 .. k : answer[n].id # me.id
        BY <1>4, <2>3, <4>1
      <4>3. QED
        BY <2>0, <2>3, <4>2 DEF Believed
    <3>3. Relabelled(me, answer[i]).kind = "HOST" /\ Relabelled(me, answer[j]).kind = "HOST" => i = j
      <4>1. kind = "HOST" => \A n \in 1 .. k : Relabelled(me, answer[n]).kind # "HOST"
        BY <1>4, <2>3
      <4>2. QED
        BY <2>0, <2>3, <4>1 DEF Believed
    <3>4. QED
      BY <3>1, <3>2, <3>3
  <2>4. QED
    BY <2>1, <2>2, <2>3
<1>6. next.ok <=> Believed(me, answer, k + 1)
  <2>1. r.ok <=> Believed(me, answer, k)
    BY DEF ReadTo
  <2> HIDE DEF next, refused
  <2>2. next.ok = (r.ok /\ ~refused)
    BY <1>1
  <2>3. QED
    BY <1>5, <2>1, <2>2
<1>7. QED
  BY <1>1, <1>2, <1>3, <1>6 DEF ReadTo

\* The whole answer.
LEMMA ReadLoop ==
  ASSUME NEW me \in Locals, NEW answer \in Seq(Profile)
  PROVE  /\ FoldLeft(ReadItem, Unread(me), answer) \in Reads
         /\ ReadTo(me, answer, Len(answer), FoldLeft(ReadItem, Unread(me), answer))
<1> DEFINE I == {x \in Nat \X Reads : ReadTo(me, answer, x[1], x[2])}
<1>1. <<0, Unread(me)>> \in I
  <2>1. /\ Unread(me) \in Reads /\ Unread(me).me = me
        /\ Len(Unread(me).players) = 0 /\ Unread(me).ok
    BY DEF Unread, Reads
  <2>2. \A i \in 1 .. 0 : FALSE
    OBVIOUS
  <2>3. Believed(me, answer, 0)
    BY <2>2 DEF Believed
  <2>4. ReadTo(me, answer, 0, Unread(me))
    BY <2>1, <2>2, <2>3 DEF ReadTo
  <2>5. QED
    BY <2>1, <2>4
<1>2. ASSUME NEW k \in 0 .. Len(answer) - 1, NEW r, <<k, r>> \in I
      PROVE  <<k + 1, ReadItem(r, answer[k + 1])>> \in I
  BY <1>2, ReadRound
<1> HIDE DEF I
<1>3. <<Len(answer), Reading!Loop(Unread(me), answer)>> \in I
  BY <1>1, <1>2, Reading!LoopInvariant
<1>4. QED
  BY <1>3, FoldsAreLoops DEF I


-----------------------------------------------------------------------------
(* Sorting. *)

Ordered(s) == \A i, j \in DOMAIN s : i < j => s[i].id <= s[j].id

\* RemoveAt shortens a list by one and moves up what stood behind.
LEMMA RemoveAtProperties ==
  ASSUME NEW E, NEW s \in Seq(E), NEW i \in 1 .. Len(s)
  PROVE  /\ RemoveAt(s, i) \in Seq(E)
         /\ Len(RemoveAt(s, i)) = Len(s) - 1
         /\ \A j \in 1 .. Len(s) - 1 :
              RemoveAt(s, i)[j] = IF j < i THEN s[j] ELSE s[j + 1]
<1>1. RemoveAt(s, i) = Merging!RemoveAt(s, i)
  BY DEF RemoveAt, Merging!RemoveAt
<1>2. QED
  BY <1>1, Merging!RemoveAtProperties

\* InsertAt puts an item in front of what stood at a place.
LEMMA InsertAtProperties ==
  ASSUME NEW E, NEW s \in Seq(E), NEW i \in 1 .. Len(s) + 1, NEW e \in E
  PROVE  /\ InsertAt(s, i, e) \in Seq(E)
         /\ Len(InsertAt(s, i, e)) = Len(s) + 1
         /\ \A j \in 1 .. i - 1 : InsertAt(s, i, e)[j] = s[j]
         /\ InsertAt(s, i, e)[i] = e
         /\ \A j \in i + 1 .. Len(s) + 1 : InsertAt(s, i, e)[j] = s[j - 1]
<1>1. InsertAt(s, i, e) = Merging!InsertAt(s, i, e)
  BY DEF InsertAt, Merging!InsertAt
<1>2. InsertAt(s, i, e) \in Seq(E) /\ Len(InsertAt(s, i, e)) = Len(s) + 1
  BY <1>1, Merging!InsertAtProperties
<1>3. \A j \in 1 .. i - 1 : InsertAt(s, i, e)[j] = s[j]
  BY <1>1, Merging!InsertAtProperties
<1>4. InsertAt(s, i, e)[i] = e
  BY <1>1, Merging!InsertAtProperties
<1>5. ASSUME NEW j \in i + 1 .. Len(s) + 1 PROVE InsertAt(s, i, e)[j] = s[j - 1]
  <2>1. Merging!InsertAt(s, i, e)[j] = s[j - 1]
    BY Merging!InsertAtProperties
  <2>2. QED
    BY <1>1, <2>1
<1>6. QED
  BY <1>2, <1>3, <1>4, <1>5

\* Where Insert puts a profile: n of those there are not behind it, the
\* others are.
IsPlace(s, p, n) ==
  /\ \A i \in 1 .. n : s[i].id <= p.id
  /\ \A i \in n + 1 .. Len(s) : s[i].id > p.id

\* In a list in order there is such a place.
LEMMA PlaceExists ==
  ASSUME NEW s \in Seq(Profile), Ordered(s), NEW p \in Profile
  PROVE  \E n \in 0 .. Len(s) : IsPlace(s, p, n)
<1> DEFINE T == {n \in 0 .. Len(s) : \A i \in n + 1 .. Len(s) : s[i].id > p.id}
<1>0. /\ Len(s) \in Nat /\ DOMAIN s = 1 .. Len(s) /\ p.id \in Nat
      /\ \A i \in 1 .. Len(s) : s[i].id \in Nat
  BY ProfileFields
<1>1. T \in SUBSET Nat /\ Len(s) \in T
  BY <1>0
<1>2. PICK n \in T : \A m \in T : ~(m < n)
  <2> HIDE DEF T
  <2>1. T # {}
    BY <1>1
  <2>2. QED
    BY <1>1, <2>1, Sorting!Least
<1>3. ASSUME NEW i \in 1 .. n PROVE s[i].id <= p.id
  <2>1. n \in 0 .. Len(s) /\ n - 1 \in 0 .. Len(s) /\ n - 1 < n /\ n \in DOMAIN s
    BY <1>0
  <2>2. n - 1 \notin T
    BY <1>2, <2>1
  <2>3. PICK j \in n .. Len(s) : ~(s[j].id > p.id)
    BY <2>1, <2>2
  <2>4. \A m \in n + 1 .. Len(s) : s[m].id > p.id
    OBVIOUS
  <2>5. j = n
    BY <1>0, <2>1, <2>3, <2>4
  <2>6. s[n].id <= p.id
    BY <1>0, <2>1, <2>3, <2>5
  <2>7. i = n \/ (i < n /\ s[i].id <= s[n].id)
    <3>1. i = n \/ (i < n /\ i \in DOMAIN s)
      BY <1>0, <2>1
    <3>2. QED
      BY <2>1, <3>1 DEF Ordered
  <2>8. QED
    BY <1>0, <2>1, <2>6, <2>7
<1>4. IsPlace(s, p, n) /\ n \in 0 .. Len(s)
  BY <1>3 DEF IsPlace
<1>5. QED
  BY <1>4

\* s holds the first k players, each once, in the order of their ids: `at`
\* tells for each place of s the place it had among them.
SortedBy(at, players, k, s) ==
  /\ s \in Seq(Profile) /\ Len(s) = k
  /\ Ordered(s)
  /\ at \in [1 .. k -> 1 .. k]
  /\ \A i, j \in 1 .. k : at[i] = at[j] => i = j
  /\ \A m \in 1 .. k : \E i \in 1 .. k : at[i] = m
  /\ \A i \in 1 .. k : s[i] = players[at[i]]

\* One more profile.
LEMMA SortRound ==
  ASSUME NEW players \in Seq(Profile), NEW k \in 0 .. Len(players) - 1,
         NEW s, NEW at, SortedBy(at, players, k, s)
  PROVE  \E to : SortedBy(to, players, k + 1, Insert(s, players[k + 1]))
<1> DEFINE p == players[k + 1]
<1> DEFINE n == CHOOSE m \in 0 .. Len(s) : IsPlace(s, p, m)
<1> DEFINE t == Insert(s, p)
<1>0. /\ p \in Profile /\ s \in Seq(Profile) /\ Len(s) = k /\ k \in Nat
      /\ DOMAIN s = 1 .. k /\ Ordered(s) /\ p.id \in Nat
      /\ \A i \in 1 .. k : s[i].id \in Nat
  <2>1. p \in Profile /\ k \in Nat
    OBVIOUS
  <2>2. s \in Seq(Profile) /\ Len(s) = k /\ Ordered(s)
    BY DEF SortedBy
  <2>3. DOMAIN s = 1 .. k /\ \A i \in 1 .. k : s[i] \in Profile
    BY <2>2
  <2>4. QED
    BY <2>1, <2>2, <2>3, ProfileFields
<1>1. n \in 0 .. k /\ n \in Nat /\ IsPlace(s, p, n)
  <2>1. \E m \in 0 .. Len(s) : IsPlace(s, p, m)
    BY <1>0, PlaceExists
  <2>2. n \in 0 .. Len(s) /\ IsPlace(s, p, n)
    BY <2>1
  <2>3. QED
    BY <1>0, <2>2
<1>2. t = InsertAt(s, n + 1, p)
  BY DEF Insert, IsPlace
<1> HIDE DEF p, n
<1>3. /\ t \in Seq(Profile) /\ Len(t) = k + 1 /\ DOMAIN t = 1 .. k + 1
      /\ \A j \in 1 .. k + 1 : t[j] = IF j < n + 1 THEN s[j] ELSE IF j = n + 1 THEN p ELSE s[j - 1]
  <2>1. n + 1 \in 1 .. Len(s) + 1
    BY <1>0, <1>1
  <2> DEFINE u == InsertAt(s, n + 1, p)
  <2>2. /\ u \in Seq(Profile) /\ Len(u) = Len(s) + 1
        /\ \A j \in 1 .. Len(s) + 1 : u[j] = IF j < n + 1 THEN s[j] ELSE IF j = n + 1 THEN p ELSE s[j - 1]
    <3> HIDE DEF u
    <3>1. p \in Profile /\ s \in Seq(Profile)
      BY <1>0
    <3>2. u \in Seq(Profile) /\ Len(u) = Len(s) + 1
      BY <2>1, <3>1, InsertAtProperties DEF u
    <3>3. \A j \in 1 .. Len(s) + 1 : u[j] = IF j < n + 1 THEN s[j] ELSE IF j = n + 1 THEN p ELSE s[j - 1]
      <4> SUFFICES ASSUME NEW j \in 1 .. Len(s) + 1
                   PROVE  u[j] = IF j < n + 1 THEN s[j] ELSE IF j = n + 1 THEN p ELSE s[j - 1]
        OBVIOUS
      <4> DEFINE l == n + 1
      <4> HIDE DEF l
      <4>1. l \in 1 .. Len(s) + 1
        BY <2>1 DEF l
      <4>2. /\ j < l => InsertAt(s, l, p)[j] = s[j]
            /\ j = l => InsertAt(s, l, p)[j] = p
            /\ j > l => InsertAt(s, l, p)[j] = s[j - 1]
        <5>1. (j < l => j \in 1 .. l - 1) /\ (j > l => j \in l + 1 .. Len(s) + 1)
          BY <1>0, <4>1
        <5>2. QED
          BY <3>1, <4>1, <5>1, InsertAtProperties
      <4>3. j < l \/ j = l \/ j > l
        BY <1>0, <4>1
      <4>4. QED
        BY <4>2, <4>3 DEF u, l
    <3>4. QED
      BY <3>2, <3>3
  <2> HIDE DEF t, u
  <2>3. t = u
    BY <1>2 DEF u
  <2>4. QED
    BY <1>0, <2>2, <2>3
<1> HIDE DEF t
<1>4. Ordered(t)
  <2> SUFFICES ASSUME NEW i \in 1 .. k + 1, NEW j \in 1 .. k + 1, i < j
               PROVE  t[i].id <= t[j].id
    BY <1>3 DEF Ordered
  <2>1. CASE j < n + 1
    <3>1. i \in 1 .. k /\ j \in 1 .. k /\ i < n + 1
      BY <1>0, <1>1, <2>1
    <3>2. t[i] = s[i] /\ t[j] = s[j]
      BY <1>3, <2>1, <3>1
    <3>3. QED
      BY <1>0, <3>1, <3>2 DEF Ordered
  <2>2. CASE i > n + 1
    <3>1. i - 1 \in 1 .. k /\ j - 1 \in 1 .. k /\ i - 1 < j - 1
      BY <1>0, <1>1, <2>2
    <3>2. t[i] = s[i - 1] /\ t[j] = s[j - 1]
      BY <1>0, <1>1, <1>3, <2>2
    <3>3. QED
      BY <1>0, <3>1, <3>2 DEF Ordered
  <2>3. CASE i <= n + 1 /\ j >= n + 1
    <3>1. t[i].id <= p.id
      BY <1>0, <1>1, <1>3, <2>3 DEF IsPlace
    <3>2. t[j] = p \/ (t[j] = s[j - 1] /\ j - 1 \in n + 1 .. Len(s))
      BY <1>0, <1>1, <1>3, <2>3
    <3>3. p.id <= t[j].id
      BY <1>0, <1>1, <3>2 DEF IsPlace
    <3>4. t[i].id \in Nat /\ t[j].id \in Nat
      BY <1>3, ProfileFields
    <3>5. QED
      BY <1>0, <3>1, <3>3, <3>4
  <2>4. QED
    BY <1>0, <1>1, <2>1, <2>2, <2>3
<1> DEFINE to == [i \in 1 .. k + 1 |-> IF i < n + 1 THEN at[i]
                                      ELSE IF i = n + 1 THEN k + 1 ELSE at[i - 1]]
<1>5. \A i \in 1 .. k + 1 : i < n + 1 => i \in 1 .. k
  BY <1>0, <1>1
<1>6. \A i \in 1 .. k + 1 : i > n + 1 => i - 1 \in 1 .. k
  BY <1>0, <1>1
<1> DEFINE E(i) == IF i < n + 1 THEN at[i] ELSE IF i = n + 1 THEN k + 1 ELSE at[i - 1]
<1>7. /\ at \in [1 .. k -> 1 .. k]
      /\ \A i, j \in 1 .. k : at[i] = at[j] => i = j
      /\ \A m \in 1 .. k : \E i \in 1 .. k : at[i] = m
      /\ \A i \in 1 .. k : s[i] = players[at[i]]
  BY DEF SortedBy
<1>8. \A i \in 1 .. k : at[i] \in 1 .. k /\ at[i] \in 1 .. k + 1 /\ at[i] # k + 1
  BY <1>0, <1>7
<1>9. to \in [1 .. k + 1 -> 1 .. k + 1]
  <2> SUFFICES ASSUME NEW i \in 1 .. k + 1 PROVE E(i) \in 1 .. k + 1
    OBVIOUS
  <2>1. CASE i < n + 1
    BY <1>5, <1>8, <2>1
  <2>2. CASE i = n + 1
    BY <1>0, <2>2
  <2>3. CASE i > n + 1
    BY <1>0, <1>1, <1>6, <1>8, <2>3
  <2>4. i < n + 1 \/ i = n + 1 \/ i > n + 1
    BY <1>1
  <2>5. QED
    BY <2>1, <2>2, <2>3, <2>4
<1>10. \A i \in 1 .. k + 1 :
         /\ i < n + 1 => to[i] = at[i] /\ i \in 1 .. k
         /\ i = n + 1 => to[i] = k + 1
         /\ i > n + 1 => to[i] = at[i - 1] /\ i - 1 \in 1 .. k
         /\ i < n + 1 \/ i = n + 1 \/ i > n + 1
  BY <1>0, <1>1, <1>5, <1>6
<1> HIDE DEF to
<1>11. ASSUME NEW i \in 1 .. k + 1, NEW j \in 1 .. k + 1, to[i] = to[j], i # j, i < n + 1
       PROVE  FALSE
  <2>1. at[i] = to[j] /\ i \in 1 .. k
    BY <1>10, <1>11
  <2>2. to[j] # k + 1 /\ j # n + 1
    BY <1>8, <1>10, <2>1
  <2>3. CASE j < n + 1
    BY <1>7, <1>10, <1>11, <2>1, <2>3
  <2>4. CASE j > n + 1
    <3>1. at[i] = at[j - 1] /\ j - 1 \in 1 .. k
      BY <1>10, <2>1, <2>4
    <3>2. i = j - 1
      BY <1>7, <2>1, <3>1
    <3>3. QED
      BY <1>1, <1>11, <2>4, <3>2
  <2>5. QED
    BY <1>10, <2>2, <2>3, <2>4
<1>12. ASSUME NEW i \in 1 .. k + 1, NEW j \in 1 .. k + 1, to[i] = to[j], i # j,
              i > n + 1, j > n + 1
       PROVE  FALSE
  <2>1. at[i - 1] = at[j - 1] /\ i - 1 \in 1 .. k /\ j - 1 \in 1 .. k
    BY <1>10, <1>12
  <2>2. i - 1 = j - 1
    BY <1>7, <2>1
  <2>3. QED
    BY <1>0, <1>12, <2>2
<1>13. ASSUME NEW i \in 1 .. k + 1, NEW j \in 1 .. k + 1, to[i] = to[j], i = n + 1, j > n + 1
       PROVE  FALSE
  BY <1>8, <1>10, <1>13
<1>14. \A i, j \in 1 .. k + 1 : to[i] = to[j] => i = j
  BY <1>10, <1>11, <1>12, <1>13
<1>15. \A m \in 1 .. k + 1 : \E i \in 1 .. k + 1 : to[i] = m
  <2> SUFFICES ASSUME NEW m \in 1 .. k + 1 PROVE \E i \in 1 .. k + 1 : to[i] = m
    OBVIOUS
  <2>1. CASE m = k + 1
    <3>1. n + 1 \in 1 .. k + 1
      BY <1>0, <1>1
    <3>2. QED
      BY <1>10, <2>1, <3>1
  <2>2. CASE m # k + 1
    <3>0. m \in 1 .. k
      BY <1>0, <2>2
    <3>1. PICK i \in 1 .. k : at[i] = m
      BY <1>7, <3>0
    <3>2. i \in 1 .. k + 1 /\ i + 1 \in 1 .. k + 1 /\ (i + 1) - 1 = i
          /\ (i < n + 1 \/ i + 1 > n + 1)
      BY <1>0, <1>1
    <3>3. QED
      BY <1>10, <3>1, <3>2
  <2>3. QED
    BY <2>1, <2>2
<1>16. \A i \in 1 .. k + 1 : t[i] = players[to[i]]
  <2> SUFFICES ASSUME NEW i \in 1 .. k + 1 PROVE t[i] = players[to[i]]
    OBVIOUS
  <2>1. CASE i < n + 1
    BY <1>3, <1>7, <1>10, <2>1
  <2>2. CASE i = n + 1
    <3>1. t[i] = p /\ to[i] = k + 1
      BY <1>1, <1>3, <1>10, <2>2
    <3>2. QED
      BY <3>1 DEF p
  <2>3. CASE i > n + 1
    <3>1. t[i] = s[i - 1] /\ to[i] = at[i - 1] /\ i - 1 \in 1 .. k
      BY <1>1, <1>3, <1>10, <2>3
    <3>2. QED
      BY <1>7, <3>1
  <2>4. QED
    BY <1>10, <2>1, <2>2, <2>3
<1>17. SortedBy(to, players, k + 1, t)
  BY <1>3, <1>4, <1>9, <1>14, <1>15, <1>16 DEF SortedBy
<1>18. QED
  BY <1>17 DEF t, p

\* The list in order is a rearrangement of the list.
LEMMA SortLoop ==
  ASSUME NEW players \in Seq(Profile)
  PROVE  \E at : SortedBy(at, players, Len(players), Sorted(players))
<1> DEFINE I == {x \in Nat \X Seq(Profile) : \E at : SortedBy(at, players, x[1], x[2])}
<1>1. <<0, <<>>>> \in I
  <2> DEFINE none == <<>>
  <2>1. \A i \in 1 .. 0 : FALSE
    OBVIOUS
  <2>2. [i \in 1 .. 0 |-> i] \in [1 .. 0 -> 1 .. 0]
    BY <2>1
  <2>3. none \in Seq(Profile) /\ Len(none) = 0 /\ Ordered(none)
    BY DEF Ordered
  <2> HIDE DEF none
  <2>4. SortedBy([i \in 1 .. 0 |-> i], players, 0, none)
    BY <2>1, <2>2, <2>3 DEF SortedBy
  <2>5. PICK at : SortedBy(at, players, 0, none)
    BY <2>4
  <2>6. <<0, none>> \in I
    <3> DEFINE x == <<0, none>>
    <3>0. none \in Seq(Profile) /\ 0 \in Nat
      BY <2>3
    <3>1. x \in Nat \X Seq(Profile)
      BY <3>0, Zenon
    <3>2. x[1] = 0 /\ x[2] = none
      OBVIOUS
    <3> HIDE DEF x
    <3>3. SortedBy(at, players, x[1], x[2])
      BY <2>5, <3>2
    <3>4. x \in I
      BY <3>1, <3>3
    <3>5. QED
      BY <3>4 DEF x
  <2>7. QED
    BY <2>6 DEF none
<1>2. ASSUME NEW k \in 0 .. Len(players) - 1, NEW s, <<k, s>> \in I
      PROVE  <<k + 1, Insert(s, players[k + 1])>> \in I
  <2>1. PICK at : SortedBy(at, players, k, s)
    BY <1>2
  <2>2. PICK to : SortedBy(to, players, k + 1, Insert(s, players[k + 1]))
    BY <2>1, SortRound
  <2>3. Insert(s, players[k + 1]) \in Seq(Profile) /\ k + 1 \in Nat
    BY <2>2 DEF SortedBy
  <2>4. QED
    BY <2>2, <2>3
<1> HIDE DEF I
<1>3. <<Len(players), Sorting!Loop(<<>>, players)>> \in I
  BY <1>1, <1>2, Sorting!LoopInvariant
<1>4. QED
  BY <1>3, FoldsAreLoops DEF I, Sorted

-----------------------------------------------------------------------------
(* What comes of an answer. *)

Distinct(s) == \A i, j \in DOMAIN s : s[i].id = s[j].id => i = j

\* Two neighbours in order have one id when any two profiles have.
LEMMA SortedTwins ==
  ASSUME NEW players \in Seq(Profile)
  PROVE  /\ Sorted(players) \in Seq(Profile)
         /\ ToSet(Sorted(players)) = ToSet(players)
         /\ Twins(Sorted(players)) <=> ~Distinct(players)
         /\ Distinct(players) => Distinct(Sorted(players))
<1> DEFINE s == Sorted(players)
<1> DEFINE n == Len(players)
<1>1. PICK at : SortedBy(at, players, n, s)
  BY SortLoop
<1> HIDE DEF s
<1>2. /\ s \in Seq(Profile) /\ Len(s) = n /\ DOMAIN s = 1 .. n /\ n \in Nat
      /\ DOMAIN players = 1 .. n /\ Ordered(s)
      /\ \A i \in 1 .. n : s[i].id \in Nat
  <2>1. s \in Seq(Profile) /\ Len(s) = n /\ Ordered(s)
    BY <1>1 DEF SortedBy
  <2>2. n \in Nat /\ DOMAIN s = 1 .. n /\ \A i \in 1 .. n : s[i] \in Profile
    BY <2>1
  <2>3. QED
    BY <2>1, <2>2, ProfileFields
<1> HIDE DEF n
<1>3. /\ \A i \in 1 .. n : at[i] \in 1 .. n
      /\ \A i, j \in 1 .. n : at[i] = at[j] => i = j
      /\ \A m \in 1 .. n : \E i \in 1 .. n : at[i] = m
      /\ \A i \in 1 .. n : s[i] = players[at[i]]
  BY <1>1 DEF SortedBy
<1>4. ToSet(s) = ToSet(players)
  <2>1. ASSUME NEW i \in 1 .. n PROVE \E m \in 1 .. n : s[i] = players[m]
    BY <1>3
  <2>2. ASSUME NEW m \in 1 .. n PROVE \E i \in 1 .. n : players[m] = s[i]
    <3>1. PICK i \in 1 .. n : at[i] = m
      BY <1>3
    <3>2. s[i] = players[at[i]]
      BY <1>3
    <3>3. QED
      BY <3>1, <3>2
  <2>3. ToSet(s) = {s[i] : i \in 1 .. n} /\ ToSet(players) = {players[i] : i \in 1 .. n}
    BY <1>2 DEF ToSet
  <2>4. QED
    BY <2>1, <2>2, <2>3
<1>5. ASSUME Distinct(players) PROVE Distinct(s)
  <2> SUFFICES ASSUME NEW i \in 1 .. n, NEW j \in 1 .. n, s[i].id = s[j].id PROVE i = j
    BY <1>2 DEF Distinct
  <2>1. at[i] \in 1 .. n /\ at[j] \in 1 .. n /\ players[at[i]].id = players[at[j]].id
    BY <1>3
  <2>2. at[i] = at[j]
    BY <1>2, <1>5, <2>1 DEF Distinct
  <2>3. QED
    BY <1>3, <2>2
<1>6. ASSUME Distinct(players) PROVE ~Twins(s)
  <2>1. \A i \in 1 .. n - 1 : i \in 1 .. n /\ i + 1 \in 1 .. n /\ i # i + 1
    BY <1>2
  <2>2. QED
    BY <1>2, <1>5, <1>6, <2>1 DEF Distinct, Twins
<1>7. ASSUME ~Distinct(players) PROVE Twins(s)
  <2>1. PICK a \in 1 .. n, b \in 1 .. n : players[a].id = players[b].id /\ a # b
    BY <1>2, <1>7 DEF Distinct
  <2>2. PICK i \in 1 .. n : at[i] = a
    BY <1>3
  <2>3. PICK j \in 1 .. n : at[j] = b
    BY <1>3
  <2>4. s[i].id = s[j].id /\ i # j
    BY <1>3, <2>1, <2>2, <2>3
  <2>5. ASSUME NEW x \in 1 .. n, NEW y \in 1 .. n, s[x].id = s[y].id, x < y
        PROVE  Twins(s)
    <3>1. x \in 1 .. n - 1 /\ x + 1 \in 1 .. n /\ x < x + 1 /\ (x + 1 = y \/ x + 1 < y)
      BY <1>2, <2>5
    <3>2. s[x].id <= s[x + 1].id
      BY <1>2, <3>1 DEF Ordered
    <3>3. s[x + 1].id <= s[y].id
      <4>1. CASE x + 1 = y
        BY <1>2, <4>1
      <4>2. CASE x + 1 < y
        BY <1>2, <3>1, <4>2 DEF Ordered
      <4>3. QED
        BY <3>1, <4>1, <4>2
    <3>4. s[x].id = s[x + 1].id
      BY <1>2, <2>5, <3>1, <3>2, <3>3
    <3>5. QED
      BY <1>2, <3>1, <3>4 DEF Twins
  <2>6. i < j \/ j < i
    BY <2>4
  <2>7. QED
    BY <2>4, <2>5, <2>6
<1>8. QED
  BY <1>2, <1>4, <1>5, <1>6, <1>7 DEF s

\* What the reader accepts, of an answer as it came.
Accepted(me, answer) ==
  /\ Believed(me, answer, Len(answer))
  /\ \E i \in DOMAIN answer : Relabelled(me, answer[i]).kind = "HOST"
  /\ Distinct(answer)

\* The list a guest merges for an answer.
ReadFrom(me, answer, players) ==
  /\ players \in Seq(Profile)
  /\ Distinct(players)
  /\ \A i \in DOMAIN players : players[i].kind = "LOCAL" <=> players[i].id = me.id
  /\ \A i, j \in DOMAIN players : players[i].kind = "HOST" /\ players[j].kind = "HOST" => i = j
  /\ Besides(me, players) = Besides(me, answer)

\* What was read and believed, with this machine added when it was missing.
LEMMA AndLocalIsTable ==
  ASSUME NEW me \in Locals, NEW answer \in Seq(Profile),
         NEW r \in Reads, ReadTo(me, answer, Len(answer), r), r.ok
  PROVE  /\ AndLocal(r) \in Seq(Profile)
         /\ Distinct(AndLocal(r)) <=> Distinct(answer)
         /\ \A p \in ToSet(AndLocal(r)) : p.kind = "LOCAL" <=> p.id = me.id
         /\ \A p, q \in ToSet(AndLocal(r)) : p.kind = "HOST" /\ q.kind = "HOST" => p = q
         /\ Besides(me, AndLocal(r)) = Besides(me, answer)
<1> DEFINE n == Len(answer)
<1> DEFINE all == AndLocal(r)
<1> DEFINE read == r.players
<1>0. /\ n \in Nat /\ DOMAIN answer = 1 .. n /\ read \in Seq(Profile)
      /\ \A i \in 1 .. n : answer[i] \in Profile
  BY DEF Reads
<1>1. Len(read) = n /\ DOMAIN read = 1 .. n /\ \A i \in 1 .. n : read[i] = Relabelled(me, answer[i])
  BY <1>0 DEF ReadTo
<1>2. Believed(me, answer, n)
  BY DEF ReadTo
<1>3. me \in Profile /\ me.kind = "LOCAL" /\ r.me = me
  BY DEF Locals, ReadTo
<1>4. \A i \in 1 .. n :
        /\ read[i].id = answer[i].id
        /\ read[i].kind = "LOCAL" <=> answer[i].id = me.id
        /\ answer[i].id # me.id => read[i] = answer[i]
  <2> SUFFICES ASSUME NEW i \in 1 .. n
               PROVE  /\ read[i].id = answer[i].id
                      /\ read[i].kind = "LOCAL" <=> answer[i].id = me.id
                      /\ answer[i].id # me.id => read[i] = answer[i]
    OBVIOUS
  <2>1. answer[i].id # me.id => answer[i].kind # "LOCAL"
    BY <1>2 DEF Believed
  <2>2. QED
    BY <1>0, <1>1, <2>1, RelabelledType
<1>5. \A i, j \in 1 .. n : read[i].kind = "HOST" /\ read[j].kind = "HOST" => i = j
  BY <1>1, <1>2 DEF Believed
<1> HIDE DEF n, read
<1>6. CASE Has(r, "LOCAL")
  <2>1. all = read
    BY <1>6 DEF AndLocal, read
  <2> HIDE DEF all
  <2>2. Distinct(all) <=> Distinct(answer)
    BY <1>0, <1>1, <1>4, <2>1 DEF Distinct
  <2>3. \A p \in ToSet(all) : \E i \in 1 .. n : p = read[i]
    BY <1>1, <2>1 DEF ToSet
  <2>4. Besides(me, all) = Besides(me, answer)
    BY <1>0, <1>1, <1>4, <2>1 DEF Besides, ToSet
  <2>5. all \in Seq(Profile)
    BY <1>0, <2>1
  <2>6. \A p \in ToSet(all) : p.kind = "LOCAL" <=> p.id = me.id
    BY <1>4, <2>3
  <2>7. \A p, q \in ToSet(all) : p.kind = "HOST" /\ q.kind = "HOST" => p = q
    BY <1>5, <2>3
  <2>8. QED
    BY <2>2, <2>4, <2>5, <2>6, <2>7 DEF all
<1>7. CASE ~Has(r, "LOCAL")
  <2>1. all = Append(read, me)
    BY <1>3, <1>7 DEF AndLocal, read
  <2> HIDE DEF all
  <2>2. /\ all \in Seq(Profile) /\ DOMAIN all = 1 .. n + 1
        /\ \A i \in 1 .. n : all[i] = read[i]
        /\ all[n + 1] = me
    BY <1>0, <1>1, <1>3, <2>1
  <2>3. \A i \in 1 .. n : read[i].kind # "LOCAL" /\ answer[i].id # me.id /\ read[i] = answer[i]
    BY <1>1, <1>4, <1>7 DEF Has, OfKind, read
  <2>4. /\ \A i \in 1 .. n + 1 : i \in 1 .. n \/ i = n + 1
        /\ \A i \in 1 .. n : i \in 1 .. n + 1 /\ i # n + 1
        /\ n + 1 \in 1 .. n + 1
    BY <1>0
  <2>5. Distinct(all) <=> Distinct(answer)
    <3>1. Distinct(answer) => Distinct(all)
      BY <1>0, <1>3, <2>2, <2>3, <2>4 DEF Distinct
    <3>2. Distinct(all) => Distinct(answer)
      <4>1. \A i \in 1 .. n : i \in DOMAIN all /\ all[i].id = answer[i].id
        BY <2>2, <2>3, <2>4
      <4>2. QED
        BY <1>0, <4>1 DEF Distinct
    <3>3. QED
      BY <3>1, <3>2
  <2>6. \A p \in ToSet(all) : p = me \/ \E i \in 1 .. n : p = read[i]
    BY <2>2, <2>4 DEF ToSet
  <2>7. Besides(me, all) = Besides(me, answer)
    <3>1. \A p \in ToSet(answer) : p \in ToSet(all) /\ p.id # me.id
      BY <1>0, <2>2, <2>3, <2>4 DEF ToSet
    <3>2. \A p \in ToSet(all) : p.id # me.id => p \in ToSet(answer)
      <4>1. \A i \in 1 .. n : read[i] \in ToSet(answer)
        BY <1>0, <2>3 DEF ToSet
      <4>2. QED
        BY <1>3, <2>6, <4>1
    <3>3. QED
      BY <3>1, <3>2 DEF Besides
  <2>8. \A p \in ToSet(all) : p.kind = "LOCAL" <=> p.id = me.id
    BY <1>3, <1>4, <2>3, <2>6
  <2>9. \A p, q \in ToSet(all) : p.kind = "HOST" /\ q.kind = "HOST" => p = q
    BY <1>3, <1>5, <2>6
  <2>10. QED
    BY <2>2, <2>5, <2>7, <2>8, <2>9 DEF all
<1>8. QED
  BY <1>6, <1>7

\* Reading and sorting accept what Accepted says, and make of it a list that
\* differs from the answer in this machine alone.
LEMMA ParseResult ==
  ASSUME NEW me \in Locals, NEW answer \in Seq(Profile)
  PROVE  /\ Parse(me, answer).ok \in BOOLEAN
         /\ Parse(me, answer).ok <=> Accepted(me, answer)
         /\ Parse(me, answer).ok => ReadFrom(me, answer, Parse(me, answer).players)
<1> DEFINE r == FoldLeft(ReadItem, Unread(me), answer)
<1> DEFINE sorted == Sorted(AndLocal(r))
<1>1. r \in Reads /\ ReadTo(me, answer, Len(answer), r)
  BY ReadLoop
<1>2. Parse(me, answer) = IF ~r.ok \/ ~Has(r, "HOST") \/ Twins(sorted) THEN Refused
                      ELSE [players |-> sorted, ok |-> TRUE]
  BY DEF Parse
<1> HIDE DEF r
<1>3. /\ r.ok <=> Believed(me, answer, Len(answer))
      /\ Has(r, "HOST") <=> \E i \in DOMAIN answer : Relabelled(me, answer[i]).kind = "HOST"
  <2>1. DOMAIN r.players = DOMAIN answer
    BY <1>1 DEF ReadTo, Reads
  <2>2. \A i \in DOMAIN answer : r.players[i] = Relabelled(me, answer[i])
    BY <1>1 DEF ReadTo
  <2>3. QED
    BY <1>1, <2>1, <2>2 DEF ReadTo, Has, OfKind
<1>4. ASSUME r.ok
      PROVE  /\ Twins(sorted) <=> ~Distinct(answer)
             /\ ~Twins(sorted) => ReadFrom(me, answer, sorted)
  <2> DEFINE all == AndLocal(r)
  <2>1. /\ all \in Seq(Profile)
        /\ Distinct(all) <=> Distinct(answer)
        /\ \A p \in ToSet(all) : p.kind = "LOCAL" <=> p.id = me.id
        /\ \A p, q \in ToSet(all) : p.kind = "HOST" /\ q.kind = "HOST" => p = q
        /\ Besides(me, all) = Besides(me, answer)
    BY <1>1, <1>4, AndLocalIsTable
  <2> HIDE DEF all
  <2>2. /\ sorted \in Seq(Profile)
        /\ ToSet(sorted) = ToSet(all)
        /\ Twins(sorted) <=> ~Distinct(all)
        /\ Distinct(all) => Distinct(sorted)
    BY <2>1, SortedTwins DEF all
  <2> HIDE DEF sorted
  <2>3. ASSUME Distinct(all) PROVE ReadFrom(me, answer, sorted)
    <3>1. \A i \in DOMAIN sorted : sorted[i] \in ToSet(all)
      BY <2>2 DEF ToSet
    <3>2. \A i \in DOMAIN sorted : sorted[i].kind = "LOCAL" <=> sorted[i].id = me.id
      BY <2>1, <3>1
    <3>3. \A i, j \in DOMAIN sorted : sorted[i].kind = "HOST" /\ sorted[j].kind = "HOST" => i = j
      BY <2>1, <2>2, <2>3, <3>1 DEF Distinct
    <3>4. Besides(me, sorted) = Besides(me, answer)
      BY <2>1, <2>2 DEF Besides
    <3>5. QED
      BY <2>2, <2>3, <3>2, <3>3, <3>4 DEF ReadFrom
  <2>4. QED
    BY <2>1, <2>2, <2>3
<1>5. r.ok \in BOOLEAN
  BY <1>1 DEF Reads
<1> HIDE DEF sorted
<1>6. CASE ~r.ok \/ ~Has(r, "HOST") \/ Twins(sorted)
  <2>1. Parse(me, answer).ok = FALSE
    BY <1>2, <1>6 DEF Refused
  <2>2. ~Accepted(me, answer)
    BY <1>3, <1>4, <1>6 DEF Accepted
  <2>3. QED
    BY <2>1, <2>2
<1>7. CASE r.ok /\ Has(r, "HOST") /\ ~Twins(sorted)
  <2>1. Parse(me, answer).ok = TRUE /\ Parse(me, answer).players = sorted
    BY <1>2, <1>7
  <2>2. Accepted(me, answer)
    BY <1>3, <1>4, <1>7 DEF Accepted
  <2>3. QED
    BY <1>4, <1>7, <2>1, <2>2
<1>8. QED
  BY <1>5, <1>6, <1>7

\* The answers of a run are such lists.
LEMMA AnswersAreLists == Answers \subseteq Seq(Profile)
<1>1. Items \subseteq Profile
  BY GuestViewAssumption, MachinesAssumption DEF Items, Profile, Kinds
<1>2. ASSUME NEW m \in 0 .. MaxPlayers, NEW answer \in [1 .. m -> Items]
      PROVE  answer \in Seq(Profile)
  BY <1>1, GuestViewAssumption
<1>3. QED
  BY <1>2 DEF Answers, SeqOf

\* No two items share an id when there are as many ids as items.
LEMMA DistinctCount ==
  ASSUME NEW s \in Seq(Profile)
  PROVE  /\ Cardinality(Ids(s)) = Len(s) <=> Distinct(s)
         /\ IsFiniteSet(ToSet(s))
<1> DEFINE n == Len(s)
<1>0. n \in Nat /\ DOMAIN s = 1 .. n
  OBVIOUS
<1> HIDE DEF n
<1>1. IsFiniteSet(1 .. n) /\ Cardinality(1 .. n) = n
  <2>1. IsFiniteSet(1 .. n) /\ Cardinality(1 .. n) = IF 1 > n THEN 0 ELSE n - 1 + 1
    BY <1>0, FS_Interval
  <2>2. QED
    BY <1>0, <2>1
<1>2. Cardinality(Ids(s)) = n <=> Distinct(s)
  <2> DEFINE f == [i \in 1 .. n |-> s[i].id]
  <2>1. f \in [1 .. n -> Ids(s)] /\ \A i \in 1 .. n : f[i] = s[i].id
    BY <1>0 DEF Ids
  <2>2. \A x \in Ids(s) : \E i \in 1 .. n : f[i] = x
    BY <1>0, <2>1 DEF Ids
  <2> HIDE DEF f
  <2>3. f \in Surjection(1 .. n, Ids(s))
    BY <2>1, <2>2 DEF Surjection
  <2>4. Cardinality(Ids(s)) = Cardinality(1 .. n) <=> f \in Injection(1 .. n, Ids(s))
    BY <1>1, <2>3, FS_Surjection
  <2>5. f \in Injection(1 .. n, Ids(s)) <=> \A i, j \in 1 .. n : f[i] = f[j] => i = j
    BY <2>1 DEF Injection, IsInjective
  <2>6. (\A i, j \in 1 .. n : f[i] = f[j] => i = j) <=> Distinct(s)
    BY <1>0, <2>1 DEF Distinct
  <2>7. QED
    BY <1>1, <2>4, <2>5, <2>6
<1>3. IsFiniteSet(ToSet(s))
  <2>1. s \in Surjection(1 .. n, ToSet(s))
    <3>1. s \in [1 .. n -> ToSet(s)]
      BY <1>0 DEF ToSet
    <3>2. \A x \in ToSet(s) : \E i \in 1 .. n : s[i] = x
      BY <1>0 DEF ToSet
    <3>3. QED
      BY <3>1, <3>2 DEF Surjection
  <2>2. QED
    BY <1>1, <2>1, FS_Surjection
<1>4. QED
  BY <1>2, <1>3 DEF n

\* The reader's one pass accepts what a player table is.
LEMMA AcceptedIsTable ==
  ASSUME NEW me \in Locals, NEW answer \in Seq(Profile)
  PROVE  Accepted(me, answer) <=>
           /\ Cardinality(Ids(answer)) = Len(answer)
           /\ Cardinality({p \in Besides(me, answer) : p.kind = "HOST"}) = 1
           /\ \A p \in Besides(me, answer) : p.kind \in {"HOST", "GUEST"}
<1> DEFINE n == Len(answer)
<1> DEFINE H == {p \in Besides(me, answer) : p.kind = "HOST"}
<1>0. n \in Nat /\ DOMAIN answer = 1 .. n /\ \A i \in 1 .. n : answer[i] \in Profile
  OBVIOUS
<1>1. \A i \in 1 .. n : Relabelled(me, answer[i]).kind = "HOST" <=> answer[i] \in H
  <2> SUFFICES ASSUME NEW i \in 1 .. n
               PROVE Relabelled(me, answer[i]).kind = "HOST" <=> answer[i] \in H
    OBVIOUS
  <2>1. answer[i] \in ToSet(answer)
    BY <1>0 DEF ToSet
  <2>2. Relabelled(me, answer[i]).kind = IF answer[i].id = me.id THEN "LOCAL" ELSE answer[i].kind
    BY <1>0, RelabelledType
  <2>3. QED
    BY <2>1, <2>2 DEF Besides
<1>2. \A p \in Besides(me, answer) : \E i \in 1 .. n : p = answer[i]
  BY <1>0 DEF Besides, ToSet
<1>3. Cardinality(H) = 1 <=> \E x : H = {x}
  <2>1. IsFiniteSet(H)
    <3>1. H \in SUBSET ToSet(answer)
      BY DEF Besides
    <3> HIDE DEF H
    <3>2. QED
      BY <3>1, DistinctCount, FS_Subset
  <2> HIDE DEF H
  <2>2. QED
    BY <2>1, FS_Singleton
<1>4. \A p \in H : p \in Besides(me, answer)
  OBVIOUS
<1>5. \A i \in 1 .. n : answer[i].id # me.id => answer[i] \in Besides(me, answer)
  BY <1>0 DEF Besides, ToSet
<1>6. \A p \in Besides(me, answer) : p.id # me.id /\ p.kind \in Kinds
  BY <1>0, <1>2, ProfileFields DEF Besides
<1> HIDE DEF H, n
<1>7. ASSUME Believed(me, answer, n), \E i \in 1 .. n : Relabelled(me, answer[i]).kind = "HOST"
      PROVE  (\E x : H = {x}) /\ \A p \in Besides(me, answer) : p.kind \in {"HOST", "GUEST"}
  <2>1. PICK i \in 1 .. n : Relabelled(me, answer[i]).kind = "HOST"
    BY <1>7
  <2>2. ASSUME NEW p \in H PROVE p = answer[i]
    <3>1. PICK j \in 1 .. n : p = answer[j]
      BY <1>2, <1>4
    <3>2. Relabelled(me, answer[j]).kind = "HOST"
      BY <1>1, <3>1
    <3>3. i = j
      BY <1>7, <2>1, <3>2 DEF Believed
    <3>4. QED
      BY <3>1, <3>3
  <2>3. H = {answer[i]}
    BY <1>1, <2>1, <2>2
  <2>4. ASSUME NEW p \in Besides(me, answer) PROVE p.kind \in {"HOST", "GUEST"}
    <3>1. PICK j \in 1 .. n : p = answer[j]
      BY <1>2
    <3>2. p.kind # "LOCAL"
      BY <1>6, <1>7, <3>1 DEF Believed
    <3>3. QED
      BY <1>6, <3>2 DEF Kinds
  <2>5. QED
    BY <2>3, <2>4
<1>8. ASSUME Distinct(answer), NEW x, H = {x},
             \A p \in Besides(me, answer) : p.kind \in {"HOST", "GUEST"}
      PROVE  Believed(me, answer, n) /\ \E i \in 1 .. n : Relabelled(me, answer[i]).kind = "HOST"
  <2>1. x \in H
    BY <1>8
  <2>2. PICK i \in 1 .. n : x = answer[i]
    BY <1>2, <1>4, <2>1
  <2>3. Relabelled(me, answer[i]).kind = "HOST"
    BY <1>1, <2>1, <2>2
  <2>4. ASSUME NEW a \in 1 .. n, NEW b \in 1 .. n
        PROVE  /\ answer[a].id # me.id => answer[a].kind # "LOCAL"
               /\ answer[a].id = me.id /\ answer[b].id = me.id => a = b
               /\ Relabelled(me, answer[a]).kind = "HOST" /\ Relabelled(me, answer[b]).kind = "HOST" => a = b
    <3>1. answer[a].id # me.id => answer[a].kind # "LOCAL"
      BY <1>5, <1>8
    <3>2. answer[a].id = me.id /\ answer[b].id = me.id => a = b
      BY <1>0, <1>8 DEF Distinct, n
    <3>3. Relabelled(me, answer[a]).kind = "HOST" /\ Relabelled(me, answer[b]).kind = "HOST" => a = b
      <4> SUFFICES ASSUME Relabelled(me, answer[a]).kind = "HOST", Relabelled(me, answer[b]).kind = "HOST"
                   PROVE  a = b
        OBVIOUS
      <4>1. answer[a] = answer[b]
        BY <1>1, <1>8
      <4>2. QED
        BY <1>0, <1>8, <4>1 DEF Distinct, n
    <3>4. QED
      BY <3>1, <3>2, <3>3
  <2>5. QED
    BY <2>3, <2>4 DEF Believed
<1>9. Cardinality(Ids(answer)) = n <=> Distinct(answer)
  BY DistinctCount DEF n
<1>10. Accepted(me, answer) <=> /\ Believed(me, answer, n)
                            /\ \E i \in 1 .. n : Relabelled(me, answer[i]).kind = "HOST"
                            /\ Distinct(answer)
  BY <1>0 DEF Accepted, n
<1>11. QED
  BY <1>3, <1>7, <1>8, <1>9, <1>10 DEF H, n

-----------------------------------------------------------------------------
(* Merging: the accumulator. *)

Merges == [list : Seq(Profile), server : Seq(Profile), used : SUBSET Machines,
           changed : BOOLEAN, ok : BOOLEAN]

\* Two profiles with equal fields are one.
LEMMA ProfileEqual ==
  ASSUME NEW p \in Profile, NEW q \in Profile,
         p.id = q.id, p.name = q.name, p.kind = q.kind
  PROVE  p = q
BY DEF Profile

\* Keep puts the profile of the answer, kind and id being the same, in its place.
LEMMA KeepFields ==
  ASSUME NEW m \in Merges, NEW i \in DOMAIN m.list, NEW p \in Profile,
         p.id = m.list[i].id, p.kind = m.list[i].kind
  PROVE  /\ Keep(m, i, p) \in Merges
         /\ Keep(m, i, p).list = [m.list EXCEPT ![i] = p]
         /\ Keep(m, i, p).server = m.server
         /\ Keep(m, i, p).used = m.used \cup {p.id}
         /\ Keep(m, i, p).changed <=> (m.changed \/ m.list[i].name # p.name)
         /\ Keep(m, i, p).ok = m.ok
<1> DEFINE next == Keep(m, i, p)
<1> DEFINE list == Renamed(m.list, i, p.name)
<1> DEFINE changed == m.changed \/ m.list[i].name # p.name
<1>1. /\ m.list \in Seq(Profile) /\ m.server \in Seq(Profile) /\ m.used \in SUBSET Machines
      /\ m.changed \in BOOLEAN /\ m.ok \in BOOLEAN /\ m.list[i] \in Profile
  BY DEF Merges
<1>2. list = [m.list EXCEPT ![i] = p]
  <2> DEFINE renamed == [m.list[i] EXCEPT !.name = p.name]
  <2>1. renamed \in Profile /\ renamed.id = p.id /\ renamed.name = p.name /\ renamed.kind = p.kind
    BY <1>1 DEF Profile
  <2>2. renamed = p
    BY <2>1, ProfileEqual
  <2>3. list = [m.list EXCEPT ![i] = renamed]
    BY DEF Renamed
  <2> HIDE DEF renamed
  <2>4. QED
    BY <2>2, <2>3
<1> HIDE DEF list, changed
<1>3. next = [list |-> list, server |-> m.server, used |-> m.used \cup {p.id},
              changed |-> changed, ok |-> m.ok]
  <2>1. next = [m EXCEPT !.used = m.used \cup {p.id}, !.list = list, !.changed = changed]
    BY DEF Keep, list, changed
  <2> HIDE DEF next
  <2>2. QED
    BY <2>1 DEF Merges
<1>4. p.id \in Machines /\ list \in Seq(Profile)
  BY <1>1, <1>2, ProfileFields
<1>5. changed \in BOOLEAN
  BY DEF changed
<1>6. next \in Merges
  <2> DEFINE used == m.used \cup {p.id}
  <2>1. used \in SUBSET Machines
    BY <1>1, <1>4
  <2> HIDE DEF used, next
  <2>2. QED
    BY <1>1, <1>3, <1>4, <1>5, <2>1 DEF Merges, used
<1> HIDE DEF next
<1>7. /\ next.list = list /\ next.server = m.server /\ next.used = m.used \cup {p.id}
      /\ next.changed = changed /\ next.ok = m.ok
  BY <1>3
<1>8. next.changed <=> (m.changed \/ m.list[i].name # p.name)
  BY <1>7 DEF changed
<1>9. QED
  BY <1>2, <1>6, <1>7, <1>8 DEF next

\* Dropped takes a place out of the list and says so.
LEMMA DroppedFields ==
  ASSUME NEW m \in Merges, NEW i \in 1 .. Len(m.list)
  PROVE  /\ Dropped(m, i) \in Merges
         /\ Dropped(m, i).list = RemoveAt(m.list, i)
         /\ Dropped(m, i).server = m.server
         /\ Dropped(m, i).used = m.used
         /\ Dropped(m, i).changed
         /\ Dropped(m, i).ok = m.ok
<1> DEFINE list == RemoveAt(m.list, i)
<1>1. m.list \in Seq(Profile)
  BY DEF Merges
<1>2. list \in Seq(Profile)
  BY <1>1, RemoveAtProperties
<1>3. Dropped(m, i) = [m EXCEPT !.list = list, !.changed = TRUE]
  BY DEF Dropped
<1> HIDE DEF list
<1>4. Dropped(m, i) \in Merges
  BY <1>2, <1>3 DEF Merges
<1>5. QED
  BY <1>3, <1>4 DEF Merges, list

\* Refuse leaves everything but the belief in the answer.
LEMMA RefuseFields ==
  ASSUME NEW m \in Merges
  PROVE  Refuse(m) \in Merges /\ Refuse(m).server = m.server /\ ~Refuse(m).ok
BY DEF Refuse, Merges

-----------------------------------------------------------------------------
(* Merging: the loop over the profiles shown. *)

\* A list a guest shows, and one it has read: every machine once, this one
\* and no other as LOCAL.
Listed(me, list) ==
  /\ list \in Seq(Profile)
  /\ Distinct(list)
  /\ \A i \in DOMAIN list : list[i].kind = "LOCAL" <=> list[i].id = me.id

\* What the loop has made of a list before it visits place n, counting down.
\* The places up to n have not moved; those behind it hold this machine or
\* are as in the answer, and stand for the machines met; and if something
\* changed, some profile was not as it is in the answer.
MergedTo(list, server, n, m) ==
  /\ \A i \in 1 .. n : i \in DOMAIN m.list /\ m.list[i] = list[i]
  /\ \A i \in DOMAIN m.list : i > n /\ m.list[i].kind # "LOCAL" =>
       m.list[i] \in ToSet(server) /\ m.list[i].id \in m.used
  /\ \A u \in m.used : \E i \in DOMAIN m.list :
       i > n /\ m.list[i].id = u /\ m.list[i].kind # "LOCAL"
  /\ Distinct(m.list)
  /\ \A p \in Profile : p.kind = "LOCAL" => (p \in ToSet(m.list) <=> p \in ToSet(list))
  /\ ~m.changed => m.list = list
  /\ m.changed => \E i \in DOMAIN list : list[i].kind # "LOCAL" /\ list[i] \notin ToSet(server)

\* A profile whose machine is not in the answer is dropped.
LEMMA DropRound ==
  ASSUME NEW me \in Locals, NEW list, Listed(me, list), NEW server, Listed(me, server),
         NEW n \in DOMAIN list, NEW m \in Merges,
         MergedTo(list, server, n, m),
         list[n].kind # "LOCAL", list[n] \notin ToSet(server)
  PROVE  MergedTo(list, server, n - 1, Dropped(m, n))
<1> DEFINE len == Len(m.list)
<1> DEFINE rest == RemoveAt(m.list, n)
<1> DEFINE from(j) == IF j < n THEN j ELSE j + 1
<1>0. /\ n \in Nat /\ n \in 1 .. len /\ m.list[n] = list[n] /\ m.list \in Seq(Profile)
      /\ len \in Nat /\ DOMAIN m.list = 1 .. len /\ n >= 1
  <2>1. n \in Nat /\ n \in 1 .. n /\ n >= 1
    BY DEF Listed
  <2>2. n \in DOMAIN m.list /\ m.list[n] = list[n]
    BY <2>1 DEF MergedTo
  <2>3. m.list \in Seq(Profile)
    BY DEF Merges
  <2>4. QED
    BY <2>1, <2>2, <2>3
<1>1. rest \in Seq(Profile) /\ Len(rest) = len - 1
  BY <1>0, RemoveAtProperties
<1>2. \A j \in 1 .. len - 1 : rest[j] = m.list[from(j)]
  <2>1. \A j \in 1 .. len - 1 : rest[j] = IF j < n THEN m.list[j] ELSE m.list[j + 1]
    BY <1>0, RemoveAtProperties
  <2>2. QED
    BY <2>1
<1> HIDE DEF len, rest
<1>3. DOMAIN rest = 1 .. len - 1
  BY <1>0, <1>1
<1>4. \A j \in 1 .. len - 1 : from(j) \in 1 .. len /\ from(j) # n
  BY <1>0
<1>5. \A j \in 1 .. len - 1 : j > n - 1 => from(j) > n /\ from(j) = j + 1
  BY <1>0
<1>6. \A i, j \in 1 .. len - 1 : from(i) = from(j) => i = j
  BY <1>0
<1>7. \A j \in 1 .. len : j # n => \E i \in 1 .. len - 1 : from(i) = j /\ (j > n => i > n - 1)
  <2> SUFFICES ASSUME NEW j \in 1 .. len, j # n
               PROVE  \E i \in 1 .. len - 1 : from(i) = j /\ (j > n => i > n - 1)
    OBVIOUS
  <2>1. CASE j < n
    <3>1. j \in 1 .. len - 1 /\ from(j) = j /\ ~(j > n)
      BY <1>0, <2>1
    <3> HIDE DEF from
    <3>2. QED
      BY <3>1
  <2>2. CASE j > n
    <3>1. j - 1 \in 1 .. len - 1 /\ from(j - 1) = j /\ j - 1 > n - 1
      BY <1>0, <2>2
    <3> HIDE DEF from
    <3>2. QED
      BY <3>1
  <2>3. QED
    BY <1>0, <2>1, <2>2
<1>8. \A j \in 1 .. n - 1 : j \in 1 .. n /\ j \in 1 .. len - 1 /\ from(j) = j
  BY <1>0
<1> HIDE DEF from
<1>9. /\ Dropped(m, n).list = rest /\ Dropped(m, n).used = m.used
      /\ Dropped(m, n).changed
  BY <1>0, DroppedFields DEF len, rest
<1>10. \A i \in 1 .. n - 1 : i \in DOMAIN rest /\ rest[i] = list[i]
  BY <1>2, <1>3, <1>8 DEF MergedTo
<1>11. \A i \in DOMAIN rest : i > n - 1 /\ rest[i].kind # "LOCAL" =>
         rest[i] \in ToSet(server) /\ rest[i].id \in m.used
  <2> SUFFICES ASSUME NEW i \in 1 .. len - 1, i > n - 1, rest[i].kind # "LOCAL"
               PROVE  rest[i] \in ToSet(server) /\ rest[i].id \in m.used
    BY <1>3
  <2>1. from(i) \in DOMAIN m.list /\ from(i) > n /\ rest[i] = m.list[from(i)]
    BY <1>0, <1>2, <1>4, <1>5
  <2>2. QED
    BY <2>1 DEF MergedTo
<1>12. \A u \in m.used : \E i \in DOMAIN rest :
         i > n - 1 /\ rest[i].id = u /\ rest[i].kind # "LOCAL"
  <2> SUFFICES ASSUME NEW u \in m.used
               PROVE  \E i \in DOMAIN rest : i > n - 1 /\ rest[i].id = u /\ rest[i].kind # "LOCAL"
    OBVIOUS
  <2>1. PICK j \in 1 .. len : j > n /\ m.list[j].id = u /\ m.list[j].kind # "LOCAL"
    BY <1>0 DEF MergedTo
  <2>2. PICK i \in 1 .. len - 1 : from(i) = j /\ i > n - 1
    BY <1>0, <1>7, <2>1
  <2>3. QED
    BY <1>2, <1>3, <2>1, <2>2
<1>13. Distinct(rest)
  <2> SUFFICES ASSUME NEW i \in 1 .. len - 1, NEW j \in 1 .. len - 1, rest[i].id = rest[j].id
               PROVE  i = j
    BY <1>3 DEF Distinct
  <2>1. m.list[from(i)].id = m.list[from(j)].id
    BY <1>2
  <2>2. from(i) = from(j)
    BY <1>0, <1>4, <2>1 DEF MergedTo, Distinct
  <2>3. QED
    BY <1>6, <2>2
<1>14. ASSUME NEW p \in Profile, p.kind = "LOCAL"
       PROVE  p \in ToSet(rest) <=> p \in ToSet(list)
  <2>1. p \in ToSet(m.list) <=> p \in ToSet(list)
    BY <1>14 DEF MergedTo
  <2>2. ASSUME p \in ToSet(rest) PROVE p \in ToSet(m.list)
    BY <1>0, <1>2, <1>3, <1>4, <2>2 DEF ToSet
  <2>3. ASSUME p \in ToSet(m.list) PROVE p \in ToSet(rest)
    <3>1. PICK j \in 1 .. len : p = m.list[j]
      BY <1>0, <2>3 DEF ToSet
    <3>2. j # n
      BY <1>0, <1>14, <3>1
    <3>3. PICK i \in 1 .. len - 1 : from(i) = j
      BY <1>7, <3>2
    <3>4. QED
      BY <1>2, <1>3, <3>1, <3>3 DEF ToSet
  <2>4. QED
    BY <2>1, <2>2, <2>3
<1>15. \E i \in DOMAIN list : list[i].kind # "LOCAL" /\ list[i] \notin ToSet(server)
  OBVIOUS
<1>16. QED
  BY <1>9, <1>10, <1>11, <1>12, <1>13, <1>14, <1>15 DEF MergedTo

\* A profile that is in the answer keeps its place and takes the name.
LEMMA KeepRound ==
  ASSUME NEW me \in Locals, NEW list, Listed(me, list), NEW server, Listed(me, server),
         NEW n \in DOMAIN list, NEW m \in Merges,
         MergedTo(list, server, n, m),
         list[n].kind # "LOCAL",
         NEW p \in ToSet(server), p.id = list[n].id, p.kind = list[n].kind
  PROVE  MergedTo(list, server, n - 1, Keep(m, n, p))
<1> DEFINE len == Len(m.list)
<1> DEFINE next == [m.list EXCEPT ![n] = p]
<1> DEFINE used == m.used \cup {p.id}
<1>0. /\ n \in Nat /\ n \in 1 .. len /\ m.list[n] = list[n] /\ m.list \in Seq(Profile)
      /\ len \in Nat /\ DOMAIN m.list = 1 .. len /\ n >= 1
      /\ list \in Seq(Profile) /\ p \in Profile /\ list[n] \in Profile
  <2>1. n \in Nat /\ n \in 1 .. n /\ n >= 1 /\ list \in Seq(Profile) /\ list[n] \in Profile
    BY DEF Listed
  <2>2. n \in DOMAIN m.list /\ m.list[n] = list[n]
    BY <2>1 DEF MergedTo
  <2>3. m.list \in Seq(Profile)
    BY DEF Merges
  <2>4. p \in Profile
    BY DEF ToSet, Listed
  <2>5. QED
    BY <2>1, <2>2, <2>3, <2>4
<1> HIDE DEF len
<1>1. /\ DOMAIN next = 1 .. len /\ next[n] = p
      /\ \A i \in 1 .. len : i # n => next[i] = m.list[i]
      /\ \A i \in 1 .. len : next[i].id = m.list[i].id
  BY <1>0
<1>2. /\ Keep(m, n, p).list = next /\ Keep(m, n, p).used = used
      /\ Keep(m, n, p).changed <=> (m.changed \/ list[n].name # p.name)
  <2>1. n \in DOMAIN m.list /\ p.id = m.list[n].id /\ p.kind = m.list[n].kind
    BY <1>0
  <2>2. QED
    BY <1>0, <2>1, KeepFields
<1> HIDE DEF next
<1>3. /\ \A i \in 1 .. n - 1 : i \in 1 .. n /\ i # n /\ i \in 1 .. len
      /\ \A i \in 1 .. len : i > n - 1 => i = n \/ i > n
      /\ n > n - 1
      /\ \A i \in 1 .. len : i > n => i > n - 1 /\ i # n
  BY <1>0
<1>4. \A i \in 1 .. n - 1 : i \in DOMAIN next /\ next[i] = list[i]
  BY <1>1, <1>3 DEF MergedTo
<1>5. \A i \in DOMAIN next : i > n - 1 /\ next[i].kind # "LOCAL" =>
         next[i] \in ToSet(server) /\ next[i].id \in used
  <2> SUFFICES ASSUME NEW i \in 1 .. len, i > n - 1, next[i].kind # "LOCAL"
               PROVE  next[i] \in ToSet(server) /\ next[i].id \in used
    BY <1>1
  <2>1. CASE i = n
    BY <1>1, <2>1
  <2>2. CASE i # n
    <3>1. i > n /\ next[i] = m.list[i]
      BY <1>1, <1>3, <2>2
    <3>2. m.list[i] \in ToSet(server) /\ m.list[i].id \in m.used
      BY <1>0, <3>1 DEF MergedTo
    <3>3. QED
      BY <3>1, <3>2
  <2>3. QED
    BY <2>1, <2>2
<1>6. \A u \in used : \E i \in DOMAIN next :
         i > n - 1 /\ next[i].id = u /\ next[i].kind # "LOCAL"
  <2> SUFFICES ASSUME NEW u \in used
               PROVE  \E i \in 1 .. len : i > n - 1 /\ next[i].id = u /\ next[i].kind # "LOCAL"
    BY <1>1
  <2>1. CASE u = p.id
    BY <1>0, <1>1, <1>3, <2>1
  <2>2. CASE u \in m.used
    <3>1. PICK j \in 1 .. len : j > n /\ m.list[j].id = u /\ m.list[j].kind # "LOCAL"
      BY <1>0, <2>2 DEF MergedTo
    <3>2. j > n - 1 /\ next[j] = m.list[j]
      BY <1>1, <1>3, <3>1
    <3>3. QED
      BY <3>1, <3>2
  <2>3. QED
    BY <2>1, <2>2
<1>7. Distinct(next)
  <2>1. \A i, j \in 1 .. len : m.list[i].id = m.list[j].id => i = j
    BY <1>0 DEF MergedTo, Distinct
  <2>2. QED
    BY <1>1, <2>1 DEF Distinct
<1>8. ASSUME NEW q \in Profile, q.kind = "LOCAL"
      PROVE  q \in ToSet(next) <=> q \in ToSet(list)
  <2>1. q \in ToSet(m.list) <=> q \in ToSet(list)
    BY <1>8 DEF MergedTo
  <2>2. q \in ToSet(next) <=> \E i \in 1 .. len : i # n /\ q = next[i]
    BY <1>1, <1>8 DEF ToSet
  <2>3. q \in ToSet(m.list) <=> \E i \in 1 .. len : i # n /\ q = m.list[i]
    BY <1>0, <1>8 DEF ToSet
  <2>4. QED
    BY <1>1, <2>1, <2>2, <2>3
<1>9. ASSUME ~Keep(m, n, p).changed PROVE next = list
  <2>1. m.list = list /\ list[n].name = p.name
    BY <1>2, <1>9 DEF MergedTo
  <2>2. p = list[n]
    BY <1>0, <2>1, ProfileEqual
  <2>3. QED
    BY <1>0, <2>1, <2>2 DEF next
<1>10. ASSUME Keep(m, n, p).changed
       PROVE  \E i \in DOMAIN list : list[i].kind # "LOCAL" /\ list[i] \notin ToSet(server)
  <2>1. CASE m.changed
    BY <2>1 DEF MergedTo
  <2>2. CASE ~m.changed
    <3>1. list[n].name # p.name
      BY <1>2, <1>10, <2>2
    <3>2. list[n] \notin ToSet(server)
      <4> SUFFICES ASSUME list[n] \in ToSet(server) PROVE list[n] = p
        BY <3>1
      <4>1. PICK i \in DOMAIN server, j \in DOMAIN server : list[n] = server[i] /\ p = server[j]
        BY DEF ToSet
      <4>2. i = j
        BY <4>1 DEF Listed, Distinct
      <4>3. QED
        BY <4>1, <4>2
    <3>3. QED
      BY <3>2
  <2>3. QED
    BY <2>1, <2>2
<1> HIDE DEF used
<1>11. QED
  BY <1>2, <1>4, <1>5, <1>6, <1>7, <1>8, <1>9, <1>10 DEF MergedTo

\* This machine is passed over.
LEMMA LocalRound ==
  ASSUME NEW me \in Locals, NEW list, Listed(me, list), NEW server,
         NEW n \in DOMAIN list, NEW m \in Merges,
         MergedTo(list, server, n, m), list[n].kind = "LOCAL"
  PROVE  MergedTo(list, server, n - 1, m)
<1>1. n \in Nat /\ n \in 1 .. n
  BY DEF Listed
<1>2. m.list[n] = list[n] /\ DOMAIN m.list \in SUBSET Nat
  <2>1. m.list \in Seq(Profile)
    BY DEF Merges
  <2>2. QED
    BY <1>1, <2>1 DEF MergedTo
<1>3. /\ \A i \in 1 .. n - 1 : i \in 1 .. n
      /\ \A i \in Nat : i > n - 1 => i = n \/ i > n
      /\ \A i \in Nat : i > n => i > n - 1
  BY <1>1
<1>4. \A i \in 1 .. n - 1 : i \in DOMAIN m.list /\ m.list[i] = list[i]
  BY <1>3 DEF MergedTo
<1>5. \A i \in DOMAIN m.list : i > n - 1 /\ m.list[i].kind # "LOCAL" =>
         m.list[i] \in ToSet(server) /\ m.list[i].id \in m.used
  BY <1>2, <1>3 DEF MergedTo
<1>6. \A u \in m.used : \E i \in DOMAIN m.list :
         i > n - 1 /\ m.list[i].id = u /\ m.list[i].kind # "LOCAL"
  <2> SUFFICES ASSUME NEW u \in m.used
               PROVE  \E i \in DOMAIN m.list : i > n - 1 /\ m.list[i].id = u /\ m.list[i].kind # "LOCAL"
    OBVIOUS
  <2>1. PICK i \in DOMAIN m.list : i > n /\ m.list[i].id = u /\ m.list[i].kind # "LOCAL"
    BY DEF MergedTo
  <2>2. i > n - 1
    BY <1>2, <1>3, <2>1
  <2>3. QED
    BY <2>1, <2>2
<1>7. QED
  BY <1>4, <1>5, <1>6 DEF MergedTo

\* Who is HOST in the list is HOST in the answer, who is GUEST in the list is
\* GUEST there or gone.
Agree(list, server) ==
  \A i \in DOMAIN list :
    /\ list[i].kind = "HOST" =>
         \E p \in ToSet(server) : p.id = list[i].id /\ p.kind = "HOST"
    /\ list[i].kind = "GUEST" =>
         \A p \in ToSet(server) : p.id = list[i].id => p.kind = "GUEST"

\* What is known of the accumulator before the loop visits place n.
Believes(list, server, n, m) ==
  /\ m \in Merges
  /\ m.server = server
  /\ m.ok => MergedTo(list, server, n, m)
  /\ Agree(list, server) => m.ok

\* One round.
LEMMA MergeRound ==
  ASSUME NEW me \in Locals, NEW list, Listed(me, list), NEW server, Listed(me, server),
         NEW n \in DOMAIN list, NEW m, Believes(list, server, n, m)
  PROVE  Believes(list, server, n - 1, MergeAt(m, n))
<1> DEFINE mine == m.list[n]
<1> DEFINE same == SameId(m, mine)
<1> DEFINE met == mine.id \in m.used
<1> DEFINE is(k) == \E p \in same : p.kind = k
<1> DEFINE p == CHOOSE q \in same : TRUE
<1>0. m \in Merges /\ m.server = server
  BY DEF Believes
<1>1. MergeAt(m, n) =
        IF ~m.ok \/ mine.kind = "LOCAL" THEN m
        ELSE CASE mine.kind = "HOST" /\ ~(is("HOST") /\ ~met) -> Refuse(m)
               [] mine.kind = "GUEST" /\ (same = {} \/ (is("GUEST") /\ met)) -> Dropped(m, n)
               [] mine.kind = "GUEST" /\ same # {} /\ ~is("GUEST") -> Refuse(m)
               [] OTHER -> Keep(m, n, p)
  BY DEF MergeAt
<1>2. CASE ~m.ok
  <2>1. MergeAt(m, n) = m
    BY <1>2, Zenon DEF MergeAt
  <2>2. QED
    BY <1>2, <2>1 DEF Believes
<1>3. CASE m.ok
  <2>0. MergedTo(list, server, n, m)
    BY <1>3 DEF Believes
  <2>1. /\ n \in Nat /\ n \in 1 .. n /\ mine = list[n] /\ mine \in Profile
        /\ n \in DOMAIN m.list /\ DOMAIN m.list = 1 .. Len(m.list)
    <3>1. n \in Nat /\ n \in 1 .. n /\ list[n] \in Profile
      BY DEF Listed
    <3>2. m.list[n] = list[n] /\ n \in DOMAIN m.list
      BY <2>0, <3>1 DEF MergedTo
    <3>3. m.list \in Seq(Profile)
      BY <1>0 DEF Merges
    <3>4. QED
      BY <3>1, <3>2, <3>3
  <2>2. \A q \in same : q \in ToSet(server) /\ q.id = mine.id
    BY <1>0 DEF SameId
  <2>3. \A q, r \in same : q = r
    <3> SUFFICES ASSUME NEW q \in same, NEW r \in same PROVE q = r
      OBVIOUS
    <3>1. PICK i \in DOMAIN server, j \in DOMAIN server : q = server[i] /\ r = server[j]
      BY <2>2 DEF ToSet
    <3>2. i = j
      BY <2>2, <3>1 DEF Listed, Distinct
    <3>3. QED
      BY <3>1, <3>2
  <2>4. mine \in ToSet(server) => mine \in same
    BY <1>0 DEF SameId
  <2>5. ~met
    <3> SUFFICES ASSUME met PROVE FALSE
      OBVIOUS
    <3>1. PICK i \in DOMAIN m.list : i > n /\ m.list[i].id = mine.id
      BY <2>0 DEF MergedTo
    <3>2. i = n
      BY <2>0, <2>1, <3>1 DEF MergedTo, Distinct
    <3>3. QED
      BY <2>1, <3>1, <3>2
  <2>6. p \in same \/ same = {}
    OBVIOUS
  <2>7. mine.kind \in Kinds
    BY <2>1, ProfileFields
  <2> HIDE DEF mine, same, met, p
  <2>8. CASE mine.kind = "LOCAL"
    <3>1. MergeAt(m, n) = m
      BY <1>1, <2>8
    <3>2. MergedTo(list, server, n - 1, m)
      BY <1>0, <2>0, <2>1, <2>8, LocalRound
    <3>3. QED
      BY <1>0, <3>1, <3>2 DEF Believes
  <2>9. CASE MergeAt(m, n) = Refuse(m) /\ ~Agree(list, server)
    BY <1>0, <2>9, RefuseFields DEF Believes
  <2>10. CASE mine.kind = "GUEST" /\ same = {}
    <3>1. MergeAt(m, n) = Dropped(m, n)
      BY <1>1, <1>3, <2>10
    <3>2. list[n] \notin ToSet(server) /\ list[n].kind # "LOCAL"
      BY <2>1, <2>4, <2>10
    <3>3. MergedTo(list, server, n - 1, Dropped(m, n))
      BY <1>0, <2>0, <3>2, DropRound
    <3>4. Dropped(m, n) \in Merges /\ Dropped(m, n).server = server /\ Dropped(m, n).ok
      BY <1>0, <1>3, <2>1, DroppedFields
    <3>5. QED
      BY <3>1, <3>3, <3>4 DEF Believes
  <2>11. CASE mine.kind \in {"HOST", "GUEST"} /\ is(mine.kind)
    <3>1. PICK q \in same : q.kind = mine.kind
      BY <2>11
    <3>2. same # {} /\ p = q
      BY <2>3, <2>6, <3>1
    <3>3. MergeAt(m, n) = Keep(m, n, p)
      BY <1>1, <1>3, <2>5, <2>11, <3>2
    <3>4. p \in ToSet(server) /\ p.id = list[n].id /\ p.kind = list[n].kind /\ list[n].kind # "LOCAL"
      BY <2>1, <2>2, <2>11, <3>1, <3>2
    <3>5. MergedTo(list, server, n - 1, Keep(m, n, p))
      BY <1>0, <2>0, <3>4, KeepRound
    <3>6. Keep(m, n, p) \in Merges /\ Keep(m, n, p).server = server /\ Keep(m, n, p).ok
      <4>1. p \in Profile
        BY <3>4 DEF ToSet, Listed
      <4>2. n \in DOMAIN m.list /\ p.id = m.list[n].id /\ p.kind = m.list[n].kind
        BY <2>1, <3>4 DEF mine
      <4>3. Keep(m, n, p) \in Merges
        BY <1>0, <4>1, <4>2, KeepFields
      <4>4. Keep(m, n, p).server = m.server /\ Keep(m, n, p).ok = m.ok
        BY <1>0 DEF Keep, Merges
      <4>5. QED
        BY <1>0, <1>3, <4>3, <4>4
    <3>7. QED
      BY <3>3, <3>5, <3>6 DEF Believes
  <2>12. CASE mine.kind = "HOST" /\ ~is("HOST")
    <3>1. MergeAt(m, n) = Refuse(m)
      BY <1>1, <1>3, <2>12
    <3>2. ~Agree(list, server)
      BY <1>0, <2>1, <2>12 DEF Agree, same, SameId
    <3>3. QED
      BY <2>9, <3>1, <3>2
  <2>13. CASE mine.kind = "GUEST" /\ same # {} /\ ~is("GUEST")
    <3>1. MergeAt(m, n) = Refuse(m)
      BY <1>1, <1>3, <2>13
    <3>2. ~Agree(list, server)
      BY <2>1, <2>2, <2>13 DEF Agree
    <3>3. QED
      BY <2>9, <3>1, <3>2
  <2>14. QED
    BY <2>7, <2>8, <2>10, <2>11, <2>12, <2>13 DEF Kinds
<1>4. QED
  BY <1>0, <1>2, <1>3 DEF Merges

\* The loop over the profiles shown.
LEMMA MergeLoop ==
  ASSUME NEW me \in Locals, NEW list, Listed(me, list), NEW server, Listed(me, server)
  PROVE  Believes(list, server, 0, Met(list, server))
<1> DEFINE n == Len(list)
<1> DEFINE I == {x \in (0 .. n) \X Merges : Believes(list, server, n - x[1], x[2])}
<1> DEFINE places == Downwards(list)
<1>0. n \in Nat /\ DOMAIN list = 1 .. n /\ list \in Seq(Profile)
  BY DEF Listed
<1>1. places \in Seq(Nat) /\ Len(places) = n /\ \A k \in 0 .. n - 1 : places[k + 1] = n - k
  BY <1>0 DEF Downwards
<1> HIDE DEF n, places
<1>2. Believes(list, server, n, Start(list, server))
  <2>1. /\ Start(list, server).list = list /\ Start(list, server).server = server
        /\ Start(list, server).used = {} /\ ~Start(list, server).changed
        /\ Start(list, server).ok
    BY DEF Start
  <2>2. Start(list, server) \in Merges
    BY DEF Start, Merges, Listed
  <2>3. MergedTo(list, server, n, Start(list, server))
    BY <1>0, <2>1 DEF MergedTo, Listed
  <2>4. QED
    BY <2>1, <2>2, <2>3 DEF Believes
<1>3. <<0, Start(list, server)>> \in I
  <2>1. n - 0 = n /\ 0 \in 0 .. n
    BY <1>0
  <2>2. Start(list, server) \in Merges
    BY <1>2 DEF Believes
  <2> DEFINE x == <<0, Start(list, server)>>
  <2>3. x \in (0 .. n) \X Merges /\ x[1] = 0 /\ x[2] = Start(list, server)
    BY <2>1, <2>2
  <2> HIDE DEF x
  <2>4. x \in I
    BY <1>2, <2>1, <2>3
  <2>5. QED
    BY <2>4 DEF x
<1>4. ASSUME NEW k \in 0 .. n - 1, NEW m, <<k, m>> \in I
      PROVE  <<k + 1, MergeAt(m, places[k + 1])>> \in I
  <2>1. /\ n - k \in DOMAIN list /\ places[k + 1] = n - k /\ n - (k + 1) = n - k - 1
        /\ k + 1 \in 0 .. n
    BY <1>0, <1>1
  <2>2. Believes(list, server, n - k, m)
    BY <1>4
  <2>3. Believes(list, server, n - (k + 1), MergeAt(m, n - k))
    BY <2>1, <2>2, MergeRound
  <2> DEFINE next == MergeAt(m, n - k)
  <2>4. next \in Merges
    BY <2>3 DEF Believes
  <2> HIDE DEF next
  <2>5. <<k + 1, next>> \in I
    BY <2>1, <2>3, <2>4 DEF next
  <2>6. QED
    BY <2>1, <2>5 DEF next
<1> HIDE DEF I
<1>5. <<Len(places), Merging!Loop(Start(list, server), places)>> \in I
  BY <1>1, <1>3, <1>4, Merging!LoopInvariant
<1>6. Met(list, server) = Merging!Loop(Start(list, server), places)
  BY FoldsAreLoops DEF Met, places
<1>7. n - n = 0
  BY <1>0
<1>8. QED
  BY <1>1, <1>5, <1>6, <1>7 DEF I

-----------------------------------------------------------------------------
(* Merging: the loop over the answer that adds what is new. *)

IsNew(met, p) == p.id \notin met.used /\ p.kind # "LOCAL"

\* What the loop has added before it visits place n of the answer, counting
\* down: behind the list it began with, what is new behind place n.
AddedTo(met, server, n, m) ==
  /\ m \in Merges
  /\ m.server = server /\ m.used = met.used /\ m.ok = met.ok
  /\ Len(m.list) >= Len(met.list)
  /\ \A i \in 1 .. Len(met.list) : m.list[i] = met.list[i]
  /\ \A i \in DOMAIN m.list : i > Len(met.list) =>
       \E j \in DOMAIN server : j > n /\ m.list[i] = server[j] /\ IsNew(met, server[j])
  /\ \A j \in DOMAIN server : j > n /\ IsNew(met, server[j]) => server[j] \in ToSet(m.list)
  /\ \A i, j \in DOMAIN m.list :
       i > Len(met.list) /\ j > Len(met.list) /\ m.list[i].id = m.list[j].id => i = j
  /\ m.changed <=> (met.changed \/ Len(m.list) > Len(met.list))

\* One round.
LEMMA AddRound ==
  ASSUME NEW me \in Locals, NEW met \in Merges, NEW server, Listed(me, server), met.server = server,
         NEW n \in DOMAIN server, NEW m, AddedTo(met, server, n, m)
  PROVE  AddedTo(met, server, n - 1, AddNew(m, n))
<1> DEFINE p == server[n]
<1> DEFINE old == Len(met.list)
<1> DEFINE len == Len(m.list)
<1> DEFINE next == Append(m.list, p)
<1>0. /\ m \in Merges /\ m.server = server /\ m.used = met.used /\ m.ok = met.ok
      /\ m.list \in Seq(Profile) /\ met.list \in Seq(Profile) /\ m.changed \in BOOLEAN
      /\ old \in Nat /\ len \in Nat /\ len >= old /\ DOMAIN m.list = 1 .. len
  <2>1. m \in Merges /\ m.server = server /\ m.used = met.used /\ m.ok = met.ok /\ len >= old
    BY DEF AddedTo
  <2>2. m.list \in Seq(Profile) /\ met.list \in Seq(Profile) /\ m.changed \in BOOLEAN
    BY <2>1 DEF Merges
  <2>3. QED
    BY <2>1, <2>2
<1>1. /\ n \in Nat /\ p \in Profile /\ server \in Seq(Profile)
      /\ \A j \in DOMAIN server : j \in Nat /\ (j > n - 1 <=> j = n \/ j > n)
  BY DEF Listed
<1>2. /\ \A i \in 1 .. old : m.list[i] = met.list[i]
      /\ \A i \in 1 .. len : i > old =>
           \E j \in DOMAIN server : j > n /\ m.list[i] = server[j] /\ IsNew(met, server[j])
      /\ \A j \in DOMAIN server : j > n /\ IsNew(met, server[j]) => server[j] \in ToSet(m.list)
      /\ \A i, j \in 1 .. len : i > old /\ j > old /\ m.list[i].id = m.list[j].id => i = j
      /\ m.changed <=> (met.changed \/ len > old)
  BY <1>0 DEF AddedTo
<1> HIDE DEF p, old, len
<1>3. CASE ~IsNew(met, p)
  <2>1. AddNew(m, n) = m
    BY <1>0, <1>3 DEF AddNew, IsNew, p
  <2>2. \A i \in 1 .. len : i > old =>
          \E j \in DOMAIN server : j > n - 1 /\ m.list[i] = server[j] /\ IsNew(met, server[j])
    BY <1>1, <1>2
  <2>3. \A j \in DOMAIN server : j > n - 1 /\ IsNew(met, server[j]) => server[j] \in ToSet(m.list)
    BY <1>1, <1>2, <1>3 DEF p
  <2>4. AddedTo(met, server, n - 1, m)
    BY <1>0, <1>2, <2>2, <2>3 DEF AddedTo, old, len
  <2>5. QED
    BY <2>1, <2>4
<1>4. CASE IsNew(met, p)
  <2>1. AddNew(m, n) = [m EXCEPT !.list = next, !.changed = TRUE]
    BY <1>0, <1>4 DEF AddNew, IsNew, p
  <2>2. /\ next \in Seq(Profile) /\ Len(next) = len + 1 /\ DOMAIN next = 1 .. len + 1
        /\ \A i \in 1 .. len : next[i] = m.list[i]
        /\ next[len + 1] = p
    BY <1>0, <1>1 DEF len
  <2> HIDE DEF next
  <2> DEFINE a == AddNew(m, n)
  <2>3. /\ a \in Merges /\ a.server = server /\ a.used = met.used /\ a.ok = met.ok
        /\ a.list = next /\ a.changed = TRUE
    BY <1>0, <2>1, <2>2 DEF Merges
  <2> HIDE DEF a
  <2>4. /\ \A i \in 1 .. len + 1 : i \in 1 .. len \/ i = len + 1
        /\ \A i \in 1 .. len : i \in 1 .. len + 1 /\ i # len + 1
        /\ \A i \in 1 .. old : i \in 1 .. len
        /\ len + 1 \in 1 .. len + 1 /\ len + 1 > old /\ len + 1 >= old
    BY <1>0
  <2>5. \A i \in 1 .. old : next[i] = met.list[i]
    BY <1>2, <2>2, <2>4
  <2>6. ASSUME NEW i \in 1 .. len + 1, i > old
        PROVE  \E j \in DOMAIN server : j > n - 1 /\ next[i] = server[j] /\ IsNew(met, server[j])
    <3>1. CASE i = len + 1
      BY <1>1, <1>4, <2>2, <3>1 DEF p
    <3>2. CASE i \in 1 .. len
      <4>1. PICK j \in DOMAIN server : j > n /\ m.list[i] = server[j] /\ IsNew(met, server[j])
        BY <1>2, <2>6, <3>2
      <4>2. next[i] = m.list[i]
        BY <2>2, <3>2
      <4>3. QED
        BY <1>1, <4>1, <4>2
    <3>3. QED
      BY <2>4, <3>1, <3>2
  <2>7. ASSUME NEW j \in DOMAIN server, j > n - 1, IsNew(met, server[j])
        PROVE  server[j] \in ToSet(next)
    <3>1. CASE j = n
      BY <2>2, <2>4, <3>1 DEF ToSet, p
    <3>2. CASE j > n
      <4>1. server[j] \in ToSet(m.list)
        BY <1>2, <2>7, <3>2
      <4>2. PICK i \in 1 .. len : server[j] = m.list[i]
        BY <1>0, <4>1 DEF ToSet
      <4>3. QED
        BY <2>2, <2>4, <4>2 DEF ToSet
    <3>3. QED
      BY <1>1, <2>7, <3>1, <3>2
  <2>8. ASSUME NEW i \in 1 .. len, i > old PROVE m.list[i].id # p.id
    <3>1. PICK j \in DOMAIN server : j > n /\ m.list[i] = server[j]
      BY <1>2, <2>8
    <3>2. j # n
      BY <1>1, <3>1
    <3>3. QED
      BY <3>1, <3>2 DEF Listed, Distinct, p
  <2>9. \A i, j \in 1 .. len + 1 : i > old /\ j > old /\ next[i].id = next[j].id => i = j
    BY <1>2, <2>2, <2>4, <2>8
  <2>10. a.changed <=> (met.changed \/ len + 1 > old)
    BY <2>3, <2>4
  <2>11. AddedTo(met, server, n - 1, a)
    BY <2>2, <2>3, <2>4, <2>5, <2>6, <2>7, <2>9, <2>10 DEF AddedTo, old
  <2>12. QED
    BY <2>11 DEF a
<1>5. QED
  BY <1>3, <1>4

\* The loop over the answer.
LEMMA AddLoop ==
  ASSUME NEW me \in Locals, NEW server, Listed(me, server), NEW met \in Merges, met.server = server
  PROVE  AddedTo(met, server, 0, FoldLeft(AddNew, met, Downwards(server)))
<1> DEFINE n == Len(server)
<1> DEFINE I == {x \in (0 .. n) \X Merges : AddedTo(met, server, n - x[1], x[2])}
<1> DEFINE places == Downwards(server)
<1>0. n \in Nat /\ DOMAIN server = 1 .. n /\ server \in Seq(Profile)
  BY DEF Listed
<1>1. places \in Seq(Nat) /\ Len(places) = n /\ \A k \in 0 .. n - 1 : places[k + 1] = n - k
  BY <1>0 DEF Downwards
<1> HIDE DEF n, places
<1>2. AddedTo(met, server, n, met)
  <2>1. /\ met.list \in Seq(Profile) /\ Len(met.list) \in Nat
        /\ DOMAIN met.list = 1 .. Len(met.list)
    BY DEF Merges
  <2>2. \A i \in DOMAIN met.list : ~(i > Len(met.list))
    BY <2>1
  <2>3. \A j \in DOMAIN server : ~(j > n)
    BY <1>0
  <2>4. Len(met.list) >= Len(met.list) /\ ~(Len(met.list) > Len(met.list))
    BY <2>1
  <2>5. QED
    BY <2>1, <2>2, <2>3, <2>4 DEF AddedTo
<1>3. <<0, met>> \in I
  <2>1. n - 0 = n /\ 0 \in 0 .. n
    BY <1>0
  <2> DEFINE x == <<0, met>>
  <2>2. x \in (0 .. n) \X Merges /\ x[1] = 0 /\ x[2] = met
    BY <2>1
  <2> HIDE DEF x
  <2>3. x \in I
    BY <1>2, <2>1, <2>2
  <2>4. QED
    BY <2>3 DEF x
<1>4. ASSUME NEW k \in 0 .. n - 1, NEW m, <<k, m>> \in I
      PROVE  <<k + 1, AddNew(m, places[k + 1])>> \in I
  <2>1. /\ n - k \in DOMAIN server /\ places[k + 1] = n - k /\ n - (k + 1) = n - k - 1
        /\ k + 1 \in 0 .. n
    BY <1>0, <1>1
  <2>2. AddedTo(met, server, n - k, m)
    BY <1>4
  <2>3. AddedTo(met, server, n - (k + 1), AddNew(m, n - k))
    BY <2>1, <2>2, AddRound
  <2> DEFINE next == AddNew(m, n - k)
  <2>4. next \in Merges
    BY <2>3 DEF AddedTo
  <2> HIDE DEF next
  <2>5. <<k + 1, next>> \in I
    BY <2>1, <2>3, <2>4 DEF next
  <2>6. QED
    BY <2>1, <2>5 DEF next
<1> HIDE DEF I
<1>5. <<Len(places), Adding!Loop(met, places)>> \in I
  BY <1>1, <1>3, <1>4, Adding!LoopInvariant
<1>6. FoldLeft(AddNew, met, places) = Adding!Loop(met, places)
  BY FoldsAreLoops
<1>7. n - n = 0
  BY <1>0
<1>8. QED
  BY <1>1, <1>5, <1>6, <1>7 DEF I, places

-----------------------------------------------------------------------------
(* Merging: what comes of it. *)

AtMostOneHost(list) ==
  \A i, j \in DOMAIN list : list[i].kind = "HOST" /\ list[j].kind = "HOST" => i = j

\* A merge that is not refused: but for this machine the list is that of the
\* answer, and it is reported as changed when it is another list.
LEMMA MergeResult ==
  ASSUME NEW me \in Locals, NEW list, Listed(me, list),
         NEW server, Listed(me, server), AtMostOneHost(server),
         Merge(list, server).ok
  PROVE  LET F == Merge(list, server).list
         IN  /\ Listed(me, F)
             /\ AtMostOneHost(F)
             /\ Besides(me, F) = Besides(me, server)
             /\ \A p \in Profile : p.kind = "LOCAL" => (p \in ToSet(F) <=> p \in ToSet(list))
             /\ Merge(list, server).changed <=> F # list
<1> DEFINE met == Met(list, server)
<1> DEFINE m == Merge(list, server)
<1> DEFINE F == m.list
<1> DEFINE old == Len(met.list)
<1> DEFINE len == Len(F)
<1>1. met \in Merges /\ met.server = server /\ (met.ok => MergedTo(list, server, 0, met))
  BY MergeLoop DEF Believes
<1>2. m = IF met.ok THEN FoldLeft(AddNew, met, Downwards(server)) ELSE met
  BY DEF Merge
<1> HIDE DEF met, m
<1>3. met.ok
  BY <1>2 DEF m
<1>4. AddedTo(met, server, 0, m)
  BY <1>1, <1>2, <1>3, AddLoop
<1>5. MergedTo(list, server, 0, met)
  BY <1>1, <1>3
<1>6. /\ F \in Seq(Profile) /\ met.list \in Seq(Profile) /\ old \in Nat /\ len \in Nat
      /\ DOMAIN F = 1 .. len /\ DOMAIN met.list = 1 .. old /\ len >= old
      /\ list \in Seq(Profile) /\ server \in Seq(Profile)
  <2>1. m \in Merges /\ len >= old
    BY <1>4 DEF AddedTo
  <2>2. F \in Seq(Profile) /\ met.list \in Seq(Profile)
    BY <1>1, <2>1 DEF Merges
  <2>3. QED
    BY <2>1, <2>2 DEF Listed
<1>7. /\ \A i \in 1 .. old : F[i] = met.list[i]
      /\ \A i \in 1 .. len : i > old =>
           \E j \in DOMAIN server : F[i] = server[j] /\ IsNew(met, server[j])
      /\ \A j \in DOMAIN server : IsNew(met, server[j]) => server[j] \in ToSet(F)
      /\ \A i, j \in 1 .. len : i > old /\ j > old /\ F[i].id = F[j].id => i = j
      /\ m.changed <=> (met.changed \/ len > old)
  <2>1. \A j \in DOMAIN server : j > 0
    BY <1>6
  <2>2. \A i \in 1 .. old : F[i] = met.list[i]
    BY <1>4 DEF AddedTo
  <2>3. \A i \in 1 .. len : i > old =>
          \E j \in DOMAIN server : F[i] = server[j] /\ IsNew(met, server[j])
    <3>1. \A i \in DOMAIN F : i > old =>
            \E j \in DOMAIN server : F[i] = server[j] /\ IsNew(met, server[j])
      BY <1>4 DEF AddedTo
    <3> HIDE DEF F
    <3>2. QED
      BY <1>6, <3>1
  <2>4. \A j \in DOMAIN server : IsNew(met, server[j]) => server[j] \in ToSet(F)
    BY <1>4, <2>1 DEF AddedTo
  <2>5. \A i, j \in 1 .. len : i > old /\ j > old /\ F[i].id = F[j].id => i = j
    BY <1>4, <1>6 DEF AddedTo
  <2>6. m.changed <=> (met.changed \/ len > old)
    BY <1>4 DEF AddedTo
  <2>7. QED
    BY <2>2, <2>3, <2>4, <2>5, <2>6
<1>8. /\ \A i \in 1 .. old : met.list[i].kind # "LOCAL" =>
           met.list[i] \in ToSet(server) /\ met.list[i].id \in met.used
      /\ \A u \in met.used : \E i \in 1 .. old : met.list[i].id = u /\ met.list[i].kind # "LOCAL"
      /\ \A i, j \in 1 .. old : met.list[i].id = met.list[j].id => i = j
      /\ \A p \in Profile : p.kind = "LOCAL" => (p \in ToSet(met.list) <=> p \in ToSet(list))
      /\ ~met.changed => met.list = list
      /\ met.changed => \E i \in DOMAIN list : list[i].kind # "LOCAL" /\ list[i] \notin ToSet(server)
  <2>1. \A i \in 1 .. old : i > 0
    BY <1>6
  <2>2. QED
    BY <1>5, <1>6, <2>1 DEF MergedTo, Distinct
<1>9. \A i \in 1 .. len : i \in 1 .. old \/ i > old
  BY <1>6
<1>10. \A i \in 1 .. old : i \in 1 .. len
  BY <1>6
<1> HIDE DEF F, old, len
\* What is not LOCAL comes from the answer, LOCAL from the list before.
<1>11. \A i \in 1 .. len : F[i].kind # "LOCAL" => F[i] \in ToSet(server)
  BY <1>7, <1>8, <1>9 DEF ToSet
<1>12. \A p \in ToSet(server) : p.kind = "LOCAL" <=> p.id = me.id
  BY DEF Listed, ToSet
<1>13. \A p \in ToSet(list) : p.kind = "LOCAL" <=> p.id = me.id
  BY DEF Listed, ToSet
<1>14. \A i \in 1 .. len : i > old => F[i].kind # "LOCAL" /\ F[i].id \notin met.used
  BY <1>7 DEF IsNew
<1>15. ASSUME NEW p \in Profile, p.kind = "LOCAL"
       PROVE  p \in ToSet(F) <=> p \in ToSet(list)
  <2>1. p \in ToSet(F) <=> \E i \in 1 .. old : p = F[i]
    BY <1>6, <1>9, <1>10, <1>14, <1>15 DEF ToSet
  <2>2. p \in ToSet(met.list) <=> \E i \in 1 .. old : p = F[i]
    BY <1>6, <1>7 DEF ToSet
  <2>3. QED
    BY <1>8, <1>15, <2>1, <2>2
<1>16. \A i \in 1 .. len : F[i] \in Profile /\ F[i] \in ToSet(F)
  BY <1>6 DEF ToSet
<1>17. \A i \in 1 .. len : F[i].kind = "LOCAL" <=> F[i].id = me.id
  <2> SUFFICES ASSUME NEW i \in 1 .. len PROVE F[i].kind = "LOCAL" <=> F[i].id = me.id
    OBVIOUS
  <2>1. CASE F[i].kind = "LOCAL"
    <3>1. F[i] \in ToSet(list)
      BY <1>15, <1>16, <2>1
    <3>2. QED
      BY <1>13, <3>1
  <2>2. CASE F[i].kind # "LOCAL"
    BY <1>11, <1>12, <2>2
  <2>3. QED
    BY <2>1, <2>2
<1>18. ASSUME NEW i \in 1 .. len, NEW j \in 1 .. len, F[i].id = F[j].id, i \in 1 .. old, j > old
       PROVE  FALSE
  <2>1. F[j].kind # "LOCAL" /\ F[j].id \notin met.used
    BY <1>14, <1>18
  <2>2. F[i].kind # "LOCAL"
    BY <1>17, <1>18, <2>1
  <2>3. F[i].id \in met.used
    BY <1>7, <1>8, <1>18, <2>2
  <2>4. QED
    BY <1>18, <2>1, <2>3
<1>19. Distinct(F)
  <2> SUFFICES ASSUME NEW i \in 1 .. len, NEW j \in 1 .. len, F[i].id = F[j].id PROVE i = j
    BY <1>6 DEF Distinct
  <2>1. CASE i \in 1 .. old /\ j \in 1 .. old
    BY <1>7, <1>8, <2>1
  <2>2. CASE i > old /\ j > old
    BY <1>7, <2>2
  <2>3. QED
    BY <1>9, <1>18, <2>1, <2>2
<1>20. Listed(me, F)
  BY <1>6, <1>17, <1>19 DEF Listed
<1>21. AtMostOneHost(F)
  <2> SUFFICES ASSUME NEW i \in 1 .. len, NEW j \in 1 .. len,
                      F[i].kind = "HOST", F[j].kind = "HOST"
               PROVE  F[i].id = F[j].id
    BY <1>6, <1>19 DEF AtMostOneHost, Distinct
  <2>1. F[i] \in ToSet(server) /\ F[j] \in ToSet(server)
    BY <1>11
  <2>2. PICK a \in DOMAIN server, b \in DOMAIN server : F[i] = server[a] /\ F[j] = server[b]
    BY <2>1 DEF ToSet
  <2>3. a = b
    BY <2>2 DEF AtMostOneHost
  <2>4. QED
    BY <2>2, <2>3
<1>22. Besides(me, F) = Besides(me, server)
  <2>1. ASSUME NEW p \in ToSet(F), p.id # me.id PROVE p \in ToSet(server)
    BY <1>6, <1>11, <1>17, <2>1 DEF ToSet
  <2>2. ASSUME NEW p \in ToSet(server), p.id # me.id PROVE p \in ToSet(F)
    <3>1. PICK j \in DOMAIN server : p = server[j]
      BY DEF ToSet
    <3>2. p.kind # "LOCAL"
      BY <1>12, <2>2
    <3>3. CASE p.id \notin met.used
      BY <1>7, <3>1, <3>2, <3>3 DEF IsNew
    <3>4. CASE p.id \in met.used
      <4>1. PICK i \in 1 .. old : met.list[i].id = p.id /\ met.list[i].kind # "LOCAL"
        BY <1>8, <3>4
      <4>2. F[i] = met.list[i] /\ F[i] \in ToSet(server) /\ F[i] \in ToSet(F)
        BY <1>7, <1>8, <1>10, <1>16, <4>1
      <4>3. PICK a \in DOMAIN server : F[i] = server[a]
        BY <4>2 DEF ToSet
      <4>4. a = j
        BY <3>1, <4>1, <4>2, <4>3 DEF Listed, Distinct
      <4>5. QED
        BY <3>1, <4>2, <4>3, <4>4
    <3>5. QED
      BY <3>3, <3>4
  <2>3. QED
    BY <2>1, <2>2 DEF Besides
<1>23. m.changed <=> F # list
  <2>1. ASSUME ~m.changed PROVE F = list
    <3>1. ~met.changed /\ len = old
      BY <1>6, <1>7, <2>1
    <3>2. met.list = list
      BY <1>8, <3>1
    <3>3. F = met.list
      <4>1. DOMAIN F = DOMAIN met.list /\ \A i \in DOMAIN F : F[i] = met.list[i]
        BY <1>6, <1>7, <3>1
      <4>2. F \in Seq(Profile) /\ met.list \in Seq(Profile)
        BY <1>6
      <4>3. QED
        BY <4>1, <4>2
    <3>4. QED
      BY <3>2, <3>3
  <2>2. ASSUME m.changed, F = list PROVE FALSE
    <3>1. CASE met.changed
      <4>1. PICK i \in DOMAIN list : list[i].kind # "LOCAL" /\ list[i] \notin ToSet(server)
        BY <1>8, <3>1
      <4>2. QED
        BY <1>6, <1>11, <2>2, <4>1
    <3>2. CASE ~met.changed
      <4>1. len > old /\ met.list = list
        BY <1>7, <1>8, <2>2, <3>2
      <4>2. QED
        BY <1>6, <2>2, <4>1 DEF len, old
    <3>3. QED
      BY <3>1, <3>2
  <2>3. QED
    BY <2>1, <2>2
<1>24. QED
  BY <1>15, <1>20, <1>21, <1>22, <1>23 DEF F, m

\* A merge is not refused when the answer agrees with the list on who hosts.
LEMMA MergeAgreed ==
  ASSUME NEW me \in Locals, NEW list, Listed(me, list), NEW server, Listed(me, server),
         Agree(list, server)
  PROVE  Merge(list, server).ok
<1> DEFINE met == Met(list, server)
<1>1. met \in Merges /\ met.server = server /\ met.ok
  BY MergeLoop DEF Believes
<1>2. Merge(list, server) = FoldLeft(AddNew, met, Downwards(server))
  BY <1>1 DEF Merge
<1> HIDE DEF met
<1>3. AddedTo(met, server, 0, FoldLeft(AddNew, met, Downwards(server)))
  BY <1>1, AddLoop
<1>4. QED
  BY <1>1, <1>2, <1>3 DEF AddedTo

-----------------------------------------------------------------------------
(* The player list of a guest. *)

\* The list holds this machine under its own name, and no other as LOCAL.
ShowsSelf(me, list) == \A p \in Profile : p.kind = "LOCAL" => (p \in ToSet(list) <=> p = me)

\* What ViewWellFormed says of the list, in the words of the loops.
Good(me, list) == Listed(me, list) /\ AtMostOneHost(list) /\ ShowsSelf(me, list)

\* The profile of this machine.
LEMMA MeType ==
  Me \in Locals /\ Me \in Profile /\ Me.id = Local /\ Me.kind = "LOCAL"
BY GuestViewAssumption DEF Me, LocalProfile, Locals, Profile, Kinds

\* At most one element, counted.
LEMMA CountAtMostOne ==
  ASSUME NEW S
  PROVE  /\ (\A x, y \in S : x = y) => Cardinality(S) <= 1
         /\ IsFiniteSet(S) /\ Cardinality(S) <= 1 => \A x, y \in S : x = y
<1>1. ASSUME \A x, y \in S : x = y PROVE Cardinality(S) <= 1
  <2>1. CASE S = {}
    BY <2>1, FS_EmptySet
  <2>2. CASE S # {}
    <3>1. PICK x \in S : TRUE
      BY <2>2
    <3>2. S = {x}
      BY <1>1, <3>1
    <3>3. Cardinality(S) = 1
      BY <3>2, FS_Singleton
    <3>4. QED
      BY <3>3
  <2>3. QED
    BY <2>1, <2>2
<1>2. ASSUME IsFiniteSet(S), Cardinality(S) <= 1 PROVE \A x, y \in S : x = y
  <2>1. Cardinality(S) \in Nat
    BY <1>2, FS_CardinalityType
  <2>2. Cardinality(S) = 0 \/ Cardinality(S) = 1
    BY <1>2, <2>1
  <2>3. CASE Cardinality(S) = 0
    BY <1>2, <2>3, FS_EmptySet
  <2>4. CASE Cardinality(S) = 1
    BY <1>2, <2>4, FS_Singleton
  <2>5. QED
    BY <2>2, <2>3, <2>4
<1>3. QED
  BY <1>1, <1>2

\* The invariant and the condition of the loops are one.
LEMMA GoodIsWellFormed ==
  ASSUME ViewTypeOK
  PROVE  ViewWellFormed <=> (exception = "none" => Good(Me, shown))
<1> DEFINE n == Len(shown)
<1> DEFINE hosts == OfKind(shown, "HOST")
<1>1. /\ shown \in Seq(Profile) /\ n \in Nat /\ DOMAIN shown = 1 .. n
      /\ \A i \in DOMAIN shown : shown[i] \in Profile /\ shown[i] \in ToSet(shown)
  BY DEF ViewTypeOK, ToSet
<1>2. Cardinality(hosts) <= 1 <=> AtMostOneHost(shown)
  <2>1. hosts \in SUBSET (1 .. n) /\ AtMostOneHost(shown) <=> \A i, j \in hosts : i = j
    BY <1>1 DEF OfKind, AtMostOneHost
  <2>2. IsFiniteSet(1 .. n)
    BY <1>1, FS_Interval
  <2>3. hosts \in SUBSET (1 .. n)
    BY <1>1 DEF OfKind
  <2> HIDE DEF hosts, n
  <2>4. IsFiniteSet(hosts)
    BY <2>2, <2>3, FS_Subset
  <2>5. QED
    BY <2>1, <2>3, <2>4, CountAtMostOne
<1>3. ViewWellFormed <=>
        (exception = "none" => /\ Distinct(shown)
                               /\ {shown[i] : i \in OfKind(shown, "LOCAL")} = {Me}
                               /\ AtMostOneHost(shown))
  BY <1>2 DEF ViewWellFormed, Distinct
<1> HIDE DEF hosts, n
<1> DEFINE locals == {shown[i] : i \in OfKind(shown, "LOCAL")}
<1>4. /\ \A p \in locals : p.kind = "LOCAL" /\ p \in ToSet(shown)
      /\ \A p \in ToSet(shown) : p.kind = "LOCAL" => p \in locals
  BY DEF OfKind, ToSet
<1>5. \A p \in ToSet(shown) : p \in Profile /\ \E i \in DOMAIN shown : p = shown[i]
  BY <1>1 DEF ToSet
<1> HIDE DEF locals
<1>6. ASSUME Good(Me, shown) PROVE locals = {Me}
  <2>1. \A p \in locals : p = Me
    BY <1>4, <1>5, <1>6 DEF Good, ShowsSelf
  <2>2. Me \in locals
    BY <1>4, <1>6, MeType DEF Good, ShowsSelf
  <2>3. QED
    BY <2>1, <2>2
<1>7. ASSUME Distinct(shown), locals = {Me}, AtMostOneHost(shown)
      PROVE  Good(Me, shown)
  <2>1. Me \in ToSet(shown)
    BY <1>4, <1>7
  <2>2. ShowsSelf(Me, shown)
    BY <1>4, <1>7, <2>1, MeType DEF ShowsSelf
  <2>3. PICK at \in DOMAIN shown : shown[at] = Me
    BY <1>5, <2>1
  <2>4. ASSUME NEW i \in DOMAIN shown
        PROVE  shown[i].kind = "LOCAL" <=> shown[i].id = Me.id
    <3>1. ASSUME shown[i].kind = "LOCAL" PROVE shown[i].id = Me.id
      BY <1>1, <1>4, <1>7, <3>1, MeType
    <3>2. ASSUME shown[i].id = Me.id PROVE shown[i].kind = "LOCAL"
      BY <1>7, <2>3, <3>2, MeType DEF Distinct
    <3>3. QED
      BY <3>1, <3>2
  <2>5. QED
    BY <1>1, <1>7, <2>2, <2>4 DEF Good, Listed
<1>8. ASSUME Good(Me, shown) PROVE Distinct(shown) /\ AtMostOneHost(shown)
  BY <1>8 DEF Good, Listed
<1>9. QED
  BY <1>3, <1>6, <1>7, <1>8 DEF locals

\* A merge of an answer that was accepted, into a list that is as it should be.
LEMMA Merged ==
  ASSUME NEW me \in Locals, NEW list, Good(me, list), NEW answer \in Seq(Profile),
         Parse(me, answer).ok, Merge(list, Parse(me, answer).players).ok
  PROVE  LET merged == Merge(list, Parse(me, answer).players)
         IN  /\ Good(me, merged.list)
             /\ Besides(me, merged.list) = Besides(me, answer)
             /\ merged.changed <=> merged.list # list
<1> DEFINE server == Parse(me, answer).players
<1> DEFINE merged == Merge(list, server)
<1>1. ReadFrom(me, answer, server)
  BY ParseResult
<1> HIDE DEF server
<1>2. Listed(me, server) /\ AtMostOneHost(server) /\ Besides(me, server) = Besides(me, answer)
  BY <1>1 DEF ReadFrom, Listed, AtMostOneHost
<1>3. merged.ok
  BY DEF server
<1>4. Listed(me, list)
  BY DEF Good
<1>5. /\ Listed(me, merged.list)
      /\ AtMostOneHost(merged.list)
      /\ Besides(me, merged.list) = Besides(me, server)
      /\ \A p \in Profile : p.kind = "LOCAL" => (p \in ToSet(merged.list) <=> p \in ToSet(list))
      /\ merged.changed <=> merged.list # list
  BY <1>2, <1>3, <1>4, MergeResult
<1> HIDE DEF merged
<1>6. ShowsSelf(me, merged.list)
  BY <1>5 DEF Good, ShowsSelf
<1>7. QED
  BY <1>2, <1>5, <1>6 DEF Good, merged, server

\* The counter stays in its range, and moves unless that is a single number.
LEMMA NextVersion ==
  ASSUME NEW v \in 0 .. Versions - 1
  PROVE  /\ (v + 1) % Versions \in 0 .. Versions - 1
         /\ Versions # 1 => (v + 1) % Versions # v
<1>1. Versions \in Nat \ {0}
  BY VersionsAssumption
<1>2. CASE v + 1 < Versions
  <2>1. (v + 1) % Versions = v + 1
    BY <1>1, <1>2
  <2>2. QED
    BY <1>1, <1>2, <2>1
<1>3. CASE ~(v + 1 < Versions)
  <2>1. v + 1 = Versions
    BY <1>1, <1>3
  <2>2. (v + 1) % Versions = 0
    BY <1>1, <2>1
  <2>3. QED
    BY <1>1, <2>1, <2>2
<1>4. QED
  BY <1>2, <1>3

\* What one round of the guest loop may do, of a list as it should be.
LEMMA ReceiveStep ==
  ASSUME ViewWellFormed, NEW answer \in Answers, Receive(answer)
  PROVE  /\ exception = "none" /\ Good(Me, shown)
         /\ \/ /\ exception' \in {"PingHostFail", "ScaffoldingInvalidResponse"}
               /\ shown' = <<>>
               /\ shownVersion' = (shownVersion + 1) % Versions
            \/ /\ exception' = "none" /\ Good(Me, shown')
               /\ shownVersion' = IF shown' # shown THEN (shownVersion + 1) % Versions ELSE shownVersion
<1>1. exception = "none"
  BY DEF Receive
<1>2. Good(Me, shown)
  BY <1>1, GoodIsWellFormed DEF ViewWellFormed
<1> DEFINE parsed == Parse(Me, answer)
<1> DEFINE merged == Merge(shown, parsed.players)
<1>3. parsed.ok /\ merged.ok =>
        Good(Me, merged.list) /\ (merged.changed <=> merged.list # shown)
  BY <1>2, AnswersAreLists, MeType, Merged
<1> HIDE DEF parsed, merged
<1>4. \/ EndWith("PingHostFail")
      \/ EndWith("ScaffoldingInvalidResponse")
      \/ /\ parsed.ok /\ merged.ok
         /\ shown' = merged.list
         /\ shownVersion' = IF merged.changed THEN (shownVersion + 1) % Versions ELSE shownVersion
         /\ UNCHANGED exception
  BY DEF Receive, parsed, merged
<1>5. QED
  BY <1>1, <1>2, <1>3, <1>4 DEF EndWith

\* A guest begins with itself alone.
LEMMA InitWellFormed == GuestInit => ViewWellFormed
<1> SUFFICES ASSUME GuestInit PROVE ViewWellFormed
  OBVIOUS

<1>0. Me \in Profile /\ Me.kind = "LOCAL" /\ Me.id = Local
  BY MeType
<1>1. shown = <<Me>> /\ shown \in Seq(Profile) /\ DOMAIN shown = {1} /\ shown[1] = Me
  BY <1>0 DEF GuestInit
<1>2. ViewTypeOK
  BY <1>1, VersionsAssumption DEF GuestInit, ViewTypeOK
<1>3. ToSet(shown) = {Me}
  BY <1>1 DEF ToSet
<1>4. Good(Me, shown)
  <2>1. Listed(Me, shown)
    BY <1>0, <1>1 DEF Listed, Distinct
  <2>2. AtMostOneHost(shown)
    BY <1>1 DEF AtMostOneHost
  <2>3. ShowsSelf(Me, shown)
    BY <1>3 DEF ShowsSelf
  <2>4. QED
    BY <2>1, <2>2, <2>3 DEF Good
<1>5. QED
  BY <1>2, <1>4, GoodIsWellFormed

\* Whatever the host answers, in whatever order, the list a guest shows is
\* well-formed.
THEOREM ViewOK == GuestSpec => []ViewWellFormed
<1>1. ASSUME ViewWellFormed, [GuestNext]_shownVars PROVE ViewWellFormed'
  <2>1. ASSUME NEW answer \in Answers, Receive(answer) PROVE ViewWellFormed'
    <3>1. shownVersion \in 0 .. Versions - 1 /\ (shownVersion + 1) % Versions \in 0 .. Versions - 1
      BY <1>1, NextVersion DEF ViewWellFormed, ViewTypeOK
    <3>2. CASE exception' \in {"PingHostFail", "ScaffoldingInvalidResponse"} /\ shown' = <<>>
               /\ shownVersion' = (shownVersion + 1) % Versions
      BY <3>1, <3>2 DEF ViewWellFormed, ViewTypeOK
    <3>3. CASE exception' = "none" /\ Good(Me, shown')
               /\ shownVersion' = IF shown' # shown THEN (shownVersion + 1) % Versions ELSE shownVersion
      <4>1. ViewTypeOK'
        BY <3>1, <3>3 DEF ViewTypeOK, Good, Listed
      <4>2. Good(Me, shown)'
        BY <3>3 DEF Good, Listed, AtMostOneHost, ShowsSelf, Distinct, ToSet
      <4>3. QED
        BY <4>1, <4>2, GoodIsWellFormed, PTL
    <3>4. QED
      BY <1>1, <2>1, <3>2, <3>3, ReceiveStep
  <2>2. CASE UNCHANGED shownVars
    BY <1>1, <2>2 DEF shownVars, ViewWellFormed, ViewTypeOK, OfKind
  <2>3. QED
    BY <1>1, <2>1, <2>2 DEF GuestNext, Over
<1>2. QED
  BY <1>1, InitWellFormed, PTL DEF GuestSpec

\* In every state, reading and sorting accept exactly the answers that can be
\* a player table.
THEOREM TablesAccepted == GuestSpec => []ParseAcceptsTables
<1>1. ParseAcceptsTables
  BY AnswersAreLists, MeType, ParseResult, AcceptedIsTable DEF ParseAcceptsTables
<1>2. QED
  BY <1>1, PTL

\* In every reachable state the merge in place comes to a replacement by the
\* answer, and reports a change when there is one.
THEOREM MergeIsReplacement == GuestSpec => []MergeMatchesAnswer
<1>1. ViewWellFormed => MergeMatchesAnswer
  <2> SUFFICES ASSUME ViewWellFormed, exception = "none" PROVE MergeMatchesAnswer
    BY DEF MergeMatchesAnswer
  <2>1. Good(Me, shown)
    BY GoodIsWellFormed DEF ViewWellFormed
  <2>2. QED
    BY <2>1, AnswersAreLists, MeType, Merged DEF MergeMatchesAnswer
<1>2. QED
  BY <1>1, ViewOK, PTL

\* The list changes exactly when the version does.  (The code counts in a
\* u32; with the bound 1 the version would stand still.)
THEOREM VersionedView ==
  ASSUME Versions # 1
  PROVE  GuestSpec => ViewIsVersioned
<1>1. ASSUME ViewWellFormed, GuestNext PROVE shownVersion' # shownVersion <=> shown' # shown
  <2>1. ASSUME NEW answer \in Answers, Receive(answer)
        PROVE  shownVersion' # shownVersion <=> shown' # shown
    <3>1. (shownVersion + 1) % Versions # shownVersion
      BY <1>1, NextVersion DEF ViewWellFormed, ViewTypeOK
    <3>2. CASE exception' = "none"
      BY <1>1, <2>1, <3>1, <3>2, ReceiveStep
    <3>3. CASE shown' = <<>> /\ shownVersion' = (shownVersion + 1) % Versions
      <4>1. Good(Me, shown)
        BY <1>1, <2>1, ReceiveStep
      <4>2. Me \in ToSet(shown)
        BY <4>1, MeType DEF Good, ShowsSelf
      <4>3. shown # <<>>
        BY <4>2 DEF ToSet
      <4>4. QED
        BY <3>1, <3>3, <4>3
    <3>4. QED
      BY <1>1, <2>1, <3>2, <3>3, ReceiveStep
  <2>2. QED
    BY <1>1, <2>1 DEF GuestNext, Over, shownVars
<1>2. ViewWellFormed /\ [GuestNext]_shownVars => [(shownVersion' # shownVersion <=> shown' # shown)]_shownVars
  BY <1>1
<1>3. QED
  BY <1>2, ViewOK, PTL DEF GuestSpec, ViewIsVersioned

=============================================================================
