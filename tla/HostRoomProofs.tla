---------------------------- MODULE HostRoomProofs ----------------------------
(***************************************************************************)
(* Proofs about HostRoom and RoomSync.  The player table of a hosted room  *)
(* is well-formed in every state, the monitor's downward loop removes the  *)
(* silent guests and nobody else, a machine heard of in time stays, and no *)
(* change goes without a new version.  RoomSync implements HostRoom, so    *)
(* its table is as good; and no guest ever takes the host for broken.      *)
(*                                                                         *)
(* The first part is about the loop as an algorithm, by the loop invariant *)
(* of module Loops; then come one lemma for each way a step rewrites the   *)
(* table, the inductive invariant of HostRoom with one lemma per action,   *)
(* and its theorems; last the guests' sessions.  What a guest makes of an  *)
(* answer is known from GuestViewProofs, whose lemmas on PlayerLists are   *)
(* about any list; the constants of the single guest there play no part.   *)
(***************************************************************************)
EXTENDS RoomSync, GuestViewProofs

\* The loop of the monitor, whose body is RemoveIfExpired.
Removal == INSTANCE Loops WITH Body <- RemoveIfExpired

\* Sweep is that loop, over the positions from the last to the second.
LEMMA SweepIsLoop ==
  ASSUME NEW list
  PROVE  Sweep(list) = Removal!Loop(list, [k \in 1 .. Len(list) - 1 |-> Len(list) + 1 - k])
BY DEF Sweep, Removal!Loop, FoldLeft, Removal!FoldLeft, MapThenFoldSet,
       Removal!MapThenFoldSet, Max, Removal!Max

\* What is left of a list after the first k rounds of the loop.
Left(list, k) ==
  (1 .. Len(list) - k) \cup {i \in Len(list) - k + 1 .. Len(list) : ~Expired(list[i])}

\* After k rounds `rest` is what is Left of the list, in its order: `at` maps
\* the places in `rest` to places in the list.  The places the loop has yet to
\* visit have not moved, which is why it runs downwards.
SweptBy(at, list, k, rest) ==
  /\ at \in [DOMAIN rest -> Left(list, k)]
  /\ \A i, j \in DOMAIN rest : i < j => at[i] < at[j]
  /\ \A m \in Left(list, k) : \E i \in DOMAIN rest : at[i] = m
  /\ \A i \in DOMAIN rest : rest[i] = list[at[i]]
  /\ \A i \in 1 .. Len(list) - k : i \in DOMAIN rest /\ at[i] = i

\* One round of the loop, at place Len(list) - k, keeps that.
LEMMA SweepRound ==
  ASSUME NEW E, NEW list \in Seq(E), NEW k \in 0 .. Len(list) - 2,
         NEW rest \in Seq(E), NEW at, SweptBy(at, list, k, rest)
  PROVE  /\ RemoveIfExpired(rest, Len(list) - k) \in Seq(E)
         /\ \E to : SweptBy(to, list, k + 1, RemoveIfExpired(rest, Len(list) - k))
<1> DEFINE n == Len(list) - k
<1>0. /\ n \in Nat /\ n >= 2 /\ n <= Len(list) /\ n \in 1 .. Len(list)
      /\ Len(list) - (k + 1) = n - 1
      /\ DOMAIN rest = 1 .. Len(rest) /\ Len(rest) \in Nat /\ Len(list) \in Nat
  OBVIOUS
<1>1. /\ n \in 1 .. Len(rest) /\ at[n] = n /\ rest[n] = list[n]
  <2>0. n \in 1 .. Len(list) - k
    BY <1>0
  <2>1. n \in DOMAIN rest /\ at[n] = n
    <3>1. \A i \in 1 .. Len(list) - k : i \in DOMAIN rest /\ at[i] = i
      BY DEF SweptBy
    <3> HIDE DEF n
    <3>2. QED
      BY <2>0, <3>1
  <2>2. QED
    BY <1>0, <2>1 DEF SweptBy
<1>2. /\ Left(list, k) = (1 .. n) \cup {i \in n + 1 .. Len(list) : ~Expired(list[i])}
      /\ Left(list, k + 1) = (1 .. n - 1) \cup {i \in n .. Len(list) : ~Expired(list[i])}
  BY <1>0 DEF Left
<1> HIDE DEF n
<1>3. CASE ~Expired(rest[n])
  <2>1. RemoveIfExpired(rest, n) = rest
    BY <1>3 DEF RemoveIfExpired
  <2>2. Left(list, k + 1) = Left(list, k)
    BY <1>0, <1>1, <1>2, <1>3
  <2>3. SweptBy(at, list, k + 1, rest)
    BY <1>0, <2>2 DEF SweptBy, n
  <2>4. QED
    BY <2>1, <2>3 DEF n
<1>4. CASE Expired(rest[n])
  <2> DEFINE less == RemoveAt(rest, n)
  <2> DEFINE skip(i) == IF i < n THEN i ELSE i + 1
  <2> DEFINE to == [i \in 1 .. Len(rest) - 1 |-> at[skip(i)]]
  <2>1. /\ less \in Seq(E) /\ Len(less) = Len(rest) - 1
        /\ \A i \in 1 .. Len(rest) - 1 : less[i] = rest[skip(i)]
    <3>1. \A i \in 1 .. Len(rest) - 1 : less[i] = IF i < n THEN rest[i] ELSE rest[i + 1]
      BY <1>1, RemoveAtProperties
    <3>2. less \in Seq(E) /\ Len(less) = Len(rest) - 1
      BY <1>1, RemoveAtProperties
    <3>3. QED
      BY <3>1, <3>2
  <2>2. RemoveIfExpired(rest, n) = less
    BY <1>4 DEF RemoveIfExpired
  <2> HIDE DEF less
  <2>3. DOMAIN less = 1 .. Len(rest) - 1
    BY <2>1
  <2>4. \A i \in 1 .. Len(rest) - 1 : skip(i) \in 1 .. Len(rest) /\ skip(i) # n
    BY <1>0, <1>1
  <2>5. \A i, j \in 1 .. Len(rest) - 1 : i < j => skip(i) < skip(j)
    BY <1>0, <1>1
  <2>6. \A i \in 1 .. Len(rest) : i # n => \E j \in 1 .. Len(rest) - 1 : skip(j) = i
    <3> SUFFICES ASSUME NEW i \in 1 .. Len(rest), i # n
                 PROVE  \E j \in 1 .. Len(rest) - 1 : skip(j) = i
      OBVIOUS
    <3>1. CASE i < n
      <4>1. i \in 1 .. Len(rest) - 1
        BY <3>1, <1>0, <1>1
      <4>2. QED
        BY <3>1, <4>1
    <3>2. CASE i > n
      <4>1. i - 1 \in 1 .. Len(rest) - 1 /\ skip(i - 1) = i
        BY <3>2, <1>0, <1>1
      <4>2. QED
        BY <4>1
    <3>3. QED
      BY <3>1, <3>2, <1>0
  <2>7. \A i \in 1 .. n - 1 : i \in DOMAIN less /\ skip(i) = i
    BY <1>0, <1>1, <2>3
  <2> HIDE DEF skip
  <2>8. Left(list, k + 1) = Left(list, k) \ {n}
    BY <1>0, <1>1, <1>2, <1>4
  <2>9. \A i \in 1 .. Len(rest) : i # n => at[i] \in Left(list, k + 1)
    <3> SUFFICES ASSUME NEW i \in 1 .. Len(rest), i # n PROVE at[i] # n
      BY <1>0, <2>8 DEF SweptBy
    <3>1. i < n \/ n < i
      BY <1>0
    <3>2. at[i] \in Int /\ (at[i] < at[n] \/ at[n] < at[i])
      BY <3>1, <1>0, <1>1, <1>2 DEF SweptBy
    <3>3. QED
      BY <3>2, <1>1, <1>0
  <2>10. to \in [DOMAIN less -> Left(list, k + 1)]
    BY <2>3, <2>4, <2>9
  <2>11. \A i, j \in DOMAIN less : i < j => to[i] < to[j]
    BY <1>0, <2>3, <2>4, <2>5 DEF SweptBy
  <2>12. \A m \in Left(list, k + 1) : \E i \in DOMAIN less : to[i] = m
    <3> SUFFICES ASSUME NEW m \in Left(list, k + 1) PROVE \E i \in DOMAIN less : to[i] = m
      OBVIOUS
    <3>1. PICK i \in 1 .. Len(rest) : at[i] = m
      BY <1>0, <2>8 DEF SweptBy
    <3>2. i # n
      BY <3>1, <1>1, <2>8
    <3>3. PICK j \in 1 .. Len(rest) - 1 : skip(j) = i
      BY <3>2, <2>6
    <3>4. QED
      BY <3>1, <3>3, <2>3
  <2>13. \A i \in DOMAIN less : less[i] = list[to[i]]
    BY <1>0, <2>1, <2>3, <2>4 DEF SweptBy
  <2>14. \A i \in 1 .. n - 1 : i \in DOMAIN less /\ to[i] = i
    BY <1>0, <2>3, <2>7 DEF SweptBy, n
  <2> HIDE DEF to
  <2>15. SweptBy(to, list, k + 1, less)
    BY <1>0, <2>10, <2>11, <2>12, <2>13, <2>14 DEF SweptBy
  <2>16. QED
    BY <2>1, <2>2, <2>15 DEF n
<1>5. QED
  BY <1>3, <1>4

\* So it holds when the loop is done.
LEMMA SweepSelects ==
  ASSUME NEW E, NEW list \in Seq(E), list # <<>>
  PROVE  /\ Sweep(list) \in Seq(E)
         /\ \E at : SweptBy(at, list, Len(list) - 1, Sweep(list))
<1> DEFINE places == [k \in 1 .. Len(list) - 1 |-> Len(list) + 1 - k]
<1> DEFINE I == {p \in Nat \X Seq(E) : \E at : SweptBy(at, list, p[1], p[2])}
<1>0. Len(list) \in Nat /\ Len(list) - 1 \in Nat
  OBVIOUS
<1>1. places \in Seq(Nat) /\ Len(places) = Len(list) - 1
  BY <1>0
<1>2. \A k \in 0 .. Len(places) - 1 : k \in 0 .. Len(list) - 2 /\ places[k + 1] = Len(list) - k
  BY <1>0, <1>1
<1>3. Sweep(list) = Removal!Loop(list, places)
  BY SweepIsLoop
<1> HIDE DEF places
<1>4. <<0, list>> \in I
  <2>1. SweptBy([i \in 1 .. Len(list) |-> i], list, 0, list)
    BY <1>0, SMTT(30) DEF SweptBy, Left
  <2>2. QED
    BY <2>1
<1>5. ASSUME NEW k \in 0 .. Len(places) - 1, NEW rest, <<k, rest>> \in I
      PROVE  <<k + 1, RemoveIfExpired(rest, places[k + 1])>> \in I
  BY <1>2, <1>5, SweepRound
<1> HIDE DEF I
<1>6. <<Len(places), Removal!Loop(list, places)>> \in I
  BY <1>1, <1>4, <1>5, Removal!LoopInvariant
<1>7. QED
  BY <1>1, <1>3, <1>6 DEF I

\* The loop leaves the first entry and the entries that have not expired.
LEMMA SweepKeeps ==
  ASSUME NEW E, NEW list \in Seq(E), list # <<>>
  PROVE  Selects(list, {1} \cup {i \in DOMAIN list : ~Expired(list[i])}, Sweep(list))
<1>1. PICK at : SweptBy(at, list, Len(list) - 1, Sweep(list))
  BY SweepSelects
<1>2. Left(list, Len(list) - 1) = {1} \cup {i \in DOMAIN list : ~Expired(list[i])}
  BY DEF Left
<1>3. QED
  BY <1>1, <1>2 DEF SweptBy, Selects

-----------------------------------------------------------------------------
(* The table and the scalars. *)

USE HostRoomAssumption, VersionsAssumption

\* The entries of a table, of any age.
Entries == [id : Machines, name : Names, kind : {"HOST", "GUEST"}, age : Int]

\* TypeOK but for the table, whose entries' ages AgesBounded bounds.
ScalarsOK ==
  /\ machine \in [Guests -> Machines]
  /\ open \in BOOLEAN
  /\ version \in 0 .. Versions - 1
  /\ member \in [Guests -> Names \cup {"out"}]
  /\ pending \in [Guests -> Names \cup {"none"}]
  /\ heard \in [Others -> 0 .. Timeout]
  /\ jumps \in 0 .. MaxJumps

\* How far the clock may be off grows with each time it is set.
LEMMA SkewAdds ==
  ASSUME NEW n \in Nat
  PROVE  /\ MaxSkew * n \in Nat
         /\ MaxSkew * (n + 1) = MaxSkew * n + MaxSkew
         /\ n <= MaxJumps => MaxSkew * n <= MaxSkew * MaxJumps
OBVIOUS

\* The table after c:player_ping of a guest it knows.
Refreshed(list, i, name) == [list EXCEPT ![i].age = 0, ![i].name = name]

\* The three things c:player_ping does: fail, refresh a guest, append one.
LEMMA PingCases ==
  ASSUME NEW g \in Guests, TakePing(g)
  PROVE  \/ /\ member' = [member EXCEPT ![g] = "out"]
            /\ UNCHANGED <<open, profiles, version, heard>>
         \/ /\ open /\ machine[g] # Host
            /\ \E i \in DOMAIN profiles :
                 /\ profiles[i].id = machine[g]
                 /\ profiles' = Refreshed(profiles, i, pending[g])
                 /\ version' = IF profiles[i].name # pending[g] THEN (version + 1) % Versions
                                                              ELSE version
            /\ heard' = [heard EXCEPT ![machine[g]] = 0]
            /\ UNCHANGED <<open, member>>
         \/ /\ open /\ machine[g] # Host
            /\ machine[g] \notin Ids(profiles)
            /\ profiles' = Append(profiles, Entry(machine[g], pending[g], "GUEST"))
            /\ version' = (version + 1) % Versions
            /\ heard' = [heard EXCEPT ![machine[g]] = 0]
            /\ UNCHANGED <<open, member>>
BY DEF TakePing, FailPing, Refresh, Refreshed, Increase, roomVars

\* What is not the table keeps its type.
LEMMA ScalarsStep == TypeOK /\ [HostRoomNext]_vars => ScalarsOK'
<1> SUFFICES ASSUME TypeOK, [HostRoomNext]_vars PROVE ScalarsOK'
  OBVIOUS
<1> USE DEF TypeOK, ScalarsOK, roomVars, guestVars
<1>1. CASE OpenRoom
  BY <1>1, NextVersion DEF OpenRoom, Increase
<1>2. CASE CloseRoom
  BY <1>2, NextVersion DEF CloseRoom, Increase
<1>3. CASE MonitorRound
  BY <1>3, NextVersion DEF MonitorRound, Increase
<1>4. CASE Tick
  BY <1>4 DEF Tick, Capped
<1>5. CASE SetClock
  BY <1>5 DEF SetClock
<1>6. ASSUME NEW g \in Guests, Join(g) PROVE ScalarsOK'
  BY <1>6 DEF Join
<1>7. ASSUME NEW g \in Guests, Leave(g) PROVE ScalarsOK'
  BY <1>7 DEF Leave
<1>8. ASSUME NEW g \in Guests, SendPing(g) PROVE ScalarsOK'
  BY <1>8 DEF SendPing
<1>9. ASSUME NEW g \in Guests, TakePing(g) PROVE ScalarsOK'
  <2>1. /\ version' \in {version, (version + 1) % Versions}
        /\ member' = member \/ member' = [member EXCEPT ![g] = "out"]
        /\ heard' = heard \/ (machine[g] # Host /\ heard' = [heard EXCEPT ![machine[g]] = 0])
    BY <1>9, PingCases
  <2>2. version' \in 0 .. Versions - 1
    BY <2>1, NextVersion
  <2>3. heard' \in [Others -> 0 .. Timeout]
    BY <2>1 DEF Others
  <2>4. QED
    BY <1>9, <2>1, <2>2, <2>3 DEF TakePing, FailPing
<1>10. CASE UNCHANGED vars
  BY <1>10 DEF vars
<1>11. QED
  BY <1>1, <1>2, <1>3, <1>4, <1>5, <1>6, <1>7, <1>8, <1>9, <1>10
  DEF HostRoomNext, GuestStep

-----------------------------------------------------------------------------

\* The parts of TableWellFormed and HostHeadsTable that speak of the list.
Table(list) ==
  /\ list \in Seq(Entries)
  /\ \A i, j \in DOMAIN list : list[i].id = list[j].id => i = j
  /\ \A i \in DOMAIN list : list[i].kind = "HOST" <=> list[i].id = Host

\* The host is first, under the name the room was opened with.
Headed(list) ==
  list # <<>> /\ list[1].id = Host /\ list[1].name = HostName /\ list[1].kind = "HOST"

\* What is in a table is an entry.
LEMMA TableEntries ==
  ASSUME NEW list, Table(list), NEW i \in DOMAIN list
  PROVE  /\ list[i] \in Entries
         /\ list[i].id \in Machines
         /\ list[i].age \in Int
<1>1. list[i] \in Entries
  BY DEF Table
<1>2. QED
  BY <1>1 DEF Entries

\* HostHeadsTable says of what is shown what Headed says of the list.
LEMMA ShownHead ==
  ASSUME NEW list \in Seq(Entries)
  PROVE  Headed(list) <=> /\ list # <<>>
                          /\ Shown(list)[1] = [id |-> Host, name |-> HostName, kind |-> "HOST"]
<1>1. CASE list = <<>>
  BY <1>1 DEF Headed
<1>2. CASE list # <<>>
  <2>1. 1 \in DOMAIN list
    BY <1>2
  <2>2. Shown(list)[1] = [id |-> list[1].id, name |-> list[1].name, kind |-> list[1].kind]
    BY <2>1 DEF Shown
  <2>3. QED
    BY <1>2, <2>2 DEF Headed
<1>3. QED
  BY <1>1, <1>2

\* Time changes nothing but ages.
LEMMA AgedTable ==
  ASSUME NEW list, Table(list), NEW n \in Int
  PROVE  /\ Table(Aged(list, n))
         /\ Headed(list) => Headed(Aged(list, n))
         /\ DOMAIN Aged(list, n) = DOMAIN list
         /\ \A i \in DOMAIN list : /\ Aged(list, n)[i].id = list[i].id
                                   /\ Aged(list, n)[i].age = Capped(list[i].age + n)
<1>1. list \in Seq(Entries) /\ DOMAIN list = 1 .. Len(list) /\ Len(list) \in Nat
  BY DEF Table
<1>0. \A i \in DOMAIN list : list[i] \in Entries
  BY <1>1
<1>2. \A i \in DOMAIN list :
        /\ Aged(list, n)[i] = [list[i] EXCEPT !.age = Capped(list[i].age + n)]
        /\ Aged(list, n)[i] \in Entries
        /\ Aged(list, n)[i].id = list[i].id
        /\ Aged(list, n)[i].name = list[i].name
        /\ Aged(list, n)[i].kind = list[i].kind
        /\ Aged(list, n)[i].age = Capped(list[i].age + n)
  BY <1>0 DEF Aged, Capped, Entries
<1>3. Aged(list, n) \in Seq(Entries) /\ DOMAIN Aged(list, n) = DOMAIN list
  <2>1. DOMAIN Aged(list, n) = DOMAIN list /\ Aged(list, n) = [j \in DOMAIN list |-> Aged(list, n)[j]]
    BY DEF Aged
  <2>2. QED
    BY <1>1, <1>2, <2>1
<1>4. Headed(list) => Headed(Aged(list, n))
  BY <1>1, <1>2, <1>3 DEF Headed
<1>5. QED
  BY <1>2, <1>3, <1>4 DEF Table

\* An empty table stays empty.
LEMMA AgedEmpty == \A n \in Int : Aged(<<>>, n) = <<>>
BY DEF Aged

\* A refreshed entry is younger and perhaps has another name.
LEMMA RefreshedFields ==
  ASSUME NEW list, Table(list), NEW i \in DOMAIN list, NEW name \in Names
  PROVE  LET new == Refreshed(list, i, name)
         IN  \A j \in DOMAIN list :
               /\ new[j] \in Entries
               /\ new[j].id = list[j].id
               /\ new[j].name = IF j = i THEN name ELSE list[j].name
               /\ new[j].kind = list[j].kind
               /\ new[j].age = IF j = i THEN 0 ELSE list[j].age
<1> DEFINE new == [list EXCEPT ![i].age = 0, ![i].name = name]
<1>1. list \in Seq(Entries) /\ DOMAIN list = 1 .. Len(list) /\ Len(list) \in Nat
  BY DEF Table
<1>0. \A j \in DOMAIN list : list[j] \in Entries
  BY <1>1
<1>2. \A j \in DOMAIN list :
        /\ new[j] \in Entries
        /\ new[j].id = list[j].id
        /\ new[j].name = IF j = i THEN name ELSE list[j].name
        /\ new[j].kind = list[j].kind
        /\ new[j].age = IF j = i THEN 0 ELSE list[j].age
  <2>1. \A j \in DOMAIN list : j # i => new[j] = list[j]
    OBVIOUS
  <2>2. new[i] = [list[i] EXCEPT !.age = 0, !.name = name]
    OBVIOUS
  <2> HIDE DEF new
  <2>3. /\ new[i] \in Entries
        /\ new[i].id = list[i].id
        /\ new[i].name = name
        /\ new[i].kind = list[i].kind
        /\ new[i].age = 0
    <3>1. list[i] \in Entries
      BY <1>0
    <3>2. ASSUME NEW e \in Entries
          PROVE  LET f == [e EXCEPT !.age = 0, !.name = name]
                 IN  /\ f \in Entries
                     /\ f.id = e.id /\ f.name = name /\ f.kind = e.kind /\ f.age = 0
      <4> DEFINE younger == [e EXCEPT !.age = 0]
      <4>1. /\ younger \in Entries
            /\ younger.id = e.id /\ younger.kind = e.kind /\ younger.age = 0
        BY DEF Entries
      <4>2. [e EXCEPT !.age = 0, !.name = name] = [younger EXCEPT !.name = name]
        OBVIOUS
      <4> HIDE DEF younger
      <4>3. QED
        BY <4>1, <4>2 DEF Entries
    <3>3. QED
      BY <2>2, <3>1, <3>2
  <2>4. QED
    BY <1>0, <2>1, <2>3
<1>3. QED
  BY <1>2 DEF Refreshed

\* A refreshed table is as well-formed as before.
LEMMA RefreshedTable ==
  ASSUME NEW list, Table(list), NEW i \in DOMAIN list, list[i].id # Host, NEW name \in Names
  PROVE  LET new == Refreshed(list, i, name)
         IN  /\ Table(new)
             /\ Headed(list) => Headed(new)
             /\ DOMAIN new = DOMAIN list
             /\ \A j \in DOMAIN list : /\ new[j].id = list[j].id
                                       /\ new[j].age = IF j = i THEN 0 ELSE list[j].age
<1> DEFINE new == [list EXCEPT ![i].age = 0, ![i].name = name]
<1>1. list \in Seq(Entries) /\ DOMAIN list = 1 .. Len(list) /\ Len(list) \in Nat
  BY DEF Table
<1>2. \A j \in DOMAIN list :
        /\ new[j] \in Entries
        /\ new[j].id = list[j].id
        /\ new[j].name = IF j = i THEN name ELSE list[j].name
        /\ new[j].kind = list[j].kind
        /\ new[j].age = IF j = i THEN 0 ELSE list[j].age
  <2>1. new = Refreshed(list, i, name)
    BY DEF Refreshed
  <2> HIDE DEF new
  <2>2. QED
    BY <2>1, RefreshedFields
<1>3. new \in Seq(Entries) /\ DOMAIN new = DOMAIN list
  <2>1. DOMAIN new = DOMAIN list /\ new = [j \in DOMAIN list |-> new[j]]
    OBVIOUS
  <2> HIDE DEF new
  <2>2. QED
    BY <1>1, <1>2, <2>1
<1> HIDE DEF new
<1>4. Headed(list) => Headed(new)
  <2>1. Headed(list) => i # 1 /\ 1 \in DOMAIN list
    BY <1>1 DEF Headed
  <2>2. QED
    BY <1>1, <1>2, <1>3, <2>1 DEF Headed
<1>5. Table(new)
  BY <1>2, <1>3 DEF Table
<1>6. QED
  BY <1>2, <1>3, <1>4, <1>5 DEF new, Refreshed

\* So is one with an unknown guest appended.
LEMMA AppendedTable ==
  ASSUME NEW list, Table(list), NEW m \in Others, m \notin Ids(list), NEW name \in Names
  PROVE  LET new == Append(list, Entry(m, name, "GUEST"))
         IN  /\ Table(new)
             /\ Headed(list) => Headed(new)
             /\ DOMAIN new = 1 .. Len(list) + 1
             /\ \A j \in DOMAIN list : new[j] = list[j]
             /\ new[Len(list) + 1] = Entry(m, name, "GUEST")
<1> DEFINE new == Append(list, Entry(m, name, "GUEST"))
<1>1. list \in Seq(Entries) /\ DOMAIN list = 1 .. Len(list) /\ Len(list) \in Nat
  BY DEF Table
<1>2. Entry(m, name, "GUEST") \in Entries
  BY DEF Entry, Entries, Others
<1>3. /\ new \in Seq(Entries)
      /\ DOMAIN new = 1 .. Len(list) + 1
      /\ \A j \in DOMAIN list : new[j] = list[j]
      /\ new[Len(list) + 1] = Entry(m, name, "GUEST")
  BY <1>1, <1>2
<1> HIDE DEF new
<1>4. \A j \in DOMAIN new : j \in DOMAIN list \/ j = Len(list) + 1
  BY <1>1, <1>3
<1>5. \A j \in DOMAIN list : list[j].id # m
  BY DEF Ids
<1>6. /\ Entry(m, name, "GUEST").id = m
      /\ Entry(m, name, "GUEST").kind # "HOST"
      /\ m # Host
  BY DEF Entry, Others
<1>7. Table(new)
  BY <1>1, <1>3, <1>4, <1>5, <1>6 DEF Table
<1>8. Headed(list) => Headed(new)
  BY <1>1, <1>3 DEF Headed
<1>9. QED
  BY <1>3, <1>7, <1>8 DEF new

\* So is a swept one, and who is fresh is still in it.
LEMMA SweptTable ==
  ASSUME NEW list, Table(list), Headed(list)
  PROVE  /\ Table(Sweep(list))
         /\ Headed(Sweep(list))
         /\ \A i \in DOMAIN Sweep(list) : \E k \in DOMAIN list : Sweep(list)[i] = list[k]
         /\ \A k \in DOMAIN list :
              list[k].age < Timeout => list[k].id \in Ids(Sweep(list))
<1>1. list \in Seq(Entries) /\ list # <<>> /\ DOMAIN list = 1 .. Len(list) /\ Len(list) \in Nat
  BY DEF Table, Headed
<1>2. Sweep(list) \in Seq(Entries)
  BY <1>1, SweepSelects
<1>3. PICK at : SweptBy(at, list, Len(list) - 1, Sweep(list))
  BY <1>1, SweepSelects
<1> DEFINE new == Sweep(list)
<1>4. /\ \A i \in DOMAIN new : at[i] \in DOMAIN list /\ new[i] = list[at[i]]
      /\ \A i, j \in DOMAIN new : at[i] = at[j] => i = j
  <2>1. Left(list, Len(list) - 1) \subseteq DOMAIN list
    BY <1>1 DEF Left
  <2>2. \A i, j \in DOMAIN new : i < j \/ j < i \/ i = j
    BY <1>2
  <2>3. \A i \in DOMAIN new : at[i] \in DOMAIN list /\ new[i] = list[at[i]] /\ at[i] \in Int
    BY <1>1, <1>3, <2>1 DEF SweptBy
  <2>4. QED
    BY <1>3, <2>2, <2>3 DEF SweptBy
<1>5. \A k \in DOMAIN list : ~Expired(list[k]) => \E i \in DOMAIN new : at[i] = k
  <2>1. \A k \in DOMAIN list : ~Expired(list[k]) => k \in Left(list, Len(list) - 1)
    BY <1>1 DEF Left
  <2>2. QED
    BY <1>3, <2>1 DEF SweptBy
<1>6. 1 \in DOMAIN new /\ at[1] = 1
  BY <1>1, <1>3 DEF SweptBy
<1>7. \A k \in DOMAIN list : list[k].age \in Int
  BY TableEntries
<1> HIDE DEF new
<1>8. Table(new)
  BY <1>2, <1>4 DEF Table, new
<1>9. Headed(new)
  BY <1>4, <1>6 DEF Headed, new
<1>10. \A k \in DOMAIN list : list[k].age < Timeout => list[k].id \in Ids(new)
  BY <1>4, <1>5, <1>7 DEF Ids, Expired
<1>11. QED
  BY <1>4, <1>8, <1>9, <1>10 DEF new

-----------------------------------------------------------------------------

\* The inductive invariant, by what it says of the scalars and of the list.
Parts ==
  /\ ScalarsOK
  /\ Table(profiles)
  /\ open => Headed(profiles)
  /\ ClosedIsEmpty
  /\ AgesBounded
  /\ AgesAreHeard
  /\ HeardGuestsStay

\* They are the inductive invariant of HostRoom.
LEMMA PartsAreIInv == Parts <=> IInv
<1>1. ASSUME IInv PROVE Parts
  <2>1. profiles \in Seq(Entries) /\ Table(profiles) /\ ScalarsOK
    BY <1>1 DEF IInv, TableWellFormed, TypeOK, Table, Entries, ScalarsOK
  <2>2. open => Headed(profiles)
    BY <1>1, <2>1, ShownHead DEF IInv, TableWellFormed, HostHeadsTable
  <2>3. QED
    BY <1>1, <2>1, <2>2 DEF IInv, Parts
<1>2. ASSUME Parts PROVE IInv
  <2>1. profiles \in Seq(Entries)
    BY <1>2 DEF Parts, Table
  <2>2. \A i \in DOMAIN profiles :
          profiles[i].age \in -(MaxSkew * MaxJumps) .. Timeout
    <3>1. jumps \in Nat /\ jumps <= MaxJumps
      BY <1>2 DEF Parts, ScalarsOK
    <3>2. MaxSkew * jumps \in Nat /\ MaxSkew * MaxJumps \in Nat
      BY <3>1, SkewAdds
    <3>3. MaxSkew * jumps <= MaxSkew * MaxJumps
      BY <3>1, SkewAdds
    <3> DEFINE a == MaxSkew * jumps
    <3> DEFINE b == MaxSkew * MaxJumps
    <3>4. \A i \in DOMAIN profiles : profiles[i].age \in -a .. Timeout
      BY <1>2 DEF Parts, AgesBounded
    <3>5. a \in Nat /\ b \in Nat /\ a <= b
      BY <3>2, <3>3
    <3> HIDE DEF a, b
    <3>6. \A i \in DOMAIN profiles : profiles[i].age \in -b .. Timeout
      BY <3>4, <3>5
    <3>7. QED
      BY <3>6 DEF b
  <2>3. TypeOK
    BY <1>2, <2>1, <2>2 DEF Parts, ScalarsOK, TypeOK, Entries
  <2>4. HostHeadsTable
    BY <1>2, <2>1, ShownHead DEF Parts, HostHeadsTable
  <2>5. QED
    BY <1>2, <2>3, <2>4 DEF Parts, Table, IInv, TableWellFormed
<1>3. QED
  BY <1>1, <1>2

\* It holds before any room is opened.
LEMMA InitParts == HostRoomInit => Parts
<1> SUFFICES ASSUME HostRoomInit PROVE Parts
  OBVIOUS
<1>1. ScalarsOK
  <2>1. 0 \in 0 .. Versions - 1 /\ 0 \in 0 .. MaxJumps /\ Timeout \in 0 .. Timeout
    OBVIOUS
  <2>2. [m \in Others |-> Timeout] \in [Others -> 0 .. Timeout]
    BY <2>1
  <2>3. QED
    BY <2>1, <2>2 DEF HostRoomInit, ScalarsOK
<1>2. Table(profiles) /\ ClosedIsEmpty /\ AgesBounded /\ AgesAreHeard
  BY DEF HostRoomInit, Table, ClosedIsEmpty, AgesBounded, AgesAreHeard
<1>3. ~open
  BY DEF HostRoomInit
<1>4. QED
  BY <1>1, <1>2, <1>3 DEF Parts, HeardGuestsStay

\* A step that lets the room, the pings and the clock alone.
LEMMA SameRoom ==
  ASSUME Parts, ScalarsOK', UNCHANGED <<open, profiles, heard, jumps>>
  PROVE  Parts'
BY DEF Parts, ClosedIsEmpty, AgesBounded, AgesAreHeard, HeardGuestsStay

\* start_host keeps the invariant.
LEMMA OpenStep == Parts /\ ScalarsOK' /\ OpenRoom => Parts'
<1> SUFFICES ASSUME Parts, ScalarsOK', OpenRoom PROVE Parts'
  OBVIOUS
<1> DEFINE first == Entry(Host, HostName, "HOST")
<1>1. /\ first \in Entries /\ first.id = Host /\ first.name = HostName
      /\ first.kind = "HOST" /\ first.age = 0
  BY DEF Entry, Entries
<1>2. open' /\ profiles' = <<first>> /\ heard' = [m \in Others |-> Timeout] /\ jumps' = jumps
  BY DEF OpenRoom
<1>3. MaxSkew * jumps' \in Nat
  <2>1. jumps' \in Nat
    BY DEF ScalarsOK
  <2>2. QED
    BY <2>1, SkewAdds
<1> HIDE DEF first
<1>4. profiles' \in Seq(Entries) /\ DOMAIN profiles' = {1} /\ profiles'[1] = first /\ profiles' # <<>>
  BY <1>1, <1>2
<1>5. Table(profiles')
  BY <1>1, <1>4 DEF Table
<1>6. Headed(profiles')
  BY <1>1, <1>4 DEF Headed
<1>7. AgesBounded'
  BY <1>1, <1>3, <1>4 DEF AgesBounded
<1>8. AgesAreHeard' /\ HeardGuestsStay'
  BY <1>1, <1>2, <1>4 DEF AgesAreHeard, HeardGuestsStay
<1>9. QED
  BY <1>2, <1>5, <1>6, <1>7, <1>8 DEF Parts, ClosedIsEmpty

\* So does the end of the room.
LEMMA CloseStep == Parts /\ ScalarsOK' /\ CloseRoom => Parts'
<1> SUFFICES ASSUME Parts, ScalarsOK', CloseRoom PROVE Parts'
  OBVIOUS
<1>1. ~open' /\ profiles' = <<>>
  BY DEF CloseRoom
<1>2. Table(profiles') /\ AgesBounded' /\ AgesAreHeard' /\ HeardGuestsStay'
  BY <1>1 DEF Table, AgesBounded, AgesAreHeard, HeardGuestsStay
<1>3. QED
  BY <1>1, <1>2 DEF Parts, ClosedIsEmpty

\* So does a round of the monitor.  A machine heard of in time has an entry of
\* that age (AgesAreHeard), which the round spares.
LEMMA MonitorStep == Parts /\ ScalarsOK' /\ MonitorRound => Parts'
<1> SUFFICES ASSUME Parts, ScalarsOK', MonitorRound PROVE Parts'
  OBVIOUS
<1>1. /\ open /\ open' /\ heard' = heard /\ jumps' = jumps
      /\ profiles' = Sweep(profiles)
  BY DEF MonitorRound
<1>2. /\ Table(profiles') /\ Headed(profiles')
      /\ \A i \in DOMAIN profiles' : \E k \in DOMAIN profiles : profiles'[i] = profiles[k]
      /\ \A k \in DOMAIN profiles :
           profiles[k].age < Timeout => profiles[k].id \in Ids(profiles')
  BY <1>1, SweptTable DEF Parts
<1>3. AgesBounded'
  BY <1>1, <1>2 DEF Parts, AgesBounded
<1>4. AgesAreHeard'
  BY <1>1, <1>2 DEF Parts, AgesAreHeard
<1>5. HeardGuestsStay'
  <2> SUFFICES ASSUME NEW m \in Others, heard[m] < Timeout, jumps = 0
               PROVE  m \in Ids(profiles')
    BY <1>1 DEF HeardGuestsStay
  <2>1. PICK k \in DOMAIN profiles : profiles[k].id = m
    BY <1>1 DEF Parts, HeardGuestsStay, Ids
  <2>2. profiles[k].age = heard[m]
    BY <1>1, <2>1 DEF Parts, AgesAreHeard, Others
  <2>3. QED
    BY <1>2, <2>1, <2>2
<1>6. QED
  BY <1>1, <1>2, <1>3, <1>4, <1>5 DEF Parts, ClosedIsEmpty

\* So does the passing of time.
LEMMA TickStep == Parts /\ ScalarsOK' /\ Tick => Parts'
<1> SUFFICES ASSUME Parts, ScalarsOK', Tick PROVE Parts'
  OBVIOUS
<1>1. /\ open' = open /\ jumps' = jumps
      /\ profiles' = Aged(profiles, 1)
      /\ heard' = [m \in Others |-> Capped(heard[m] + 1)]
  BY DEF Tick
<1>2. /\ Table(profiles')
      /\ Headed(profiles) => Headed(profiles')
      /\ DOMAIN profiles' = DOMAIN profiles
      /\ \A i \in DOMAIN profiles : /\ profiles'[i].id = profiles[i].id
                                    /\ profiles'[i].age = Capped(profiles[i].age + 1)
  BY <1>1, AgedTable DEF Parts
<1>3. MaxSkew * jumps \in Nat
  BY SkewAdds DEF Parts, ScalarsOK
<1>4. AgesBounded'
  BY <1>1, <1>2, <1>3 DEF Parts, AgesBounded, Capped
<1>5. \A i \in DOMAIN profiles : profiles[i].id \in Machines
  BY TableEntries DEF Parts
<1>6. AgesAreHeard'
  BY <1>1, <1>2, <1>5 DEF Parts, AgesAreHeard, Others
<1>7. HeardGuestsStay'
  <2>1. Ids(profiles') = Ids(profiles)
    BY <1>2 DEF Ids
  <2>2. \A m \in Others : heard[m] \in 0 .. Timeout
    BY DEF Parts, ScalarsOK
  <2>3. \A m \in Others : heard'[m] < Timeout => heard[m] < Timeout
    BY <1>1, <2>2 DEF Capped
  <2>4. QED
    BY <1>1, <2>1, <2>3 DEF Parts, HeardGuestsStay
<1>8. ClosedIsEmpty'
  BY <1>1, <1>2, AgedEmpty DEF Parts, ClosedIsEmpty
<1>9. QED
  BY <1>1, <1>2, <1>4, <1>6, <1>7, <1>8 DEF Parts

\* So does a change of the wall clock; from then on ages say nothing of what
\* was heard.
LEMMA ClockStep == Parts /\ ScalarsOK' /\ SetClock => Parts'
<1> SUFFICES ASSUME Parts, ScalarsOK', SetClock PROVE Parts'
  OBVIOUS
<1>1. PICK n \in -MaxSkew .. MaxSkew : profiles' = Aged(profiles, n)
  BY DEF SetClock
<1>2. /\ Table(profiles')
      /\ Headed(profiles) => Headed(profiles')
      /\ DOMAIN profiles' = DOMAIN profiles
      /\ \A i \in DOMAIN profiles : profiles'[i].age = Capped(profiles[i].age + n)
  <2>1. n \in Int /\ Table(profiles)
    BY DEF Parts
  <2>2. QED
    BY <1>1, <2>1, AgedTable
<1>3. open' = open /\ jumps' = jumps + 1 /\ jumps \in Nat /\ jumps' # 0
  BY DEF SetClock, Parts, ScalarsOK
<1> DEFINE before == MaxSkew * jumps
<1>4. before \in Nat /\ MaxSkew * jumps' = before + MaxSkew
  BY <1>3, SkewAdds
<1>5. \A i \in DOMAIN profiles : profiles[i].age \in -before .. Timeout
  BY DEF Parts, AgesBounded
<1> HIDE DEF before
<1>6. \A i \in DOMAIN profiles :
        Capped(profiles[i].age + n) \in -(before + MaxSkew) .. Timeout
  BY <1>4, <1>5 DEF Capped
<1>7. AgesBounded'
  BY <1>2, <1>4, <1>6 DEF AgesBounded
<1>8. AgesAreHeard' /\ HeardGuestsStay'
  BY <1>3 DEF AgesAreHeard, HeardGuestsStay
<1>9. ClosedIsEmpty'
  BY <1>1, <1>3, AgedEmpty DEF Parts, ClosedIsEmpty
<1>10. QED
  BY <1>2, <1>3, <1>7, <1>8, <1>9 DEF Parts

\* So does c:player_ping.
LEMMA PingStep ==
  ASSUME Parts, ScalarsOK', NEW g \in Guests, TakePing(g)
  PROVE  Parts'
<1>1. jumps' = jumps /\ pending[g] \in Names /\ machine[g] \in Machines
  BY DEF TakePing, Parts, ScalarsOK
<1>2. MaxSkew * jumps \in Nat
  BY SkewAdds DEF Parts, ScalarsOK
<1>3. CASE UNCHANGED <<open, profiles, version, heard>>
  BY <1>1, <1>3, SameRoom
<1>4. ASSUME open, open' = open, machine[g] # Host,
             heard' = [heard EXCEPT ![machine[g]] = 0],
             NEW i \in DOMAIN profiles, profiles[i].id = machine[g],
             profiles' = Refreshed(profiles, i, pending[g])
      PROVE  Parts'
  <2>1. /\ Table(profiles')
        /\ Headed(profiles) => Headed(profiles')
        /\ DOMAIN profiles' = DOMAIN profiles
        /\ \A j \in DOMAIN profiles :
             /\ profiles'[j].id = profiles[j].id
             /\ profiles'[j].age = IF j = i THEN 0 ELSE profiles[j].age
    <3>1. Table(profiles) /\ profiles[i].id # Host /\ pending[g] \in Names
      BY <1>1, <1>4 DEF Parts
    <3>2. QED
      BY <1>4, <3>1, RefreshedTable
  <2>2. AgesBounded'
    BY <1>1, <1>2, <2>1 DEF Parts, AgesBounded
  <2>3. \A j \in DOMAIN profiles : j # i => profiles[j].id # machine[g]
    BY <1>4 DEF Parts, Table
  <2>4. \A j \in DOMAIN profiles : profiles[j].id \in Machines
    BY TableEntries DEF Parts
  <2>5. machine[g] \in Others /\ heard \in [Others -> 0 .. Timeout]
    BY <1>1, <1>4 DEF Others, Parts, ScalarsOK
  <2>6. AgesAreHeard'
    BY <1>1, <1>4, <2>1, <2>3, <2>4, <2>5 DEF Parts, AgesAreHeard, Others
  <2>7. HeardGuestsStay'
    <3>1. Ids(profiles') = Ids(profiles) /\ machine[g] \in Ids(profiles)
      BY <1>4, <2>1 DEF Ids
    <3>2. QED
      BY <1>1, <1>4, <2>5, <3>1 DEF Parts, HeardGuestsStay
  <2>8. QED
    BY <1>4, <2>1, <2>2, <2>6, <2>7 DEF Parts, ClosedIsEmpty
<1>5. ASSUME open, open' = open, machine[g] # Host, machine[g] \notin Ids(profiles),
             heard' = [heard EXCEPT ![machine[g]] = 0],
             profiles' = Append(profiles, Entry(machine[g], pending[g], "GUEST"))
      PROVE  Parts'
  <2>0. machine[g] \in Others /\ heard \in [Others -> 0 .. Timeout]
    BY <1>1, <1>5 DEF Others, Parts, ScalarsOK
  <2> DEFINE last == Len(profiles) + 1
  <2>1. /\ Table(profiles')
        /\ Headed(profiles) => Headed(profiles')
        /\ DOMAIN profiles' = 1 .. last
        /\ \A j \in DOMAIN profiles : profiles'[j] = profiles[j]
        /\ profiles'[last] = Entry(machine[g], pending[g], "GUEST")
    BY <1>1, <1>5, <2>0, AppendedTable DEF Parts
  <2>2. /\ \A j \in 1 .. last : j \in DOMAIN profiles \/ j = last
        /\ last \in 1 .. last
        /\ DOMAIN profiles \subseteq 1 .. last
    BY DEF Parts, Table
  <2>3. profiles'[last].id = machine[g] /\ profiles'[last].age = 0
    BY <2>1 DEF Entry
  <2> HIDE DEF last
  <2>4. AgesBounded'
    BY <1>1, <1>2, <2>1, <2>2, <2>3 DEF Parts, AgesBounded
  <2>5. \A j \in DOMAIN profiles :
          profiles[j].id \in Machines /\ profiles[j].id # machine[g]
    BY <1>5, TableEntries DEF Parts, Ids
  <2>6. AgesAreHeard'
    BY <1>1, <1>5, <2>0, <2>1, <2>2, <2>3, <2>5 DEF Parts, AgesAreHeard, Others
  <2>7. HeardGuestsStay'
    <3>1. Ids(profiles) \subseteq Ids(profiles') /\ machine[g] \in Ids(profiles')
      BY <2>1, <2>2, <2>3 DEF Ids
    <3>2. QED
      BY <1>1, <1>5, <2>0, <3>1 DEF Parts, HeardGuestsStay
  <2>8. QED
    BY <1>5, <2>1, <2>4, <2>6, <2>7 DEF Parts, ClosedIsEmpty
<1>6. QED
  BY <1>3, <1>4, <1>5, PingCases

\* So does every step.
LEMMA PartsStep == Parts /\ [HostRoomNext]_vars => Parts'
<1> SUFFICES ASSUME Parts, [HostRoomNext]_vars PROVE Parts'
  OBVIOUS
<1>1. ScalarsOK'
  BY PartsAreIInv, ScalarsStep DEF IInv, TableWellFormed
<1>2. ASSUME NEW g \in Guests, Join(g) \/ Leave(g) \/ SendPing(g) PROVE Parts'
  BY <1>1, <1>2, SameRoom DEF Join, Leave, SendPing, roomVars
<1>3. CASE UNCHANGED vars
  BY <1>1, <1>3, SameRoom DEF vars, roomVars
<1>4. QED
  BY <1>1, <1>2, <1>3, OpenStep, CloseStep, MonitorStep, TickStep, ClockStep, PingStep
  DEF HostRoomNext, GuestStep

\* The inductive invariant holds in every reachable state.
THEOREM Inductive == Spec => []IInv
<1>1. HostRoomInit => IInv
  BY InitParts, PartsAreIInv
<1>2. IInv /\ [HostRoomNext]_vars => IInv'
  <2>1. Parts' => IInv'
    BY PartsAreIInv, PTL
  <2>2. QED
    BY <2>1, PartsAreIInv, PartsStep
<1>3. QED
  BY <1>1, <1>2, PTL DEF Spec

\* In every state of the room the table is one that guests accept: typed, the
\* host first and alone HOST, every machine once.
THEOREM HostTable == Spec => []TableWellFormed
<1>1. IInv => TableWellFormed
  BY DEF IInv
<1>2. QED
  BY <1>1, Inductive, PTL

\* Unless the clock was set, no order of pings and monitor rounds removes a
\* machine within 10 s of its last ping.
THEOREM HeardStay == Spec => []HeardGuestsStay
<1>1. IInv => HeardGuestsStay
  BY DEF IInv
<1>2. QED
  BY <1>1, Inductive, PTL

\* In an empty table the loop has nothing to do.
LEMMA SweepOfNothing == Sweep(<<>>) = <<>>
<1> DEFINE I == {<<0, <<>>>>}
<1> DEFINE places == [k \in 1 .. Len(<<>>) - 1 |-> Len(<<>>) + 1 - k]
<1>1. places \in Seq(Nat) /\ Len(places) = 0
  <2>1. places = <<>>
    OBVIOUS
  <2> HIDE DEF places
  <2>2. QED
    BY <2>1
<1>2. Sweep(<<>>) = Removal!Loop(<<>>, places)
  BY SweepIsLoop
<1> HIDE DEF places
<1>3. <<0, <<>>>> \in I /\ \A k \in 0 .. Len(places) - 1 : FALSE
  BY <1>1
<1> HIDE DEF I
<1>4. <<Len(places), Removal!Loop(<<>>, places)>> \in I
  BY <1>1, <1>3, Removal!LoopInvariant
<1>5. QED
  BY <1>1, <1>2, <1>4 DEF I

\* In every reachable state a round of the monitor removes the guests that
\* timed out and nobody else, and keeps the order of the others.
THEOREM SweepExact == Spec => []SweepRemovesExpired
<1>1. Parts => SweepRemovesExpired
  <2> SUFFICES ASSUME Parts PROVE SweepRemovesExpired
    OBVIOUS
  <2> DEFINE fresh == {i \in DOMAIN profiles : profiles[i].id = Host \/ profiles[i].age < Timeout}
  <2>1. SweepRemovesExpired <=> Selects(profiles, fresh, Sweep(profiles))
    BY DEF SweepRemovesExpired
  <2>2. CASE profiles = <<>>
    <3>1. fresh = {}
      BY <2>2
    <3>2. Selects(<<>>, {}, <<>>)
      <4>1. DOMAIN <<>> = {} /\ [i \in {} |-> i] \in [DOMAIN <<>> -> {}]
        OBVIOUS
      <4>2. QED
        BY <4>1 DEF Selects
    <3>3. QED
      BY <2>1, <2>2, <3>1, <3>2, SweepOfNothing
  <2>3. CASE profiles # <<>>
    <3>1. Headed(profiles) /\ Table(profiles)
      BY <2>3 DEF Parts, ClosedIsEmpty
    <3>2. profiles \in Seq(Entries) /\ 1 \in DOMAIN profiles
      BY <2>3, <3>1 DEF Table
    <3>3. \A i \in DOMAIN profiles : profiles[i].id = Host <=> i = 1
      BY <3>1, <3>2 DEF Table, Headed
    <3>4. \A i \in DOMAIN profiles : profiles[i].age < Timeout <=> ~Expired(profiles[i])
      BY <3>1, TableEntries DEF Expired
    <3>5. fresh = {1} \cup {i \in DOMAIN profiles : ~Expired(profiles[i])}
      BY <3>2, <3>3, <3>4
    <3>6. QED
      BY <2>1, <2>3, <3>2, <3>5, SweepKeeps
  <2>4. QED
    BY <2>2, <2>3
<1>2. IInv => SweepRemovesExpired
  BY <1>1, PartsAreIInv
<1>3. QED
  BY <1>2, Inductive, PTL

\* Nobody sees the age of an entry.
LEMMA AgedShown ==
  ASSUME NEW list, Table(list), NEW n \in Int
  PROVE  Shown(Aged(list, n)) = Shown(list)
<1>1. \A i \in DOMAIN list : list[i] \in Entries
  BY TableEntries
<1>2. \A i \in DOMAIN list : /\ Aged(list, n)[i].id = list[i].id
                            /\ Aged(list, n)[i].name = list[i].name
                            /\ Aged(list, n)[i].kind = list[i].kind
  BY <1>1 DEF Aged, Entries
<1>3. DOMAIN Aged(list, n) = DOMAIN list
  BY DEF Aged
<1>4. QED
  BY <1>2, <1>3 DEF Shown

\* No step changes what is shown of the room without a new version: those who
\* poll by version see every change.  (The code counts in a u32; the bound 1,
\* by which RoomSync's run ignores versions, is no counter.)
THEOREM VersionedChanges ==
  ASSUME Versions # 1
  PROVE  Spec => ChangesAreVersioned
<1> DEFINE seen == <<open, Shown(profiles)>>
<1>1. ASSUME Parts, [HostRoomNext]_vars, seen' # seen
      PROVE  version' # version
  <2>0. version \in 0 .. Versions - 1
    BY <1>1 DEF Parts, ScalarsOK
  <2>1. open' # open \/ profiles' # profiles
    BY <1>1
  <2>2. CASE OpenRoom
    BY <2>0, <2>2, NextVersion DEF OpenRoom, Increase
  <2>3. CASE CloseRoom
    BY <2>0, <2>3, NextVersion DEF CloseRoom, Increase
  <2>4. CASE MonitorRound
    BY <2>0, <2>1, <2>4, NextVersion DEF MonitorRound, Increase
  <2>5. CASE Tick \/ SetClock
    <3>1. open' = open
      BY <2>5 DEF Tick, SetClock
    <3>2. \E n \in Int : profiles' = Aged(profiles, n)
      BY <2>5 DEF Tick, SetClock
    <3>3. Shown(profiles)' = Shown(profiles)
      BY <1>1, <3>2, AgedShown DEF Parts
    <3>4. QED
      BY <1>1, <3>1, <3>3
  <2>6. ASSUME NEW g \in Guests, Join(g) \/ Leave(g) \/ SendPing(g) PROVE FALSE
    BY <2>1, <2>6 DEF Join, Leave, SendPing, roomVars
  <2>7. ASSUME NEW g \in Guests, TakePing(g) PROVE version' # version
    <3>1. CASE version' = (version + 1) % Versions
      BY <2>0, <3>1, NextVersion
    <3>2. ASSUME NEW i \in DOMAIN profiles, profiles[i].name = pending[g], open' = open,
                 profiles' = Refreshed(profiles, i, pending[g])
          PROVE  FALSE
      <4>1. DOMAIN profiles' = DOMAIN profiles /\ pending[g] \in Names
        <5>1. profiles[i] \in Entries
          BY <1>1, TableEntries DEF Parts
        <5>2. QED
          BY <3>2, <5>1 DEF Refreshed, Entries
      <4>2. \A j \in DOMAIN profiles : /\ profiles'[j].id = profiles[j].id
                                      /\ profiles'[j].name = profiles[j].name
                                      /\ profiles'[j].kind = profiles[j].kind
        BY <1>1, <3>2, <4>1, RefreshedFields DEF Parts
      <4>3. Shown(profiles)' = Shown(profiles)
        BY <4>1, <4>2 DEF Shown
      <4>4. QED
        BY <1>1, <3>2, <4>3
    <3>3. QED
      BY <2>1, <2>7, <3>1, <3>2, PingCases
  <2>8. CASE UNCHANGED vars
    BY <2>1, <2>8 DEF vars, roomVars
  <2>9. QED
    BY <1>1, <2>2, <2>3, <2>4, <2>5, <2>6, <2>7, <2>8 DEF HostRoomNext, GuestStep
<1>2. IInv /\ [HostRoomNext]_vars
        => [(seen' # seen => version' # version)]_vars
  BY <1>1, PartsAreIInv
<1>3. QED
  BY <1>2, Inductive, PTL DEF Spec, ChangesAreVersioned

-----------------------------------------------------------------------------
(* The room with its guests. *)

\* What happens in the room with its guests is for the room a step of its own,
\* or nothing.
LEMMA SyncStepIsRoomStep == [SyncNext]_syncVars => [HostRoomNext]_vars
<1> SUFFICES ASSUME [SyncNext]_syncVars PROVE [HostRoomNext]_vars
  OBVIOUS
<1>1. CASE HostStep
  BY <1>1 DEF HostStep, HostRoomNext
<1>2. ASSUME NEW g \in Guests, Enter(g) \/ Quit(g) PROVE [HostRoomNext]_vars
  BY <1>2 DEF Enter, Quit, HostRoomNext, GuestStep
<1>3. ASSUME NEW g \in Guests, Ping(g) \/ Pong(g) PROVE [HostRoomNext]_vars
  BY <1>3 DEF Ping, Pong, HostRoomNext, GuestStep
<1>4. ASSUME NEW g \in Guests, List(g) \/ MergeAnswer(g) \/ Lose(g) PROVE [HostRoomNext]_vars
  BY <1>4 DEF List, MergeAnswer, Lose, HostRoomNext, GuestStep
<1>5. CASE UNCHANGED syncVars
  BY <1>5 DEF syncVars
<1>6. QED
  BY <1>1, <1>2, <1>3, <1>4, <1>5 DEF SyncNext, SessionStep

\* The room with its guests implements the room: what holds of every HostRoom
\* holds of the table here.
THEOREM RoomSyncIsHostRoom == SyncSpec => Spec
<1>1. SyncInit => HostRoomInit
  BY DEF SyncInit
<1>2. QED
  BY <1>1, SyncStepIsRoomStep, PTL DEF SyncSpec, Spec

\* What an open room shows is a table.
LEMMA ShownIsTable ==
  ASSUME Parts, open
  PROVE  Shown(profiles) \in Seq(Profile) /\ IsTable(Shown(profiles))
<1> DEFINE list == Shown(profiles)
<1>1. Table(profiles) /\ Headed(profiles)
  BY DEF Parts
<1>2. /\ profiles \in Seq(Entries) /\ DOMAIN profiles = 1 .. Len(profiles)
      /\ Len(profiles) \in Nat /\ 1 \in DOMAIN profiles
      /\ \A i \in DOMAIN profiles : profiles[i] \in Entries
  BY <1>1 DEF Table, Headed
<1>3. /\ DOMAIN list = DOMAIN profiles
      /\ \A i \in DOMAIN profiles :
           list[i] = [id |-> profiles[i].id, name |-> profiles[i].name, kind |-> profiles[i].kind]
      /\ list = [i \in DOMAIN profiles |-> list[i]]
  BY DEF Shown
<1>4. \A i \in DOMAIN profiles :
        /\ list[i] \in Profile
        /\ list[i].id = profiles[i].id /\ list[i].kind = profiles[i].kind
        /\ list[i].kind \in {"HOST", "GUEST"}
  BY <1>2, <1>3 DEF Entries, Profile, Kinds
<1> HIDE DEF list
<1>5. list \in Seq(Profile)
  BY <1>2, <1>3, <1>4
<1>6. \A i, j \in DOMAIN list : list[i].id = list[j].id => i = j
  BY <1>1, <1>3, <1>4 DEF Table
<1>7. \A i \in DOMAIN list : list[i].kind = IF list[i].id = Host THEN "HOST" ELSE "GUEST"
  BY <1>1, <1>3, <1>4 DEF Table
<1>8. Host \in Ids(list)
  BY <1>1, <1>2, <1>3, <1>4 DEF Headed, Ids
<1>9. QED
  BY <1>5, <1>6, <1>7, <1>8 DEF IsTable, list

\* A guest that is not taken for the host reads and merges any table of the
\* host, however old, into any list of that room.
LEMMA TableIsMerged ==
  ASSUME NEW own \in Machines, own # Host, NEW name \in Names,
         NEW list \in Seq(Profile), IsListOf(list, own),
         NEW table \in Seq(Profile), IsTable(table)
  PROVE  LET parsed == Parse(LocalProfile(own, name), table)
             merged == Merge(list, parsed.players)
         IN  /\ parsed.ok /\ merged.ok
             /\ merged.list \in Seq(Profile) /\ IsListOf(merged.list, own)
<1> DEFINE me == LocalProfile(own, name)
<1>1. me \in Locals /\ me.id = own
  BY DEF LocalProfile, Locals, Profile, Kinds
<1> HIDE DEF me
<1> DEFINE parsed == Parse(me, table)
<1> DEFINE server == parsed.players
<1>2. /\ \A i \in DOMAIN table : table[i] \in Profile
      /\ \A i, j \in DOMAIN table : table[i].id = table[j].id => i = j
      /\ \A i \in DOMAIN table :
           table[i].kind = IF table[i].id = Host THEN "HOST" ELSE "GUEST"
  BY DEF IsTable
<1>3. PICK h \in DOMAIN table : table[h].id = Host
  BY DEF IsTable, Ids
<1>4. \A i \in DOMAIN table :
        Relabelled(me, table[i]).kind = IF table[i].id = own THEN "LOCAL" ELSE table[i].kind
  BY <1>1, <1>2, RelabelledType
<1>5. parsed.ok
  <2>1. DOMAIN table = 1 .. Len(table)
    OBVIOUS
  <2>2. Believed(me, table, Len(table))
    BY <1>1, <1>2, <1>4, <2>1 DEF Believed
  <2>3. Relabelled(me, table[h]).kind = "HOST"
    BY <1>2, <1>3, <1>4
  <2>4. Distinct(table)
    BY <1>2 DEF Distinct
  <2>5. Accepted(me, table)
    BY <1>3, <2>2, <2>3, <2>4 DEF Accepted
  <2>6. QED
    BY <1>1, <2>5, ParseResult
<1>6. ReadFrom(me, table, server)
  BY <1>1, <1>5, ParseResult
<1> HIDE DEF parsed
<1>7. /\ Listed(me, server) /\ AtMostOneHost(server)
      /\ Besides(me, server) = Besides(me, table)
  BY <1>6 DEF ReadFrom, Listed, AtMostOneHost
<1>8. Listed(me, list)
  <2>1. \A i \in DOMAIN list : list[i].kind = "LOCAL" <=> list[i].id = own
    BY DEF IsListOf
  <2>2. QED
    BY <1>1, <2>1 DEF IsListOf, Listed, Distinct
<1>9. \A p \in Besides(me, table) :
        /\ p.id # own /\ p \in Profile
        /\ p.kind = IF p.id = Host THEN "HOST" ELSE "GUEST"
  BY <1>1, <1>2 DEF Besides, ToSet
<1>10. table[h] \in Besides(me, table) /\ table[h].kind = "HOST"
  BY <1>1, <1>2, <1>3 DEF Besides, ToSet
<1>11. Agree(list, server)
  <2> SUFFICES ASSUME NEW i \in DOMAIN list
               PROVE  /\ list[i].kind = "HOST" =>
                           \E p \in ToSet(server) : p.id = list[i].id /\ p.kind = "HOST"
                      /\ list[i].kind = "GUEST" =>
                           \A p \in ToSet(server) : p.id = list[i].id => p.kind = "GUEST"
    BY DEF Agree
  <2>1. list[i].kind = IF list[i].id = own THEN "LOCAL"
                       ELSE IF list[i].id = Host THEN "HOST" ELSE "GUEST"
    BY DEF IsListOf
  <2>2. ASSUME list[i].kind = "HOST"
        PROVE  \E p \in ToSet(server) : p.id = list[i].id /\ p.kind = "HOST"
    <3>1. list[i].id = Host
      BY <2>1, <2>2
    <3>2. table[h] \in ToSet(server)
      BY <1>7, <1>10 DEF Besides
    <3>3. QED
      BY <1>3, <1>10, <3>1, <3>2
  <2>3. ASSUME list[i].kind = "GUEST", NEW p \in ToSet(server), p.id = list[i].id
        PROVE  p.kind = "GUEST"
    <3>1. p.id # Host /\ p.id # me.id
      BY <1>1, <2>1, <2>3
    <3>2. p \in Besides(me, table)
      BY <1>7, <3>1 DEF Besides
    <3>3. QED
      BY <1>9, <3>1, <3>2
  <2>4. QED
    BY <2>2, <2>3
<1> DEFINE merged == Merge(list, server)
<1> DEFINE F == merged.list
<1>12. merged.ok
  BY <1>1, <1>7, <1>8, <1>11, MergeAgreed
<1>13. Listed(me, F) /\ Besides(me, F) = Besides(me, table)
  BY <1>1, <1>7, <1>8, <1>12, MergeResult
<1> HIDE DEF merged
<1>14. F \in Seq(Profile) /\ IsListOf(F, own)
  <2>1. /\ F \in Seq(Profile)
        /\ \A i, j \in DOMAIN F : F[i].id = F[j].id => i = j
        /\ \A i \in DOMAIN F : F[i].kind = "LOCAL" <=> F[i].id = own
    BY <1>1, <1>13 DEF Listed, Distinct
  <2>2. ASSUME NEW i \in DOMAIN F, F[i].id # own
        PROVE  F[i].kind = IF F[i].id = Host THEN "HOST" ELSE "GUEST"
    <3>1. F[i] \in Besides(me, F)
      BY <1>1, <2>2 DEF Besides, ToSet
    <3>2. QED
      BY <1>9, <1>13, <3>1
  <2>3. QED
    BY <2>1, <2>2 DEF IsListOf
<1>15. QED
  BY <1>5, <1>12, <1>14 DEF merged, parsed, me

\* Machines keep their ids, and only an open room has members.
LEMMA MembersStep ==
  ASSUME Parts, \A g \in Guests : In(g) => open, [HostRoomNext]_vars
  PROVE  machine' = machine /\ \A g \in Guests : In(g)' => open'
<1> USE DEF In
<1>0. member \in [Guests -> Names \cup {"out"}]
  BY DEF Parts, ScalarsOK
<1>1. CASE OpenRoom
  BY <1>1 DEF OpenRoom, guestVars
<1>2. CASE CloseRoom
  BY <1>2 DEF CloseRoom
<1>3. CASE MonitorRound \/ Tick \/ SetClock
  BY <1>3 DEF MonitorRound, Tick, SetClock, guestVars
<1>4. ASSUME NEW g \in Guests, Join(g) \/ Leave(g) \/ SendPing(g)
      PROVE  machine' = machine /\ \A k \in Guests : In(k)' => open'
  BY <1>0, <1>4 DEF Join, Leave, SendPing, roomVars
<1>5. ASSUME NEW g \in Guests, TakePing(g)
      PROVE  machine' = machine /\ \A k \in Guests : In(k)' => open'
  <2>1. machine' = machine
    BY <1>5 DEF TakePing
  <2>2. open' = open /\ (member' = member \/ member' = [member EXCEPT ![g] = "out"])
    BY <1>5, PingCases
  <2>3. QED
    BY <1>0, <2>1, <2>2
<1>6. CASE UNCHANGED vars
  BY <1>6 DEF vars, roomVars, guestVars
<1>7. QED
  BY <1>1, <1>2, <1>3, <1>4, <1>5, <1>6 DEF HostRoomNext, GuestStep

\* A session's step leaves the others as they are.
LEMMA OneSession ==
  ASSUME SyncInv, NEW g \in Guests, machine' = machine,
         NEW place \in Stages, stage' = [stage EXCEPT ![g] = place],
         NEW table \in Seq(Profile), answer' = [answer EXCEPT ![g] = table],
         NEW list \in Seq(Profile), view' = [view EXCEPT ![g] = list],
         outcome' = outcome,
         place \in {"listing", "merging"} => machine[g] # Host,
         place = "merging" => IsTable(table),
         place \notin {"new", "over"} => IsListOf(list, machine[g]),
         \A k \in Guests : In(k)' => open'
  PROVE  SyncInv'
<1>1. /\ stage \in [Guests -> Stages] /\ answer \in [Guests -> Seq(Profile)]
      /\ view \in [Guests -> Seq(Profile)] /\ outcome = [k \in Guests |-> "ok"]
  BY DEF SyncInv
<1>2. /\ stage' \in [Guests -> Stages] /\ answer' \in [Guests -> Seq(Profile)]
      /\ view' \in [Guests -> Seq(Profile)] /\ outcome' = [k \in Guests |-> "ok"]
  BY <1>1
<1>3. SessionOK(g)'
  BY <1>1 DEF SessionOK, IsTable, IsListOf, Ids
<1>4. ASSUME NEW k \in Guests, k # g PROVE SessionOK(k)'
  <2>1. stage'[k] = stage[k] /\ answer'[k] = answer[k] /\ view'[k] = view[k]
    BY <1>1, <1>4
  <2>2. SessionOK(k)
    BY DEF SyncInv
  <2>3. QED
    BY <2>1, <2>2 DEF SessionOK, IsTable, IsListOf, Ids
<1>5. QED
  BY <1>2, <1>3, <1>4 DEF SyncInv

\* Nobody is in the room before it is opened.
LEMMA InitSync == SyncInit => SyncInv
<1> SUFFICES ASSUME SyncInit PROVE SyncInv
  OBVIOUS
<1>1. <<>> \in Seq(Profile)
  OBVIOUS
<1>2. \A g \in Guests : ~In(g)
  BY DEF SyncInit, HostRoomInit, In
<1>3. \A g \in Guests : SessionOK(g)
  BY DEF SyncInit, SessionOK
<1>4. QED
  BY <1>1, <1>2, <1>3 DEF SyncInit, SyncInv, Stages

\* The steps of a session, in the order of its loop.
LEMMA SessionSteps ==
  ASSUME Parts, SyncInv, NEW g \in Guests,
         Enter(g) \/ Quit(g) \/ SessionStep(g),
         machine' = machine, \A k \in Guests : In(k)' => open'
  PROVE  SyncInv'
<1>0. /\ stage \in [Guests -> Stages] /\ answer \in [Guests -> Seq(Profile)]
      /\ view \in [Guests -> Seq(Profile)] /\ outcome = [k \in Guests |-> "ok"]
      /\ machine[g] \in Machines /\ NameOf[g] \in Names /\ <<>> \in Seq(Profile)
      /\ (In(g) => open) /\ SessionOK(g)
  BY RoomSyncAssumption DEF SyncInv, Parts, ScalarsOK
<1>1. /\ stage[g] \in Stages
      /\ answer[g] \in Seq(Profile) /\ answer = [answer EXCEPT ![g] = answer[g]]
      /\ view[g] \in Seq(Profile) /\ view = [view EXCEPT ![g] = view[g]]
      /\ stage = [stage EXCEPT ![g] = stage[g]]
  BY <1>0
<1> USE DEF Go
<1>2. CASE Enter(g)
  <2> DEFINE list == <<Self(g)>>
  <2>1. list \in Seq(Profile) /\ IsListOf(list, machine[g])
    <3>1. Self(g) \in Profile /\ Self(g).id = machine[g] /\ Self(g).kind = "LOCAL"
      BY <1>0 DEF Self, LocalProfile, Profile, Kinds
    <3>2. list \in Seq(Profile) /\ DOMAIN list = {1} /\ list[1] = Self(g)
      BY <3>1
    <3> HIDE DEF list
    <3>3. QED
      BY <3>1, <3>2 DEF IsListOf
  <2>2. /\ stage' = [stage EXCEPT ![g] = "ready"] /\ answer' = answer
        /\ view' = [view EXCEPT ![g] = list] /\ outcome' = outcome
    BY <1>2 DEF Enter
  <2> HIDE DEF list
  <2>3. QED
    BY <1>1, <2>1, <2>2, OneSession DEF Stages
<1>3. CASE Quit(g) \/ Lose(g)
  <2>1. /\ stage' = [stage EXCEPT ![g] = "over"]
        /\ answer' = answer \/ answer' = [answer EXCEPT ![g] = <<>>]
        /\ view' = [view EXCEPT ![g] = <<>>] /\ outcome' = outcome
    BY <1>3 DEF Quit, Lose
  <2>2. QED
    BY <1>0, <1>1, <2>1, OneSession DEF Stages
<1>4. CASE Ping(g)
  <2>1. /\ stage[g] = "ready" /\ stage' = [stage EXCEPT ![g] = "pinging"]
        /\ answer' = answer /\ view' = view /\ outcome' = outcome
    BY <1>4 DEF Ping
  <2>2. IsListOf(view[g], machine[g])
    BY <1>0, <2>1 DEF SessionOK
  <2>3. QED
    BY <1>1, <2>1, <2>2, OneSession DEF Stages
<1>5. CASE Pong(g)
  <2>1. answer' = answer /\ view' = view /\ outcome' = outcome
    BY <1>5 DEF Pong
  <2>2. CASE stage[g] = "pinging" /\ member'[g] # "out"
    <3>1. stage' = [stage EXCEPT ![g] = "listing"]
      BY <1>5, <2>2 DEF Pong
    <3>2. machine[g] # Host
      <4>1. TakePing(g) /\ member \in [Guests -> Names \cup {"out"}]
        BY <1>5 DEF Pong, Parts, ScalarsOK
      <4>2. QED
        BY <2>2, <4>1, PingCases
    <3>3. IsListOf(view[g], machine[g])
      BY <1>0, <2>2 DEF SessionOK
    <3>4. QED
      BY <1>1, <2>1, <3>1, <3>2, <3>3, OneSession DEF Stages
  <2>3. CASE ~(stage[g] = "pinging" /\ member'[g] # "out")
    <3>1. stage' = stage
      BY <1>5, <2>3 DEF Pong
    <3>2. QED
      BY <1>0, <1>1, <2>1, <3>1, OneSession DEF SessionOK
  <2>4. QED
    BY <2>2, <2>3
<1>6. CASE List(g)
  <2>1. /\ stage[g] = "listing" /\ In(g) /\ stage' = [stage EXCEPT ![g] = "merging"]
        /\ answer' = [answer EXCEPT ![g] = Shown(profiles)]
        /\ view' = view /\ outcome' = outcome
    BY <1>6 DEF List
  <2>2. Shown(profiles) \in Seq(Profile) /\ IsTable(Shown(profiles))
    BY <1>0, <2>1, ShownIsTable
  <2>3. machine[g] # Host /\ IsListOf(view[g], machine[g])
    BY <1>0, <2>1 DEF SessionOK
  <2>4. QED
    BY <1>1, <2>1, <2>2, <2>3, OneSession DEF Stages
<1>7. CASE MergeAnswer(g)
  <2> DEFINE parsed == Parse(Self(g), answer[g])
  <2> DEFINE merged == Merge(view[g], parsed.players)
  <2>1. machine[g] # Host /\ IsTable(answer[g]) /\ IsListOf(view[g], machine[g])
    BY <1>0, <1>7 DEF MergeAnswer, SessionOK
  <2>2. /\ parsed.ok /\ merged.ok
        /\ merged.list \in Seq(Profile) /\ IsListOf(merged.list, machine[g])
    BY <1>0, <1>1, <2>1, TableIsMerged DEF Self
  <2>3. /\ stage' = [stage EXCEPT ![g] = "ready"]
        /\ answer' = [answer EXCEPT ![g] = <<>>]
        /\ view' = [view EXCEPT ![g] = merged.list]
        /\ outcome' = [outcome EXCEPT ![g] = "ok"]
    BY <1>7, <2>2 DEF MergeAnswer
  <2> HIDE DEF merged
  <2>4. outcome' = outcome
    BY <1>0, <2>3
  <2>5. QED
    BY <1>0, <1>1, <2>2, <2>3, <2>4, OneSession DEF Stages
<1>8. QED
  BY <1>2, <1>3, <1>4, <1>5, <1>6, <1>7 DEF SessionStep

\* The sessions and the host's side, step by step.
LEMMA SyncStep == Parts /\ SyncInv /\ [SyncNext]_syncVars => SyncInv'
<1> SUFFICES ASSUME Parts, SyncInv, [SyncNext]_syncVars PROVE SyncInv'
  OBVIOUS
<1>1. machine' = machine /\ \A g \in Guests : In(g)' => open'
  BY SyncStepIsRoomStep, MembersStep DEF SyncInv
<1>2. ASSUME NEW g \in Guests, Enter(g) \/ Quit(g) \/ SessionStep(g) PROVE SyncInv'
  BY <1>1, <1>2, SessionSteps
<1>3. CASE UNCHANGED viewVars
  BY <1>1, <1>3 DEF viewVars, SyncInv, SessionOK, IsTable, IsListOf, Ids
<1>4. QED
  BY <1>2, <1>3 DEF SyncNext, HostStep, syncVars

\* No session ever takes the host for a broken one: whatever happens to the
\* table between two answers, and whoever shares a machine id, each answer of
\* the host can be read and fits the list it is merged into.
THEOREM NoFalseAlarmHolds == SyncSpec => []NoFalseAlarm
<1>1. SyncSpec => []IInv
  BY RoomSyncIsHostRoom, Inductive, PTL
<1>2. IInv /\ SyncInv /\ [SyncNext]_syncVars => SyncInv'
  BY PartsAreIInv, SyncStep
<1>3. SyncInv => NoFalseAlarm
  BY DEF SyncInv, SessionOK, IsListOf, NoFalseAlarm
<1>4. QED
  BY <1>1, <1>2, <1>3, InitSync, PTL DEF SyncSpec

=============================================================================
