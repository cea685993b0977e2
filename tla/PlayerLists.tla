----------------------------- MODULE PlayerLists -----------------------------
(***************************************************************************)
(* How a guest turns an answer to c:player_profiles_list into the list it  *)
(* shows: the two loops of start_guest's guest loop that read the answer   *)
(* and merge it, as functions of this machine's own profile `me`, the      *)
(* answer, and the list so far.                                            *)
(***************************************************************************)
EXTENDS Profiles

\* The code sorts by machine id.
ASSUME MachinesAssumption == Machines \subseteq Nat

\* local_profile of start_guest.
LocalProfile(id, name) == [id |-> id, name |-> name, kind |-> "LOCAL"]

\* Positions from the last to the first, as `(0..len).rev()`.
Downwards(list) == [k \in 1 .. Len(list) |-> Len(list) + 1 - k]

-----------------------------------------------------------------------------
(* Reading the answer: the first item of this machine becomes LOCAL        *)
(* whatever it is called in the answer, one other machine may be HOST.     *)

Unread(me) == [me |-> me, players |-> <<>>, ok |-> TRUE]

Has(read, k) == OfKind(read.players, k) # {}

ReadItem(read, item) ==
  LET kind == IF item.id = read.me.id THEN "LOCAL" ELSE item.kind
      refused == \/ /\ kind = "LOCAL"
                    /\ item.id # read.me.id \/ Has(read, "LOCAL")
                 \/ kind = "HOST" /\ Has(read, "HOST")
  IN  [read EXCEPT !.players = Append(@, [item EXCEPT !.kind = kind]),
                   !.ok = @ /\ ~refused]

\* sort_by_cached_key is stable: a profile goes behind those with its id.
Insert(sorted, p) ==
  LET before(n) == /\ \A i \in 1 .. n : sorted[i].id <= p.id
                   /\ \A i \in n + 1 .. Len(sorted) : sorted[i].id > p.id
  IN  InsertAt(sorted, (CHOOSE n \in 0 .. Len(sorted) : before(n)) + 1, p)

Sorted(players) == FoldLeft(Insert, <<>>, players)

Refused == [players |-> <<>>, ok |-> FALSE]

\* The items as they were read, with this machine among them.
AndLocal(read) ==
  IF Has(read, "LOCAL") THEN read.players ELSE Append(read.players, read.me)

Twins(sorted) == \E i \in 1 .. Len(sorted) - 1 : sorted[i].id = sorted[i + 1].id

(* Seeded fault: no look for two neighbours with one machine id. *)
ParseWithTwins(me, answer) ==
  LET read == FoldLeft(ReadItem, Unread(me), answer)
  IN  IF ~read.ok \/ ~Has(read, "HOST") THEN Refused
      ELSE [players |-> Sorted(AndLocal(read)), ok |-> TRUE]

Parse(me, answer) ==
  LET read == FoldLeft(ReadItem, Unread(me), answer)
      sorted == Sorted(AndLocal(read))
  IN  IF ~read.ok \/ ~Has(read, "HOST") \/ Twins(sorted) THEN Refused
      ELSE [players |-> sorted, ok |-> TRUE]

-----------------------------------------------------------------------------
(* Merging it.  The accumulator of the two loops: the list so far, the      *)
(* answer, which machines of it are already met, whether something changed, *)
(* whether the answer is still believed.                                    *)

Start(list, server) ==
  [list |-> list, server |-> server, used |-> {}, changed |-> FALSE, ok |-> TRUE]

\* The profile at i stays and takes the name it has in the answer.
Renamed(list, i, name) == [list EXCEPT ![i].name = name]
Keep(m, i, p) ==
  [m EXCEPT !.used = @ \cup {p.id},
            !.list = Renamed(@, i, p.name),
            !.changed = @ \/ m.list[i].name # p.name]

Dropped(m, i) == [m EXCEPT !.list = RemoveAt(@, i), !.changed = TRUE]

Refuse(m) == [m EXCEPT !.ok = FALSE]

SameId(m, mine) == {p \in ToSet(m.server) : p.id = mine.id}

(* Seeded fault: a guest that has left is a contradiction. *)
MergeAtStrictly(m, i) ==
  LET mine == m.list[i]
      same == SameId(m, mine)
  IN  IF ~m.ok \/ mine.kind = "LOCAL" THEN m
      ELSE IF \E p \in same : p.kind = mine.kind
           THEN Keep(m, i, CHOOSE p \in same : TRUE)
           ELSE Refuse(m)

MergeAt(m, i) ==
  LET mine == m.list[i]
      same == SameId(m, mine)
      met == mine.id \in m.used
      is(k) == \E p \in same : p.kind = k
  IN  IF ~m.ok \/ mine.kind = "LOCAL" THEN m
      ELSE CASE mine.kind = "HOST" /\ ~(is("HOST") /\ ~met) -> Refuse(m)
             [] mine.kind = "GUEST" /\ (same = {} \/ (is("GUEST") /\ met)) -> Dropped(m, i)
             [] mine.kind = "GUEST" /\ same # {} /\ ~is("GUEST") -> Refuse(m)
             [] OTHER -> Keep(m, i, CHOOSE p \in same : TRUE)

(* Seeded faults: what is new in the answer is taken over ... *)
AddNewWithLocal(m, i) ==      \* ... this machine included
  IF m.server[i].id \in m.used THEN m
  ELSE [m EXCEPT !.list = Append(@, m.server[i]), !.changed = TRUE]
AddNewSilently(m, i) ==       \* ... without `changed = true`
  IF m.server[i].id \in m.used \/ m.server[i].kind = "LOCAL" THEN m
  ELSE [m EXCEPT !.list = Append(@, m.server[i])]

AddNew(m, i) ==
  IF m.server[i].id \in m.used \/ m.server[i].kind = "LOCAL" THEN m
  ELSE [m EXCEPT !.list = Append(@, m.server[i]), !.changed = TRUE]

(* Seeded fault: the loop runs upwards, over positions that shift. *)
MergeUpwards(list, server) ==
  LET Step(m, i) == IF i <= Len(m.list) THEN MergeAt(m, i) ELSE m
      met == FoldLeft(Step, Start(list, server), [i \in DOMAIN list |-> i])
  IN  IF met.ok THEN FoldLeft(AddNew, met, Downwards(server)) ELSE met

Met(list, server) == FoldLeft(MergeAt, Start(list, server), Downwards(list))

Merge(list, server) ==
  LET met == Met(list, server)
  IN  IF met.ok THEN FoldLeft(AddNew, met, Downwards(server)) ELSE met

=============================================================================
