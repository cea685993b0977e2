------------------------------ MODULE GuestView ------------------------------
(***************************************************************************)
(* The player list a guest shows: the `profiles` of AppState::GuestOk, into *)
(* which the guest loop of start_guest merges every answer of the host to  *)
(* c:player_profiles_list.  The answer comes from another program and may  *)
(* be any list at all; one that contradicts itself ends the room with      *)
(* PingHostFail, one that contradicts what the guest already shows with    *)
(* ScaffoldingInvalidResponse.                                             *)
(***************************************************************************)
EXTENDS PlayerLists

CONSTANTS
  Local,         \* this guest's machine id
  LocalName,     \* its player's name
  MaxPlayers     \* bound: length of an answer

ASSUME GuestViewAssumption ==
  /\ Local \in Machines
  /\ LocalName \in Names
  /\ MaxPlayers \in Nat

VARIABLES
  shown,          \* AppState::GuestOk.profiles
  shownVersion,   \* Holder.index
  exception       \* "none", or the exception the room ended with

shownVars == <<shown, shownVersion, exception>>

Me == LocalProfile(Local, LocalName)

-----------------------------------------------------------------------------

GuestInit ==
  /\ shown = <<Me>>
  /\ shownVersion = 0
  /\ exception = "none"

\* Items of an answer; the last one stands for those of no known kind.
Items == [id : Machines, name : Names, kind : {"HOST", "GUEST"}]
           \cup [id : Machines, name : {LocalName}, kind : {"LOCAL"}]

Answers == SeqOf(Items, MaxPlayers)

\* state.set(Exception): the list goes with the room.
EndWith(kind) ==
  /\ exception' = kind
  /\ shown' = <<>>
  /\ shownVersion' = (shownVersion + 1) % Versions

\* One round of the guest loop, from the answer to the end of the critical
\* section.
Receive(answer) ==
  /\ exception = "none"
  /\ LET parsed == Parse(Me, answer)
         merged == Merge(shown, parsed.players)
     IN  \/ /\ ~parsed.ok
            /\ EndWith("PingHostFail")
         \/ /\ parsed.ok
            /\ ~merged.ok
            /\ EndWith("ScaffoldingInvalidResponse")
         \/ /\ parsed.ok
            /\ merged.ok
            /\ shown' = merged.list
            /\ shownVersion' = IF merged.changed THEN (shownVersion + 1) % Versions
                                                 ELSE shownVersion
            /\ UNCHANGED exception

\* The room is over; nothing happens any more.
Over == exception # "none" /\ UNCHANGED shownVars

GuestNext == Over \/ \E answer \in Answers : Receive(answer)

GuestSpec == GuestInit /\ [][GuestNext]_shownVars

-----------------------------------------------------------------------------
(* Properties. *)

ViewTypeOK ==
  /\ shown \in Seq(Profile)
  /\ shownVersion \in 0 .. Versions - 1
  /\ exception \in {"none", "PingHostFail", "ScaffoldingInvalidResponse"}

\* Whatever the host answered, the list shows a machine once, this one under
\* its own name and as LOCAL, and at most one HOST.
ViewWellFormed ==
  /\ ViewTypeOK
  /\ exception = "none" =>
       /\ \A i, j \in DOMAIN shown : shown[i].id = shown[j].id => i = j
       /\ {shown[i] : i \in OfKind(shown, "LOCAL")} = {Me}
       /\ Cardinality(OfKind(shown, "HOST")) <= 1

Besides(me, list) == {p \in ToSet(list) : p.id # me.id}

\* The merge in place - removals, renamings and additions over one list with
\* a set of marks - comes to what a replacement would: but for this machine
\* the list is the answer, and it counts as changed when it is not the same.
MergeMatchesAnswer ==
  exception = "none" =>
    \A answer \in Answers :
      LET parsed == Parse(Me, answer)
          merged == Merge(shown, parsed.players)
      IN  parsed.ok /\ merged.ok =>
            /\ Besides(Me, merged.list) = Besides(Me, answer)
            /\ merged.changed <=> merged.list # shown

\* The one-pass reader with its two flags, the sort and the look at the
\* neighbours accepts exactly the lists a player table can be: every machine
\* once, one host, which is not this machine, all others guests.
ParseAcceptsTables ==
  exception = "none" =>
    \A answer \in Answers :
      Parse(Me, answer).ok <=>
        /\ Cardinality(Ids(answer)) = Len(answer)
        /\ Cardinality({p \in Besides(Me, answer) : p.kind = "HOST"}) = 1
        /\ \A p \in Besides(Me, answer) : p.kind \in {"HOST", "GUEST"}

\* The list changes exactly when the version does: no change goes unseen by
\* the polling user interface, and none is announced that there is not.
ViewIsVersioned ==
  [][shownVersion' # shownVersion <=> shown' # shown]_shownVars

=============================================================================
