------------------------------- MODULE RoomSync -------------------------------
(***************************************************************************)
(* A hosted room and the lists its guests show: HostRoom's player table    *)
(* and a list for each session of a guest, joined by the two calls of      *)
(* the guest loop in start_guest - c:player_ping, which changes the table, *)
(* and c:player_profiles_list, whose answer is merged into the guest's     *)
(* list while the table goes on changing.                                  *)
(*                                                                         *)
(* A session joins once: who comes back does so in a new session, with the *)
(* machine id of the old one, and perhaps while the old one is still in.   *)
(***************************************************************************)
EXTENDS HostRoom, PlayerLists

CONSTANTS
  NameOf,       \* the player name of each session
  MachinesOf    \* bound: the machine ids the sessions may have between them

ASSUME RoomSyncAssumption ==
  /\ NameOf \in [Guests -> Names]
  /\ MachinesOf \subseteq [Guests -> Machines]

VARIABLES
  stage,     \* where a session is in its loop
  answer,    \* the table in its last answer, until it is merged
  view,      \* AppState::GuestOk.profiles
  outcome    \* "ok", or why the session gave up an answer

viewVars == <<stage, answer, view, outcome>>
syncVars == <<vars, viewVars>>

\* A session's own profile.
Self(g) == LocalProfile(machine[g], NameOf[g])

In(g) == member[g] # "out"

Go(g, place) == stage' = [stage EXCEPT ![g] = place]

-----------------------------------------------------------------------------

SyncInit ==
  /\ HostRoomInit
  /\ machine \in MachinesOf
  /\ stage = [g \in Guests |-> "new"]
  /\ answer = [g \in Guests |-> <<>>]
  /\ view = [g \in Guests |-> <<>>]
  /\ outcome = [g \in Guests |-> "ok"]

\* The session reaches GuestOk with itself in the list.
Enter(g) ==
  /\ stage[g] = "new"
  /\ Join(g) /\ member'[g] = NameOf[g]
  /\ view' = [view EXCEPT ![g] = <<Self(g)>>]
  /\ Go(g, "ready")
  /\ UNCHANGED <<answer, outcome>>

\* The two calls of a round of the loop.
Ping(g) ==
  /\ stage[g] = "ready"
  /\ SendPing(g)
  /\ Go(g, "pinging")
  /\ UNCHANGED <<answer, view, outcome>>

\* A server thread works on the ping; the session, if it still waits, goes on.
Pong(g) ==
  /\ TakePing(g)
  /\ IF stage[g] = "pinging" /\ member'[g] # "out" THEN Go(g, "listing")
                                                   ELSE UNCHANGED stage
  /\ UNCHANGED <<answer, view, outcome>>

List(g) ==
  /\ stage[g] = "listing"
  /\ In(g)
  /\ answer' = [answer EXCEPT ![g] = Shown(profiles)]
  /\ Go(g, "merging")
  /\ UNCHANGED <<vars, view, outcome>>

\* The answer has come: read it, and merge it under the lock.  An answer that
\* is refused ends the session.
MergeAnswer(g) ==
  /\ stage[g] = "merging"
  /\ answer' = [answer EXCEPT ![g] = <<>>]
  /\ LET parsed == Parse(Self(g), answer[g])
         merged == Merge(view[g], parsed.players)
         believed == parsed.ok /\ merged.ok
     IN  /\ outcome' = [outcome EXCEPT ![g] =
                          IF ~parsed.ok THEN "PingHostFail"
                          ELSE IF ~merged.ok THEN "ScaffoldingInvalidResponse"
                          ELSE "ok"]
         /\ view' = [view EXCEPT ![g] = IF believed THEN merged.list ELSE <<>>]
         /\ IF believed THEN Go(g, "ready") /\ UNCHANGED vars
            ELSE Go(g, "over") /\ IF In(g) THEN Leave(g) ELSE UNCHANGED vars

\* A session whose link is cut fails in its next call.
Lose(g) ==
  /\ stage[g] \in {"ready", "pinging", "listing"}
  /\ ~In(g)
  /\ Go(g, "over")
  /\ view' = [view EXCEPT ![g] = <<>>]
  /\ UNCHANGED <<vars, answer, outcome>>

\* The user cancels.
Quit(g) ==
  /\ Leave(g)
  /\ Go(g, "over")
  /\ view' = [view EXCEPT ![g] = <<>>]
  /\ answer' = [answer EXCEPT ![g] = <<>>]
  /\ UNCHANGED outcome

\* The host's side, which no list follows at once.
HostStep ==
  /\ OpenRoom \/ CloseRoom \/ MonitorRound \/ Tick \/ SetClock
  /\ UNCHANGED viewVars

-----------------------------------------------------------------------------

SessionStep(g) ==
  \/ Ping(g) \/ Pong(g) \/ List(g) \/ MergeAnswer(g) \/ Lose(g)

SyncNext ==
  \/ HostStep
  \/ \E g \in Guests : Enter(g) \/ Quit(g) \/ SessionStep(g)

SyncSpec == SyncInit /\ [][SyncNext]_syncVars

\* Time passes, the monitor's loop and the server's threads run, and a session
\* in the room goes on with its loop.  The fairness of the last two is stated on
\* the variable that each of their steps changes.
PingTaken(g) == pending[g] # "none" /\ pending' = [pending EXCEPT ![g] = "none"]

GoesOn(g) ==
  /\ stage[g] \in {"ready", "pinging", "listing", "merging"}
  /\ \E place \in {"ready", "pinging", "listing", "merging", "over"} \ {stage[g]} :
       Go(g, place)

SyncFairSpec ==
  /\ SyncSpec
  /\ WF_syncVars(Tick /\ UNCHANGED viewVars)
  /\ WF_syncVars(MonitorRound /\ UNCHANGED viewVars)
  /\ \A g \in Guests : WF_pending(PingTaken(g)) /\ WF_stage(GoesOn(g))

-----------------------------------------------------------------------------
(* Properties. *)

\* No session ever takes the host for a broken one: whatever the table goes
\* through between two answers, and whoever shares a machine id, each answer
\* can be read and fits what is shown.
NoFalseAlarm ==
  /\ \A g \in Guests : outcome[g] = "ok"
  /\ \A g \in Guests : stage[g] \notin {"new", "over"} =>
       \A i, j \in DOMAIN view[g] : view[g][i].id = view[g][j].id => i = j

\* Sessions of the room that the table still has to name or to forget.
Late == \E g \in Guests : In(g) /\ machine[g] # Host /\ heard[machine[g]] >= Timeout

Players == {<<Host, HostName>>} \cup {<<machine[g], NameOf[g]>> : g \in {k \in Guests : In(k)}}

\* A list, but for the entry of the machine `own` that shows it, names every
\* other machine in the room; two sessions may be at odds about one name.
Unique == \A g, k \in Guests : In(g) /\ In(k) /\ machine[g] = machine[k] => g = k

Complete(list, own) ==
  LET named == {<<list[i].id, list[i].name>> : i \in DOMAIN list}
      others == Players \ ({own} \X Names)
  IN  /\ Ids(list) \ {own} = {player[1] : player \in others}
      /\ Unique => named \ ({own} \X Names) = others

Agreed ==
  /\ Complete(profiles, Host)
  /\ \A g \in Guests : In(g) => Complete(view[g], machine[g])

\* Once nobody comes or goes, the room stays open and everybody pings in time,
\* the host's list and those of all guests come to show the players that are in
\* the room, under the names they came with, and stay so.
ViewsConverge == <>[](open /\ ~Late) => <>[]Agreed

-----------------------------------------------------------------------------
(* The inductive invariant behind NoFalseAlarm: an answer on its way is a    *)
(* table of the host, and who asked for it is not taken for the host; a list *)
(* shows every machine once and in its role.                                 *)

Stages == {"new", "ready", "pinging", "listing", "merging", "over"}

IsTable(list) ==
  /\ \A i, j \in DOMAIN list : list[i].id = list[j].id => i = j
  /\ \A i \in DOMAIN list :
       list[i].kind = IF list[i].id = Host THEN "HOST" ELSE "GUEST"
  /\ Host \in Ids(list)

IsListOf(list, own) ==
  /\ \A i, j \in DOMAIN list : list[i].id = list[j].id => i = j
  /\ \A i \in DOMAIN list :
       list[i].kind = IF list[i].id = own THEN "LOCAL"
                      ELSE IF list[i].id = Host THEN "HOST" ELSE "GUEST"

SessionOK(g) ==
  /\ stage[g] \in {"listing", "merging"} => machine[g] # Host
  /\ stage[g] = "merging" => IsTable(answer[g])
  /\ stage[g] \notin {"new", "over"} => IsListOf(view[g], machine[g])

SyncInv ==
  /\ stage \in [Guests -> Stages]
  /\ answer \in [Guests -> Seq(Profile)]
  /\ view \in [Guests -> Seq(Profile)]
  /\ outcome = [g \in Guests |-> "ok"]
  /\ \A g \in Guests : (In(g) => open) /\ SessionOK(g)

=============================================================================
