----------------------------- MODULE RoomSession -----------------------------
(***************************************************************************)
(* What Terracotta promises its user interface about the room it is in,    *)
(* with no threads, captures or resources: a session starts only from      *)
(* Waiting, moves through its stages in order, can be cancelled at any     *)
(* time, ends in Waiting or in an exception that fits the stage it was in, *)
(* and never comes back once it is over.  Every change has a version of    *)
(* its own ("A state with a greater index should be considered as a new    *)
(* state", ffi/TerracottaAndroidAPI.java).                                 *)
(***************************************************************************)
EXTENDS Naturals

CONSTANTS
  Sessions,    \* accepted calls of set_scanning and set_guesting
  NoSession    \* owner of Waiting and of an exception

VARIABLES
  room,        \* the state the UI sees: its variant, whose it is, why it failed
  version,     \* the "index" of the JSON state
  begun        \* sessions that were ever started

roomVars == <<room, version, begun>>

-----------------------------------------------------------------------------

Waiting == [state |-> "Waiting", owner |-> NoSession, kind |-> "None"]
Stage(st, s) == [state |-> st, owner |-> s, kind |-> "None"]
Exception(k) == [state |-> "Exception", owner |-> NoSession, kind |-> k]

FirstStages == {"HostScanning", "GuestConnecting"}

\* The stages of enum AppState in the order a session goes through them.
NextStage == [HostScanning    |-> "HostStarting",
              HostStarting    |-> "HostOk",
              GuestConnecting |-> "GuestStarting",
              GuestStarting   |-> "GuestOk"]

\* The exceptions a stage may end in.
Faults == [HostOk        |-> {"PingServerRst", "HostEasytierCrash"},
           GuestStarting |-> {"PingHostFail", "GuestEasytierCrash"},
           GuestOk       |-> {"PingHostFail", "GuestEasytierCrash",
                              "ScaffoldingInvalidResponse"}]

\* Stages with something in them that changes in place.
Lively == {"HostOk", "GuestStarting", "GuestOk"}

-----------------------------------------------------------------------------

RoomInit ==
  /\ room = Waiting
  /\ version = 0
  /\ begun = {}

Begin(s) ==
  /\ room.state = "Waiting"
  /\ s \notin begun
  /\ \E st \in FirstStages : room' = Stage(st, s)
  /\ begun' = begun \cup {s}

Advance ==
  /\ room.state \in DOMAIN NextStage
  /\ room' = Stage(NextStage[room.state], room.owner)
  /\ UNCHANGED begun

Update ==
  /\ room.state \in Lively
  /\ UNCHANGED <<room, begun>>

Fail ==
  /\ room.state \in DOMAIN Faults
  /\ \E k \in Faults[room.state] : room' = Exception(k)
  /\ UNCHANGED begun

Cancel ==
  /\ room.state # "Waiting"
  /\ room' = Waiting
  /\ UNCHANGED begun

RoomNext ==
  /\ \/ \E s \in Sessions : Begin(s)
     \/ Advance
     \/ Update
     \/ Fail
     \/ Cancel
  /\ version' = version + 1

RoomSpec == RoomInit /\ [][RoomNext]_roomVars

=============================================================================
