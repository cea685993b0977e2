----------------------------- MODULE Controller -----------------------------
(***************************************************************************)
(* The room controller: the commands of src/controller/api.rs, the worker  *)
(* threads they spawn (src/controller/rooms/scaffolding/room.rs) and what  *)
(* the threads own - an EasyTier instance, a port scanner, a fake server.  *)
(*                                                                         *)
(* A session is one accepted set_scanning or set_guesting; session s has   *)
(* one thread at a time that carries its capture, whose place in the code  *)
(* is pc[s].  A step is what the thread does from one taking of the state  *)
(* mutex to the next, or a piece of work outside it (launching EasyTier, a *)
(* call to the host) that another thread's step may overtake.  What the    *)
(* network, EasyTier and Minecraft answer is a free choice.                *)
(***************************************************************************)
EXTENDS AppState

CONSTANTS
  Sessions,        \* sessions that may be started; a bound of the instance
  NoSession,       \* owner of Waiting and of an exception
  DiscoverTries,   \* rounds of `for _ in 0..5` in start_guest
  DialTries,       \* rounds of `for _ in 0..60` in start_guest
  ProbeLimit,      \* `counter >= 3` in the host monitor
  MaxSharing       \* bound: in-place changes between two replacements

ASSUME SessionsAssumption == NoSession \notin Sessions
ASSUME LimitsAssumption ==
  /\ DiscoverTries \in Nat \ {0}
  /\ DialTries \in Nat \ {0}
  /\ ProbeLimit \in Nat \ {0}
  /\ MaxSharing \in Nat

VARIABLES
  pc,          \* where the thread of each session is
  capture,     \* the AppStateCapture it carries
  tries,       \* its loop counter: failed probes, discovery or dialling rounds
  easytier,    \* the EasyTier instance of the session
  scanner,     \* its MinecraftScanner thread
  fakeServer   \* its FakeServer thread

threadVars == <<pc, capture, tries>>
vars == <<holder, threadVars, easytier, scanner, fakeServer>>

-----------------------------------------------------------------------------
(* The values of AppState.  Room codes, ports and player lists are left    *)
(* out; owner says which session's room, port and resources are inside.    *)

Waiting == [state |-> "Waiting", owner |-> NoSession, kind |-> "None"]
Stage(st, s) == [state |-> st, owner |-> s, kind |-> "None"]
Exception(k) == [state |-> "Exception", owner |-> NoSession, kind |-> k]

ExceptionType == {"PingHostFail", "GuestEasytierCrash", "HostEasytierCrash",
                  "PingServerRst", "ScaffoldingInvalidResponse"}

Stages == {"HostScanning", "HostStarting", "HostOk",
           "GuestConnecting", "GuestStarting", "GuestOk"}

\* The variants with an `easytier` field.
WithEasyTier == {"HostOk", "GuestStarting", "GuestOk"}

\* Where a thread may be, for each stage its capture was taken in.
PlacesOf == [
  HostScanning    |-> {"scan"},
  HostStarting    |-> {"host_create", "host_publish"},
  HostOk          |-> {"host_probe", "host_lost", "host_check"},
  GuestConnecting |-> {"guest_create", "guest_publish"},
  GuestStarting   |-> {"guest_discover", "guest_dial", "guest_dial_check",
                       "guest_ask_port", "guest_start_fail", "guest_forward",
                       "guest_settle"},
  GuestOk         |-> {"guest_ping", "guest_list", "guest_merge",
                       "guest_ok_fail"}]

Places == UNION {PlacesOf[st] : st \in Stages}

\* The thread has returned, or has died in a panic of easytier::create.
Ended == {"done", "aborted"}

\* Places between the launch of EasyTier and the state that takes it over.
Launched == {"host_publish", "guest_publish"}

\* Places whose critical section matches the value against one variant and
\* is `unreachable!()` for any other.
Matched == [scan             |-> "HostScanning",
            host_check       |-> "HostOk",
            guest_discover   |-> "GuestStarting",
            guest_dial_check |-> "GuestStarting",
            guest_forward    |-> "GuestStarting",
            guest_settle     |-> "GuestStarting",
            guest_merge      |-> "GuestOk"]

-----------------------------------------------------------------------------
(* Threads. *)

Goto(s, place) == pc' = [pc EXCEPT ![s] = place]

\* The thread holds the lock through its capture, and the value is the
\* variant the code matches on.
Captured(s, st) == CanCapture(capture[s]) /\ value.state = st

\* `let Some(state) = capture.try_capture() else { return; }`
LostCapture(s) ==
  /\ ~CanCapture(capture[s])
  /\ Goto(s, "done")
  /\ UNCHANGED <<holder, capture, tries>>

\* A step that leaves the state and the resources alone.
Quiet == UNCHANGED <<holder, capture, easytier, scanner, fakeServer>>

Alive(s) == easytier[s] = "running"

(* Seeded faults of the drop glue. *)
DropKeepingEasyTier(v) ==
  /\ easytier' = easytier
  /\ scanner' = IF v.state = "HostScanning"
                THEN [scanner EXCEPT ![v.owner] = "released"] ELSE scanner
  /\ fakeServer' = IF v.state = "GuestOk"
                   THEN [fakeServer EXCEPT ![v.owner] = "released"]
                   ELSE fakeServer
DropKeepingThreads(v) ==
  /\ easytier' = IF v.state \in WithEasyTier
                 THEN [easytier EXCEPT ![v.owner] = "killed"] ELSE easytier
  /\ UNCHANGED <<scanner, fakeServer>>

\* Overwriting a value drops what it holds: EasyTier is killed, the scanner
\* and the fake server lose the channel their threads watch.
DropValue(v) ==
  /\ easytier' = IF v.state \in WithEasyTier
                 THEN [easytier EXCEPT ![v.owner] = "killed"] ELSE easytier
  /\ scanner' = IF v.state = "HostScanning"
                THEN [scanner EXCEPT ![v.owner] = "released"] ELSE scanner
  /\ fakeServer' = IF v.state = "GuestOk"
                   THEN [fakeServer EXCEPT ![v.owner] = "released"]
                   ELSE fakeServer

\* state.set(v) by the thread of s, which goes on with the new capture.
Enter(s, st, place) ==
  /\ SetTo(Stage(st, s))
  /\ capture' = [capture EXCEPT ![s] = index']
  /\ tries' = [tries EXCEPT ![s] = 0]
  /\ Goto(s, place)

\* state.set(Exception) and return.
EndWith(s, kind) ==
  /\ SetTo(Exception(kind))
  /\ DropValue(value)
  /\ Goto(s, "done")
  /\ UNCHANGED <<capture, tries>>

-----------------------------------------------------------------------------
(* Commands of the user interface. *)

ControllerInit ==
  /\ HolderInit(Waiting)
  /\ pc = [s \in Sessions |-> "idle"]
  /\ capture = [s \in Sessions |-> 0]
  /\ tries = [s \in Sessions |-> 0]
  /\ easytier = [s \in Sessions |-> "none"]
  /\ scanner = [s \in Sessions |-> "none"]
  /\ fakeServer = [s \in Sessions |-> "none"]

\* set_waiting: nothing to do in Waiting, otherwise drop whatever there is.
SetWaiting ==
  \/ /\ value.state = "Waiting"
     /\ UNCHANGED vars
  \/ /\ value.state # "Waiting"
     /\ SetTo(Waiting)
     /\ DropValue(value)
     /\ UNCHANGED threadVars

(* Seeded fault: the command is accepted in any state. *)
SetGuestingAnyState(s) ==
  /\ pc[s] = "idle"
  /\ Enter(s, "GuestConnecting", "guest_create")
  /\ DropValue(value)

\* set_scanning: accepted only in Waiting; the thread starts with the scanner.
SetScanning(s) ==
  /\ pc[s] = "idle"
  /\ value.state = "Waiting"
  /\ Enter(s, "HostScanning", "scan")
  /\ scanner' = [scanner EXCEPT ![s] = "scanning"]
  /\ UNCHANGED <<easytier, fakeServer>>

\* set_guesting, for a room code that parses.
SetGuesting(s) ==
  /\ pc[s] = "idle"
  /\ value.state = "Waiting"
  /\ Enter(s, "GuestConnecting", "guest_create")
  /\ UNCHANGED <<easytier, scanner, fakeServer>>

-----------------------------------------------------------------------------
(* The thread of a hosting session. *)

\* The polling loop of set_scanning, every 200 ms: go on once the scanner
\* has a port.  Entering HostStarting drops the scanner.
ScanPoll(s) ==
  /\ pc[s] = "scan"
  /\ \/ /\ LostCapture(s)
        /\ UNCHANGED <<easytier, scanner, fakeServer>>
     \/ /\ Captured(s, "HostScanning")
        /\ scanner[s] = "heard"
        /\ Enter(s, "HostStarting", "host_create")
        /\ DropValue(value)

\* easytier::create, outside the lock.  A missing executable or a failing
\* spawn is unwrapped: the thread dies and nobody is told.  The linked-in
\* EasyTier of Android reports a failed launch as an instance that is dead
\* from the start.
CreateEasyTier(s) ==
  /\ pc[s] \in {"host_create", "guest_create"}
  /\ \/ /\ \E status \in {"running", "crashed"} :
              easytier' = [easytier EXCEPT ![s] = status]
        /\ Goto(s, IF pc[s] = "host_create" THEN "host_publish"
                                            ELSE "guest_publish")
     \/ /\ Goto(s, "aborted")
        /\ UNCHANGED easytier
  /\ UNCHANGED <<holder, capture, tries, scanner, fakeServer>>

(* Seeded fault: set() through a fresh acquire(), the capture unchecked. *)
HostPublishUnchecked(s) ==
  /\ pc[s] = "host_publish"
  /\ Enter(s, "HostOk", "host_probe")
  /\ DropValue(value)

\* start_host hands the EasyTier instance to the state.  A stale thread
\* returns, and its instance is dropped with the local variable.
HostPublish(s) ==
  /\ pc[s] = "host_publish"
  /\ \/ /\ LostCapture(s)
        /\ easytier' = [easytier EXCEPT ![s] = "killed"]
        /\ UNCHANGED <<scanner, fakeServer>>
     \/ /\ CanCapture(capture[s])
        /\ Enter(s, "HostOk", "host_probe")
        /\ DropValue(value)

\* check_mc_conn on the host's own server, with its count of failures.
HostProbe(s) ==
  /\ pc[s] = "host_probe"
  /\ \/ /\ tries' = [tries EXCEPT ![s] = 0]
        /\ Goto(s, "host_check")
     \/ /\ tries' = [tries EXCEPT ![s] = @ + 1]
        /\ Goto(s, IF tries[s] + 1 >= ProbeLimit THEN "host_lost"
                                                 ELSE "host_check")
  /\ Quiet

HostLost(s) ==
  /\ pc[s] = "host_lost"
  /\ \/ /\ LostCapture(s)
        /\ UNCHANGED <<easytier, scanner, fakeServer>>
     \/ /\ CanCapture(capture[s])
        /\ EndWith(s, "PingServerRst")

(* Seeded fault: the monitor does not look at EasyTier. *)
HostCheckBlindly(s) ==
  /\ pc[s] = "host_check"
  /\ \/ /\ LostCapture(s)
        /\ UNCHANGED <<easytier, scanner, fakeServer>>
     \/ /\ Captured(s, "HostOk")
        /\ \/ sharing < MaxSharing /\ ChangeInPlace
           \/ UNCHANGED holder
        /\ Goto(s, "host_probe")
        /\ UNCHANGED <<capture, tries, easytier, scanner, fakeServer>>

\* The rest of a monitor round: EasyTier is up, silent guests are removed.
HostCheck(s) ==
  /\ pc[s] = "host_check"
  /\ \/ /\ LostCapture(s)
        /\ UNCHANGED <<easytier, scanner, fakeServer>>
     \/ /\ Captured(s, "HostOk")
        /\ ~Alive(s)
        /\ EndWith(s, "HostEasytierCrash")
     \/ /\ Captured(s, "HostOk")
        /\ Alive(s)
        /\ \/ sharing < MaxSharing /\ ChangeInPlace
           \/ UNCHANGED holder
        /\ Goto(s, "host_probe")
        /\ UNCHANGED <<capture, tries, easytier, scanner, fakeServer>>

\* c:player_ping on a thread of the scaffolding server: it holds no capture
\* and writes to whatever room is hosted when it gets the lock.
PlayerPing ==
  /\ value.state = "HostOk"
  /\ sharing < MaxSharing
  /\ ChangeInPlace
  /\ UNCHANGED <<threadVars, easytier, scanner, fakeServer>>

-----------------------------------------------------------------------------
(* The thread of a guest session.  `fail(capture)` is at guest_start_fail  *)
(* before the room is entered and at guest_ok_fail after.                  *)

\* The state becomes the new owner of the running EasyTier.
GuestPublish(s) ==
  /\ pc[s] = "guest_publish"
  /\ \/ /\ LostCapture(s)
        /\ easytier' = [easytier EXCEPT ![s] = "killed"]
        /\ UNCHANGED <<scanner, fakeServer>>
     \/ /\ CanCapture(capture[s])
        /\ Enter(s, "GuestStarting", "guest_discover")
        /\ DropValue(value)

\* The linked-in EasyTier of Android goes away under add_port_forward, whose
\* get_api_service().unwrap() then takes the thread down.
ForwardPanics(s) ==
  /\ easytier' = [easytier EXCEPT ![s] = "crashed"]
  /\ Goto(s, "aborted")
  /\ UNCHANGED <<holder, capture, tries, scanner, fakeServer>>

\* One of the rounds, 3 s apart, that look for the host among the peers: not
\* there yet, there but not forwarded, or there and forwarded, which also
\* tells the difficulty.  No round left is the failure after the loop.
GuestDiscover(s) ==
  /\ pc[s] = "guest_discover"
  /\ \/ /\ LostCapture(s)
        /\ UNCHANGED <<easytier, scanner, fakeServer>>
     \/ /\ Captured(s, "GuestStarting")
        /\ tries[s] < DiscoverTries
        /\ ~Alive(s)
        /\ EndWith(s, "GuestEasytierCrash")
     \/ /\ Captured(s, "GuestStarting")
        /\ tries[s] < DiscoverTries
        /\ Alive(s)
        /\ \/ /\ tries' = [tries EXCEPT ![s] = @ + 1]
              /\ UNCHANGED pc
              /\ Quiet
           \/ EndWith(s, "GuestEasytierCrash")
           \/ ForwardPanics(s)
           \/ /\ sharing < MaxSharing
              /\ ChangeInPlace
              /\ tries' = [tries EXCEPT ![s] = 0]
              /\ Goto(s, "guest_dial")
              /\ UNCHANGED <<capture, easytier, scanner, fakeServer>>
     \/ /\ CanCapture(capture[s])
        /\ tries[s] = DiscoverTries
        /\ EndWith(s, "PingHostFail")

\* ClientSession::open and c:ping, outside the lock.
GuestDial(s) ==
  /\ pc[s] = "guest_dial"
  /\ IF tries[s] < DialTries
     THEN \E place \in {"guest_ask_port", "guest_dial_check"} : Goto(s, place)
     ELSE Goto(s, "guest_start_fail")
  /\ UNCHANGED tries
  /\ Quiet

(* Seeded fault: the dialling loop is a `loop` without a count. *)
GuestDialCheckForever(s) ==
  /\ pc[s] = "guest_dial_check"
  /\ \/ /\ LostCapture(s)
        /\ UNCHANGED <<easytier, scanner, fakeServer>>
     \/ /\ Captured(s, "GuestStarting")
        /\ ~Alive(s)
        /\ EndWith(s, "GuestEasytierCrash")
     \/ /\ Captured(s, "GuestStarting")
        /\ Alive(s)
        /\ Goto(s, "guest_dial")
        /\ UNCHANGED tries
        /\ Quiet

\* After a failed dial: is the room still wanted, is EasyTier still there?
GuestDialCheck(s) ==
  /\ pc[s] = "guest_dial_check"
  /\ \/ /\ LostCapture(s)
        /\ UNCHANGED <<easytier, scanner, fakeServer>>
     \/ /\ Captured(s, "GuestStarting")
        /\ ~Alive(s)
        /\ EndWith(s, "GuestEasytierCrash")
     \/ /\ Captured(s, "GuestStarting")
        /\ Alive(s)
        /\ tries' = [tries EXCEPT ![s] = @ + 1]
        /\ Goto(s, "guest_dial")
        /\ Quiet

\* c:server_port, outside the lock.
GuestAskPort(s) ==
  /\ pc[s] = "guest_ask_port"
  /\ \E place \in {"guest_forward", "guest_start_fail"} : Goto(s, place)
  /\ UNCHANGED tries
  /\ Quiet

\* fn fail.
GuestFail(s) ==
  /\ pc[s] \in {"guest_start_fail", "guest_ok_fail"}
  /\ \/ /\ LostCapture(s)
        /\ UNCHANGED <<easytier, scanner, fakeServer>>
     \/ /\ CanCapture(capture[s])
        /\ EndWith(s, "PingHostFail")

\* The four forwards of the Minecraft port, under the lock.
GuestForward(s) ==
  /\ pc[s] = "guest_forward"
  /\ \/ /\ LostCapture(s)
        /\ UNCHANGED <<easytier, scanner, fakeServer>>
     \/ /\ Captured(s, "GuestStarting")
        /\ \/ EndWith(s, "GuestEasytierCrash")
           \/ ForwardPanics(s)
           \/ /\ Goto(s, "guest_settle")
              /\ UNCHANGED tries
              /\ Quiet

(* Seeded fault: set() in place of replace(), so that the EasyTier of      *)
(* GuestStarting is dropped.                                               *)
GuestSettleBySet(s) ==
  /\ pc[s] = "guest_settle"
  /\ \/ /\ LostCapture(s)
        /\ UNCHANGED <<easytier, scanner, fakeServer>>
     \/ /\ Captured(s, "GuestStarting")
        /\ Enter(s, "GuestOk", "guest_ping")
        /\ fakeServer' = [fakeServer EXCEPT ![s] = "serving"]
        /\ easytier' = [easytier EXCEPT ![s] = "killed"]
        /\ UNCHANGED scanner

\* replace(): EasyTier moves from GuestStarting into GuestOk, and the fake
\* server that announces the forwarded port to the LAN is started.
GuestSettle(s) ==
  /\ pc[s] = "guest_settle"
  /\ \/ /\ LostCapture(s)
        /\ UNCHANGED <<easytier, scanner, fakeServer>>
     \/ /\ Captured(s, "GuestStarting")
        /\ Enter(s, "GuestOk", "guest_ping")
        /\ fakeServer' = [fakeServer EXCEPT ![s] = "serving"]
        /\ UNCHANGED <<easytier, scanner>>

\* c:player_ping and c:player_profiles_list, outside the lock.
GuestCall(s) ==
  /\ \/ pc[s] = "guest_ping" /\ Goto(s, "guest_list")
     \/ pc[s] = "guest_list" /\ Goto(s, "guest_merge")
     \/ pc[s] \in {"guest_ping", "guest_list"} /\ Goto(s, "guest_ok_fail")
  /\ UNCHANGED tries
  /\ Quiet

\* The host's list is merged into the guest's: no change, a change, or a
\* contradiction that ends the room.
GuestMerge(s) ==
  /\ pc[s] = "guest_merge"
  /\ \/ /\ LostCapture(s)
        /\ UNCHANGED <<easytier, scanner, fakeServer>>
     \/ /\ Captured(s, "GuestOk")
        /\ ~Alive(s)
        /\ EndWith(s, "GuestEasytierCrash")
     \/ /\ Captured(s, "GuestOk")
        /\ Alive(s)
        /\ \/ EndWith(s, "ScaffoldingInvalidResponse")
           \/ /\ \/ sharing < MaxSharing /\ ChangeInPlace
                 \/ UNCHANGED holder
              /\ Goto(s, "guest_ping")
              /\ UNCHANGED <<capture, tries, easytier, scanner, fakeServer>>

-----------------------------------------------------------------------------
(* What happens to the resources on their own. *)

\* The scanner hears a Minecraft server in the LAN, or stops hearing it.
HearServer(s) ==
  /\ \/ /\ scanner[s] = "scanning"
        /\ scanner' = [scanner EXCEPT ![s] = "heard"]
     \/ /\ scanner[s] = "heard"
        /\ scanner' = [scanner EXCEPT ![s] = "scanning"]
  /\ UNCHANGED <<holder, threadVars, easytier, fakeServer>>

\* Both threads look at their channel in every round.
ScannerStops(s) ==
  /\ scanner[s] = "released"
  /\ scanner' = [scanner EXCEPT ![s] = "stopped"]
  /\ UNCHANGED <<holder, threadVars, easytier, fakeServer>>

FakeServerStops(s) ==
  /\ fakeServer[s] = "released"
  /\ fakeServer' = [fakeServer EXCEPT ![s] = "stopped"]
  /\ UNCHANGED <<holder, threadVars, easytier, scanner>>

\* The EasyTier process exits by itself.
EasyTierCrash(s) ==
  /\ easytier[s] = "running"
  /\ easytier' = [easytier EXCEPT ![s] = "crashed"]
  /\ UNCHANGED <<holder, threadVars, scanner, fakeServer>>

-----------------------------------------------------------------------------

Command ==
  \/ SetWaiting
  \/ \E s \in Sessions : SetScanning(s) \/ SetGuesting(s)

ThreadStep(s) ==
  \/ ScanPoll(s)
  \/ CreateEasyTier(s)
  \/ HostPublish(s)
  \/ HostProbe(s)
  \/ HostLost(s)
  \/ HostCheck(s)
  \/ GuestPublish(s)
  \/ GuestDiscover(s)
  \/ GuestDial(s)
  \/ GuestDialCheck(s)
  \/ GuestAskPort(s)
  \/ GuestFail(s)
  \/ GuestForward(s)
  \/ GuestSettle(s)
  \/ GuestCall(s)
  \/ GuestMerge(s)

ResourceStep(s) ==
  \/ HearServer(s)
  \/ ScannerStops(s)
  \/ FakeServerStops(s)
  \/ EasyTierCrash(s)

ControllerNext ==
  \/ Command
  \/ PlayerPing
  \/ \E s \in Sessions : ThreadStep(s) \/ ResourceStep(s)

Spec == ControllerInit /\ [][ControllerNext]_vars

\* Every thread runs: the loops only sleep, hold a fair mutex and wait for
\* sockets that time out.  The user, the network and EasyTier owe nothing.
Fairness ==
  \A s \in Sessions :
    /\ WF_vars(ThreadStep(s))
    /\ WF_vars(ScannerStops(s))
    /\ WF_vars(FakeServerStops(s))

FairSpec == Spec /\ Fairness

-----------------------------------------------------------------------------
(* Properties. *)

Values ==
  {Waiting} \cup {Stage(st, s) : st \in Stages, s \in Sessions}
            \cup {Exception(k) : k \in ExceptionType}

\* The variables have their types, `index - sharing` does not underflow, and
\* the failure counters of the three loops stay within their limits.
TypeOK ==
  /\ index \in Nat
  /\ sharing \in 0 .. index
  /\ value \in Values
  /\ pc \in [Sessions -> Places \cup Ended \cup {"idle"}]
  /\ capture \in [Sessions -> Nat]
  /\ tries \in [Sessions -> Nat]
  /\ \A s \in Sessions :
       /\ pc[s] \in {"host_probe", "host_check"} => tries[s] < ProbeLimit
       /\ pc[s] = "guest_discover" => tries[s] <= DiscoverTries
       /\ pc[s] = "guest_dial" => tries[s] <= DialTries
       /\ pc[s] = "guest_dial_check" => tries[s] < DialTries
  /\ easytier \in [Sessions -> {"none", "running", "crashed", "killed"}]
  /\ scanner \in
       [Sessions -> {"none", "scanning", "heard", "released", "stopped"}]
  /\ fakeServer \in [Sessions -> {"none", "serving", "released", "stopped"}]

\* The `unreachable!()` arms of room.rs and api.rs: a thread whose capture
\* passes finds the variant it was written for, whatever commands, pings and
\* other threads did since it last held the lock.
NoUnreachable ==
  /\ TypeOK
  /\ \A s \in Sessions :
       pc[s] \in DOMAIN Matched /\ CanCapture(capture[s])
         => value.state = Matched[pc[s]]

\* What a capture means.  It is never ahead of the state it was taken from,
\* and one that still passes is its owner's: the value is the session's own
\* and the stage is the one the thread is working in.
CaptureIsOwnership ==
  \A s \in Sessions :
    pc[s] \in Places =>
      /\ capture[s] <= Base
      /\ CanCapture(capture[s]) =>
           /\ value.state \in Stages
           /\ value.owner = s
           /\ pc[s] \in PlacesOf[value.state]

\* The state the user sees always has a thread that moves it on: each stage
\* is the stage of its owner's thread, and the thread's capture is good.  The
\* only rooms without a thread are those being set up when EasyTier took the
\* thread down; a room that was announced as open (HostOk, GuestOk) is
\* watched for as long as it is shown.
Supervised ==
  value.state \in Stages =>
    \/ /\ pc[value.owner] \in PlacesOf[value.state]
       /\ CanCapture(capture[value.owner])
    \/ /\ pc[value.owner] = "aborted"
       /\ value.state \in {"HostStarting", "GuestConnecting", "GuestStarting"}

\* Whatever runs has an owner that will drop it: EasyTier is in the current
\* value or in the hands of the thread that just launched it, a scanner
\* belongs to the current HostScanning, a fake server to the current GuestOk.
NothingOrphaned ==
  \A s \in Sessions :
    /\ easytier[s] \in {"running", "crashed"} =>
         \/ pc[s] \in Launched
         \/ value.state \in WithEasyTier /\ value.owner = s
    /\ scanner[s] \in {"scanning", "heard"} => value = Stage("HostScanning", s)
    /\ fakeServer[s] = "serving" => value = Stage("GuestOk", s)

\* The other way round: no room is shown whose EasyTier was killed by a drop,
\* whose scanner was let go or whose fake server is not announcing it; and
\* nobody else drops an EasyTier between its launch and its publication.
RoomHasResources ==
  /\ \A s \in Sessions :
       pc[s] \in Launched => easytier[s] \in {"running", "crashed"}
  /\ value.state \in WithEasyTier =>
       easytier[value.owner] \in {"running", "crashed"}
  /\ value.state = "HostScanning" =>
       scanner[value.owner] \in {"scanning", "heard"}
  /\ value.state = "GuestOk" => fakeServer[value.owner] = "serving"

\* The inductive invariant behind the safety theorems of ControllerProofs.
IInv ==
  /\ TypeOK
  /\ CaptureIsOwnership
  /\ Supervised
  /\ NothingOrphaned
  /\ RoomHasResources

\* A thread writes the state only while the state is its own, and never
\* touches the resources of another session: a thread overtaken by a cancel,
\* or by a cancel and a new room, only goes away.
OnlyOwnerMoves ==
  [][\A s \in Sessions :
       pc'[s] # pc[s] /\ pc[s] # "idle" =>
         /\ holder' # holder => value.owner = s
         /\ \A t \in Sessions \ {s} :
              /\ easytier'[t] = easytier[t]
              /\ scanner'[t] = scanner[t]
              /\ fakeServer'[t] = fakeServer[t]]_vars

RS == INSTANCE RoomSession WITH
  room <- value,
  version <- index,
  begun <- {s \in Sessions : pc[s] # "idle"}

\* The controller keeps the promise made to the user interface: sessions
\* start from Waiting only, go through their stages in order, end in Waiting
\* or in an exception that fits, and every change has a new version.
RefinesRoomSession == RS!RoomSpec

\* A crash of the room's EasyTier is noticed: the room is replaced, by the
\* thread's exception or by the user.  (Not if the thread died setting up.)
CrashDetected ==
  \A s \in Sessions :
    (value.owner = s /\ easytier[s] = "crashed")
      ~> (value.owner # s \/ pc[s] = "aborted")

\* A session that was cancelled or has failed winds down completely: its
\* thread ends, EasyTier is gone, scanner and fake server have stopped.
CancelledWindsDown ==
  \A s \in Sessions :
    (pc[s] # "idle" /\ value.owner # s)
      ~> /\ pc[s] \in Ended
         /\ easytier[s] \in {"none", "killed"}
         /\ scanner[s] \in {"none", "stopped"}
         /\ fakeServer[s] \in {"none", "stopped"}

\* The user is not left waiting: a room that is being set up opens, fails or
\* is given up by the user, unless EasyTier took the thread down.
StartResolves ==
  \A s \in Sessions :
    (value.owner = s
       /\ value.state \in {"HostStarting", "GuestConnecting", "GuestStarting"})
      ~> (\/ value.owner # s
          \/ value.state \in {"HostOk", "GuestOk"}
          \/ pc[s] = "aborted")

=============================================================================
