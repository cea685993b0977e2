------------------------------- MODULE HostRoom -------------------------------
(***************************************************************************)
(* The player table of a hosted room: the `profiles` of AppState::HostOk,  *)
(* written by three parties that know nothing of each other - start_host   *)
(* creates it, c:player_ping on the threads of the scaffolding server adds *)
(* and renames guests, the host's monitor removes those that went silent.  *)
(*                                                                         *)
(* Entries carry a SystemTime in the code; here it is the age of the       *)
(* entry, which saturates at Timeout and is negative when the wall clock   *)
(* was set back.  A ping is in the hands of a server thread (`pending`)    *)
(* from its arrival until the thread gets the state lock; meanwhile the    *)
(* guest may be gone, and the room may be closed and another one open.     *)
(***************************************************************************)
EXTENDS Profiles

CONSTANTS
  Guests,         \* connections of guests
  Host,           \* the host's machine id
  HostName,       \* its player's name
  Timeout,        \* 10 s, in ticks of the clock
  MaxSkew,        \* bound: how far the wall clock is set forward or back
  MaxJumps        \* bound: how often

ASSUME HostRoomAssumption ==
  /\ Host \in Machines
  /\ HostName \in Names
  /\ Timeout \in Nat \ {0}
  /\ MaxSkew \in Nat
  /\ MaxJumps \in Nat

VARIABLES
  machine,   \* the machine id of each guest: copied ones may be equal
  open,      \* the state is HostOk
  profiles,  \* its player table
  version,   \* Holder.index
  member,    \* the name under which a guest is in the room, or "out"
  pending,   \* the name in a guest's ping that waits for the lock, or "none"
  heard,     \* ticks since a ping from a machine was last taken
  jumps      \* how often the wall clock was set

roomVars == <<open, profiles, version>>
guestVars == <<machine, member, pending>>
vars == <<roomVars, guestVars, heard, jumps>>

-----------------------------------------------------------------------------

Entry(id, name, kind) == [id |-> id, name |-> name, kind |-> kind, age |-> 0]

Others == Machines \ {Host}

\* What the user interface and the guests see of an entry.
Shown(list) ==
  [i \in DOMAIN list |->
     [id |-> list[i].id, name |-> list[i].name, kind |-> list[i].kind]]

\* increase() and increase_shared().
Increase == version' = (version + 1) % Versions

-----------------------------------------------------------------------------

HostRoomInit ==
  /\ machine \in [Guests -> Machines]
  /\ open = FALSE
  /\ profiles = <<>>
  /\ version = 0
  /\ member = [g \in Guests |-> "out"]
  /\ pending = [g \in Guests |-> "none"]
  /\ heard = [m \in Others |-> Timeout]
  /\ jumps = 0

\* start_host publishes the room with the host alone in it.
OpenRoom ==
  /\ ~open
  /\ open' = TRUE
  /\ profiles' = <<Entry(Host, HostName, "HOST")>>
  /\ heard' = [m \in Others |-> Timeout]
  /\ Increase
  /\ UNCHANGED <<guestVars, jumps>>

\* The room ends; with its EasyTier the links of all guests are cut, but not
\* what the server threads have already read.
CloseRoom ==
  /\ open
  /\ open' = FALSE
  /\ profiles' = <<>>
  /\ member' = [g \in Guests |-> "out"]
  /\ Increase
  /\ UNCHANGED <<machine, pending, heard, jumps>>

\* Guests come under some name, go without a word, and ping.
Join(g) ==
  /\ open
  /\ member[g] = "out"
  /\ \E n \in Names : member' = [member EXCEPT ![g] = n]
  /\ UNCHANGED <<machine, roomVars, pending, heard, jumps>>

Leave(g) ==
  /\ member[g] # "out"
  /\ member' = [member EXCEPT ![g] = "out"]
  /\ UNCHANGED <<machine, roomVars, pending, heard, jumps>>

SendPing(g) ==
  /\ member[g] # "out"
  /\ pending[g] = "none"
  /\ pending' = [pending EXCEPT ![g] = member[g]]
  /\ UNCHANGED <<machine, roomVars, member, heard, jumps>>

(* Seeded faults of c:player_ping. *)
RefreshSilently(i, name) ==    \* the new name without increase_shared()
  /\ profiles' = [profiles EXCEPT ![i].age = 0, ![i].name = name]
  /\ UNCHANGED version
RefreshKeepingName(i, name) == \* without set_name()
  /\ profiles' = [profiles EXCEPT ![i].age = 0]
  /\ UNCHANGED version

Refresh(i, name) ==
  /\ profiles' = [profiles EXCEPT ![i].age = 0, ![i].name = name]
  /\ IF profiles[i].name # name THEN Increase ELSE UNCHANGED version

\* The call fails, and a guest whose call fails gives up (start_guest::fail).
FailPing(g) ==
  /\ member' = [member EXCEPT ![g] = "out"]
  /\ UNCHANGED <<roomVars, heard>>

(* Seeded fault: position 0 is treated like the others. *)
TakePingOfHost(g) ==
  /\ pending[g] # "none"
  /\ pending' = [pending EXCEPT ![g] = "none"]
  /\ \/ ~open /\ FailPing(g)
     \/ /\ open
        /\ \/ \E i \in DOMAIN profiles :
                profiles[i].id = machine[g] /\ Refresh(i, pending[g])
           \/ /\ machine[g] \notin Ids(profiles)
              /\ profiles' = Append(profiles, Entry(machine[g], pending[g], "GUEST"))
              /\ Increase
        /\ UNCHANGED <<open, member, heard>>
  /\ UNCHANGED <<machine, jumps>>

\* c:player_ping gets the lock.  A known guest is refreshed and perhaps
\* renamed, an unknown one appended, the host is not to be touched; without a
\* room the call fails.
TakePing(g) ==
  /\ pending[g] # "none"
  /\ pending' = [pending EXCEPT ![g] = "none"]
  /\ \/ (~open \/ machine[g] = Host) /\ FailPing(g)
     \/ /\ open
        /\ machine[g] # Host
        /\ \/ \E i \in DOMAIN profiles :
                profiles[i].id = machine[g] /\ Refresh(i, pending[g])
           \/ /\ machine[g] \notin Ids(profiles)
              /\ profiles' = Append(profiles, Entry(machine[g], pending[g], "GUEST"))
              /\ Increase
        /\ heard' = [heard EXCEPT ![machine[g]] = 0]
        /\ UNCHANGED <<open, member>>
  /\ UNCHANGED <<machine, jumps>>

-----------------------------------------------------------------------------
(* The removal of silent guests in the host's monitor, a loop over the     *)
(* positions from the last one down to the second.                         *)

(* Seeded fault: 10 s less one tick. *)
ExpiredEarly(entry) == entry.age + 1 >= Timeout

Expired(entry) == entry.age >= Timeout

RemoveIfExpired(list, i) == IF Expired(list[i]) THEN RemoveAt(list, i) ELSE list

(* Seeded fault: the loop stops before the first guest. *)
SweepFromSecond(list) ==
  FoldLeft(RemoveIfExpired, list, [k \in 1 .. Len(list) - 2 |-> Len(list) + 1 - k])

(* Seeded fault: the loop runs upwards, over positions that shift. *)
SweepUpwards(list) ==
  FoldLeft(LAMBDA l, i : IF i <= Len(l) THEN RemoveIfExpired(l, i) ELSE l,
           list, [k \in 1 .. Len(list) - 1 |-> k + 1])

Sweep(list) ==
  FoldLeft(RemoveIfExpired, list, [k \in 1 .. Len(list) - 1 |-> Len(list) + 1 - k])

MonitorRound ==
  /\ open
  /\ profiles' = Sweep(profiles)
  /\ IF profiles' # profiles THEN Increase ELSE UNCHANGED version
  /\ UNCHANGED <<open, guestVars, heard, jumps>>

-----------------------------------------------------------------------------
(* Time. *)

Capped(n) == IF n > Timeout THEN Timeout ELSE n

Aged(list, n) == [i \in DOMAIN list |-> [list[i] EXCEPT !.age = Capped(@ + n)]]

Tick ==
  /\ profiles' = Aged(profiles, 1)
  /\ heard' = [m \in Others |-> Capped(heard[m] + 1)]
  /\ UNCHANGED <<open, version, guestVars, jumps>>

\* Somebody sets the wall clock: SystemTime is not monotonic.
SetClock ==
  /\ jumps < MaxJumps
  /\ jumps' = jumps + 1
  /\ \E n \in -MaxSkew .. MaxSkew : profiles' = Aged(profiles, n)
  /\ UNCHANGED <<open, version, guestVars, heard>>

-----------------------------------------------------------------------------

GuestStep(g) == Join(g) \/ Leave(g) \/ SendPing(g) \/ TakePing(g)

HostRoomNext ==
  \/ OpenRoom
  \/ CloseRoom
  \/ MonitorRound
  \/ Tick
  \/ SetClock
  \/ \E g \in Guests : GuestStep(g)

Spec == HostRoomInit /\ [][HostRoomNext]_vars

-----------------------------------------------------------------------------
(* Properties. *)

TypeOK ==
  /\ machine \in [Guests -> Machines]
  /\ open \in BOOLEAN
  /\ profiles \in Seq([id : Machines, name : Names,
                       kind : {"HOST", "GUEST"}, age : Int])
  /\ \A i \in DOMAIN profiles :
       profiles[i].age \in -(MaxSkew * MaxJumps) .. Timeout
  /\ version \in 0 .. Versions - 1
  /\ member \in [Guests -> Names \cup {"out"}]
  /\ pending \in [Guests -> Names \cup {"none"}]
  /\ heard \in [Others -> 0 .. Timeout]
  /\ jumps \in 0 .. MaxJumps

\* The host heads the table of an open room under the name it was opened
\* with, whatever guests send and however the clock is set: the monitor's
\* loop spares position 0 and c:player_ping refuses to touch it.
HostHeadsTable ==
  open => /\ profiles # <<>>
          /\ Shown(profiles)[1]
               = [id |-> Host, name |-> HostName, kind |-> "HOST"]

\* A machine is in the table once, and only the host is HOST: the guests
\* take a table that says otherwise for an invalid response.
TableWellFormed ==
  /\ TypeOK
  /\ HostHeadsTable
  /\ \A i, j \in DOMAIN profiles :
       /\ profiles[i].id = profiles[j].id => i = j
       /\ profiles[i].kind = "HOST" <=> profiles[i].id = Host

\* What the user interface polls for has a new version whenever it changes.
ChangesAreVersioned ==
  [][<<open, Shown(profiles)>>' # <<open, Shown(profiles)>>
       => version' # version]_vars

\* A machine that is heard of in time stays: unless the clock was set, no
\* order of pings and monitor rounds removes it within 10 s of its ping.
HeardGuestsStay ==
  \A m \in Others :
    open /\ heard[m] < Timeout /\ jumps = 0 => m \in Ids(profiles)

\* The monitor's loop removes exactly the guests that timed out, however many
\* of them stand next to each other, and leaves the others in their order.
Selects(list, places, result) ==
  \E at \in [DOMAIN result -> places] :
    /\ \A i, j \in DOMAIN result : i < j => at[i] < at[j]
    /\ \A k \in places : \E i \in DOMAIN result : at[i] = k
    /\ \A i \in DOMAIN result : result[i] = list[at[i]]

SweepRemovesExpired ==
  LET fresh == {i \in DOMAIN profiles : profiles[i].id = Host \/ profiles[i].age < Timeout}
  IN  Selects(profiles, fresh, Sweep(profiles))

Present(m) == \E g \in Guests : machine[g] = m /\ member[g] # "out"

\* A guest that is gone leaves the table, be it one that was never in this
\* room, whose ping a server thread carried over from the room before.
GoneGuestsLeave ==
  \A m \in Others :
    (open /\ ~Present(m)) ~> (m \notin Ids(profiles) \/ Present(m))

-----------------------------------------------------------------------------
(* The inductive invariant behind the safety properties: beside what they   *)
(* say, the table of a closed room is empty, no entry is younger than the   *)
(* clock was set back, and unless it was set, the age of an entry is the    *)
(* time since its machine was last heard.                                   *)

ClosedIsEmpty == open \/ profiles = <<>>

AgesBounded ==
  \A i \in DOMAIN profiles : profiles[i].age \in -(MaxSkew * jumps) .. Timeout

AgesAreHeard ==
  open /\ jumps = 0 =>
    \A i \in DOMAIN profiles :
      profiles[i].id # Host => profiles[i].age = heard[profiles[i].id]

IInv ==
  /\ TableWellFormed
  /\ ClosedIsEmpty
  /\ AgesBounded
  /\ AgesAreHeard
  /\ HeardGuestsStay

=============================================================================
