# Terracotta in TLA+

Terracotta lets a Minecraft player open a world on the LAN to friends elsewhere:
one program on each machine, an EasyTier virtual network between them, and a
small request protocol ("scaffolding") on top. This directory holds TLA+ models
of its core logic, TLC runs over small instances, and TLAPS proofs.

## The system

| part | source (`src/src/...`) | state | operations |
|---|---|---|---|
| state cell | `controller/states.rs` | one mutex: value, version `index`, `sharing` | acquire, set, replace, increase_shared, try_capture |
| room controller | `controller/api.rs`, `controller/rooms/scaffolding/room.rs` | the place and the loop counters of each worker thread, its capture | set_waiting, set_scanning, set_guesting; start_host and its monitor; start_guest and its guest loop |
| player table | `room.rs`, `protocols.rs` | `profiles` of HostOk, with times | c:player_ping, c:player_profiles_list, removal of silent guests |
| player list | `room.rs` 443-593, `scaffolding/profile.rs` | `profiles` of GuestOk | read an answer, merge it |
| LAN scanner | `mc/scanning.rs` | known ports with times, published ports | a round of the thread, get_ports |
| fake server | `mc/fakeserver.rs` | a thread that announces the room on the LAN | create, drop |
| scaffolding link | `scaffolding/client.rs`, `server.rs` | channel, dead flag, socket; a thread at each end | open, send_sync, handle_connection |
| EasyTier | `easytier/` | a child process, or a linked-in instance on Android | create, is_alive, get_players, add_port_forward, drop |
| instance lock | `lock_unix.rs`, `lock_windows.rs`, `main.rs` | `terracotta.lock` and the lock on it | get_state, set_port, secondary_switch |
| room code | `room.rs` 23-138 | none | create, parse, from_value |
| machine id, cleanup | `rooms/scaffolding/mod.rs`, `main.rs` 563-596 | a file | restore, clean up |
| web and JNI entry points | `server/`, `lib.rs`, `ffi/` | VpnService request, log file | translate calls |

How they interact:

- The user interface (web page, launcher, Java) calls the controller's commands
  and **polls** the state; a change is visible by its greater `index`.
- A command puts a new value into the **state cell** and spawns a **worker
  thread** with a *capture* of it. The worker does its slow work without the
  lock, and each time it needs the state it asks the capture whether it is
  still current. A cancelled worker is never told; it finds out.
- What runs in the background - EasyTier, scanner, fake server - is **owned by
  the value**, and stops when the value is dropped.
- A hosting worker takes the first port of the **scanner**. The **scaffolding
  server** has a thread per guest whose handlers write to the state *without* a
  capture. A guest's worker calls it through a `ClientSession`: it dials, asks for
  the Minecraft port, has it forwarded, then pings every 5 s and merges the
  host's player table into its own list.
- Processes of one user share one server through the **instance lock**.

What is hard: workers overtaken by cancels and by newer rooms at any point;
resources created outside the lock; threads that must all end on their own;
in-place changes next to captures; timeouts against late messages; removal
inside loops over indices; wall-clock time; lists of another program merged in
place; file locks with crashes. `PROJECT.json` lists these hazards with their
lines and the properties that cover each.

What makes each part correct, in short:

- *state cell and controller*: a capture that passes is its owner's; a shown
  room has a thread and its resources; nothing runs without an owner; no
  `unreachable!()` is reached; cancelled sessions wind down; crashes are noticed.
- *player table, player list*: one entry for each machine, the host first, no
  removal of a guest heard in time, every visible change versioned; the merge
  equals the answer, and an honest host is believed.
- *scanner*: the port taken is one of a server that is still known.
- *link*: an answer belongs to its call, every call returns.
- *instance lock*: one server, named by the file.
- *room code*: parse inverts create, in any surrounding text, and a room's
  network is its own.
- *room as a whole*: no guest takes an honest host for a broken one, and all
  lists come to show who is in the room.
- *port forwards*: true means that every rule is there, whatever was retried.
- *Android*: the last VPN request made is the one that is served.

## The modules

| module | models | abstract or detailed |
|---|---|---|
| `AppState` | the state cell: `SetTo` = set/replace, `ChangeInPlace` = increase_shared, `CanCapture` = try_capture | building block of `Controller` |
| `RoomSession` | what a room shows to the user interface: stages, cancel, exceptions, versions; no threads | abstract specification |
| `Controller` | commands, workers, resources | implements `RoomSession` |
| `ControllerProofs` | theorems about `Controller`, and about the `LanScanner` it polls | |
| `Profiles` | profiles and versions, which the host's table and the guests' lists share | data |
| `HostRoom` | the host's player table | |
| `HostRoomProofs` | theorems about `HostRoom` and `RoomSync` | |
| `PlayerLists` | reading an answer and merging it into a list | pure |
| `GuestView` | the guest's player list, against any host | uses `PlayerLists` |
| `GuestViewProofs` | theorems about `PlayerLists` and `GuestView` | |
| `RoomSync` | a room with the sessions of its guests | composes `HostRoom` and `PlayerLists` per session; implements `HostRoom` |
| `RoomCode` | the code of a room: create, parse, the network it stands for | pure |
| `PortForwards` | add_port_forward with its CLI processes | |
| `GuestStart` | from the typed code to the forwarded ports | composes `RoomCode` and `PortForwards` |
| `GuestStartProofs` | theorems about `GuestStart`, `RoomCode` and `PortForwards` | |
| `LanScanner` | the scanner thread | |
| `ScaffoldingLink` | one session: guest, session thread, server thread | |
| `ScaffoldingLinkProofs` | theorems about `ScaffoldingLink` | |
| `InstanceLock` | the processes around `terracotta.lock`, on Unix and Windows | |
| `InstanceLockProofs` | theorems about `InstanceLock` and `DaemonStart` | |
| `DaemonStart` | the same on macOS: interfaces, launchd and its daemon | extends `InstanceLock` |
| `AndroidGlue` | VpnService requests from EasyTier through the polling thread to Java and back, and the export of the log | |
| `AndroidGlueProofs` | theorems about `AndroidGlue` | |
| `Loops` | no code: the loop invariant of `FoldLeft`, for the proofs | |

`MC<module>.tla` gives TLC the constants; `MC<module>.cfg` or
`MC<module>_<run>.cfg` is a run. Operators introduced by "Seeded fault" are
plausible bugs of the operator that follows. They are in no specification; each
is what a property must notice when it is put in the place of the correct
operator.

### Controller

A *session* is one accepted set_scanning or set_guesting. `pc[s]` is the place
of its thread, named for what it does next:

    scan -> host_create -> host_publish -> host_probe <-> host_check, host_lost
    guest_create -> guest_publish -> guest_discover -> guest_dial <-> guest_dial_check
      -> guest_ask_port -> guest_forward -> guest_settle -> guest_ping -> guest_list
      -> guest_merge -> guest_ping ..., with guest_start_fail and guest_ok_fail

An action is one critical section of the state mutex, or one piece of work
outside it. `value` is a record of the variant, its owner and the exception;
`easytier`, `scanner`, `fakeServer` say for each session what became of the
thing it created. `DropValue` is the drop glue of overwriting a value. The
answers of network, EasyTier and Minecraft are free choices.

In the code `index` and `sharing` are u32; the model uses natural numbers, a wrap
needs 2^32 state changes in one process.

### HostRoom

`profiles` is the sequence in HostOk; a SystemTime is replaced by its age in
ticks. `pending[g]` is a ping between its arrival at the server and the thread's
taking of the lock; it survives the guest and the room. The wall clock may be
set (`SetClock`): `duration_since` then fails or overshoots, as the code says.
`heard` is a history variable for one property.

### PlayerLists and GuestView

`Parse` and `Merge` are the two halves of the guest loop as folds over the
answer and over the list, in the code's order. They take the profile `me` of the
machine they run on, so that `RoomSync` can use them for each of its sessions.
`GuestView` is one guest; an answer is any list of items up to the bound: the
host is another program. Machine ids are numbers because
the code sorts by them. The sort is stable as the code's is (`Insert` puts a
profile behind those with its id), the search by id is `SameId`, which has one
element at most since `Parse` refuses twins. `MergeAt` is the code's `match`,
with guards that exclude each other: which of several arms that apply is taken
is open in TLA+, while a `match` takes the first. What happens with a host that
behaves is `RoomSync`'s subject.

### RoomSync

`HostRoom` with, for each session of a guest, a list that `Parse` and `Merge` of
`PlayerLists` work on. `stage[g]` is the place of the session in its loop: `ready` for a
ping, `pinging` until a server thread has taken it, `listing`, and `merging`
from the moment at which the host made the answer to the moment at which it is
merged; the table may change in between. A session joins once. Who comes back
does so as another session with the same machine id, and perhaps while the old
one is still in the table.

### RoomCode, PortForwards, GuestStart

A code is a sequence of characters; the alphabet and the number of digits are
parameters, the arithmetic is the code's. `Parse` looks at every window of the
text. `PortForwards` follows the vector `processes` of add_port_forward: `Spawn`
starts one CLI process at a time, `Wait` goes through the vector from its end and
takes by `swap_remove` what succeeded, `Sleep` ends the round. The processes end
by themselves, well or badly. If one cannot be started, `Spawn` ends the call with
false, and those that were started before it in this round stay behind as they
are: the exception that `EveryChildReaped` names (`CutShort`). `GuestStart` has the thread of start_guest up to
GuestOk: the text as typed, the network its code stands for, the members of the
network (free inputs, with and without the host), and two calls of
add_port_forward. What commands do meanwhile is `Controller`'s subject.

### LanScanner

A round is `Expire`, then `Receive` or `ReceiveNothing`, which publish. Both
removals of the code are kept as they are: the loop over falling indices, and
the search that ends with the first port found (which is the only one). An
announcement may wait on a socket while its server closes, or behind datagrams
that the filter refuses, which is why `ReceiveNothing` may be taken while there
is one. Times are ages; `SetBack` sets the clock back, after which ages may be
negative (`duration_since` fails) and the list is in order by arrival only.

### ScaffoldingLink

The guest's thread, the session thread and the server's thread, with the mpsc
channel of packets, the channel of each call, the `OnceLock` flag and the wire.
Any read or write may fail at any time, which stands for timeouts, resets and
the end of the stream. Requests have numbers that are not on the wire, so
that a property can tell whose answer a call got.

### InstanceLock and DaemonStart

flock(2) with its two kinds of locks. The conversion in set_port is two steps,
since flock releases before it takes; `overtaken` remembers the servers where
another process came between, `single` who became Single last. Any process may die at any time. The port in the
file is represented by the process that wrote it.

`platform` is chosen once. On Windows the lock is the open file: share mode 0
excludes as LOCK_EX does, share mode 3 as LOCK_SH. There a new Single does not
empty the file, waiting for a shared lock is given up after ten attempts
(`GiveUpShared`), and a server that cannot open its file again goes on without
a lock (second disjunct of `Convert`).

On macOS (`DaemonStart`), who finds the mutex free lets it go, calls launchctl
and looks again; only a daemon may serve. launchd keeps a daemon alive, so it
starts the next of `Daemons` when one is dead. `bootstrapped` are the interfaces
that have called launchctl, `loaded` says that launchd has the job: from login, by
a call that worked, or by one that was given up as stuck (`LoadLate`). The lock and `GetExclusive`,
`GetShared`, `SetPort` and `Convert` are those of `InstanceLock`.

### AndroidGlue

`node[i]` is what an EasyTier instance has got as address and routes; its task
reads the one, then the other, and writes a request into the slot that all
instances share. The polling thread takes it (`Poll`), logs - which may have to
wait for an export of the log -, calls Java (`Call`), and stands there until the
developer starts a VPN, rejects, or 30 s are over. `thrown` is a Java exception
that is pending in the thread's `JNIEnv`. A file descriptor is represented by
the configuration of the request it was made for. The configurations that a
network gives are bounded by `Given`; a node that is dropped has none.

## The runs

| run | instance | shows |
|---|---|---|
| `controller` | 2 sessions, loops of 2, 2 and 3, 2 in-place changes, fair threads | `NoUnreachable` (with the types), `CaptureIsOwnership`, `Supervised`, `NothingOrphaned`, `RoomHasResources`; `OnlyOwnerMoves`, `RefinesRoomSession`, `CrashDetected`, `CancelledWindsDown`, `StartResolves` |
| `hostroom_table` | 2 guests with every assignment of 3 machine ids, the host's among them; timeout of 2 ticks; one change of the clock | `TableWellFormed`, `HeardGuestsStay`, `SweepRemovesExpired`, `ChangesAreVersioned` |
| `roomsync` | 2 sessions: machines of their own, one machine for both, one that is the host's; timeout of 2 ticks; one change of the clock; fair | `NoFalseAlarm`, `ViewsConverge`, `GoneGuestsLeave` |
| `guestview` | 4 machines, 2 names, all answers of up to 3 items | `ViewWellFormed`, `ParseAcceptsTables`, `MergeMatchesAnswer`, `ViewIsVersioned` |
| `gueststart` | codes of 4 digits in base 4; every code alone, surrounded, in small letters, cut short, and with wrong characters; 3 rounds of CLI processes, 2 of discovery | `ParseFindsFirstRoom`, `RoomsApart`, `JoinedIsConnected`, `EveryChildReaped`, `StartResolves` |
| `lanscanner` | 3 servers, expiry of 2 ticks, the clock set back by one tick, fair | `FirstIsKnown`, `SilentServersVanish`, `SomeServerIsFound` |
| `lanscanner_list` | 3 servers | **violated**: `ListComplete` |
| `link` | 4 calls, fair threads | `AnswersMatchCalls`, `CallerNeverPanics`, `CallsReturn`, `LinkWindsDown` |
| `lock` | 4 processes of 3 releases on Unix and on Windows; 2 interfaces and 2 daemons on macOS; fair | `OneServer`, `FileNamesServer`, `ReadersFindServer`, `EveryoneSettles` |
| `lock_takeover` | 3 processes of 2 releases | **violated**: `GivingUpIsJustified` |
| `android` | 2 instances, 2 addresses (and none), 2 lists of routes, one change, one export, fair | `LastRequestKept`, `NoSecondRequest`, `TunFollowsNode` |
| `android_reject` | 1 instance, 2 changes, fair | **violated**: `AnsweredRequestsMakeWay` |

The largest has 770,000 states; each run takes less than three minutes.

### Bounds, and why they are enough

- *Sessions*: at most one session owns the value at a time and all stale ones
  behave alike; two give an owner and one that it has overtaken. The theorems
  remove this bound, and those of the loops.
- *Loop limits* (`DiscoverTries`, `DialTries`, `ProbeLimit`): one round less than
  the limit and the limit itself are all the code distinguishes.
- *`MaxSharing`*: captures depend on `index - sharing` only; one in-place change
  between two replacements already moves both.
- *Guests*: two guests and the host make neighbouring removals; the machine ids
  are any, so that guests are strangers, clones or an impostor of the host.
  `Timeout` of two ticks has young, old and expired entries. `MaxSkew`,
  `MaxJumps`: one jump of one tick makes an entry negative or expired early.
  `Versions`: the version is counted modulo this, two suffice to tell a change
  from none.
- *`MaxPlayers`*: answers of three items, with four machines, so that two answers
  can differ in all players but the host. Every pair of a reachable list and an
  answer is merged.
- *Sessions of `RoomSync`* (`MachinesOf`): two strangers; a guest that returns
  before its old session is over; an impostor of the host. Names differ, so that
  an entry with the wrong one is noticed.
- *`Group`, `Chars`, `Modulus`*: one digit in each group and four characters make
  256 numbers, of which the multiples of 7 are rooms; each is created, and
  written into all texts of `TypedTexts`. `U` and `A` are among the characters,
  so that a code may begin inside another one.
- *`Rounds`* is that of the code. *Rules*: the code's one and four.
- *`MaxChanges`, `MaxExports`*: one change overtakes the first request of an
  instance at every place of the polling thread, two instances overtake each
  other. Two changes are what follows a rejection. The theorems remove these
  bounds. *`Given`*: both real addresses and both lists of routes, so that a
  tunnel for the address of one moment and the routes of another can be told
  from either.
- *Servers, `Expiry`*: two known servers are what the order of the list needs,
  the third is heard while another expires. `MaxBack`: one tick makes ages
  negative and the times disagree with the order.
- *`Calls`*: a late answer concerns the next call; four leaves room for more.
- *Processes*: an old server, two rivals for its place, and a third release that
  overtakes the winner. *Daemons*: one that is thrown out, and the next.

Deadlock is checked except where a run ends by itself: the processes of
`InstanceLock` and `DaemonStart` all settle or die, a session of
`ScaffoldingLink` and a thread of `GuestStart` are over, and in `AndroidGlue` the
polling thread may be dead.

### Fairness

Only what the program's own threads do is fair, and weakly so: a thread that can
go on does, since it sleeps for a fixed time, blocks on a mutex held briefly, or
reads with a timeout.

- `Controller`: each worker, scanner and fake server thread. Not the commands of
  the user, nor crashes, nor pings of guests.
- `RoomSync`: the clock, the monitor (every 5 s), the server's thread once it
  has a ping, and the loop of a session, whatever it does next. Nobody has to
  join, leave, open, close or set the clock.
- `GuestStart`: start_guest, and the end of every CLI process.
- `LanScanner`: the scanner's loop, whose sockets time out after 500 ms, the
  clock, and Minecraft's announcements of an open world. A datagram that
  waits on a socket is read in the end, since a socket hands them out in turn: that
  is a strong fairness, for the round ends with whatever came before it.
- `ScaffoldingLink`: the three threads; the failure of a read stands for its
  64 s timeout. The guest need not make another call.
- `InstanceLock`, `DaemonStart`: each process, the exit that /panic asks for, and
  launchd. Nobody has to crash, and launchctl has neither to work nor to fail.
- `AndroidGlue`: the task of each instance, the polling thread, an answer of the
  developer or the end of its 30 s, and the app's closing of an export. Networks
  need not change, nor instances start or end.

### Disagreements found

- `lanscanner_list`: `mc/scanning.rs:142` pushes `ports[0].0` for every known
  port, where the log line it builds, "Updating server list to [...]", is a list
  of the servers. With two servers known, one is listed twice. The program uses
  only the first entry, which is right (`FirstIsKnown`).
- `lock_takeover`: `main.rs:509` says "global mutex hasn't been released after
  3000ms" when get_state does not return Single. It also gets there when the old
  server is dead and a third process was faster. The port of that process is
  thrown away, and the page of the dead server is opened.

- `android_reject`: `TerracottaAndroidAPI.java:48-49` (and 62-63) says that a developer who
  either starts the VpnService or rejects keeps Terracotta from being stuck.
  After a rejection the polling thread logs the exception and leaves it pending
  (`lib.rs:235`), so that its next calls into Java fail: the next request does
  not get there. The same happens after a request that timed out.

What the models show beside that, and no line of the repository denies:

- With the non-atomic conversion of set_port two processes can serve at once,
  the first with its port gone from the file; this is why `OneServer` and
  `FileNamesServer` except `overtaken` servers. On Windows the first is then
  without a lock as well. On macOS the one that comes between may be an
  interface that only looks, and leaves the file empty: the daemon serves and
  is not found, and whoever looks for it ends with an error.
- On macOS the same short look can make a starting daemon panic; launchd starts
  the next one.
- A room stays in HostStarting or GuestConnecting when easytier::create panics,
  until the user cancels: the exception in `Supervised` and `StartResolves`.
- On Android, an instance whose room was cancelled while it was launched may
  overwrite the request of the instance that replaced it (`last` in
  `LastRequestKept` and `TunFollowsNode`).

## What is proved

`ControllerProofs` proves, for every set of sessions, all loop limits and any
number of in-place changes, from `SessionsAssumption` (no session is the name
for "nobody") and `LimitsAssumption` (the limits are positive numbers):

| theorem | says |
|---|---|
| `TypeCorrect` | types; `index - sharing` does not underflow; loop counters stay within their limits |
| `InvariantHolds` | `Spec => []IInv` |
| `NoUnreachableHolds` | no `unreachable!()` of a worker is reached |
| `CaptureIsOwnershipHolds` | a capture that passes is its owner's, in the right stage |
| `RoomHasResourcesHolds` | what a shown room refers to is there |
| `SupervisedHolds` | each shown room has its thread with a good capture |
| `NothingOrphanedHolds` | what runs has an owner |
| `OnlyOwnerMovesHolds` | a worker changes the state only if it is its own (action property) |
| `RefinesRoomSessionHolds` | `Controller` implements `RoomSession` |

The inductive invariant `IInv` is the conjunction of `TypeOK`,
`CaptureIsOwnership`, `Supervised`, `NothingOrphaned` and `RoomHasResources`.
None of the four after `TypeOK` is inductive alone. The core is
`CaptureIsOwnership`: captures are never ahead of the last replacement (`Base`),
and one that equals it belongs to the owner, in the stage its thread works in. It
needs no other part. `Supervised` needs it, to know that a thread that writes is
the owner's; `NothingOrphaned` needs it, to know whose resources a replacement
drops; `RoomHasResources` needs both, to know that nobody else has dropped them.
`RoomInvStep` proves the step, one case per action and one step per conjunct.
`NoUnreachable` follows from `CaptureIsOwnership`; the action property and the
refinement use `IInv` in the current state, action by action (`EnterAdvances`,
`EndFails`, `ChangeUpdates`, `QuietStutters`).

`FirstIsKnownHolds`, in the same module, is about `LanScanner`, for any number of
servers and any expiry time, from `LanScannerAssumption`: the first published
port, which set_scanning hosts, is that of a server the thread still knows,
however far the clock is set back. `FirstIsKnown` is inductive as it stands, since it has the order of the list in
it: servers appear once, so that removing the first match removes the server.

`InstanceLockProofs` proves, for every set of processes and every assignment of
releases, from `InstanceLockAssumption` (releases are numbers, no process is the
empty port) and `DaemonsAssumption` (daemons are processes), the first four for
Unix and Windows, the others for macOS as well:

| theorem | says |
|---|---|
| `Inductive` | `Spec => []IInv` |
| `OneServerHolds` | at most one process that was not overtaken holds the mutex and serves |
| `FileNamesServerHolds` | until then, the file names it |
| `OnlyOlderGiveWayHolds` | only an older build is asked to exit |
| `StartInductive` | `StartSpec => []StartInv`, that of all three platforms |
| `StartOneServer`, `StartFileNamesServer` | the same two with launchd, its daemons and the interfaces that look for them |
| `ReadersFind` | who reads the file finds a server's port; or else the last Single died before set_port, or was a macOS interface |

Its `IInv` adds to these what makes them inductive: the place of each process
tells its lock (`LocksAgree`), the locks exclude each other (`LocksExclude`), a
Single has overtaken every server in its conversion (`SingleOvertakes`), and a
process reads one port, before it asks (`PortsRead`). A Single and a serving
process cannot meet because of their locks; a Single and a converting one only
by overtaking; two servers past set_port are one because the file names both.
The three groups of conjuncts are preserved separately (`TypeStep`, `LocksStep`,
`PortsStep`). `ReadersFind` needs two more: the port in the file was written by a
server (`FileWritten`), and an empty file has a reason (`EmptyFileExplained`): nobody was
Single yet, somebody is launching, or the last Single is dead or an interface that
let go. The history variable `single` tells which process that was; it also
holds the exclusive lock if anybody does (`LocksExclude`). On macOS the steps of
an interface that looks, of launchd and of a daemon that panics are added, one
case each.

`AndroidGlueProofs` proves, for every set of instances, addresses and routes and
any number of changes and exports, from `AndroidAssumption` (the unset address
and routes are ones), `GivenAssumption` (the networks give configurations) and
`NoRequestAssumption` (no request is the name for
none):

| theorem | says |
|---|---|
| `Inductive` | `Spec => []IInv` |
| `LastRequestKeptHolds` | the last request waits, is in the thread's hand, or is served - unless an exception is pending |
| `NoSecondRequestHolds` | Java is not entered over a request it still has |

`IInv` adds `HandsAgree` to `LastRequestKept`: without the place of the polling
thread one cannot know that the request in its hand is the one that Java answers.

`ScaffoldingLinkProofs` proves, for any number of calls:

| theorem | says |
|---|---|
| `Inductive` | `Spec => []IInv` |
| `AnswersMatch` | a call that returns a response returns that of its own request, which was handled once |
| `NoPanic` | no `unwrap` and no `unreachable!()` of the client is hit |

Requests have no number on the wire. That answers cannot slip by one is because
each number is in one place at a time - guest, channel, session thread, wire,
server - and everything before it is answered or dead, which the invariant
says place by place.

`Loops` is about `FoldLeft`, by which the models write the program's loops. The
provers have no induction over data and take no operator as a hypothesis, so the
body of the loop is a constant of the module, instantiated for each loop, and
the loop invariant is a *set* of pairs <<rounds, value>>: `LoopInvariant` says
that a set that has the start, and with every value also what the next round
makes of it, has the result. It is proved from the definition of the fold, by
the well-foundedness of < on the natural numbers.

`HostRoomProofs` proves, for any number of guests, machine ids (equal ones
included), changes of the clock and lists of any length:

| theorem | says |
|---|---|
| `Inductive` | `Spec => []IInv` |
| `HostTable` | the host first, every machine once, only the host HOST |
| `HeardStay` | unless the clock was set, nobody is removed within 10 s of a ping |
| `SweepExact` | the monitor's loop removes exactly the silent guests, and keeps the order |
| `VersionedChanges` | what is shown does not change without a new version (unless versions are counted modulo 1) |
| `RoomSyncIsHostRoom` | a room with its guests' sessions is a `HostRoom`: `SyncSpec => Spec` |
| `NoFalseAlarmHolds` | no session takes the host for a broken one, for any number of sessions, equal machine ids, changes of the clock and removals between two answers |

`IInv` adds that the table of a closed room is empty, the range of the ages
(`AgesBounded`: how far the clock was set back bounds them), and `AgesAreHeard`:
the age of an entry is the time since its machine was heard, which is why the
monitor removes nobody too early. The loop invariant of the removal is `SweptBy`:
behind the place the loop has come down to, the fresh entries are left, in order;
in front of it nothing has moved.

`NoFalseAlarmHolds` is about `RoomSync`, from `RoomSyncAssumption` and the
assumptions of the two modules it composes. `TableWellFormed` comes from
`RoomSyncIsHostRoom`. Its own invariant is `SyncInv`: an answer on its way is a
table the host had at some time (`IsTable`: every machine once, the host alone
HOST), whoever has asked for it is not taken for the host, and a list shows every
machine once and in its role (`IsListOf`). It need not know *which* table: the
role of a machine is the same in all of them, and whether a machine is there
contradicts nothing. `TableIsMerged` takes an answer through a guest's loops by
two facts of `GuestViewProofs`: `Parse` accepts a table, and `MergeAgreed`, that
a merge refuses nothing when list and answer agree about roles.

`GuestViewProofs` proves, for every set of machines and names and answers of
any length and content (its lemmas are about any machine's profile):

| theorem | says |
|---|---|
| `ViewOK` | every machine once, this one as LOCAL under its name, at most one HOST |
| `TablesAccepted` | reading, sorting and comparing neighbours accepts exactly the lists that can be a player table |
| `MergeIsReplacement` | but for this machine, the merge in place comes to the answer, and reports a change exactly when there is one |
| `VersionedView` | the list changes exactly when the version does |

`ViewWellFormed` is inductive as it stands. The work is in the four loops of a
round and their invariants: `ReadTo` (the flags of the reader are what it has
seen), `SortedBy` (the sorted part is a permutation of what was taken, in
order), `MergedTo` (what the loop has passed is in the answer and marked, what
lies before it has not moved) and `AddedTo` (what is new and was passed is
appended).

`GuestStartProofs` proves, for any number of rounds, codes and members, any
alphabet, number of digits and modulus, from `RoomCodeAssumption` (the characters
are different, 0 and 1 among them, I, O, the dash and what upper case changes
not), `GuestStartAssumption` and `RulesAssumption` (the rules are the five that
start_guest asks for):

| theorem | says |
|---|---|
| `Inductive` | `Spec => []IInv` |
| `ChildrenReaped` | no rule is retried that was added; every CLI process is waited for in its round, except those started before one that could not be |
| `GuestConnected` | who has joined is in the host's network, and all its forwards are there while EasyTier runs |
| `FindsFirstRoom` | parse finds the leftmost code of a room in a text, and none only if there is none |
| `RoomsHaveOwnNetworks` | the network that is joined is that of one room |

The last two rest on lemmas about the operators of `RoomCode`. `ReadingOfDigits`
and `DigitsOfReading` say that from_value and the loop of parse are inverse: the
loop invariants are that after k digits the value is the number without its
lower digits, and that it has the digits read so far. Of division they need
only that dividing twice is dividing by the product (`DivisionTwice`), which is
why the code's 34^16 is the function `Power`. `PlacesOfDigits` and
`DigitsAtPlaces` are about the dashes, `WindowMatches` about a window of the text.

The invariant behind the others follows `swap_remove`: what lies behind the cursor of the loop has
been waited for, what was moved to a place came from behind it, and every rule
is in the vector or installed.

Each of the safety properties was model-checked in a run before it was proved,
and the inductive invariants were checked by TLC on the instances of the runs.

## What is only model-checked

- All liveness properties: the proof system does not handle `ENABLED` and
  fairness.

Every invariant and every action property of the runs that pass is stated by a
theorem. No module uses a recursive operator; `Power` of `RoomCode` is a
recursive function, which the proofs show to exist.

## What is not modelled

- The bytes: JSON, packet framing, LAN datagrams, command lines, log texts.
- Dialling a session and serving several connections: `ScaffoldingLink` has one
  session from the moment it is open; failing calls are free choices elsewhere.
- The machine id file and the cleanup of old files: decisions about file ages
  and I/O errors. Equal machine ids, which they may lead to, are inputs of
  `HostRoom` and `RoomSync`.
- Free ports (`ports.rs`): a port that is taken meanwhile is a connection that
  fails. The unpacking of executables, public nodes and the configuration of an
  EasyTier: data that is passed on.
- Static files, the web page, the macOS window, the log download, build scripts:
  no protocol. Of the JNI entry points, those that only convert strings and
  call the controller.
- Durations of critical sections with the debug-only panic on long ones, and the
  wrap of the u32 version after 2^32 changes.
- CLI processes that never end: add_port_forward waits for them with the state
  locked, and `StartResolves` of `GuestStart` assumes that they do.

## Plan

Done: all modules above.

What is left, in the order of what it would add:

1. `DialSession`: several sessions of one server, with the accept loop.
2. `MachineId`: the id file and the cleanup beside a live process.
