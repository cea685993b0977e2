----------------------------- MODULE InstanceLock -----------------------------
(***************************************************************************)
(* How the processes of one user find their single server: the lock file   *)
(* of src/lock_unix.rs and src/lock_windows.rs as main_general,            *)
(* main_single, main_secondary and secondary_switch of src/main.rs use it. *)
(* DaemonStart adds what macOS does differently.                           *)
(*                                                                         *)
(* The lock is flock(2) on terracotta.lock.  Converting a lock with flock  *)
(* releases it before it takes it again, and others may come between.  On  *)
(* Windows, a lock is the open file: opened with share mode 0 it keeps all *)
(* others out, with share mode 3 only those who want it for themselves.    *)
(* The file holds the port of a server; here, the process that wrote it.   *)
(* A process may die at any moment, and with it the locks it holds.        *)
(***************************************************************************)
EXTENDS Naturals, FiniteSets

CONSTANTS
  Processes,
  Built,       \* compile_timestamp of each process
  NoPort       \* the file is empty

ASSUME InstanceLockAssumption ==
  /\ Built \in [Processes -> Nat]
  /\ NoPort \notin Processes

VARIABLES
  platform,    \* what the build is for
  pc,          \* where the process is in its main function
  exclusive,   \* processes holding LOCK_EX
  shared,      \* processes holding LOCK_SH
  file,        \* content of terracotta.lock
  port,        \* the port a process has read
  asked,       \* servers that /panic?peaceful=true was sent to
  overtaken,   \* history: servers another one came between in the conversion
  single       \* history: the process that became Single last

locks == <<exclusive, shared, file>>
history == <<overtaken, single>>
vars == <<platform, pc, locks, port, asked, history>>

-----------------------------------------------------------------------------

\* On macOS: a daemon that launchd has not started, a process before it calls
\* launchctl, one that shows an error.
MacPlaces == {"off", "asking", "failed"}

Places == {"start", "queued", "reading", "launching", "converting", "serving",
           "lockless", "switching", "waiting", "requeued", "rereading",
           "joined", "dead"} \cup MacPlaces

\* Processes that run, or are about to run, the server of the mutex.
Holding == {"launching", "converting", "serving"}

\* Processes whose web server answers.
Answering == {"converting", "serving", "lockless"}

Goto(p, place) == pc' = [pc EXCEPT ![p] = place]

\* What is granted: an exclusive lock to one without company, a shared one as
\* long as nobody has an exclusive one.
ExclusiveFree == exclusive = {} /\ shared = {}
SharedFree == exclusive = {}

Released(p) ==
  /\ exclusive' = exclusive \ {p}
  /\ shared' = shared \ {p}

-----------------------------------------------------------------------------

FreeLock ==
  /\ exclusive = {}
  /\ shared = {}
  /\ file = NoPort
  /\ port = [p \in Processes |-> NoPort]
  /\ asked = {}
  /\ overtaken = {}
  /\ single = NoPort

LockInit ==
  /\ platform \in {"unix", "windows"}
  /\ pc = [p \in Processes |-> "start"]
  /\ FreeLock

(* Seeded faults of get_state: the lock is taken ... *)
GetExclusiveBesideShared(p) ==   \* ... beside the shared lock of a server
  /\ pc[p] = "start" \/ pc[p] = "waiting"
  /\ \/ /\ SharedFree
        /\ exclusive' = exclusive \cup {p}
        /\ file' = NoPort
        /\ overtaken' = overtaken \cup {q \in Processes : pc[q] = "converting"}
        /\ single' = p
        /\ Goto(p, "launching")
        /\ UNCHANGED shared
     \/ /\ ~SharedFree
        /\ Goto(p, IF pc[p] = "start" THEN "queued" ELSE "requeued")
        /\ UNCHANGED <<locks, history>>
  /\ UNCHANGED <<port, asked>>
GetExclusiveTruncating(p) ==     \* ... on a file that open() has truncated
  /\ pc[p] = "start" \/ pc[p] = "waiting"
  /\ file' = NoPort
  /\ \/ /\ ExclusiveFree
        /\ exclusive' = exclusive \cup {p}
        /\ overtaken' = overtaken \cup {q \in Processes : pc[q] = "converting"}
        /\ single' = p
        /\ Goto(p, "launching")
        /\ UNCHANGED shared
     \/ /\ ~ExclusiveFree
        /\ Goto(p, IF pc[p] = "start" THEN "queued" ELSE "requeued")
        /\ UNCHANGED <<exclusive, shared, history>>
  /\ UNCHANGED <<port, asked>>

\* get_state, `flock(LOCK_EX | LOCK_NB)` or `share_mode(0)`: become Single, and
\* but on Windows with an empty file, or go and wait for a shared lock.  Called
\* at the start of the process and once more after a take-over.
GetExclusive(p) ==
  /\ pc[p] = "start" \/ pc[p] = "waiting"
  /\ \/ /\ ExclusiveFree
        /\ exclusive' = exclusive \cup {p}
        /\ file' = IF platform = "windows" THEN file ELSE NoPort
        /\ overtaken' = overtaken \cup {q \in Processes : pc[q] = "converting"}
        /\ single' = p
        /\ Goto(p, "launching")
        /\ UNCHANGED shared
     \/ /\ ~ExclusiveFree
        /\ Goto(p, IF pc[p] = "start" THEN "queued" ELSE "requeued")
        /\ UNCHANGED <<locks, history>>
  /\ UNCHANGED <<port, asked>>

(* Seeded fault: LOCK_SH | LOCK_NB, whose failure is ignored as well. *)
GetSharedAtOnce(p) ==
  /\ pc[p] = "queued" \/ pc[p] = "requeued"
  /\ shared' = IF SharedFree THEN shared \cup {p} ELSE shared
  /\ Goto(p, IF pc[p] = "queued" THEN "reading" ELSE "rereading")
  /\ UNCHANGED <<exclusive, file, port, asked, history>>

\* `flock(LOCK_SH)`, which waits for a server that is still launching, or
\* `share_mode(3)`, which is tried ten times, one second apart.
GetShared(p) ==
  /\ pc[p] = "queued" \/ pc[p] = "requeued"
  /\ SharedFree
  /\ shared' = shared \cup {p}
  /\ Goto(p, IF pc[p] = "queued" THEN "reading" ELSE "rereading")
  /\ UNCHANGED <<exclusive, file, port, asked, history>>

\* On Windows, the last of these attempts fails: Unknown, at first for a process
\* that then serves without the mutex, after a take-over ignored.
GiveUpShared(p) ==
  /\ platform = "windows"
  /\ pc[p] = "queued" \/ pc[p] = "requeued"
  /\ ~SharedFree
  /\ Goto(p, IF pc[p] = "queued" THEN "lockless" ELSE "joined")
  /\ UNCHANGED <<locks, port, asked, history>>

\* The first get_state returns: Secondary with the port in the file, or
\* Unknown, which serves without the mutex.  The file is closed.
Read(p) ==
  /\ pc[p] = "reading"
  /\ Released(p)
  /\ \/ /\ file # NoPort
        /\ port' = [port EXCEPT ![p] = file]
        /\ Goto(p, "switching")
     \/ /\ file = NoPort
        /\ UNCHANGED port
        /\ Goto(p, "lockless")
  /\ UNCHANGED <<file, asked, history>>

\* The second one, after a take-over: what it read is ignored.
ReadAgain(p) ==
  /\ pc[p] = "rereading"
  /\ Released(p)
  /\ Goto(p, "joined")
  /\ UNCHANGED <<file, port, asked, history>>

\* secondary_switch up to its sleep: a newer build asks the server behind the
\* port to exit; otherwise, or if nothing answers /meta, the port is opened.
Switch(p) ==
  /\ pc[p] = "switching"
  /\ \/ /\ pc[port[p]] \in Answering
        /\ Built[p] > Built[port[p]]
        /\ asked' = asked \cup {port[p]}
        /\ Goto(p, "waiting")
     \/ /\ \/ pc[port[p]] \notin Answering
           \/ Built[p] <= Built[port[p]]
        /\ Goto(p, "joined")
        /\ UNCHANGED asked
  /\ UNCHANGED <<locks, port, history>>

(* Seeded fault: the server keeps its exclusive lock. *)
SetPortExclusively(p) ==
  /\ pc[p] = "launching"
  /\ file' = p
  /\ Goto(p, "serving")
  /\ UNCHANGED <<exclusive, shared, port, asked, history>>

\* set_port, once the web server has its port: write it, and release the
\* exclusive lock as the first half of the conversion; on Windows the file is
\* closed.
SetPort(p) ==
  /\ pc[p] = "launching"
  /\ file' = p
  /\ exclusive' = exclusive \ {p}
  /\ Goto(p, "converting")
  /\ UNCHANGED <<shared, port, asked, history>>

\* Its second half, which waits while another process is Single; on Windows the
\* file is opened again, and if another process is Single, the server has no
\* lock from then on.
Convert(p) ==
  /\ pc[p] = "converting"
  /\ \/ SharedFree /\ shared' = shared \cup {p}
     \/ platform = "windows" /\ ~SharedFree /\ UNCHANGED shared
  /\ Goto(p, "serving")
  /\ UNCHANGED <<exclusive, file, port, asked, history>>

Die(p) ==
  /\ pc[p] # "dead"
  /\ Released(p)
  /\ Goto(p, "dead")
  /\ UNCHANGED <<file, port, asked, history>>

\* /panic?peaceful=true: process::exit(0).
ExitPeacefully(p) == p \in asked /\ Die(p)

-----------------------------------------------------------------------------

ProcessStep(p) ==
  \/ GetExclusive(p)
  \/ GetShared(p)
  \/ GiveUpShared(p)
  \/ Read(p)
  \/ ReadAgain(p)
  \/ Switch(p)
  \/ SetPort(p)
  \/ Convert(p)

LockNext ==
  /\ \E p \in Processes : ProcessStep(p) \/ ExitPeacefully(p) \/ Die(p)
  /\ UNCHANGED platform

Spec == LockInit /\ [][LockNext]_vars

-----------------------------------------------------------------------------
(* Properties. *)

TypeOK ==
  /\ platform \in {"unix", "windows", "macos"}
  /\ pc \in [Processes -> Places]
  /\ exclusive \subseteq Processes
  /\ shared \subseteq Processes
  /\ file \in Processes \cup {NoPort}
  /\ port \in [Processes -> Processes \cup {NoPort}]
  /\ asked \subseteq Processes
  /\ overtaken \subseteq Processes
  /\ single \in Processes \cup {NoPort}

\* One process at a time holds the mutex as Single and serves, from before
\* its web server has a port until it is dead - except a server overtaken by
\* another in the middle of its conversion.
OneServer ==
  /\ TypeOK
  /\ \A p, q \in Processes \ overtaken :
       pc[p] \in Holding /\ pc[q] \in Holding => p = q

\* While a server that was not overtaken serves, the file names it: nobody
\* else's get_state has truncated or written it.
FileNamesServer ==
  \A p \in Processes \ overtaken : pc[p] \in {"converting", "serving"} => file = p

\* Only an older build is asked to give way.
OnlyOlderGiveWay ==
  \A q \in asked : \E p \in Processes : Built[p] > Built[q] /\ port[p] = q

\* The inductive invariant behind these three: the places of the processes tell
\* who holds which lock and who has read a port, the locks exclude each other
\* as flock has it, and whoever is in its conversion when another one becomes
\* Single counts as overtaken.
LocksAgree ==
  \A p \in Processes :
    /\ p \in exclusive <=> pc[p] = "launching"
    /\ p \in shared => pc[p] \in {"serving", "reading", "rereading"}
    /\ pc[p] \in {"reading", "rereading"} => p \in shared
    /\ pc[p] = "serving" /\ p \notin overtaken => p \in shared

LocksExclude ==
  /\ exclusive \subseteq {single}
  /\ exclusive # {} => shared = {}

SingleOvertakes ==
  \A p, q \in Processes :
    pc[p] = "launching" /\ pc[q] = "converting" => q \in overtaken

PortsRead ==
  \A p \in Processes :
    /\ pc[p] \in {"start", "queued", "reading"} => port[p] = NoPort
    /\ pc[p] = "switching" => port[p] # NoPort

IInv ==
  /\ TypeOK
  /\ LocksAgree
  /\ LocksExclude
  /\ SingleOvertakes
  /\ PortsRead
  /\ FileNamesServer
  /\ OnlyOlderGiveWay

\* "Failed to take over from legacy Terracotta: global mutex hasn't been
\* released after 3000ms.": when the mutex is refused, the legacy server lives.
GivingUpIsJustified ==
  [][\A p \in Processes :
       pc[p] = "waiting" /\ pc'[p] = "requeued" /\ port[p] # NoPort
         => pc[port[p]] # "dead"]_vars

=============================================================================
