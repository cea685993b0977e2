----------------------------- MODULE DaemonStart -----------------------------
(***************************************************************************)
(* macOS beside the other platforms of InstanceLock: there the only server *)
(* is a daemon that launchd runs.  Who finds the mutex free lets it go,    *)
(* has launchctl start the daemon, and looks again five seconds later; no  *)
(* release takes over from another.  launchd keeps the daemon alive: the   *)
(* next of Daemons is started when the last one is dead.                   *)
(***************************************************************************)
EXTENDS InstanceLock

CONSTANT Daemons    \* on macOS, the daemons that launchd starts, one by one

ASSUME DaemonsAssumption == Daemons \subseteq Processes

VARIABLES
  bootstrapped,   \* processes that have called launchctl
  loaded          \* launchd has the job

job == <<bootstrapped, loaded>>
startVars == <<vars, job>>

Interfaces == Processes \ Daemons

MacInit ==
  /\ platform = "macos"
  /\ pc = [p \in Processes |-> IF p \in Daemons THEN "off" ELSE "start"]
  /\ FreeLock

\* launchd loads the job at login, if it was there by then.
StartInit ==
  /\ bootstrapped = {}
  /\ \/ LockInit /\ loaded = FALSE
     \/ MacInit /\ loaded \in BOOLEAN

-----------------------------------------------------------------------------
(* main_general, as compiled for macOS.  The first three actions follow    *)
(* get_state's GetExclusive, the last two its GetShared.                   *)

\* The mutex was free, and is let go.
LetGo(p) ==
  /\ pc[p] = "launching"
  /\ p \notin bootstrapped
  /\ Released(p)
  /\ Goto(p, "asking")
  /\ UNCHANGED <<file, port, asked, history, job>>

\* launchctl bootstrap; it fails if the job is loaded already, or for reasons of
\* its own.
Bootstrap(p) ==
  /\ pc[p] = "asking"
  /\ bootstrapped' = bootstrapped \cup {p}
  /\ \/ ~loaded /\ loaded' = TRUE /\ Goto(p, "waiting")
     \/ UNCHANGED loaded /\ Goto(p, "failed")
  /\ UNCHANGED <<locks, port, asked, history>>

\* Five seconds later the mutex is free again.
GiveUp(p) ==
  /\ pc[p] = "launching"
  /\ p \in bootstrapped
  /\ Released(p)
  /\ Goto(p, "failed")
  /\ UNCHANGED <<file, port, asked, history, job>>

\* Secondary opens the page; Unknown is an error.
ReadOrFail(p) ==
  /\ pc[p] \in {"reading", "rereading"}
  /\ Released(p)
  /\ IF file # NoPort THEN Goto(p, "joined") /\ port' = [port EXCEPT ![p] = file]
                      ELSE Goto(p, "failed") /\ UNCHANGED port
  /\ UNCHANGED <<file, asked, history, job>>

-----------------------------------------------------------------------------
(* main_daemon: Single serves, everything else panics. *)

\* One that got stuck was not killed, and may load the job after all.
LoadLate ==
  /\ bootstrapped # {}
  /\ ~loaded
  /\ loaded' = TRUE
  /\ UNCHANGED <<pc, locks, port, asked, history, bootstrapped>>

LaunchdStarts(d) ==
  /\ loaded
  /\ pc[d] = "off"
  /\ \A e \in Daemons : pc[e] \in {"off", "dead"}
  /\ Goto(d, "start")
  /\ UNCHANGED <<locks, port, asked, history, job>>

\* "Deamon must run in server mode, ...".
PanicAsSecondary(d) == pc[d] = "reading" /\ Die(d) /\ UNCHANGED job

-----------------------------------------------------------------------------

GetState(p) == (GetExclusive(p) \/ GetShared(p)) /\ UNCHANGED job

InterfaceStep(p) ==
  GetState(p) \/ LetGo(p) \/ Bootstrap(p) \/ GiveUp(p) \/ ReadOrFail(p)

DaemonStep(d) ==
  \/ GetState(d)
  \/ PanicAsSecondary(d)
  \/ (SetPort(d) \/ Convert(d)) /\ UNCHANGED job

MacNext ==
  /\ platform = "macos"
  /\ \/ \E p \in Interfaces : InterfaceStep(p)
     \/ LoadLate
     \/ \E d \in Daemons : LaunchdStarts(d) \/ DaemonStep(d)
     \/ \E p \in Processes : pc[p] # "off" /\ Die(p) /\ UNCHANGED job
  /\ UNCHANGED platform

StartNext ==
  \/ platform # "macos" /\ LockNext /\ UNCHANGED job
  \/ MacNext

StartSpec == StartInit /\ [][StartNext]_startVars

\* Processes run and web servers answer; and launchd does
\* its work.  Nobody has to crash, nor a launchctl to fail.
Runs(p) ==
  IF platform # "macos" THEN ProcessStep(p) /\ UNCHANGED job
  ELSE IF p \in Daemons THEN DaemonStep(p) ELSE InterfaceStep(p)

StartFairSpec ==
  /\ StartSpec
  /\ \A p \in Processes :
       /\ WF_startVars(Runs(p) /\ UNCHANGED platform)
       /\ WF_startVars(platform # "macos" /\ ExitPeacefully(p) /\ UNCHANGED <<platform, job>>)
  /\ \A d \in Daemons : WF_startVars(platform = "macos" /\ LaunchdStarts(d) /\ UNCHANGED platform)

-----------------------------------------------------------------------------
(* Properties. *)

\* Every process that starts ends up as a server, with a page or an error to
\* show, or dead; waiting for the lock of a launching server is never for ever.
\* A daemon that was started and thrown out by the lock of an interface that
\* only looked is replaced, as long as launchd starts daemons, by one that
\* serves.
EveryoneSettles ==
  /\ \A p \in Processes :
       pc[p] = "start" ~> pc[p] \in {"serving", "lockless", "joined", "failed", "dead"}
  /\ loaded ~> \/ \E d \in Daemons : pc[d] = "serving"
               \/ \A d \in Daemons : pc[d] = "dead"

\* Who reads the file finds the port of a server, which may have died in the
\* meantime, and finds it empty only if the last Single, which emptied it, died
\* before set_port, or was an interface on macOS, which let the mutex go - never
\* because the reader came too early.
ReadersFindServer ==
  \A p \in Processes : pc[p] = "reading" =>
    IF file # NoPort
    THEN pc[file] \in {"converting", "serving", "dead"}
    ELSE /\ single # NoPort
         /\ \/ pc[single] = "dead"
            \/ platform = "macos" /\ single \in Interfaces

\* The inductive invariant behind it, on top of InstanceLock's: the port in the
\* file was written by a server; and the file is empty because nobody was Single
\* yet, because somebody is launching, or for one of these two reasons.
FileWritten == file # NoPort => pc[file] \in {"converting", "serving", "dead"}

EmptyFileExplained ==
  file = NoPort =>
    \/ exclusive # {}
    \/ single = NoPort /\ \A p \in Processes : pc[p] \in {"off", "start", "dead"}
    \/ single # NoPort /\ pc[single] = "dead"
    \/ platform = "macos" /\ single \in Interfaces

\* A daemon has read nothing before launchd starts it, and on macOS nobody is
\* asked to give way.
Untouched ==
  /\ \A p \in Processes : pc[p] = "off" => port[p] = NoPort
  /\ platform = "macos" => asked = {}

StartInv ==
  /\ IInv
  /\ bootstrapped \subseteq Processes
  /\ loaded \in BOOLEAN
  /\ FileWritten
  /\ EmptyFileExplained
  /\ Untouched

=============================================================================
