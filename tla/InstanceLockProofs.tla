-------------------------- MODULE InstanceLockProofs --------------------------
(***************************************************************************)
(* Theorems about InstanceLock and DaemonStart, for all sets of processes, *)
(* releases and daemons: one server of the mutex at a time, whose port is  *)
(* the one in the file, but for servers overtaken in the middle of their   *)
(* conversion; only an older build is asked to give way; and who reads the *)
(* file finds a server in it, unless somebody died or let the mutex go.    *)
(***************************************************************************)
EXTENDS DaemonStart, TLAPS

USE InstanceLockAssumption, DaemonsAssumption

\* Initially nobody holds a lock, has read a port or was asked for anything.
LEMMA InitInv == LockInit => IInv
  BY DEF LockInit, FreeLock, IInv, TypeOK, Places, MacPlaces, LocksAgree, LocksExclude,
         SingleOvertakes, PortsRead, FileNamesServer, OnlyOlderGiveWay

\* The variables keep their types; that a process in secondary_switch has read
\* a port is what keeps the type of "asked".
LEMMA TypeStep == TypeOK /\ PortsRead /\ [LockNext]_vars => TypeOK'
<1> SUFFICES ASSUME TypeOK, PortsRead, [LockNext]_vars
             PROVE  TypeOK'
  OBVIOUS
<1> UNCHANGED platform
  BY DEF LockNext, vars
<1> USE DEF TypeOK, Places, MacPlaces, Goto, locks, history
<1>1. ASSUME NEW p \in Processes, GetExclusive(p) PROVE TypeOK'
  BY <1>1 DEF GetExclusive
<1>2. ASSUME NEW p \in Processes, GetShared(p) PROVE TypeOK'
  BY <1>2 DEF GetShared
<1>3. ASSUME NEW p \in Processes, GiveUpShared(p) PROVE TypeOK'
  BY <1>3 DEF GiveUpShared
<1>4. ASSUME NEW p \in Processes, Read(p) PROVE TypeOK'
  BY <1>4 DEF Read, Released
<1>5. ASSUME NEW p \in Processes, ReadAgain(p) PROVE TypeOK'
  BY <1>5 DEF ReadAgain, Released
<1>6. ASSUME NEW p \in Processes, Switch(p) PROVE TypeOK'
  BY <1>6 DEF Switch, PortsRead
<1>7. ASSUME NEW p \in Processes, SetPort(p) PROVE TypeOK'
  BY <1>7 DEF SetPort
<1>8. ASSUME NEW p \in Processes, Convert(p) PROVE TypeOK'
  BY <1>8 DEF Convert
<1>9. ASSUME NEW p \in Processes, Die(p) PROVE TypeOK'
  BY <1>9 DEF Die, Released
<1>10. ASSUME UNCHANGED vars PROVE TypeOK'
  BY <1>10 DEF vars
<1>11. QED
  BY <1>1, <1>2, <1>3, <1>4, <1>5, <1>6, <1>7, <1>8, <1>9, <1>10
  DEF LockNext, ProcessStep, ExitPeacefully

\* What a step may rely on and has to keep of the locks.
LocksInv == LocksAgree /\ LocksExclude /\ SingleOvertakes /\ FileNamesServer

\* The flock calls keep the locks exclusive and the file with its server: who
\* becomes Single finds no lock, so a server it finds converts and is overtaken.
LEMMA LocksStep ==
  TypeOK /\ LocksInv /\ [LockNext]_vars => LocksInv'
<1> SUFFICES ASSUME TypeOK, LocksInv, [LockNext]_vars
             PROVE  LocksInv'
  OBVIOUS
<1> USE DEF TypeOK, LocksInv, LocksAgree, LocksExclude, SingleOvertakes,
            FileNamesServer, Goto, locks, history
<1>1. ASSUME NEW p \in Processes, GetExclusive(p) PROVE LocksInv'
  <2>1. CASE ExclusiveFree /\ pc'[p] = "launching"
    <3>1. /\ exclusive = {} /\ shared = {}
          /\ exclusive' = {p} /\ shared' = {}
          /\ overtaken' = overtaken \cup {q \in Processes : pc[q] = "converting"}
          /\ single' = p
          /\ pc' = [pc EXCEPT ![p] = "launching"]
      BY <1>1, <2>1 DEF GetExclusive, ExclusiveFree
    <3>2. (LocksAgree /\ LocksExclude)'
      BY <3>1
    <3>3. SingleOvertakes'
      BY <3>1
    <3>4. FileNamesServer'
      BY <3>1
    <3>5. QED
      BY <3>2, <3>3, <3>4
  <2>2. CASE ~(ExclusiveFree /\ pc'[p] = "launching")
    <3>1. /\ pc' = [pc EXCEPT ![p] = IF pc[p] = "start" THEN "queued" ELSE "requeued"]
          /\ pc[p] \in {"start", "waiting"}
          /\ UNCHANGED <<exclusive, shared, file, overtaken, single>>
      BY <1>1, <2>2 DEF GetExclusive
    <3>2. QED
      BY <3>1
  <2>3. QED
    BY <2>1, <2>2
<1>2. ASSUME NEW p \in Processes, GetShared(p) PROVE LocksInv'
  BY <1>2 DEF GetShared, SharedFree
<1>3. ASSUME NEW p \in Processes, GiveUpShared(p) PROVE LocksInv'
  BY <1>3 DEF GiveUpShared
<1>4. ASSUME NEW p \in Processes, Read(p) PROVE LocksInv'
  BY <1>4 DEF Read, Released
<1>5. ASSUME NEW p \in Processes, ReadAgain(p) PROVE LocksInv'
  BY <1>5 DEF ReadAgain, Released
<1>6. ASSUME NEW p \in Processes, Switch(p) PROVE LocksInv'
  BY <1>6 DEF Switch
<1>7. ASSUME NEW p \in Processes, SetPort(p) PROVE LocksInv'
  BY <1>7 DEF SetPort
<1>8. ASSUME NEW p \in Processes, Convert(p) PROVE LocksInv'
  BY <1>8 DEF Convert, SharedFree
<1>9. ASSUME NEW p \in Processes, Die(p) PROVE LocksInv'
  BY <1>9 DEF Die, Released
<1>10. ASSUME UNCHANGED vars PROVE LocksInv'
  BY <1>10 DEF vars
<1>11. QED
  BY <1>1, <1>2, <1>3, <1>4, <1>5, <1>6, <1>7, <1>8, <1>9, <1>10
  DEF LockNext, ProcessStep, ExitPeacefully

\* A process reads a port only once, and before it asks the server behind it.
PortsInv == PortsRead /\ OnlyOlderGiveWay

LEMMA PortsStep ==
  TypeOK /\ PortsInv /\ [LockNext]_vars => PortsInv'
<1> SUFFICES ASSUME TypeOK, PortsInv, [LockNext]_vars
             PROVE  PortsInv'
  OBVIOUS
<1> USE DEF TypeOK, PortsInv, PortsRead, OnlyOlderGiveWay, Goto, locks, history
<1>1. ASSUME NEW p \in Processes, GetExclusive(p) PROVE PortsInv'
  BY <1>1 DEF GetExclusive
<1>2. ASSUME NEW p \in Processes, GetShared(p) PROVE PortsInv'
  BY <1>2 DEF GetShared
<1>3. ASSUME NEW p \in Processes, GiveUpShared(p) PROVE PortsInv'
  BY <1>3 DEF GiveUpShared
<1>4. ASSUME NEW p \in Processes, Read(p) PROVE PortsInv'
  BY <1>4 DEF Read
<1>5. ASSUME NEW p \in Processes, ReadAgain(p) PROVE PortsInv'
  BY <1>5 DEF ReadAgain
<1>6. ASSUME NEW p \in Processes, Switch(p) PROVE PortsInv'
  BY <1>6 DEF Switch
<1>7. ASSUME NEW p \in Processes, SetPort(p) PROVE PortsInv'
  BY <1>7 DEF SetPort
<1>8. ASSUME NEW p \in Processes, Convert(p) PROVE PortsInv'
  BY <1>8 DEF Convert
<1>9. ASSUME NEW p \in Processes, Die(p) PROVE PortsInv'
  BY <1>9 DEF Die
<1>10. ASSUME UNCHANGED vars PROVE PortsInv'
  BY <1>10 DEF vars
<1>11. QED
  BY <1>1, <1>2, <1>3, <1>4, <1>5, <1>6, <1>7, <1>8, <1>9, <1>10
  DEF LockNext, ProcessStep, ExitPeacefully

\* The inductive invariant: places tell the locks, the locks exclude each
\* other, a Single has overtaken every server in its conversion.
THEOREM Inductive == Spec => []IInv
<1>1. LockInit => IInv
  BY InitInv
<1>2. IInv /\ [LockNext]_vars => IInv'
  BY TypeStep, LocksStep, PortsStep DEF IInv, LocksInv, PortsInv
<1>3. QED
  BY <1>1, <1>2, PTL DEF Spec

\* Two servers would have to hold the lock, or be named by the file, both.
LEMMA OneServerOfInv == IInv => OneServer
<1> SUFFICES ASSUME IInv,
                    NEW p \in Processes \ overtaken,
                    NEW q \in Processes \ overtaken,
                    pc[p] \in Holding, pc[q] \in Holding
             PROVE  p = q
  BY DEF OneServer, IInv
<1>1. CASE pc[p] = "launching" /\ pc[q] = "launching"
  BY <1>1 DEF IInv, LocksAgree, LocksExclude
<1>2. CASE pc[p] = "launching" /\ pc[q] # "launching"
  BY <1>2 DEF IInv, LocksAgree, LocksExclude, SingleOvertakes, Holding
<1>3. CASE pc[p] # "launching" /\ pc[q] = "launching"
  BY <1>3 DEF IInv, LocksAgree, LocksExclude, SingleOvertakes, Holding
<1>4. CASE pc[p] # "launching" /\ pc[q] # "launching"
  BY <1>4 DEF IInv, FileNamesServer, Holding
<1>5. QED
  BY <1>1, <1>2, <1>3, <1>4

\* One process at a time is the server of the mutex, but for servers another
\* one came between in the conversion of their lock.
THEOREM OneServerHolds == Spec => []OneServer
  BY Inductive, OneServerOfInv, PTL

\* While a server that was not overtaken serves, the file names it.
THEOREM FileNamesServerHolds == Spec => []FileNamesServer
<1>1. IInv => FileNamesServer
  BY DEF IInv
<1>2. QED
  BY <1>1, Inductive, PTL

\* Whoever was asked to exit, was so by a newer build that read its port.
THEOREM OnlyOlderGiveWayHolds == Spec => []OnlyOlderGiveWay
<1>1. IInv => OnlyOlderGiveWay
  BY DEF IInv
<1>2. QED
  BY <1>1, Inductive, PTL

-----------------------------------------------------------------------------
(* DaemonStart: the same with macOS among the platforms, and what a process *)
(* finds in the file.                                                       *)

\* Initially nobody has come, and the file is empty.
LEMMA StartInitInv == StartInit => StartInv
<1> SUFFICES ASSUME StartInit PROVE StartInv
  OBVIOUS
<1>1. IInv
  <2>1. CASE LockInit
    BY <2>1, InitInv
  <2>2. CASE MacInit
    BY <2>2 DEF MacInit, FreeLock, IInv, TypeOK, Places, MacPlaces, LocksAgree,
         LocksExclude, SingleOvertakes, PortsRead, FileNamesServer, OnlyOlderGiveWay
  <2>3. QED
    BY <2>1, <2>2 DEF StartInit
<1>2. /\ FileWritten /\ EmptyFileExplained /\ Untouched
      /\ bootstrapped \subseteq Processes /\ loaded \in BOOLEAN
  BY DEF StartInit, LockInit, MacInit, FreeLock, FileWritten, EmptyFileExplained, Untouched
<1>3. QED
  BY <1>1, <1>2 DEF StartInv

\* The steps that only macOS has, ...
MacStep ==
  /\ platform = "macos" /\ platform' = "macos"
  /\ \/ \E p \in Interfaces : LetGo(p) \/ Bootstrap(p) \/ GiveUp(p) \/ ReadOrFail(p)
     \/ LoadLate
     \/ \E d \in Daemons : LaunchdStarts(d)

\* ... and those it shares with the others, who alone ask a server to exit.
SharedStep ==
  /\ LockNext
  /\ platform = "macos" => asked' = asked
  /\ UNCHANGED job

\* Every step of DaemonStart is one of the two kinds.
LEMMA StartSteps ==
  StartNext => SharedStep \/ MacStep
<1> SUFFICES ASSUME StartNext PROVE SharedStep \/ MacStep
  OBVIOUS
<1>1. CASE platform # "macos" /\ LockNext /\ UNCHANGED job
  BY <1>1 DEF SharedStep
<1>2. ASSUME NEW p \in Interfaces, InterfaceStep(p), platform = "macos", UNCHANGED platform
      PROVE  SharedStep \/ MacStep
  BY <1>2 DEF InterfaceStep, GetState, GetExclusive, GetShared, LockNext, ProcessStep,
              MacStep, SharedStep, Interfaces
<1>3. ASSUME NEW d \in Daemons, DaemonStep(d), UNCHANGED platform
      PROVE  SharedStep
  BY <1>3 DEF DaemonStep, GetState, PanicAsSecondary, LockNext, ProcessStep, SharedStep,
              GetExclusive, GetShared, SetPort, Convert, Die
<1>4. ASSUME NEW d \in Daemons, LaunchdStarts(d), platform = "macos", UNCHANGED platform
      PROVE  MacStep
  BY <1>4 DEF MacStep
<1>5. ASSUME NEW p \in Processes, Die(p), UNCHANGED platform, UNCHANGED job
      PROVE  SharedStep
  BY <1>5 DEF LockNext, SharedStep, Die
<1>6. ASSUME LoadLate, platform = "macos", UNCHANGED platform PROVE MacStep
  BY <1>6 DEF MacStep
<1>7. QED
  BY <1>1, <1>2, <1>3, <1>4, <1>5, <1>6 DEF StartNext, MacNext

\* The steps of macOS let the mutex go, or leave the locks alone; the process that
\* emptied the file explains why it is empty.
LEMMA MacKeeps ==
  ASSUME StartInv, MacStep
  PROVE  StartInv'
<1> platform = "macos" /\ platform' = "macos"
  BY DEF MacStep
<1> USE DEF StartInv, IInv, TypeOK, Places, MacPlaces, LocksAgree,
         LocksExclude, SingleOvertakes, PortsRead, FileNamesServer, OnlyOlderGiveWay,
         FileWritten, EmptyFileExplained, Untouched, Goto, locks, history, job
<1>1. ASSUME NEW p \in Interfaces, LetGo(p) PROVE StartInv'
  BY <1>1 DEF LetGo, Released, Interfaces
<1>2. ASSUME NEW p \in Interfaces, Bootstrap(p) PROVE StartInv'
  <2>1. /\ pc[p] = "asking" /\ p \in Processes
        /\ bootstrapped' = bootstrapped \cup {p} /\ loaded' \in BOOLEAN
        /\ UNCHANGED <<exclusive, shared, file, port, asked, overtaken, single>>
    BY <1>2 DEF Bootstrap, Interfaces
  <2>2. pc' = [pc EXCEPT ![p] = "waiting"] \/ pc' = [pc EXCEPT ![p] = "failed"]
    BY <1>2 DEF Bootstrap
  <2>3. IInv'
    BY <2>1, <2>2
  <2>4. (FileWritten /\ EmptyFileExplained /\ Untouched)'
    BY <2>1, <2>2 DEF Interfaces
  <2>5. QED
    BY <2>1, <2>3, <2>4
<1>3. ASSUME NEW p \in Interfaces, GiveUp(p) PROVE StartInv'
  BY <1>3 DEF GiveUp, Released, Interfaces
<1>4. ASSUME NEW p \in Interfaces, ReadOrFail(p) PROVE StartInv'
  BY <1>4 DEF ReadOrFail, Released, Interfaces
<1>5. ASSUME NEW d \in Daemons, LaunchdStarts(d) PROVE StartInv'
  BY <1>5 DEF LaunchdStarts
<1>6. ASSUME LoadLate PROVE StartInv'
  BY <1>6 DEF LoadLate
<1>7. QED
  BY <1>1, <1>2, <1>3, <1>4, <1>5, <1>6 DEF MacStep

\* What a shared step has to keep of the file.
FileInv == FileWritten /\ EmptyFileExplained /\ Untouched

\* A process that becomes Single holds the lock until it has written its port or
\* is dead; nobody else empties or writes the file.
LEMMA FileStep ==
  IInv /\ FileInv /\ SharedStep => FileInv'
<1> SUFFICES ASSUME IInv, FileInv, SharedStep
             PROVE  FileInv'
  OBVIOUS
<1> USE DEF SharedStep, LockNext, IInv, TypeOK, FileInv, FileWritten, EmptyFileExplained,
            Untouched, LocksAgree, LocksExclude, Goto, locks, history, Interfaces
<1>1. ASSUME NEW p \in Processes, GetExclusive(p) PROVE FileInv'
  BY <1>1 DEF GetExclusive, ExclusiveFree
<1>2. ASSUME NEW p \in Processes, GetShared(p) PROVE FileInv'
  BY <1>2 DEF GetShared, SharedFree
<1>3. ASSUME NEW p \in Processes, GiveUpShared(p) PROVE FileInv'
  BY <1>3 DEF GiveUpShared, SharedFree
<1>4. ASSUME NEW p \in Processes, Read(p) PROVE FileInv'
  BY <1>4 DEF Read, Released
<1>5. ASSUME NEW p \in Processes, ReadAgain(p) PROVE FileInv'
  BY <1>5 DEF ReadAgain, Released
<1>6. ASSUME NEW p \in Processes, Switch(p) PROVE FileInv'
  BY <1>6 DEF Switch
<1>7. ASSUME NEW p \in Processes, SetPort(p) PROVE FileInv'
  BY <1>7 DEF SetPort
<1>8. ASSUME NEW p \in Processes, Convert(p) PROVE FileInv'
  BY <1>8 DEF Convert, SharedFree
<1>9. ASSUME NEW p \in Processes, Die(p) PROVE FileInv'
  BY <1>9 DEF Die, Released
<1>10. QED
  BY <1>1, <1>2, <1>3, <1>4, <1>5, <1>6, <1>7, <1>8, <1>9
  DEF SharedStep, LockNext, ProcessStep, ExitPeacefully

\* The inductive invariant on every platform.
THEOREM StartInductive == StartSpec => []StartInv
<1>1. StartInit => StartInv
  BY StartInitInv
<1>2. StartInv /\ [StartNext]_startVars => StartInv'
  <2> SUFFICES ASSUME StartInv, [StartNext]_startVars PROVE StartInv'
    OBVIOUS
  <2>1. CASE SharedStep
    BY <2>1, TypeStep, LocksStep, PortsStep, FileStep
    DEF SharedStep, StartInv, IInv, LocksInv, PortsInv, FileInv, job
  <2>2. CASE MacStep
    BY <2>2, MacKeeps
  <2>3. CASE UNCHANGED startVars
    <3>1. UNCHANGED vars /\ UNCHANGED <<bootstrapped, loaded>>
      BY <2>3 DEF startVars, job
    <3>2. IInv'
      BY <3>1, TypeStep, LocksStep, PortsStep
      DEF StartInv, IInv, LocksInv, PortsInv
    <3>3. QED
      BY <3>1, <3>2 DEF StartInv, FileWritten, EmptyFileExplained, Untouched, vars, locks,
                           history
  <2>4. QED
    BY <2>1, <2>2, <2>3, StartSteps
<1>3. QED
  BY <1>1, <1>2, PTL DEF StartSpec

\* One server of the mutex at a time, on macOS as on the others.
THEOREM StartOneServer == StartSpec => []OneServer
<1>1. StartInv => OneServer
  BY OneServerOfInv DEF StartInv
<1>2. QED
  BY <1>1, StartInductive, PTL

\* The file names the server that serves, on macOS as on the others.
THEOREM StartFileNamesServer == StartSpec => []FileNamesServer
<1>1. StartInv => FileNamesServer
  BY DEF StartInv, IInv
<1>2. QED
  BY <1>1, StartInductive, PTL

\* Who reads the file (get_state's Secondary or Unknown) finds the port of a server,
\* or finds it empty because the last Single died before set_port or was an interface.
THEOREM ReadersFind == StartSpec => []ReadersFindServer
<1>1. StartInv => ReadersFindServer
  <2> SUFFICES ASSUME StartInv, NEW p \in Processes, pc[p] = "reading"
               PROVE  IF file # NoPort
                      THEN pc[file] \in {"converting", "serving", "dead"}
                      ELSE /\ single # NoPort
                           /\ \/ pc[single] = "dead"
                              \/ platform = "macos" /\ single \in Interfaces
    BY DEF ReadersFindServer
  <2>1. exclusive = {}
    BY DEF StartInv, IInv, LocksAgree, LocksExclude
  <2>2. CASE file # NoPort
    BY <2>2 DEF StartInv, FileWritten
  <2>3. CASE file = NoPort
    BY <2>1, <2>3 DEF StartInv, EmptyFileExplained, Interfaces
  <2>4. QED
    BY <2>2, <2>3
<1>2. QED
  BY <1>1, StartInductive, PTL

=============================================================================
