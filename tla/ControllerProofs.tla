-------------------------- MODULE ControllerProofs --------------------------
(***************************************************************************)
(* Theorems about Controller, for every set of sessions and all limits of  *)
(* its loops: types, the inductive invariant that ties captures, stages    *)
(* and resources together, and what follows from it - no `unreachable!()`  *)
(* is reached, threads mind their own room, and the controller implements  *)
(* RoomSession.  At the end those about LanScanner, the thread whose first *)
(* port set_scanning hosts: that port is one of a server it still knows.   *)
(***************************************************************************)
EXTENDS Controller, LanScanner, SequenceTheorems, TLAPS

USE SessionsAssumption, LimitsAssumption

\* The values a step can write are values of AppState.
LEMMA ValuesBuilt ==
  /\ Waiting \in Values
  /\ \A st \in Stages, s \in Sessions : Stage(st, s) \in Values
  /\ \A k \in ExceptionType : Exception(k) \in Values
BY DEF Values

\* The variables have their types, the version count never underflows and the
\* retry counters of the worker loops never pass their limits.
THEOREM TypeCorrect == Spec => []TypeOK
<1>1. ControllerInit => TypeOK
  BY ValuesBuilt DEF ControllerInit, HolderInit, TypeOK, Places, Ended
<1>2. TypeOK /\ [ControllerNext]_vars => TypeOK'
  <2> SUFFICES ASSUME TypeOK, [ControllerNext]_vars
               PROVE  TypeOK'
    OBVIOUS
  <2> USE DEF TypeOK, Places, PlacesOf, Stages, Ended, ExceptionType
  <2>1. ASSUME Command PROVE TypeOK'
    BY <2>1, ValuesBuilt
    DEF Command, SetWaiting, SetScanning, SetGuesting, Enter, SetTo, DropValue,
        Goto, threadVars, vars, holder
  <2>2. ASSUME NEW s \in Sessions, ScanPoll(s) PROVE TypeOK'
    BY <2>2, ValuesBuilt
    DEF ScanPoll, LostCapture, Enter, SetTo, DropValue, Goto, holder
  <2>3. ASSUME NEW s \in Sessions, CreateEasyTier(s) PROVE TypeOK'
    BY <2>3, ValuesBuilt
    DEF CreateEasyTier, Goto, holder
  <2>4. ASSUME NEW s \in Sessions, HostPublish(s) PROVE TypeOK'
    BY <2>4, ValuesBuilt
    DEF HostPublish, LostCapture, Enter, SetTo, DropValue, Goto, holder
  <2>5. ASSUME NEW s \in Sessions, HostProbe(s) PROVE TypeOK'
    BY <2>5, ValuesBuilt
    DEF HostProbe, Goto, Quiet, holder
  <2>6. ASSUME NEW s \in Sessions, HostLost(s) PROVE TypeOK'
    BY <2>6, ValuesBuilt
    DEF HostLost, LostCapture, EndWith, SetTo, DropValue, Goto, holder
  <2>7. ASSUME NEW s \in Sessions, HostCheck(s) PROVE TypeOK'
    BY <2>7, ValuesBuilt
    DEF HostCheck, LostCapture, EndWith, SetTo, DropValue, ChangeInPlace,
        Goto, holder
  <2>8. ASSUME NEW s \in Sessions, GuestPublish(s) PROVE TypeOK'
    BY <2>8, ValuesBuilt
    DEF GuestPublish, LostCapture, Enter, SetTo, DropValue, Goto, holder
  <2>9. ASSUME NEW s \in Sessions, GuestDiscover(s) PROVE TypeOK'
    BY <2>9, ValuesBuilt
    DEF GuestDiscover, ForwardPanics, LostCapture, EndWith, SetTo, DropValue,
        ChangeInPlace, Goto, Quiet, holder
  <2>10. ASSUME NEW s \in Sessions, GuestDial(s) PROVE TypeOK'
    BY <2>10, ValuesBuilt
    DEF GuestDial, Goto, Quiet, holder
  <2>11. ASSUME NEW s \in Sessions, GuestDialCheck(s) PROVE TypeOK'
    BY <2>11, ValuesBuilt
    DEF GuestDialCheck, LostCapture, EndWith, SetTo, DropValue, Goto, Quiet,
        holder
  <2>12. ASSUME NEW s \in Sessions, GuestAskPort(s) PROVE TypeOK'
    BY <2>12, ValuesBuilt
    DEF GuestAskPort, Goto, Quiet, holder
  <2>13. ASSUME NEW s \in Sessions, GuestFail(s) PROVE TypeOK'
    BY <2>13, ValuesBuilt
    DEF GuestFail, LostCapture, EndWith, SetTo, DropValue, Goto, holder
  <2>14. ASSUME NEW s \in Sessions, GuestForward(s) PROVE TypeOK'
    BY <2>14, ValuesBuilt
    DEF GuestForward, ForwardPanics, LostCapture, EndWith, SetTo, DropValue,
        Goto, Quiet, holder
  <2>15. ASSUME NEW s \in Sessions, GuestSettle(s) PROVE TypeOK'
    BY <2>15, ValuesBuilt
    DEF GuestSettle, LostCapture, Enter, SetTo, Goto, holder
  <2>16. ASSUME NEW s \in Sessions, GuestCall(s) PROVE TypeOK'
    BY <2>16, ValuesBuilt
    DEF GuestCall, Goto, Quiet, holder
  <2>17. ASSUME NEW s \in Sessions, GuestMerge(s) PROVE TypeOK'
    BY <2>17, ValuesBuilt
    DEF GuestMerge, LostCapture, EndWith, SetTo, DropValue, ChangeInPlace,
        Goto, holder
  <2>18. ASSUME PlayerPing PROVE TypeOK'
    BY <2>18 DEF PlayerPing, ChangeInPlace, threadVars
  <2>19. ASSUME NEW s \in Sessions, ResourceStep(s) PROVE TypeOK'
    BY <2>19 DEF ResourceStep, HearServer, ScannerStops, FakeServerStops,
                 EasyTierCrash, holder, threadVars
  <2>20. ASSUME UNCHANGED vars PROVE TypeOK'
    BY <2>20 DEF vars, holder, threadVars
  <2>21. QED
    BY <2>1, <2>2, <2>3, <2>4, <2>5, <2>6, <2>7, <2>8, <2>9, <2>10, <2>11,
       <2>12, <2>13, <2>14, <2>15, <2>16, <2>17, <2>18, <2>19, <2>20
    DEF ControllerNext, ThreadStep
<1>3. QED
  BY <1>1, <1>2, PTL DEF Spec

-----------------------------------------------------------------------------
(* None of the four parts below is inductive alone.  That a passing capture *)
(* is the owner's needs nothing else, but to know that a stage keeps its    *)
(* thread one must know that no other thread can overwrite it, and to know  *)
(* that an EasyTier is not lost one must know whose value is overwritten.   *)

RoomInv ==
  /\ CaptureIsOwnership
  /\ Supervised
  /\ NothingOrphaned
  /\ RoomHasResources

\* A step of Controller keeps captures, stages, threads and resources
\* together.
LEMMA RoomInvStep ==
  TypeOK /\ TypeOK' /\ RoomInv /\ [ControllerNext]_vars => RoomInv'
<1> SUFFICES ASSUME TypeOK, TypeOK', RoomInv, [ControllerNext]_vars
             PROVE  RoomInv'
  OBVIOUS
<1> USE DEF TypeOK, RoomInv, CaptureIsOwnership, Supervised, NothingOrphaned,
            RoomHasResources, CanCapture, Base, Values, Waiting, Stage,
            Exception, ExceptionType, Stages, WithEasyTier, Places, PlacesOf,
            Ended, Launched
<1>1. ASSUME Command PROVE RoomInv'
  <2> USE <1>1
      DEF Command, SetWaiting, SetScanning, SetGuesting, Enter, SetTo,
          DropValue, Goto, threadVars, vars, holder
  <2>1. CaptureIsOwnership'
    OBVIOUS
  <2>2. Supervised'
    OBVIOUS
  <2>3. NothingOrphaned'
    OBVIOUS
  <2>4. RoomHasResources'
    OBVIOUS
  <2>5. QED
    BY <2>1, <2>2, <2>3, <2>4
<1>2. ASSUME NEW s \in Sessions, ScanPoll(s) PROVE RoomInv'
  <2> USE <1>2
      DEF ScanPoll, LostCapture, Enter, SetTo, DropValue, Goto, holder,
          Captured
  <2>1. CaptureIsOwnership'
    OBVIOUS
  <2>2. Supervised'
    OBVIOUS
  <2>3. NothingOrphaned'
    OBVIOUS
  <2>4. RoomHasResources'
    OBVIOUS
  <2>5. QED
    BY <2>1, <2>2, <2>3, <2>4
<1>3. ASSUME NEW s \in Sessions, CreateEasyTier(s) PROVE RoomInv'
  <2> USE <1>3
      DEF CreateEasyTier, Goto, holder
  <2>1. CaptureIsOwnership'
    OBVIOUS
  <2>2. Supervised'
    OBVIOUS
  <2>3. NothingOrphaned'
    OBVIOUS
  <2>4. RoomHasResources'
    OBVIOUS
  <2>5. QED
    BY <2>1, <2>2, <2>3, <2>4
<1>4. ASSUME NEW s \in Sessions, HostPublish(s) PROVE RoomInv'
  <2> USE <1>4
      DEF HostPublish, LostCapture, Enter, SetTo, DropValue, Goto, holder
  <2>1. CaptureIsOwnership'
    OBVIOUS
  <2>2. Supervised'
    OBVIOUS
  <2>3. NothingOrphaned'
    OBVIOUS
  <2>4. RoomHasResources'
    BY SMTT(30)
  <2>5. QED
    BY <2>1, <2>2, <2>3, <2>4
<1>5. ASSUME NEW s \in Sessions, HostProbe(s) PROVE RoomInv'
  <2> USE <1>5
      DEF HostProbe, Goto, Quiet, holder
  <2>1. CaptureIsOwnership'
    OBVIOUS
  <2>2. Supervised'
    OBVIOUS
  <2>3. NothingOrphaned'
    OBVIOUS
  <2>4. RoomHasResources'
    OBVIOUS
  <2>5. QED
    BY <2>1, <2>2, <2>3, <2>4
<1>6. ASSUME NEW s \in Sessions, HostLost(s) PROVE RoomInv'
  <2> USE <1>6
      DEF HostLost, LostCapture, EndWith, SetTo, DropValue, Goto, holder
  <2>1. CaptureIsOwnership'
    OBVIOUS
  <2>2. Supervised'
    OBVIOUS
  <2>3. NothingOrphaned'
    OBVIOUS
  <2>4. RoomHasResources'
    OBVIOUS
  <2>5. QED
    BY <2>1, <2>2, <2>3, <2>4
<1>7. ASSUME NEW s \in Sessions, HostCheck(s) PROVE RoomInv'
  <2> USE <1>7
      DEF HostCheck, LostCapture, EndWith, SetTo, DropValue, ChangeInPlace,
          Goto, holder, Captured, Alive
  <2>1. CaptureIsOwnership'
    OBVIOUS
  <2>2. Supervised'
    OBVIOUS
  <2>3. NothingOrphaned'
    OBVIOUS
  <2>4. RoomHasResources'
    OBVIOUS
  <2>5. QED
    BY <2>1, <2>2, <2>3, <2>4
<1>8. ASSUME NEW s \in Sessions, GuestPublish(s) PROVE RoomInv'
  <2> USE <1>8
      DEF GuestPublish, LostCapture, Enter, SetTo, DropValue, Goto, holder
  <2>1. CaptureIsOwnership'
    OBVIOUS
  <2>2. Supervised'
    OBVIOUS
  <2>3. NothingOrphaned'
    OBVIOUS
  <2>4. RoomHasResources'
    BY SMTT(30)
  <2>5. QED
    BY <2>1, <2>2, <2>3, <2>4
<1>9. ASSUME NEW s \in Sessions, GuestDiscover(s) PROVE RoomInv'
  <2> USE <1>9
      DEF GuestDiscover, ForwardPanics, LostCapture, EndWith, SetTo,
          DropValue, ChangeInPlace, Goto, Quiet, holder, Captured, Alive
  <2>1. CaptureIsOwnership'
    BY SMTT(30)
  <2>2. Supervised'
    OBVIOUS
  <2>3. NothingOrphaned'
    OBVIOUS
  <2>4. RoomHasResources'
    OBVIOUS
  <2>5. QED
    BY <2>1, <2>2, <2>3, <2>4
<1>10. ASSUME NEW s \in Sessions, GuestDial(s) PROVE RoomInv'
  <2> USE <1>10
      DEF GuestDial, Goto, Quiet, holder
  <2>1. CaptureIsOwnership'
    OBVIOUS
  <2>2. Supervised'
    OBVIOUS
  <2>3. NothingOrphaned'
    OBVIOUS
  <2>4. RoomHasResources'
    OBVIOUS
  <2>5. QED
    BY <2>1, <2>2, <2>3, <2>4
<1>11. ASSUME NEW s \in Sessions, GuestDialCheck(s) PROVE RoomInv'
  <2> USE <1>11
      DEF GuestDialCheck, LostCapture, EndWith, SetTo, DropValue, Goto,
          Quiet, holder, Captured, Alive
  <2>1. CaptureIsOwnership'
    OBVIOUS
  <2>2. Supervised'
    OBVIOUS
  <2>3. NothingOrphaned'
    OBVIOUS
  <2>4. RoomHasResources'
    OBVIOUS
  <2>5. QED
    BY <2>1, <2>2, <2>3, <2>4
<1>12. ASSUME NEW s \in Sessions, GuestAskPort(s) PROVE RoomInv'
  <2> USE <1>12
      DEF GuestAskPort, Goto, Quiet, holder
  <2>1. CaptureIsOwnership'
    OBVIOUS
  <2>2. Supervised'
    OBVIOUS
  <2>3. NothingOrphaned'
    OBVIOUS
  <2>4. RoomHasResources'
    OBVIOUS
  <2>5. QED
    BY <2>1, <2>2, <2>3, <2>4
<1>13. ASSUME NEW s \in Sessions, GuestFail(s) PROVE RoomInv'
  <2> USE <1>13
      DEF GuestFail, LostCapture, EndWith, SetTo, DropValue, Goto, holder
  <2>1. CaptureIsOwnership'
    OBVIOUS
  <2>2. Supervised'
    OBVIOUS
  <2>3. NothingOrphaned'
    OBVIOUS
  <2>4. RoomHasResources'
    OBVIOUS
  <2>5. QED
    BY <2>1, <2>2, <2>3, <2>4
<1>14. ASSUME NEW s \in Sessions, GuestForward(s) PROVE RoomInv'
  <2> USE <1>14
      DEF GuestForward, ForwardPanics, LostCapture, EndWith, SetTo,
          DropValue, Goto, Quiet, holder, Captured
  <2>1. CaptureIsOwnership'
    OBVIOUS
  <2>2. Supervised'
    OBVIOUS
  <2>3. NothingOrphaned'
    OBVIOUS
  <2>4. RoomHasResources'
    OBVIOUS
  <2>5. QED
    BY <2>1, <2>2, <2>3, <2>4
<1>15. ASSUME NEW s \in Sessions, GuestSettle(s) PROVE RoomInv'
  <2> USE <1>15
      DEF GuestSettle, LostCapture, Enter, SetTo, Goto, holder, Captured
  <2>1. CaptureIsOwnership'
    OBVIOUS
  <2>2. Supervised'
    OBVIOUS
  <2>3. NothingOrphaned'
    OBVIOUS
  <2>4. RoomHasResources'
    OBVIOUS
  <2>5. QED
    BY <2>1, <2>2, <2>3, <2>4
<1>16. ASSUME NEW s \in Sessions, GuestCall(s) PROVE RoomInv'
  <2> USE <1>16
      DEF GuestCall, Goto, Quiet, holder
  <2>1. CaptureIsOwnership'
    OBVIOUS
  <2>2. Supervised'
    OBVIOUS
  <2>3. NothingOrphaned'
    OBVIOUS
  <2>4. RoomHasResources'
    OBVIOUS
  <2>5. QED
    BY <2>1, <2>2, <2>3, <2>4
<1>17. ASSUME NEW s \in Sessions, GuestMerge(s) PROVE RoomInv'
  <2> USE <1>17
      DEF GuestMerge, LostCapture, EndWith, SetTo, DropValue, ChangeInPlace,
          Goto, holder, Captured, Alive
  <2>1. CaptureIsOwnership'
    OBVIOUS
  <2>2. Supervised'
    OBVIOUS
  <2>3. NothingOrphaned'
    OBVIOUS
  <2>4. RoomHasResources'
    OBVIOUS
  <2>5. QED
    BY <2>1, <2>2, <2>3, <2>4
<1>18. ASSUME PlayerPing PROVE RoomInv'
  <2> USE <1>18
      DEF PlayerPing, ChangeInPlace, threadVars
  <2>1. CaptureIsOwnership'
    OBVIOUS
  <2>2. Supervised'
    OBVIOUS
  <2>3. NothingOrphaned'
    OBVIOUS
  <2>4. RoomHasResources'
    OBVIOUS
  <2>5. QED
    BY <2>1, <2>2, <2>3, <2>4
<1>19. ASSUME NEW s \in Sessions, ResourceStep(s) PROVE RoomInv'
  <2> USE <1>19
      DEF ResourceStep, HearServer, ScannerStops, FakeServerStops,
          EasyTierCrash, holder, threadVars
  <2>1. CaptureIsOwnership'
    OBVIOUS
  <2>2. Supervised'
    OBVIOUS
  <2>3. NothingOrphaned'
    OBVIOUS
  <2>4. RoomHasResources'
    OBVIOUS
  <2>5. QED
    BY <2>1, <2>2, <2>3, <2>4
<1>20. ASSUME UNCHANGED vars PROVE RoomInv'
  <2> USE <1>20
      DEF vars, holder, threadVars
  <2>1. CaptureIsOwnership'
    OBVIOUS
  <2>2. Supervised'
    OBVIOUS
  <2>3. NothingOrphaned'
    OBVIOUS
  <2>4. RoomHasResources'
    OBVIOUS
  <2>5. QED
    BY <2>1, <2>2, <2>3, <2>4
<1>21. QED
  BY <1>1, <1>2, <1>3, <1>4, <1>5, <1>6, <1>7, <1>8, <1>9, <1>10, <1>11,
     <1>12, <1>13, <1>14, <1>15, <1>16, <1>17, <1>18, <1>19, <1>20
  DEF ControllerNext, ThreadStep

\* The inductive invariant of the controller.
THEOREM InvariantHolds == Spec => []IInv
<1>1. ControllerInit => RoomInv
  BY DEF ControllerInit, HolderInit, RoomInv, CaptureIsOwnership, Supervised,
         NothingOrphaned, RoomHasResources, Places, PlacesOf, Stages, Waiting,
         WithEasyTier, Launched
<1>2. QED
  BY <1>1, RoomInvStep, TypeCorrect, PTL DEF Spec, IInv, RoomInv

-----------------------------------------------------------------------------

\* No `unreachable!()` arm of a worker thread is reached: a capture that
\* passes is the owner's, and the place where the thread is has one stage.
THEOREM NoUnreachableHolds == Spec => []NoUnreachable
<1>1. IInv => NoUnreachable
  <2> SUFFICES ASSUME IInv PROVE NoUnreachable
    OBVIOUS
  <2>1. ASSUME NEW s \in Sessions, pc[s] \in DOMAIN Matched, CanCapture(capture[s])
        PROVE  value.state = Matched[pc[s]]
    BY <2>1 DEF IInv, CaptureIsOwnership, Matched, Places, PlacesOf, Stages
  <2>2. QED
    BY <2>1 DEF NoUnreachable, IInv
<1>2. QED
  BY <1>1, InvariantHolds, PTL

\* Whoever can still take the lock through its capture owns the value there is,
\* in the stage that fits the place of its thread.
THEOREM CaptureIsOwnershipHolds == Spec => []CaptureIsOwnership
<1>1. IInv => CaptureIsOwnership
  BY DEF IInv
<1>2. QED
  BY <1>1, InvariantHolds, PTL

\* What a value on display refers to is there: its EasyTier was not dropped, its
\* scanner or fake server not told to end.
THEOREM RoomHasResourcesHolds == Spec => []RoomHasResources
<1>1. IInv => RoomHasResources
  BY DEF IInv
<1>2. QED
  BY <1>1, InvariantHolds, PTL

\* Every room on display is watched by its own thread, or died being set up.
THEOREM SupervisedHolds == Spec => []Supervised
<1>1. IInv => Supervised
  BY DEF IInv
<1>2. QED
  BY <1>1, InvariantHolds, PTL

\* No EasyTier, scanner or fake server outlives the value that owns it.
THEOREM NothingOrphanedHolds == Spec => []NothingOrphaned
<1>1. IInv => NothingOrphaned
  BY DEF IInv
<1>2. QED
  BY <1>1, InvariantHolds, PTL

\* A thread writes the state only while it is its own and leaves the
\* resources of the other sessions alone.
THEOREM OnlyOwnerMovesHolds == Spec => OnlyOwnerMoves
<1> DEFINE Moved(s) == pc'[s] # pc[s] /\ pc[s] # "idle"
           Minds(s) == /\ holder' # holder => value.owner = s
                       /\ \A t \in Sessions \ {s} :
                            /\ easytier'[t] = easytier[t]
                            /\ scanner'[t] = scanner[t]
                            /\ fakeServer'[t] = fakeServer[t]
<1>1. ASSUME IInv, [ControllerNext]_vars, NEW s \in Sessions, Moved(s)
      PROVE  Minds(s)
  <2> USE <1>1 DEF IInv, TypeOK, CaptureIsOwnership, Places, PlacesOf, Stages,
                   Goto
  <2>1. ThreadStep(s)
    BY DEF ControllerNext, Command, SetWaiting, SetScanning, SetGuesting,
           Enter, PlayerPing, ResourceStep, HearServer, ScannerStops,
           FakeServerStops, EasyTierCrash, vars, threadVars,
           ThreadStep, ScanPoll, CreateEasyTier, HostPublish, HostProbe,
           HostLost, HostCheck, GuestPublish, GuestDiscover, GuestDial,
           GuestDialCheck, GuestAskPort, GuestFail, GuestForward, GuestSettle,
           GuestCall, GuestMerge, LostCapture, EndWith, ForwardPanics, Quiet
  <2> USE DEF LostCapture, Enter, EndWith, DropValue, Captured, Quiet, holder,
              ForwardPanics
  <2>2. CASE ScanPoll(s)
    BY <2>2 DEF ScanPoll
  <2>3. CASE CreateEasyTier(s) \/ HostProbe(s) \/ GuestDial(s)
               \/ GuestAskPort(s) \/ GuestCall(s)
    BY <2>3 DEF CreateEasyTier, HostProbe, GuestDial, GuestAskPort, GuestCall
  <2>4. CASE HostPublish(s) \/ GuestPublish(s)
    BY <2>4 DEF HostPublish, GuestPublish
  <2>5. CASE HostLost(s) \/ GuestFail(s)
    BY <2>5 DEF HostLost, GuestFail
  <2>6. CASE HostCheck(s) \/ GuestMerge(s)
    BY <2>6 DEF HostCheck, GuestMerge
  <2>7. CASE GuestDiscover(s) \/ GuestForward(s)
    BY <2>7 DEF GuestDiscover, GuestForward
  <2>8. CASE GuestDialCheck(s) \/ GuestSettle(s)
    BY <2>8 DEF GuestDialCheck, GuestSettle
  <2>9. QED
    BY <2>1, <2>2, <2>3, <2>4, <2>5, <2>6, <2>7, <2>8 DEF ThreadStep
<1>2. IInv /\ [ControllerNext]_vars
        => \A s \in Sessions : Moved(s) => Minds(s)
  BY <1>1
<1>3. QED
  BY <1>2, InvariantHolds, PTL DEF Spec, OnlyOwnerMoves

-----------------------------------------------------------------------------
(* The controller implements RoomSession: each step changes the room as one *)
(* of its actions allows, with a new version, or changes nothing there.     *)

LEMMA SameValues ==
  /\ RS!Waiting = Waiting
  /\ \A st, s : RS!Stage(st, s) = Stage(st, s)
  /\ \A k : RS!Exception(k) = Exception(k)
BY DEF RS!Waiting, RS!Stage, RS!Exception, Waiting, Stage, Exception

\* A thread that overwrites its own stage with the next one is RS!Advance.
LEMMA EnterAdvances ==
  ASSUME NEW s \in Sessions, NEW st, NEW place \in Places, TypeOK,
         Enter(s, st, place), pc[s] \in Places, value.owner = s,
         value.state \in DOMAIN RS!NextStage, RS!NextStage[value.state] = st
  PROVE  RS!RoomNext
BY SameValues
DEF Enter, SetTo, Goto, TypeOK, Places, PlacesOf, Stages, RS!RoomNext,
    RS!Advance

\* A thread that overwrites its stage with one of its exceptions is RS!Fail.
LEMMA EndFails ==
  ASSUME NEW s \in Sessions, NEW kind, TypeOK, EndWith(s, kind),
         pc[s] \in Places, value.state \in DOMAIN RS!Faults,
         kind \in RS!Faults[value.state]
  PROVE  RS!RoomNext
BY SameValues
DEF EndWith, SetTo, Goto, TypeOK, Places, PlacesOf, Stages, RS!RoomNext,
    RS!Fail

\* A change in place while the thread goes on, or while no thread moves.
LEMMA ChangeUpdates ==
  ASSUME TypeOK, ChangeInPlace, value.state \in RS!Lively,
         {s \in Sessions : pc'[s] # "idle"} = {s \in Sessions : pc[s] # "idle"}
  PROVE  RS!RoomNext
BY DEF ChangeInPlace, RS!RoomNext, RS!Update

\* A step of a running thread that leaves the state alone is a stutter.
LEMMA QuietStutters ==
  ASSUME NEW s \in Sessions, NEW place \in Places \cup Ended, TypeOK,
         pc[s] \in Places, Goto(s, place), UNCHANGED holder
  PROVE  UNCHANGED RS!roomVars
BY DEF Goto, TypeOK, Places, PlacesOf, Stages, Ended, holder, RS!roomVars

\* Spec implements RoomSession under the mapping of RS.
THEOREM RefinesRoomSessionHolds == Spec => RefinesRoomSession
<1>1. ControllerInit => RS!RoomInit
  BY SameValues DEF ControllerInit, HolderInit, RS!RoomInit
<1>2. ASSUME IInv, [ControllerNext]_vars
      PROVE  [RS!RoomNext]_(RS!roomVars)
  <2> USE <1>2
  <2>1. CASE SetWaiting
    BY <2>1, SameValues
    DEF SetWaiting, SetTo, threadVars, vars, holder, RS!RoomNext, RS!Cancel,
        RS!roomVars
  <2>2. ASSUME NEW s \in Sessions, SetScanning(s) \/ SetGuesting(s)
        PROVE  RS!RoomNext
    BY <2>2, SameValues
    DEF SetScanning, SetGuesting, Enter, SetTo, Goto, RS!RoomNext, RS!Begin,
        RS!FirstStages, IInv, TypeOK
  <2>3. CASE PlayerPing
    BY <2>3, ChangeUpdates DEF PlayerPing, threadVars, RS!Lively, IInv
  <2>4. ASSUME NEW s \in Sessions, ResourceStep(s)
        PROVE  UNCHANGED RS!roomVars
    BY <2>4 DEF ResourceStep, HearServer, ScannerStops, FakeServerStops,
                EasyTierCrash, holder, threadVars, RS!roomVars
  <2>5. CASE UNCHANGED vars
    BY <2>5 DEF vars, holder, threadVars, RS!roomVars
  <2>6. ASSUME NEW s \in Sessions, ThreadStep(s)
        PROVE  [RS!RoomNext]_(RS!roomVars)
    <3> USE <2>6 DEF IInv, CaptureIsOwnership, Places, PlacesOf, Stages, Ended
    <3>1. ASSUME LostCapture(s), pc[s] \in Places
          PROVE  UNCHANGED RS!roomVars
      BY <3>1, QuietStutters DEF LostCapture
    <3>2. CASE ScanPoll(s) \/ HostPublish(s) \/ GuestPublish(s) \/ GuestSettle(s)
      BY <3>1, <3>2, EnterAdvances
      DEF ScanPoll, HostPublish, GuestPublish, GuestSettle, Captured,
          RS!NextStage
    <3>3. CASE CreateEasyTier(s) \/ HostProbe(s) \/ GuestDial(s)
                 \/ GuestAskPort(s) \/ GuestCall(s)
      BY <3>3, QuietStutters
      DEF CreateEasyTier, HostProbe, GuestDial, GuestAskPort, GuestCall, Quiet
    <3>4. CASE HostLost(s) \/ GuestFail(s) \/ GuestDialCheck(s)
      BY <3>1, <3>4, EndFails, QuietStutters
      DEF HostLost, GuestFail, GuestDialCheck, Captured, Quiet, RS!Faults
    <3>5. CASE HostCheck(s) \/ GuestMerge(s)
      BY <3>1, <3>5, EndFails, QuietStutters, ChangeUpdates
      DEF HostCheck, GuestMerge, Captured, Goto, TypeOK, RS!Faults, RS!Lively
    <3>6. CASE GuestDiscover(s) \/ GuestForward(s)
      BY <3>1, <3>6, EndFails, QuietStutters, ChangeUpdates
      DEF GuestDiscover, GuestForward, ForwardPanics, Captured, Goto, Quiet,
          TypeOK, RS!Faults, RS!Lively
    <3>7. QED
      BY <3>2, <3>3, <3>4, <3>5, <3>6 DEF ThreadStep
  <2>7. QED
    BY <2>1, <2>2, <2>3, <2>4, <2>5, <2>6 DEF ControllerNext, Command
<1>3. QED
  BY <1>1, <1>2, InvariantHolds, PTL DEF Spec, RefinesRoomSession, RS!RoomSpec

-----------------------------------------------------------------------------
(* The scanner. *)

\* The loop over the known servers, whose body is RemoveIfSilent.
Silence == INSTANCE Loops WITH Body <- RemoveIfSilent

\* A server once, the one heard longest ago first, when the clock has been set
\* back by b ticks.
Ordered(list, b) ==
  \A i, j \in DOMAIN list :
    i < j => /\ list[i].port # list[j].port
             /\ b = 0 => list[i].age >= list[j].age

Entries(b) == [port : Servers, age : -b .. Expiry]

\* The lists of the scanner.
Lists(b) == {list \in Seq(Entries(b)) : Ordered(list, b)}

\* Taking one element out of such a list leaves the order of the others.
LEMMA RemovalKeepsOrder ==
  ASSUME NEW b \in Nat, NEW list \in Lists(b), NEW i \in DOMAIN list
  PROVE  /\ RemoveAt(list, i) \in Lists(b)
         /\ Len(RemoveAt(list, i)) = Len(list) - 1
         /\ \A k \in DOMAIN RemoveAt(list, i) :
              RemoveAt(list, i)[k] = list[IF k < i THEN k ELSE k + 1]
<1> DEFINE E == Entries(b)
<1> DEFINE rest == RemoveAt(list, i)
<1>1. /\ list \in Seq(E) /\ Len(list) \in Nat /\ DOMAIN list = 1 .. Len(list)
      /\ Ordered(list, b)
  BY DEF Lists
<1> HIDE DEF E
<1>2. /\ rest \in Seq(E)
      /\ Len(rest) = Len(list) - 1
      /\ \A k \in 1 .. Len(list) - 1 : rest[k] = list[IF k < i THEN k ELSE k + 1]
  <2>1. rest = Silence!RemoveAt(list, i)
    BY DEF RemoveAt, Silence!RemoveAt
  <2> HIDE DEF rest
  <2>2. /\ rest \in Seq(E)
        /\ Len(rest) = Len(list) - 1
        /\ \A k \in 1 .. Len(list) - 1 : rest[k] = IF k < i THEN list[k] ELSE list[k + 1]
    BY <1>1, <2>1, Silence!RemoveAtProperties
  <2>3. QED
    BY <2>2
<1> HIDE DEF rest
<1>3. DOMAIN rest = 1 .. Len(list) - 1
  BY <1>1, <1>2
<1>4. Ordered(rest, b)
  <2> SUFFICES ASSUME NEW j \in DOMAIN rest, NEW k \in DOMAIN rest, j < k
               PROVE  /\ rest[j].port # rest[k].port
                      /\ b = 0 => rest[j].age >= rest[k].age
    BY DEF Ordered
  <2> DEFINE to(n) == IF n < i THEN n ELSE n + 1
  <2>1. to(j) \in DOMAIN list /\ to(k) \in DOMAIN list /\ to(j) < to(k)
    BY <1>1, <1>3
  <2>2. rest[j] = list[to(j)] /\ rest[k] = list[to(k)]
    BY <1>2, <1>3
  <2> HIDE DEF to
  <2>3. QED
    BY <1>1, <2>1, <2>2 DEF Ordered
<1>5. QED
  BY <1>2, <1>3, <1>4 DEF Lists, rest, E

\* So the loop, which takes elements out of it, keeps the order as well.
LEMMA HeardInLists ==
  ASSUME NEW b \in Nat, NEW list \in Lists(b)
  PROVE  Heard(list) \in Lists(b)
<1> DEFINE places == [k \in DOMAIN list |-> Len(list) + 1 - k]
<1> DEFINE I == {p \in Nat \X Lists(b) : Len(p[2]) >= Len(list) - p[1]}
<1>0. Len(list) \in Nat /\ DOMAIN list = 1 .. Len(list)
  BY DEF Lists
<1>1. places \in Seq(Nat) /\ Len(places) = Len(list)
  BY <1>0
<1>2. \A k \in 0 .. Len(places) - 1 : places[k + 1] = Len(list) - k
  BY <1>0
<1>3. Heard(list) = Silence!Loop(list, places)
  BY DEF Heard, Silence!Loop, FoldLeft, Silence!FoldLeft, MapThenFoldSet,
         Silence!MapThenFoldSet, Max, Silence!Max
<1> HIDE DEF places
<1>4. <<0, list>> \in I
  BY <1>0
<1>5. ASSUME NEW k \in 0 .. Len(places) - 1, NEW rest, <<k, rest>> \in I
      PROVE  <<k + 1, RemoveIfSilent(rest, places[k + 1])>> \in I
  <2>1. rest \in Lists(b) /\ Len(rest) >= Len(list) - k /\ Len(rest) \in Nat
        /\ DOMAIN rest = 1 .. Len(rest)
    BY <1>5 DEF Lists
  <2>2. Len(list) - k \in DOMAIN rest
    BY <1>0, <1>1, <2>1
  <2>3. /\ RemoveAt(rest, Len(list) - k) \in Lists(b)
        /\ Len(RemoveAt(rest, Len(list) - k)) = Len(rest) - 1
    BY <2>1, <2>2, RemovalKeepsOrder
  <2>4. /\ RemoveIfSilent(rest, Len(list) - k) \in Lists(b)
        /\ Len(RemoveIfSilent(rest, Len(list) - k)) >= Len(rest) - 1
    BY <2>1, <2>3 DEF RemoveIfSilent
  <2> DEFINE next == RemoveIfSilent(rest, Len(list) - k)
  <2>5. next \in Lists(b) /\ Len(next) \in Nat
    BY <2>4 DEF Lists
  <2>6. Len(next) >= Len(list) - (k + 1)
    BY <1>0, <1>1, <2>1, <2>4, <2>5
  <2>7. next = RemoveIfSilent(rest, places[k + 1])
    BY <1>2
  <2> HIDE DEF next
  <2>8. QED
    BY <1>1, <2>5, <2>6, <2>7
<1> HIDE DEF I
<1>6. <<Len(places), Silence!Loop(list, places)>> \in I
  BY <1>1, <1>4, <1>5, Silence!LoopInvariant
<1>7. QED
  BY <1>3, <1>6 DEF I

\* A server is out of the list once it is taken out of it.
LEMMA WithoutOne ==
  ASSUME NEW b \in Nat, NEW list \in Lists(b), NEW s \in Servers
  PROVE  /\ Without(list, s) \in Lists(b)
         /\ Known(Without(list, s)) = Known(list) \ {s}
<1>0. Len(list) \in Nat /\ DOMAIN list = 1 .. Len(list) /\ Ordered(list, b)
  BY DEF Lists
<1>1. CASE \A i \in DOMAIN list : list[i].port # s
  BY <1>0, <1>1 DEF Without, RemoveFirstMatch, Known
<1>2. ASSUME NEW i \in DOMAIN list, list[i].port = s
      PROVE  /\ Without(list, s) \in Lists(b)
             /\ Known(Without(list, s)) = Known(list) \ {s}
  <2>1. \A j \in DOMAIN list : list[j].port = s <=> j = i
    BY <1>0, <1>2 DEF Ordered
  <2>2. Without(list, s) = RemoveAt(list, i)
    <3>1. {j \in 1 .. Len(list) : list[j].port = s} = {i}
      BY <1>0, <1>2, <2>1
    <3>2. Min({i}) = i
      BY <1>0 DEF Min
    <3>3. QED
      BY <1>0, <1>2, <3>1, <3>2 DEF Without, RemoveFirstMatch, SelectInSeq
  <2> DEFINE rest == RemoveAt(list, i)
  <2>3. /\ rest \in Lists(b)
        /\ Len(rest) = Len(list) - 1
        /\ DOMAIN rest = 1 .. Len(list) - 1
        /\ \A k \in DOMAIN rest : rest[k] = list[IF k < i THEN k ELSE k + 1]
    <3>1. rest \in Lists(b) /\ Len(rest) = Len(list) - 1
      BY RemovalKeepsOrder
    <3>2. \A k \in DOMAIN rest : rest[k] = list[IF k < i THEN k ELSE k + 1]
      BY RemovalKeepsOrder
    <3> HIDE DEF rest
    <3>3. QED
      BY <1>0, <3>1, <3>2 DEF Lists
  <2> HIDE DEF rest
  <2>4. Known(rest) \subseteq Known(list) \ {s}
    BY <1>0, <2>1, <2>3 DEF Known
  <2>5. ASSUME NEW j \in DOMAIN list, j # i PROVE list[j].port \in Known(rest)
    <3>1. CASE j < i
      BY <1>0, <2>3, <3>1 DEF Known
    <3>2. CASE j > i
      <4>1. j - 1 \in DOMAIN rest /\ rest[j - 1] = list[j]
        BY <1>0, <1>2, <2>3, <3>2
      <4>2. QED
        BY <4>1 DEF Known
    <3>3. QED
      BY <1>0, <2>5, <3>1, <3>2
  <2>6. Known(list) \ {s} \subseteq Known(rest)
    BY <1>2, <2>5 DEF Known
  <2>7. QED
    BY <2>2, <2>3, <2>4, <2>6 DEF rest
<1>3. QED
  BY <1>1, <1>2

\* A server just heard of goes behind all others.
LEMMA HeardLast ==
  ASSUME NEW b \in Nat, NEW list \in Lists(b), NEW s \in Servers, s \notin Known(list)
  PROVE  LET new == Append(list, [port |-> s, age |-> 0])
         IN  new \in Lists(b) /\ Known(new) = Known(list) \cup {s} /\ new # <<>>
<1> DEFINE E == Entries(b)
<1> DEFINE new == Append(list, [port |-> s, age |-> 0])
<1>1. /\ list \in Seq(E) /\ Len(list) \in Nat /\ DOMAIN list = 1 .. Len(list)
      /\ Ordered(list, b)
  BY DEF Lists
<1>2. [port |-> s, age |-> 0] \in E
  BY LanScannerAssumption DEF Entries
<1>3. \A i \in DOMAIN list : b = 0 => list[i].age \in 0 .. Expiry
  <2>1. \A i \in DOMAIN list : list[i] \in E
    <3> HIDE DEF E
    <3>1. QED
      BY <1>1
  <2>2. QED
    BY <2>1 DEF Entries
<1> HIDE DEF E
<1>4. /\ new \in Seq(E) /\ DOMAIN new = 1 .. Len(list) + 1
      /\ \A i \in DOMAIN list : new[i] = list[i]
      /\ new[Len(list) + 1] = [port |-> s, age |-> 0]
  BY <1>1, <1>2
<1> HIDE DEF new
<1>5. \A i \in DOMAIN new : i \in DOMAIN list \/ i = Len(list) + 1
  BY <1>1, <1>4
<1>6. Ordered(new, b)
  BY <1>1, <1>3, <1>4, <1>5 DEF Ordered, Known
<1>7. Known(new) = Known(list) \cup {s}
  BY <1>1, <1>4, <1>5 DEF Known
<1>8. new # <<>>
  BY <1>1, <1>4
<1>9. QED
  BY <1>4, <1>6, <1>7, <1>8 DEF Lists, new, E

\* In every state a server is known once, the one heard longest ago first; the
\* first published port, which set_scanning hosts, is that of a known server,
\* and there is one when one is known.
THEOREM FirstIsKnownHolds == ScannerSpec => []FirstIsKnown
<1>1. ScannerInit => FirstIsKnown
  BY LanScannerAssumption DEF ScannerInit, FirstIsKnown, ScannerTypeOK, HeardInOrder
<1>2. FirstIsKnown /\ [ScannerNext]_scannerVars => FirstIsKnown'
  <2> SUFFICES ASSUME FirstIsKnown, [ScannerNext]_scannerVars
               PROVE  FirstIsKnown'
    OBVIOUS
  <2>0. back \in Nat
    BY LanScannerAssumption DEF FirstIsKnown, ScannerTypeOK
  <2>1. /\ ports \in Lists(back) /\ Len(ports) \in Nat /\ DOMAIN ports = 1 .. Len(ports)
        /\ ports \in Seq(Entries(back))
    BY DEF FirstIsKnown, ScannerTypeOK, HeardInOrder, Lists, Ordered, Entries
  <2>2. ASSUME ports' \in Lists(back), UNCHANGED back
        PROVE  /\ ports' \in Seq([port : Servers, age : -back' .. Expiry])
               /\ HeardInOrder'
    BY <2>2 DEF Lists, Ordered, Entries, HeardInOrder
  <2>3. ASSUME NEW list \in Lists(back), NEW dirty \in BOOLEAN, Publish(list, dirty)
        PROVE  /\ output' \in Seq(Servers)
               /\ dirty => /\ output' = <<>> <=> list = <<>>
                           /\ output' # <<>> => Head(output') \in Known(list)
               /\ ~dirty => output' = output
    <3>1. /\ Len(list) \in Nat /\ DOMAIN list = 1 .. Len(list)
          /\ list \in Seq(Entries(back))
      BY DEF Lists
    <3>2. CASE dirty
      <4>1. output' = [i \in DOMAIN list |-> list[1].port]
        BY <2>3, <3>2 DEF Publish
      <4>2. output' \in Seq(Servers) /\ Len(output') = Len(list)
        <5>1. list # <<>> => list[1].port \in Servers
          <6>1. list # <<>> => list[1] \in Entries(back)
            <7>1. list # <<>> => 1 \in 1 .. Len(list)
              BY <3>1
            <7>2. QED
              BY <3>1, <7>1, ElementOfSeq
          <6>2. QED
            BY <6>1 DEF Entries
        <5>2. output' \in [1 .. Len(list) -> Servers]
          BY <3>1, <4>1, <5>1
        <5>3. output' \in Seq(Servers)
          BY <3>1, <5>2
        <5>4. Len(output') = Len(list)
          BY <3>1, <5>2, <5>3
        <5>5. QED
          BY <5>3, <5>4
      <4>3. list # <<>> => /\ 1 \in DOMAIN list /\ Head(output') = list[1].port
        BY <3>1, <4>1, <4>2
      <4>4. QED
        BY <3>1, <3>2, <4>2, <4>3 DEF Known
    <3>3. CASE ~dirty
      BY <2>3, <3>3 DEF Publish, FirstIsKnown, ScannerTypeOK
    <3>4. QED
      BY <3>2, <3>3
  <2>4. ASSUME NEW s \in Servers, OpenToLan(s) \/ Close(s) \/ Announce(s)
        PROVE  FirstIsKnown'
    BY <2>4 DEF OpenToLan, Close, Announce, FirstIsKnown, ScannerTypeOK, HeardInOrder, Known
  <2>5. ASSUME NEW age \in [DOMAIN ports -> Int],
               ports' = [i \in DOMAIN ports |-> [port |-> ports[i].port, age |-> age[i]]],
               back' \in 0 .. MaxBack, UNCHANGED <<lan, inflight, output, step>>,
               \A i \in DOMAIN ports : age[i] \in -back' .. Expiry,
               back' = 0 =>
                 /\ back = 0
                 /\ \A i, j \in DOMAIN ports : ports[i].age >= ports[j].age => age[i] >= age[j]
        PROVE  FirstIsKnown'
    <3>1. /\ DOMAIN ports' = DOMAIN ports
          /\ \A i \in DOMAIN ports : ports'[i].port = ports[i].port /\ ports'[i].age = age[i]
      BY <2>5
    <3>2. ports' \in Seq([port : Servers, age : -back' .. Expiry])
      <4>1. \A i \in DOMAIN ports : ports[i] \in Entries(back)
        BY <2>1, ElementOfSeq
      <4>2. \A i \in DOMAIN ports : ports[i].port \in Servers
        BY <4>1 DEF Entries
      <4> DEFINE E == [port : Servers, age : -back' .. Expiry]
      <4>3. ports' \in [1 .. Len(ports) -> E] /\ Len(ports) \in Nat
        BY <2>1, <2>5, <4>2
      <4> HIDE DEF E
      <4>4. ports' \in Seq(E)
        BY <4>3
      <4>5. QED
        BY <4>4 DEF E
    <3>3. HeardInOrder'
      BY <2>5, <3>1 DEF FirstIsKnown, HeardInOrder
    <3>4. Known(ports)' = Known(ports)
      BY <3>1 DEF Known
    <3>5. ports' = <<>> <=> ports = <<>>
      BY <2>1, <3>1, <3>2
    <3>6. QED
      BY <2>5, <3>2, <3>3, <3>4, <3>5 DEF FirstIsKnown, ScannerTypeOK
  <2>6. \A i \in DOMAIN ports :
          /\ ports[i] = [port |-> ports[i].port, age |-> ports[i].age]
          /\ ports[i].age \in -back .. Expiry
    <3>1. \A i \in DOMAIN ports : ports[i] \in Entries(back)
      BY <2>1, ElementOfSeq
    <3>2. QED
      BY <3>1 DEF Entries
  <2>7. CASE Tick
    <3> DEFINE age == [i \in DOMAIN ports |->
                         IF ports[i].age < Expiry THEN ports[i].age + 1 ELSE Expiry]
    <3>1. /\ age \in [DOMAIN ports -> Int]
          /\ \A i \in DOMAIN ports : age[i] \in -back .. Expiry
          /\ \A i, j \in DOMAIN ports : ports[i].age >= ports[j].age => age[i] >= age[j]
      BY <2>0, <2>6, LanScannerAssumption
    <3>2. /\ ports' = [i \in DOMAIN ports |-> [port |-> ports[i].port, age |-> age[i]]]
          /\ UNCHANGED <<lan, inflight, output, step, back>>
      BY <2>6, <2>7 DEF Tick
    <3>3. back \in 0 .. MaxBack
      BY DEF FirstIsKnown, ScannerTypeOK
    <3> HIDE DEF age
    <3>4. QED
      BY <2>5, <3>1, <3>2, <3>3
  <2>8. ASSUME NEW ticks \in 1 .. MaxBack, SetBack(ticks) PROVE FirstIsKnown'
    <3> DEFINE age == [i \in DOMAIN ports |-> ports[i].age - ticks]
    <3>1. /\ back' = back + ticks /\ back' \in 0 .. MaxBack /\ back' # 0
          /\ UNCHANGED <<lan, inflight, output, step>>
      BY <2>0, <2>8, LanScannerAssumption DEF SetBack
    <3>2. /\ age \in [DOMAIN ports -> Int]
          /\ \A i \in DOMAIN ports : age[i] \in -back' .. Expiry
      BY <2>0, <2>6, <3>1, LanScannerAssumption
    <3>3. ports' = [i \in DOMAIN ports |-> [port |-> ports[i].port, age |-> age[i]]]
      BY <2>6, <2>8 DEF SetBack
    <3> HIDE DEF age
    <3>4. QED
      BY <2>5, <3>1, <3>2, <3>3
  <2>9. CASE Expire
    <3>1. ports' \in Lists(back)
      BY <2>0, <2>1, <2>9, HeardInLists DEF Expire
    <3>2. QED
      BY <2>2, <2>9, <3>1 DEF Expire, FirstIsKnown, ScannerTypeOK, Known
  <2>10. CASE ReceiveNothing
    <3>1. Publish(ports, step = "dirty") /\ UNCHANGED ports /\ step' = "expire"
      BY <2>10 DEF ReceiveNothing
    <3>2. /\ output' \in Seq(Servers)
          /\ output' = <<>> <=> ports = <<>>
          /\ output' # <<>> => Head(output') \in Known(ports)
      BY <2>1, <2>3, <3>1 DEF FirstIsKnown
    <3>3. QED
      BY <2>10, <3>1, <3>2 DEF ReceiveNothing, FirstIsKnown, ScannerTypeOK, HeardInOrder, Known
  <2>11. ASSUME NEW s \in Servers, Receive(s) PROVE FirstIsKnown'
    <3> DEFINE others == Without(ports, s)
    <3>1. /\ ports' = Append(others, [port |-> s, age |-> 0])
          /\ Publish(ports', step = "dirty" \/ s \notin Known(ports))
      BY <2>11 DEF Receive
    <3>2. others \in Lists(back) /\ Known(others) = Known(ports) \ {s}
      BY <2>0, <2>1, WithoutOne
    <3> HIDE DEF others
    <3>3. /\ ports' \in Lists(back) /\ ports' # <<>>
          /\ Known(ports') = Known(ports) \cup {s}
      BY <2>0, <3>1, <3>2, HeardLast
    <3>4. /\ output' \in Seq(Servers)
          /\ output' # <<>> /\ Head(output') \in Known(ports')
      <4>1. CASE step = "dirty" \/ s \notin Known(ports)
        BY <2>3, <3>1, <3>3, <4>1
      <4>2. CASE ~(step = "dirty" \/ s \notin Known(ports))
        <5>1. output' = output /\ output \in Seq(Servers)
          BY <3>1, <4>2 DEF Publish, FirstIsKnown, ScannerTypeOK
        <5>2. ports # <<>>
          BY <4>2 DEF Known
        <5>3. QED
          BY <3>3, <4>2, <5>1, <5>2 DEF FirstIsKnown
      <4>3. QED
        BY <4>1, <4>2
    <3>5. QED
      BY <2>2, <2>11, <3>3, <3>4 DEF Receive, FirstIsKnown, ScannerTypeOK, Known
  <2>12. CASE UNCHANGED scannerVars
    BY <2>12 DEF scannerVars, FirstIsKnown, ScannerTypeOK, HeardInOrder, Known
  <2>13. QED
    BY <2>4, <2>7, <2>8, <2>9, <2>10, <2>11, <2>12 DEF ScannerNext, Round, ReceiveAny
<1>3. QED
  BY <1>1, <1>2, PTL DEF ScannerSpec

=============================================================================
