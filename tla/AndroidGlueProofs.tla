-------------------------- MODULE AndroidGlueProofs --------------------------
(***************************************************************************)
(* Theorems about AndroidGlue, for all sets of instances, addresses and    *)
(* routes and any number of changes and exports: the last VPN request made *)
(* is never forgotten, and Java is never called over a request it has.     *)
(***************************************************************************)
EXTENDS AndroidGlue, TLAPS

USE AndroidAssumption, NoRequestAssumption, GivenAssumption

\* The request for a configuration of an instance is one of Requests, and each
\* of those is for one.
LEMMA RequestType ==
  /\ \A i \in Instances, c \in Config : Request(i, c) \in Requests
  /\ \A r \in Requests : r.from \in Instances /\ r.config \in Config /\ r = Request(r.from, r.config)
  BY DEF Requests, Request

\* The two bounds are counted up to.
LEMMA NumbersStart == 0 \in 0 .. MaxChanges /\ 0 \in 0 .. MaxExports
  OBVIOUS

LEMMA NumbersGrow ==
  ASSUME NEW max \in Nat, NEW n \in 0 .. max, n < max
  PROVE  n + 1 \in 0 .. max
  OBVIOUS

\* Initially there is no request.
LEMMA InitInv == AndroidInit => IInv
<1> SUFFICES ASSUME AndroidInit PROVE IInv
  OBVIOUS
<1>1. Unset \in Config /\ Unset.ip = NoAddress
  BY DEF Unset, Config
<1>2. TypeOK
  BY <1>1, NumbersStart DEF AndroidInit, TypeOK
<1>3. \A i \in Instances : past[i].ip = NoAddress
  BY <1>1 DEF AndroidInit
<1>4. HandsAgree
  BY DEF AndroidInit, HandsAgree
<1>5. QED
  BY <1>2, <1>3, <1>4 DEF IInv, LastRequestKept

\* The variables keep their types; that the polling thread has a request in hand
\* when it serves one is what keeps the type of "tun".
LEMMA TypeStep == TypeOK /\ HandsAgree /\ [AndroidNext]_vars => TypeOK'
<1> SUFFICES ASSUME TypeOK, HandsAgree, [AndroidNext]_vars
             PROVE  TypeOK'
  OBVIOUS
<1> USE DEF TypeOK, taskVars, pollVars, javaVars, logVars, PollerAt
<1>1. ASSUME NEW i \in Instances, Create(i) PROVE TypeOK'
  <2>1. PICK c \in Given : node' = [node EXCEPT ![i] = c]
    BY <1>1 DEF Create
  <2>2. QED
    BY <1>1, <2>1 DEF Create
<1>2. ASSUME NEW i \in Instances, Reconfigure(i) PROVE TypeOK'
  <2>1. PICK c \in Given : node' = [node EXCEPT ![i] = c]
    BY <1>2, NumbersGrow DEF Reconfigure
  <2>2. changes' \in 0 .. MaxChanges
    BY <1>2, NumbersGrow DEF Reconfigure
  <2>3. QED
    BY <1>2, <2>1, <2>2 DEF Reconfigure
<1>3. ASSUME NEW i \in Instances, ReadAddress(i) PROVE TypeOK'
  BY <1>3 DEF ReadAddress, Config
<1>4. ASSUME NEW i \in Instances, Publish(i) PROVE TypeOK'
  <2> DEFINE c == [ip |-> seen[i], routes |-> node[i].routes]
  <2>1. c \in Config
    BY DEF Config
  <2>2. Request(i, c) \in Requests
    BY <2>1, RequestType
  <2> HIDE DEF c
  <2>3. /\ past' = [past EXCEPT ![i] = c]
        /\ \/ slot' = Request(i, c) /\ last' = i
           \/ UNCHANGED <<slot, last>>
    BY <1>4 DEF Publish, Submit, Request, c
  <2>4. QED
    <3>1. /\ past' \in [Instances -> Config]
          /\ slot' \in Requests \cup {NoRequest}
          /\ last' \in Instances \cup {NoRequest}
      BY <2>1, <2>2, <2>3
    <3>2. task' \in [Instances -> {"none", "address", "routes", "last routes", "gone"}]
      BY <1>4 DEF Publish
    <3>3. seen' \in [Instances -> Addresses]
      BY <1>4 DEF Publish
    <3>4. QED
      BY <1>4, <3>1, <3>2, <3>3 DEF Publish
<1>5. ASSUME NEW i \in Instances, Drop(i) PROVE TypeOK'
  <2>1. Unset \in Config
    BY DEF Unset, Config
  <2>2. /\ task' \in [Instances -> {"none", "address", "routes", "last routes", "gone"}]
        /\ node' \in [Instances -> Config]
        /\ seen' \in [Instances -> Addresses]
    BY <1>5, <2>1 DEF Drop
  <2>3. QED
    BY <1>5, <2>2 DEF Drop
<1>6. CASE Poll
  BY <1>6 DEF Poll
<1>7. CASE Call
  BY <1>7 DEF Call
<1>8. CASE TakeAnswer \/ TakeRejection \/ GiveUp
  BY <1>8 DEF TakeAnswer, TakeRejection, GiveUp
<1>9. CASE Serve
  <2>1. held \in Requests
    BY <1>9 DEF Serve, HandsAgree
  <2>2. held.from \in Instances /\ held.config \in Config
    BY <2>1, RequestType
  <2>3. QED
    BY <1>9, <2>2 DEF Serve
<1>10. CASE LogFailure
  BY <1>10 DEF LogFailure
<1>11. CASE StartVpn \/ Reject
  BY <1>11 DEF StartVpn, Reject
<1>12. CASE CollectLogs \/ CloseLogs
  <2>1. exports' \in 0 .. MaxExports /\ log' \in {"free", "export"}
    BY <1>12, NumbersGrow DEF CollectLogs, CloseLogs
  <2>2. UNCHANGED <<node, task, seen, past, changes, tun, slot, last, poller, held, thrown,
                    pendingRequest, fd>>
    BY <1>12, NumbersGrow DEF CollectLogs, CloseLogs
  <2>3. QED
    BY <2>1, <2>2
<1>13. CASE UNCHANGED vars
  BY <1>13 DEF vars
<1>14. QED
  BY <1>1, <1>2, <1>3, <1>4, <1>5, <1>6, <1>7, <1>8, <1>9, <1>10, <1>11, <1>12, <1>13
  DEF AndroidNext

\* Hand and request change together.
LEMMA HandsStep == TypeOK /\ HandsAgree /\ [AndroidNext]_vars => HandsAgree'
<1> SUFFICES ASSUME TypeOK, HandsAgree, [AndroidNext]_vars
             PROVE  HandsAgree'
  OBVIOUS
<1> USE DEF HandsAgree, taskVars, pollVars, javaVars, logVars, PollerAt
<1>1. ASSUME NEW i \in Instances,
             Create(i) \/ Reconfigure(i) \/ ReadAddress(i) \/ Publish(i) \/ Drop(i)
      PROVE  HandsAgree'
  <2>1. UNCHANGED <<poller, held, thrown, pendingRequest>>
    BY <1>1 DEF Create, Reconfigure, ReadAddress, Publish, Drop
  <2>2. QED
    BY <2>1
<1>2. CASE Poll
  BY <1>2 DEF Poll
<1>3. CASE Call
  BY <1>3 DEF Call
<1>4. CASE TakeAnswer \/ TakeRejection \/ GiveUp
  BY <1>4 DEF TakeAnswer, TakeRejection, GiveUp
<1>5. CASE Serve \/ LogFailure
  BY <1>5 DEF Serve, LogFailure
<1>6. CASE StartVpn \/ Reject \/ CollectLogs \/ CloseLogs
  BY <1>6 DEF StartVpn, Reject, CollectLogs, CloseLogs
<1>7. CASE UNCHANGED vars
  BY <1>7 DEF vars
<1>8. QED
  BY <1>1, <1>2, <1>3, <1>4, <1>5, <1>6, <1>7 DEF AndroidNext

\* Where the last request of an instance is; LastRequestKept says it of the one
\* that asked last.
Kept(i) ==
  \/ slot = Request(i, past[i])
  \/ slot = NoRequest /\ held = Request(i, past[i])
  \/ slot = NoRequest /\ held = NoRequest /\ tun[i] = past[i]

\* A request moves from the slot into the hand and from there to its instance;
\* what replaces it in the slot is the request that is the last from then on.
LEMMA KeptStep == IInv /\ [AndroidNext]_vars =>
  \A i \in Instances : (last = i /\ past[i].ip # NoAddress /\ ~thrown => Kept(i))'
<1> SUFFICES ASSUME IInv, [AndroidNext]_vars, NEW i \in Instances,
                    last' = i, past'[i].ip # NoAddress, ~thrown'
             PROVE  Kept(i)'
  OBVIOUS
<1>1. TypeOK /\ HandsAgree
  BY DEF IInv, LastRequestKept
<1>2. ASSUME last = i, past[i].ip # NoAddress, ~thrown PROVE Kept(i)
  BY <1>2 DEF IInv, LastRequestKept, Kept
<1> USE <1>1 DEF taskVars, pollVars, javaVars, logVars, PollerAt
<1>3. ASSUME NEW j \in Instances, Create(j) \/ Reconfigure(j) \/ ReadAddress(j) \/ Drop(j)
      PROVE  Kept(i)'
  BY <1>2, <1>3 DEF Create, Reconfigure, ReadAddress, Drop, Kept
<1>4. ASSUME NEW j \in Instances, Publish(j) PROVE Kept(i)'
  <2> DEFINE c == [ip |-> seen[j], routes |-> node[j].routes]
  <2>1. c.ip = seen[j]
    OBVIOUS
  <2> HIDE DEF c
  <2>2. /\ past' = [past EXCEPT ![j] = c]
        /\ IF past[j] # c /\ c.ip # NoAddress
           THEN slot' = Request(j, c) /\ last' = j ELSE UNCHANGED <<slot, last>>
        /\ UNCHANGED <<tun, held, thrown>>
    BY <1>4 DEF Publish, Submit, Differs, Request, c
  <2>3. CASE j = i /\ past[i] # c
    BY <2>2, <2>3 DEF TypeOK, Kept
  <2>4. CASE j # i \/ past[i] = c
    <3>1. past'[i] = past[i]
      BY <2>2, <2>4 DEF TypeOK
    <3>2. UNCHANGED <<slot, last>>
      BY <2>2, <2>4
    <3>3. QED
      BY <1>2, <2>2, <3>1, <3>2 DEF Kept
  <2>5. QED
    BY <2>3, <2>4
<1>5. CASE Poll
  BY <1>2, <1>5, RequestType DEF Poll, Kept, HandsAgree
<1>6. CASE Call \/ TakeAnswer \/ TakeRejection \/ GiveUp \/ LogFailure
  BY <1>2, <1>6 DEF Call, TakeAnswer, TakeRejection, GiveUp, LogFailure, Kept, HandsAgree
<1>7. CASE Serve
  <2>1. Kept(i) /\ held # NoRequest
    BY <1>2, <1>7 DEF Serve, HandsAgree
  <2>2. CASE slot = Request(i, past[i])
    BY <1>7, <2>2 DEF Serve, Kept
  <2>3. CASE slot = NoRequest /\ held = Request(i, past[i])
    <3>1. held.from = i /\ held.config = past[i]
      BY <2>3 DEF Request
    <3>2. QED
      BY <1>7, <2>3, <3>1 DEF Serve, Kept, TypeOK
  <2>4. QED
    BY <2>1, <2>2, <2>3 DEF Kept
<1>8. CASE StartVpn \/ Reject \/ CollectLogs \/ CloseLogs \/ UNCHANGED vars
  BY <1>2, <1>8 DEF StartVpn, Reject, CollectLogs, CloseLogs, vars, Kept
<1>9. QED
  BY <1>3, <1>4, <1>5, <1>6, <1>7, <1>8 DEF AndroidNext

\* The inductive invariant.
THEOREM Inductive == Spec => []IInv
<1>1. ASSUME IInv, [AndroidNext]_vars PROVE IInv'
  <2>1. TypeOK /\ HandsAgree
    BY <1>1 DEF IInv, LastRequestKept
  <2>2. TypeOK' /\ HandsAgree'
    BY <1>1, <2>1, TypeStep, HandsStep
  <2>3. LastRequestKept'
    BY <1>1, <2>2, KeptStep DEF LastRequestKept, Kept
  <2>4. QED
    BY <2>2, <2>3 DEF IInv
<1>2. QED
  BY <1>1, InitInv, PTL DEF Spec

\* The last VPN request made is in the slot, in the hands of the polling thread
\* or served, unless a call ended with an exception.
THEOREM LastRequestKeptHolds == Spec => []LastRequestKept
<1>1. IInv => LastRequestKept
  BY DEF IInv
<1>2. QED
  BY <1>1, Inductive, PTL

\* The assertion at the head of onVpnServiceStateChanged holds whenever a call
\* gets there.
THEOREM NoSecondRequestHolds == Spec => []NoSecondRequest
<1>1. IInv => NoSecondRequest
  BY DEF IInv, HandsAgree, NoSecondRequest
<1>2. QED
  BY <1>1, Inductive, PTL

=============================================================================
