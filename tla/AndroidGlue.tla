----------------------------- MODULE AndroidGlue -----------------------------
(***************************************************************************)
(* How an EasyTier instance gets its tunnel on Android.  A task of each    *)
(* instance (easytier/linkage_impl.rs) publishes a request whenever the    *)
(* address or the routes of its node change, into the one slot that all    *)
(* instances share; a polling thread (lib.rs) takes it out and calls Java, *)
(* where the developer of the app has to start a VPN or to reject, and     *)
(* writes the file descriptor where the instance looks for it.  Whoever    *)
(* logs needs the log file, which the app may hold for an export.          *)
(*                                                                         *)
(* Two instances may run at once: a start_guest that was cancelled still   *)
(* launches its own.  A descriptor stands for the configuration of the     *)
(* request that it was made for.                                           *)
(***************************************************************************)
EXTENDS Integers

CONSTANTS
  Instances,    \* launches of EasyTier
  Addresses,    \* virtual addresses, NoAddress among them
  NoAddress,
  Routes,       \* lists of proxied CIDRs, NoRoutes among them
  NoRoutes,
  NoRequest,    \* None in the slot, and nothing in a hand
  Given,        \* bound: the configurations that the networks give
  MaxChanges,   \* bound: changes of the networks' configuration
  MaxExports    \* bound: exports of the log

ASSUME AndroidAssumption ==
  /\ NoAddress \in Addresses
  /\ NoRoutes \in Routes
  /\ MaxChanges \in Nat
  /\ MaxExports \in Nat

Config == [ip : Addresses, routes : Routes]
Unset == [ip |-> NoAddress, routes |-> NoRoutes]
Request(i, c) == [from |-> i, config |-> c]
Requests == {Request(i, c) : i \in Instances, c \in Config}

ASSUME NoRequestAssumption == NoRequest \notin Requests
ASSUME GivenAssumption == Given \subseteq Config

VARIABLES
  node,       \* the address and the routes an instance has by now
  task,       \* where the task of an instance is
  seen,       \* the address it read in this round
  past,       \* p_address and p_proxy_cidrs
  tun,        \* data.tun_fd of an instance: the configuration it has a VPN for
  slot,       \* VPN_SERVICE_CFG
  last,       \* history: which instance wrote the slot last
  poller,     \* where the polling thread is
  held,       \* the request it took
  thrown,     \* a Java exception is pending in its JNIEnv
  pendingRequest,  \* Java: a request is there for the developer
  fd,         \* the AtomicLong of that request
  log,        \* LOGGING_FD: "free", or locked for an "export"
  changes, exports

taskVars == <<node, task, seen, past, changes>>
pollVars == <<poller, held, thrown>>
javaVars == <<pendingRequest, fd>>
logVars == <<log, exports>>
vars == <<taskVars, tun, slot, last, pollVars, javaVars, logVars>>

Running(i) == task[i] \in {"address", "routes"}

-----------------------------------------------------------------------------

AndroidInit ==
  /\ node = [i \in Instances |-> Unset]
  /\ task = [i \in Instances |-> "none"]
  /\ seen = [i \in Instances |-> NoAddress]
  /\ past = [i \in Instances |-> Unset]
  /\ tun = [i \in Instances |-> Unset]
  /\ slot = NoRequest
  /\ last = NoRequest
  /\ poller = "asleep"
  /\ held = NoRequest
  /\ thrown = FALSE
  /\ pendingRequest = FALSE
  /\ fd = "pending"
  /\ log = "free"
  /\ changes = 0
  /\ exports = 0

\* easytier::create spawns the task; a host's address is given, a guest's
\* comes by DHCP, and routes come with the other members.
Create(i) ==
  /\ task[i] = "none"
  /\ task' = [task EXCEPT ![i] = "address"]
  /\ \E c \in Given : c.routes = NoRoutes /\ node' = [node EXCEPT ![i] = c]
  /\ UNCHANGED <<seen, past, changes, tun, slot, last, pollVars, javaVars, logVars>>

\* The network gives the node another address or other routes.
Reconfigure(i) ==
  /\ Running(i)
  /\ changes < MaxChanges
  /\ changes' = changes + 1
  /\ \E c \in Given \ {node[i]} : node' = [node EXCEPT ![i] = c]
  /\ UNCHANGED <<task, seen, past, tun, slot, last, pollVars, javaVars, logVars>>

\* A round makes two queries; the node may change between them.
ReadAddress(i) ==
  /\ task[i] = "address"
  /\ task' = [task EXCEPT ![i] = "routes"]
  /\ seen' = [seen EXCEPT ![i] = node[i].ip]
  /\ UNCHANGED <<node, past, changes, tun, slot, last, pollVars, javaVars, logVars>>

(* Seeded fault: what the first round finds is taken for known. *)
DiffersFromEarlier(i, c) == past[i] # Unset /\ past[i] # c

Differs(i, c) == past[i] # c

\* on_vpnservice_change: whatever is in the slot is replaced.
Submit(request) == slot' = request /\ last' = request.from

(* Seeded fault: what is remembered is asked for once more, after the request. *)
PublishThenAsk(i) ==
  /\ task[i] \in {"routes", "last routes"}
  /\ task' = [task EXCEPT ![i] = IF @ = "routes" THEN "address" ELSE "gone"]
  /\ past' = [past EXCEPT ![i] = node[i]]
  /\ LET c == [ip |-> seen[i], routes |-> node[i].routes]
     IN  IF Differs(i, c) /\ c.ip # NoAddress THEN Submit(Request(i, c))
                                             ELSE UNCHANGED <<slot, last>>
  /\ seen' = [seen EXCEPT ![i] = NoAddress]
  /\ UNCHANGED <<node, changes, tun, pollVars, javaVars, logVars>>

\* What has changed is published, once there is an address.
Publish(i) ==
  /\ task[i] \in {"routes", "last routes"}
  /\ task' = [task EXCEPT ![i] = IF @ = "routes" THEN "address" ELSE "gone"]
  /\ LET c == [ip |-> seen[i], routes |-> node[i].routes]
     IN  /\ past' = [past EXCEPT ![i] = c]
         /\ IF Differs(i, c) /\ c.ip # NoAddress THEN Submit(Request(i, c))
                                                 ELSE UNCHANGED <<slot, last>>
  /\ seen' = [seen EXCEPT ![i] = NoAddress]
  /\ UNCHANGED <<node, changes, tun, pollVars, javaVars, logVars>>

\* Drop logs, and shuts down the runtime of the task without waiting for it:
\* the task may go on until it next has to wait.  A task whose query fails
\* ends, too: it unwraps the answer.  What the node has is of no use any more.
Drop(i) ==
  /\ Running(i)
  /\ log = "free"
  /\ \/ /\ task' = [task EXCEPT ![i] = "gone"]
        /\ node' = [node EXCEPT ![i] = Unset]
        /\ seen' = [seen EXCEPT ![i] = NoAddress]
     \/ /\ task[i] = "routes"
        /\ task' = [task EXCEPT ![i] = "last routes"]
        /\ UNCHANGED <<node, seen>>
  /\ UNCHANGED <<past, changes, tun, slot, last, pollVars, javaVars, logVars>>

-----------------------------------------------------------------------------
(* The polling thread. *)

PollerAt(place) == poller' = place

\* Once a second.
Poll ==
  /\ poller = "asleep"
  /\ slot # NoRequest
  /\ held' = slot
  /\ slot' = NoRequest
  /\ PollerAt("taken")
  /\ UNCHANGED <<taskVars, tun, last, thrown, javaVars, logVars>>

\* The request is logged, and Java called.  Java makes the request known and
\* calls the developer back, unless there is one already.  With an exception of
\* an earlier call pending, no call works: new_string() is unwrapped, and a call
\* that is made all the same comes back with the old exception.
Call ==
  /\ poller = "taken"
  /\ log = "free"
  /\ \/ /\ ~thrown /\ ~pendingRequest
        /\ pendingRequest' = TRUE
        /\ fd' = "pending"
        /\ PollerAt("waiting")
        /\ UNCHANGED thrown
     \/ /\ thrown
        /\ PollerAt("dead") \/ PollerAt("failed")
        /\ UNCHANGED <<thrown, javaVars>>
  /\ UNCHANGED <<taskVars, tun, slot, last, held, logVars>>

\* The developer starts a VPN, or rejects; the last word counts.
StartVpn ==
  /\ pendingRequest
  /\ fd' = "started"
  /\ UNCHANGED <<taskVars, tun, slot, last, pollVars, pendingRequest, logVars>>

Reject ==
  /\ pendingRequest
  /\ fd' = "rejected"
  /\ UNCHANGED <<taskVars, tun, slot, last, pollVars, pendingRequest, logVars>>

(* Seeded fault: the request stays behind. *)
TakeAnswerOnly ==
  /\ poller = "waiting"
  /\ fd = "started"
  /\ PollerAt("served")
  /\ UNCHANGED <<taskVars, tun, slot, last, held, thrown, javaVars, logVars>>

\* onVpnServiceStateChanged goes round its loop until there is an answer ...
TakeAnswer ==
  /\ poller = "waiting"
  /\ fd = "started"
  /\ pendingRequest' = FALSE
  /\ PollerAt("served")
  /\ UNCHANGED <<taskVars, tun, slot, last, held, thrown, fd, logVars>>

TakeRejection ==
  /\ poller = "waiting"
  /\ fd = "rejected"
  /\ pendingRequest' = FALSE
  /\ thrown' = TRUE
  /\ PollerAt("failed")
  /\ UNCHANGED <<taskVars, tun, slot, last, held, fd, logVars>>

\* ... or 30 s are over; the request stays where the developer finds it.
GiveUp ==
  /\ poller = "waiting"
  /\ fd = "pending"
  /\ thrown' = TRUE
  /\ PollerAt("failed")
  /\ UNCHANGED <<taskVars, tun, slot, last, held, javaVars, logVars>>

(* Seeded fault: the slot is cleared after the request was served. *)
ServeAndClear ==
  /\ poller = "served"
  /\ log = "free"
  /\ tun' = [tun EXCEPT ![held.from] = held.config]
  /\ held' = NoRequest
  /\ slot' = NoRequest
  /\ PollerAt("asleep")
  /\ UNCHANGED <<taskVars, last, thrown, javaVars, logVars>>

\* The descriptor goes to the instance that asked.
Serve ==
  /\ poller = "served"
  /\ log = "free"
  /\ tun' = [tun EXCEPT ![held.from] = held.config]
  /\ held' = NoRequest
  /\ PollerAt("asleep")
  /\ UNCHANGED <<taskVars, slot, last, thrown, javaVars, logVars>>

\* Err(JavaException) is logged; the exception is not cleared.
LogFailure ==
  /\ poller = "failed"
  /\ log = "free"
  /\ held' = NoRequest
  /\ PollerAt("asleep")
  /\ UNCHANGED <<taskVars, tun, slot, last, thrown, javaVars, logVars>>

-----------------------------------------------------------------------------
(* The export of the log: the guard of the file is handed to Java, and comes *)
(* back when the reader is closed or finalized.                              *)

CollectLogs ==
  /\ log = "free"
  /\ exports < MaxExports
  /\ exports' = exports + 1
  /\ log' = "export"
  /\ UNCHANGED <<taskVars, tun, slot, last, pollVars, javaVars>>

CloseLogs ==
  /\ log = "export"
  /\ log' = "free"
  /\ UNCHANGED <<taskVars, tun, slot, last, pollVars, javaVars, exports>>

-----------------------------------------------------------------------------

TaskRound(i) == ReadAddress(i) \/ Publish(i)

PollerStep ==
  Poll \/ Call \/ TakeAnswer \/ TakeRejection \/ Serve \/ LogFailure

AndroidNext ==
  \/ \E i \in Instances :
       Create(i) \/ Reconfigure(i) \/ ReadAddress(i) \/ Publish(i) \/ Drop(i)
  \/ Poll \/ Call \/ TakeAnswer \/ TakeRejection \/ GiveUp \/ Serve \/ LogFailure
  \/ StartVpn \/ Reject
  \/ CollectLogs \/ CloseLogs

Spec == AndroidInit /\ [][AndroidNext]_vars

\* The tasks and the polling thread run; the developer does what the
\* documentation asks for: answers every request and closes the reader.
Fairness ==
  /\ \A i \in Instances : WF_vars(TaskRound(i))
  /\ WF_vars(PollerStep)
  /\ WF_vars(fd = "pending" /\ (StartVpn \/ Reject))
  /\ WF_vars(CloseLogs)

FairSpec == Spec /\ Fairness

-----------------------------------------------------------------------------
(* Properties. *)

TypeOK ==
  /\ node \in [Instances -> Config]
  /\ task \in [Instances -> {"none", "address", "routes", "last routes", "gone"}]
  /\ seen \in [Instances -> Addresses]
  /\ past \in [Instances -> Config]
  /\ tun \in [Instances -> Config]
  /\ slot \in Requests \cup {NoRequest}
  /\ last \in Instances \cup {NoRequest}
  /\ poller \in {"asleep", "taken", "waiting", "served", "failed", "dead"}
  /\ held \in Requests \cup {NoRequest}
  /\ thrown \in BOOLEAN
  /\ pendingRequest \in BOOLEAN
  /\ fd \in {"pending", "started", "rejected"}
  /\ log \in {"free", "export"}
  /\ changes \in 0 .. MaxChanges
  /\ exports \in 0 .. MaxExports

\* The last request made is never forgotten, however requests, the developer's
\* answers and the exports overlap: it waits in the slot, or the polling thread
\* has it and nothing newer waits, or its VPN is the one in use - as long as no
\* call of the polling thread ended with an exception.
LastRequestKept ==
  /\ TypeOK
  /\ \A i \in Instances :
       last = i /\ past[i].ip # NoAddress /\ ~thrown =>
         \/ slot = Request(i, past[i])
         \/ slot = NoRequest /\ held = Request(i, past[i])
         \/ slot = NoRequest /\ held = NoRequest /\ tun[i] = past[i]

\* `pendingRequest != null`, "Should NOT be here": the polling thread never
\* enters Java while an earlier request is still there.  Where it would, after
\* one that timed out, it is stopped by the exception of that one.
NoSecondRequest == poller = "taken" /\ pendingRequest => thrown

\* What these two rest on: the polling thread has a request in hand but when it
\* sleeps, and as long as no exception is pending, Java has one only while the
\* thread waits for it.
HandsAgree ==
  /\ held = NoRequest <=> poller = "asleep"
  /\ poller \in {"failed", "dead"} => thrown
  /\ ~thrown => (pendingRequest <=> poller = "waiting")

IInv == LastRequestKept /\ HandsAgree

\* The tunnel comes to fit the network, with the first configuration as with
\* every later one: once the network has come to rest there is a VPN for just
\* what the node has, and for no mixture of what it had - unless another
\* instance asks after this one has asked for it, or a request is rejected or
\* times out.
TunFollowsNode ==
  \A i \in Instances :
    (Running(i) /\ node[i].ip # NoAddress)
      ~> \/ tun[i] = node[i]
         \/ node[i].ip = NoAddress
         \/ ~Running(i)
         \/ past[i] = node[i] /\ last \in Instances \ {i}
         \/ thrown

\* "Developer must make sure either startVpnService or reject() is invoked, or
\* ... EasyTier cannot submit a new VpnService Request": so that, when no
\* request goes unanswered, every request gets to the developer.
AnsweredRequestsMakeWay ==
  [](pendingRequest => poller = "waiting")
    => (slot # NoRequest ~> pendingRequest)

=============================================================================
