--------------------------- MODULE ScaffoldingLink ---------------------------
(***************************************************************************)
(* One guest's connection to the scaffolding server: ClientSession with    *)
(* its thread (src/scaffolding/client.rs), the thread of the server that   *)
(* handles the connection (src/scaffolding/server.rs), and the guest's     *)
(* worker thread, which calls send_sync one request at a time and gives    *)
(* the session up with the first call that returns None.                   *)
(*                                                                         *)
(* Requests are numbered by the order of the calls; the number is not on   *)
(* the wire.  A response carries the number of the request the server was  *)
(* answering, which the client cannot see.  Reads and writes may fail at   *)
(* any time: the peer is gone, EasyTier is, or 64 s have passed.           *)
(***************************************************************************)
EXTENDS Naturals, Sequences

CONSTANT Calls     \* bound: calls in a session

ASSUME ScaffoldingLinkAssumption == Calls \in Nat

VARIABLES
  caller,     \* "ready", "waiting" in send_sync, "gone", or "panicked"
  calls,      \* calls made so far
  result,     \* what each call returned
  channel,    \* the mpsc channel of packets, by number
  reply,      \* what was put into each call's own channel
  session,    \* the session thread
  packet,     \* the packet it is handling
  alive,      \* the OnceLock is not set yet
  toServer,   \* requests on the wire
  toClient,   \* responses on the wire
  server,     \* the server's thread for this connection
  request,    \* the request it has read
  handled     \* history: how often each request was handled

callVars == <<caller, calls, result>>
sessionVars == <<session, packet, alive>>
serverVars == <<server, request, handled>>
vars == <<callVars, channel, reply, sessionVars, toServer, toClient, serverVars>>

-----------------------------------------------------------------------------

Call == 1 .. Calls

Ok(n) == [status |-> "ok", of |-> n]
Fail(n) == [status |-> "fail", of |-> n]
None == [status |-> "none", of |-> 0]       \* send_sync's and handle's None
Nothing == [status |-> "nothing", of |-> 0] \* no value yet

Answers == {Ok(n) : n \in Call} \cup {Fail(n) : n \in Call}

LinkInit ==
  /\ caller = "ready"
  /\ calls = 0
  /\ result = [n \in Call |-> Nothing]
  /\ channel = <<>>
  /\ reply = [n \in Call |-> Nothing]
  /\ session = "idle"
  /\ packet = 0
  /\ alive = TRUE
  /\ toServer = <<>>
  /\ toClient = <<>>
  /\ server = "reading"
  /\ request = 0
  /\ handled = [n \in Call |-> 0]

-----------------------------------------------------------------------------
(* The guest's thread. *)

\* send: the packet goes to the session thread, whose end of the channel is
\* unwrapped.
Send ==
  /\ caller = "ready"
  /\ calls < Calls
  /\ calls' = calls + 1
  /\ \/ /\ session # "returned"
        /\ channel' = Append(channel, calls + 1)
        /\ caller' = "waiting"
     \/ /\ session = "returned"
        /\ caller' = "panicked"
        /\ UNCHANGED channel
  /\ UNCHANGED <<result, reply, sessionVars, toServer, toClient, serverVars>>

(* Seeded fault: the guest goes on after a call that returned None. *)
FinishAnyway(r) ==
  /\ result' = [result EXCEPT ![calls] = r]
  /\ caller' = "ready"
  /\ UNCHANGED calls

\* send_sync returns to the guest, who goes on only after an Ok.
Finish(r) ==
  /\ result' = [result EXCEPT ![calls] = IF r.status = "ok" THEN r ELSE None]
  /\ caller' = IF r.status = "ok" THEN "ready" ELSE "gone"
  /\ UNCHANGED calls

\* recv_timeout, every 100 ms: a response; no response from a dead session;
\* no response and nobody left to send one, which is `unreachable!()`.
Receive ==
  /\ caller = "waiting"
  /\ \/ reply[calls] # Nothing /\ Finish(reply[calls])
     \/ reply[calls] = Nothing /\ session # "returned" /\ ~alive /\ Finish(None)
     \/ /\ reply[calls] = Nothing
        /\ session = "returned"
        /\ caller' = "panicked"
        /\ UNCHANGED <<calls, result>>
  /\ UNCHANGED <<channel, reply, sessionVars, toServer, toClient, serverVars>>

\* The guest is overtaken between two calls: its thread returns.
Leave ==
  /\ caller = "ready"
  /\ caller' = "gone"
  /\ UNCHANGED <<calls, result, channel, reply, sessionVars, toServer,
                 toClient, serverVars>>

-----------------------------------------------------------------------------
(* The session thread. *)

(* Seeded fault: the thread holds a sender of its own, recv never fails. *)
NextPacketOnly ==
  /\ session = "idle"
  /\ channel # <<>>
  /\ packet' = Head(channel)
  /\ channel' = Tail(channel)
  /\ session' = "writing"
  /\ UNCHANGED <<callVars, reply, alive, toServer, toClient, serverVars>>

\* recv: the next packet, or the end when the ClientSession was dropped.
NextPacket ==
  /\ session = "idle"
  /\ \/ /\ channel # <<>>
        /\ packet' = Head(channel)
        /\ channel' = Tail(channel)
        /\ session' = "writing"
     \/ /\ channel = <<>>
        /\ caller \in {"gone", "panicked"}
        /\ session' = "returned"
        /\ UNCHANGED <<packet, channel>>
  /\ UNCHANGED <<callVars, reply, alive, toServer, toClient, serverVars>>

Write ==
  /\ session = "writing"
  /\ toServer' = Append(toServer, packet)
  /\ session' = "reading"
  /\ UNCHANGED <<callVars, channel, reply, packet, alive, toClient, serverVars>>

\* A whole response was read: handle(Some(response)).
Read ==
  /\ session = "reading"
  /\ toClient # <<>>
  /\ reply' = [reply EXCEPT ![packet] = Head(toClient)]
  /\ toClient' = Tail(toClient)
  /\ session' = "idle"
  /\ UNCHANGED <<callVars, channel, packet, alive, toServer, serverVars>>

(* Seeded faults of the error path. *)
SocketErrorOnWrite ==      \* the read has no timeout
  /\ session = "writing"
  /\ alive' = FALSE
  /\ session' = "failing"
  /\ UNCHANGED <<callVars, channel, reply, packet, toServer, toClient,
                 serverVars>>
SocketErrorRetried ==      \* the request is sent once more
  /\ session \in {"writing", "reading"}
  /\ session' = "writing"
  /\ UNCHANGED <<callVars, channel, reply, packet, alive, toServer, toClient,
                 serverVars>>

\* A write or a read failed: the session is dead from here on, ...
SocketError ==
  /\ session \in {"writing", "reading"}
  /\ alive' = FALSE
  /\ session' = "failing"
  /\ UNCHANGED <<callVars, channel, reply, packet, toServer, toClient,
                 serverVars>>

\* ... its packet is answered with None, ...
Report ==
  /\ session = "failing"
  /\ reply' = [reply EXCEPT ![packet] = None]
  /\ session' = "reported"
  /\ UNCHANGED <<callVars, channel, packet, alive, toServer, toClient,
                 serverVars>>

\* ... and the thread returns, with the socket and the channel.
Return ==
  /\ session = "reported"
  /\ session' = "returned"
  /\ UNCHANGED <<callVars, channel, reply, packet, alive, toServer, toClient,
                 serverVars>>

-----------------------------------------------------------------------------
(* The server's thread. *)

\* handle_connection: a request is read and its handler runs.
Handle ==
  /\ server = "reading"
  /\ toServer # <<>>
  /\ request' = Head(toServer)
  /\ toServer' = Tail(toServer)
  /\ handled' = [handled EXCEPT ![Head(toServer)] = @ + 1]
  /\ server' = "answering"
  /\ UNCHANGED <<callVars, channel, reply, sessionVars, toClient>>

\* The response, Ok or Fail by the handler's result, is written.
Answer ==
  /\ server = "answering"
  /\ \E r \in {Ok(request), Fail(request)} : toClient' = Append(toClient, r)
  /\ server' = "reading"
  /\ UNCHANGED <<callVars, channel, reply, sessionVars, toServer, request,
                 handled>>

\* A failed read or write - with an idle guest, after 64 s; at the end of the
\* stream, always - closes the connection.
Hangup ==
  /\ server # "closed"
  /\ server' = "closed"
  /\ UNCHANGED <<callVars, channel, reply, sessionVars, toServer, toClient,
                 request, handled>>

-----------------------------------------------------------------------------

SessionStep ==
  NextPacket \/ Write \/ Read \/ SocketError \/ Report \/ Return

ServerStep == Handle \/ Answer \/ Hangup

LinkNext == Send \/ Receive \/ Leave \/ SessionStep \/ ServerStep

Spec == LinkInit /\ [][LinkNext]_vars

\* The threads run, and their reads have a timeout.
FairSpec ==
  /\ Spec
  /\ WF_vars(Receive)
  /\ WF_vars(SessionStep)
  /\ WF_vars(ServerStep)

-----------------------------------------------------------------------------
(* Properties. *)

TypeOK ==
  /\ caller \in {"ready", "waiting", "gone", "panicked"}
  /\ calls \in 0 .. Calls
  /\ result \in [Call -> Answers \cup {None, Nothing}]
  /\ channel \in Seq(Call)
  /\ reply \in [Call -> Answers \cup {None, Nothing}]
  /\ session \in {"idle", "writing", "reading", "failing", "reported", "returned"}
  /\ packet \in 0 .. Calls
  /\ alive \in BOOLEAN
  /\ toServer \in Seq(Call)
  /\ toClient \in Seq(Answers)
  /\ server \in {"reading", "answering", "closed"}
  /\ request \in 0 .. Calls
  /\ handled \in [Call -> Nat]

\* A call that returns a response returns the one to its own request, which
\* the server has handled once: a late answer to a call that failed is never
\* taken for the answer to the next.
AnswersMatchCalls ==
  /\ TypeOK
  /\ \A n \in Call :
       result[n].status = "ok" => result[n] = Ok(n) /\ handled[n] = 1

\* No unwrap and no `unreachable!()` of the client is hit: a call is always
\* answered before the thread that answers it is gone, and a session that has
\* failed gets no other call.
CallerNeverPanics == caller # "panicked"

\* Every call returns.
CallsReturn == caller = "waiting" ~> caller \in {"ready", "gone"}

\* When the guest is gone, so are, in the end, both threads of the connection.
LinkWindsDown ==
  caller = "gone" ~> session = "returned" /\ server = "closed"

-----------------------------------------------------------------------------
(* The inductive invariant behind the first two. *)

\* Nothing of a request is on the wire or with the server.
Quiet == toServer = <<>> /\ toClient = <<>> /\ server # "answering"

\* What is there is the last call's, in one place: on its way, with its handler,
\* or answered.
OnePlace ==
  ~Quiet =>
    /\ calls # 0
    /\ \/ /\ toServer = <<calls>> /\ toClient = <<>> /\ server # "answering"
          /\ handled[calls] = 0
       \/ /\ toServer = <<>> /\ toClient = <<>> /\ server = "answering"
          /\ request = calls
          /\ handled[calls] = 1
       \/ /\ toServer = <<>> /\ server # "answering"
          /\ toClient \in {<<Ok(calls)>>, <<Fail(calls)>>}
          /\ handled[calls] = 1

\* The calls before the last were answered, those after it are still to come.
EarlierCallsAnswered ==
  \A n \in Call :
    /\ n < calls => result[n] = Ok(n) /\ handled[n] = 1
    /\ n > calls => result[n] = Nothing /\ reply[n] = Nothing /\ handled[n] = 0

\* Where the caller is tells what is known of its last call.
CallerInv ==
  /\ caller # "panicked"
  /\ caller = "ready" => /\ session = "idle"
                         /\ calls # 0 => result[calls] = Ok(calls)
  /\ caller = "waiting" => /\ calls # 0
                           /\ result[calls] = Nothing
                           /\ session = "idle" /\ channel = <<>> => reply[calls] # Nothing
                           /\ session = "returned" => reply[calls] = None
  /\ calls # 0 =>
       /\ result[calls] \in {Ok(calls), None, Nothing}
       /\ result[calls] = Ok(calls) => handled[calls] = 1 /\ Quiet
       /\ reply[calls] \in {Ok(calls), Fail(calls), None, Nothing}
       /\ reply[calls] = Ok(calls) => handled[calls] = 1 /\ Quiet

\* Where the session thread is tells where the packet is, and whether the
\* session lives; a failed one has no caller that could send another packet.
SessionInv ==
  /\ session \in {"idle", "writing"} => Quiet
  /\ session \in {"idle", "writing", "reading"} => alive
  /\ session \in {"failing", "reported"} => ~alive
  /\ session \in {"writing", "reading"} => caller = "waiting"
  /\ session \in {"writing", "reading", "failing"} =>
       calls # 0 /\ packet = calls /\ reply[calls] = Nothing
  /\ session = "writing" => handled[calls] = 0
  /\ session = "reported" => calls # 0 /\ reply[calls] = None
  /\ channel # <<>> =>
       /\ caller = "waiting" /\ session = "idle"
       /\ channel = <<calls>>
       /\ reply[calls] = Nothing /\ handled[calls] = 0

IInv ==
  /\ TypeOK
  /\ OnePlace
  /\ EarlierCallsAnswered
  /\ CallerInv
  /\ SessionInv

=============================================================================
