------------------------ MODULE ScaffoldingLinkProofs ------------------------
(***************************************************************************)
(* Theorems about ScaffoldingLink, for every number of calls: a response   *)
(* is the one to the request it is returned for, and neither an unwrap nor *)
(* an `unreachable!()` of the client is hit.                               *)
(***************************************************************************)
EXTENDS ScaffoldingLink, TLAPS

USE ScaffoldingLinkAssumption

\* A channel with one thing in it.
LEMMA Singleton ==
  ASSUME NEW x
  PROVE  Head(<<x>>) = x /\ Tail(<<x>>) = <<>> /\ Append(<<>>, x) = <<x>> /\ <<x>> # <<>>
OBVIOUS

\* What a call may return can be told apart.
LEMMA Statuses ==
  ASSUME NEW n
  PROVE  /\ Ok(n) # Fail(n) /\ Ok(n) # None /\ Ok(n) # Nothing
         /\ Fail(n) # None /\ Fail(n) # Nothing /\ None # Nothing
         /\ Ok(n).status = "ok" /\ Fail(n).status # "ok"
         /\ None.status # "ok" /\ Nothing.status # "ok"
BY DEF Ok, Fail, None, Nothing

\* Initially no call has been made.
LEMMA InitInv == LinkInit => IInv
<1> SUFFICES ASSUME LinkInit PROVE IInv
  OBVIOUS
<1> USE DEF LinkInit
<1>1. TypeOK
  BY DEF TypeOK
<1>2. OnePlace
  BY DEF OnePlace, Quiet
<1>3. EarlierCallsAnswered
  BY DEF EarlierCallsAnswered
<1>4. CallerInv
  BY DEF CallerInv
<1>5. SessionInv
  BY DEF SessionInv, Quiet
<1>6. QED
  BY <1>1, <1>2, <1>3, <1>4, <1>5 DEF IInv

\* The variables keep their types; that a request is the last call's, wherever it
\* is, is what keeps the types of packets and responses.
LEMMA TypeStep == IInv /\ [LinkNext]_vars => TypeOK'
<1> SUFFICES ASSUME IInv, [LinkNext]_vars PROVE TypeOK'
  OBVIOUS
<1>0. TypeOK /\ SessionInv /\ CallerInv /\ OnePlace
  BY DEF IInv
<1> USE <1>0 DEF TypeOK, callVars, sessionVars, serverVars
<1>1. CASE Send
  <2>1. calls + 1 \in Call /\ calls + 1 \in 0 .. Calls
    BY <1>1 DEF Send, Call
  <2>2. Append(channel, calls + 1) \in Seq(Call)
    BY <2>1
  <2>3. channel' \in Seq(Call)
    BY <1>1, <2>2 DEF Send
  <2>4. QED
    BY <1>1, <2>1, <2>3 DEF Send
<1>2. CASE Receive
  BY <1>2 DEF Receive, Finish, CallerInv
<1>3. CASE Leave
  BY <1>3 DEF Leave
<1>4. CASE NextPacket
  <2>1. channel # <<>> => Head(channel) \in Call /\ Tail(channel) \in Seq(Call)
    OBVIOUS
  <2>2. Call \subseteq 0 .. Calls
    BY DEF Call
  <2>3. QED
    BY <1>4, <2>1, <2>2 DEF NextPacket
<1>5. CASE Write
  <2>1. packet \in Call
    BY <1>5 DEF Write, SessionInv, Call
  <2>2. toServer' \in Seq(Call)
    BY <1>5, <2>1 DEF Write
  <2>3. QED
    BY <1>5, <2>2 DEF Write
<1>6. CASE Read
  <2>1. toClient' \in Seq(Answers) /\ Head(toClient) \in Answers
    BY <1>6 DEF Read
  <2>3. QED
    BY <1>6, <2>1 DEF Read
<1>7. CASE SocketError
  BY <1>7 DEF SocketError
<1>8. CASE Report
  BY <1>8 DEF Report
<1>9. CASE Return
  BY <1>9 DEF Return
<1>10. CASE Handle
  <2>1. toServer' \in Seq(Call) /\ Head(toServer) \in Call /\ Head(toServer) \in 0 .. Calls
    BY <1>10 DEF Handle, Call
  <2>2. QED
    BY <1>10, <2>1 DEF Handle
<1>11. CASE Answer
  <2>1. request \in Call
    BY <1>11 DEF Answer, OnePlace, Quiet, Call
  <2>2. PICK r \in {Ok(request), Fail(request)} : toClient' = Append(toClient, r)
    BY <1>11 DEF Answer
  <2>3. toClient' \in Seq(Answers)
    BY <2>1, <2>2 DEF Answers
  <2>4. QED
    BY <1>11, <2>3 DEF Answer
<1>12. CASE Hangup
  BY <1>12 DEF Hangup
<1>13. CASE UNCHANGED vars
  BY <1>13 DEF vars
<1>14. QED
  BY <1>1, <1>2, <1>3, <1>4, <1>5, <1>6, <1>7, <1>8, <1>9, <1>10, <1>11, <1>12, <1>13
  DEF LinkNext, SessionStep, ServerStep

\* Every step keeps what is known of the last call: sending starts a new one on
\* a quiet wire, and a call that fails is the last.
LEMMA InvStep == IInv /\ [LinkNext]_vars =>
  (OnePlace /\ EarlierCallsAnswered /\ CallerInv /\ SessionInv)'
<1> SUFFICES ASSUME IInv, [LinkNext]_vars
    PROVE (OnePlace /\ EarlierCallsAnswered /\ CallerInv /\ SessionInv)'
  OBVIOUS
<1>0. TypeOK /\ OnePlace /\ EarlierCallsAnswered /\ CallerInv /\ SessionInv
  BY DEF IInv
<1> USE <1>0, Statuses, Singleton DEF TypeOK, callVars, sessionVars, serverVars,
   OnePlace, EarlierCallsAnswered, CallerInv, SessionInv, Quiet
<1>1. CASE Send
  <2> USE <1>1 DEF Send
  <2>0. /\ calls + 1 \in Call
        /\ result[calls + 1] = Nothing /\ reply[calls + 1] = Nothing
        /\ handled[calls + 1] = 0
    BY DEF Call
  <2>1. Quiet /\ Quiet' /\ session = "idle" /\ channel = <<>> /\ alive
    OBVIOUS
  <2>2. OnePlace'
    BY <2>1
  <2>3. EarlierCallsAnswered'
    <3>1. \A n \in Call : n < calls + 1 => n < calls \/ (n = calls /\ calls # 0)
      BY DEF Call
    <3>2. \A n \in Call : n > calls + 1 => n > calls
      BY DEF Call
    <3>3. QED
      BY <3>1, <3>2
  <2>4. channel' = <<calls'>> /\ caller' = "waiting" /\ calls' = calls + 1 /\ calls' # 0
    BY <2>1
  <2>5. CallerInv'
    BY <2>0, <2>1, <2>4
  <2>6. SessionInv'
    BY <2>0, <2>1, <2>4
  <2>7. QED
    BY <2>2, <2>3, <2>5, <2>6
<1>2. CASE Receive
  <2> USE <1>2 DEF Receive, Finish
  <2>1. OnePlace'
    OBVIOUS
  <2>2. EarlierCallsAnswered'
    OBVIOUS
  <2>3. calls \in Call /\ calls \in DOMAIN result
    BY DEF Call
  <2>4. CASE reply[calls] = Ok(calls)
    <3>1. result'[calls] = Ok(calls) /\ caller' = "ready" /\ session = "idle"
      BY <2>3, <2>4
    <3>2. CallerInv'
      BY <2>3, <2>4, <3>1
    <3>3. SessionInv'
      BY <2>3, <2>4, <3>1
    <3>4. QED
      BY <2>1, <2>2, <3>2, <3>3
  <2>5. CASE reply[calls] # Ok(calls)
    <3>1. result'[calls] = None /\ caller' = "gone" /\ channel = <<>>
      BY <2>3, <2>5
    <3>2. CallerInv'
      BY <2>3, <2>5, <3>1
    <3>3. SessionInv'
      BY <2>3, <2>5, <3>1
    <3>4. QED
      BY <2>1, <2>2, <3>2, <3>3
  <2>6. QED
    BY <2>4, <2>5
<1>3. CASE Leave
  BY <1>3 DEF Leave
<1>4. CASE NextPacket
  BY <1>4 DEF NextPacket
<1>5. CASE Write
  BY <1>5 DEF Write
<1>6. CASE Read
  <2> USE <1>6 DEF Read
  <2>1. /\ toServer = <<>> /\ server # "answering" /\ handled[calls] = 1
        /\ Head(toClient) \in {Ok(calls), Fail(calls)}
        /\ toClient' = <<>>
    OBVIOUS
  <2>2. calls \in Call /\ caller = "waiting" /\ packet = calls
    BY DEF Call
  <2>3. Quiet' /\ reply'[calls] \in {Ok(calls), Fail(calls)}
    BY <2>1, <2>2
  <2>4. OnePlace'
    BY <2>3
  <2>5. EarlierCallsAnswered'
    BY <2>2
  <2>6. CallerInv'
    BY <2>1, <2>2, <2>3
  <2>7. SessionInv'
    BY <2>1, <2>2, <2>3
  <2>8. QED
    BY <2>4, <2>5, <2>6, <2>7
<1>7. CASE SocketError
  BY <1>7 DEF SocketError
<1>8. CASE Report
  <2> USE <1>8 DEF Report
  <2>0. calls \in Call /\ packet = calls /\ reply'[calls] = None
    BY DEF Call
  <2>1. OnePlace'
    OBVIOUS
  <2>2. EarlierCallsAnswered'
    BY <2>0
  <2>3. CallerInv'
    BY <2>0
  <2>4. SessionInv'
    BY <2>0
  <2>5. QED
    BY <2>1, <2>2, <2>3, <2>4
<1>9. CASE Return
  BY <1>9 DEF Return
<1>10. CASE Handle
  <2> USE <1>10 DEF Handle
  <2>0. /\ toServer = <<calls>> /\ toClient = <<>> /\ handled[calls] = 0
        /\ calls # 0 /\ ~Quiet
    OBVIOUS
  <2>1. /\ Head(toServer) = calls /\ toServer' = <<>> /\ calls \in Call
        /\ handled'[calls] = 1
    BY <2>0 DEF Call
  <2>2. OnePlace'
    BY <2>0, <2>1
  <2>3. EarlierCallsAnswered'
    BY <2>1
  <2>4. CallerInv'
    BY <2>0, <2>1
  <2>5. SessionInv'
    BY <2>0, <2>1
  <2>6. QED
    BY <2>2, <2>3, <2>4, <2>5
<1>11. CASE Answer
  BY <1>11 DEF Answer
<1>12. CASE Hangup
  BY <1>12 DEF Hangup
<1>13. CASE UNCHANGED vars
  BY <1>13 DEF vars
<1>14. QED
  BY <1>1, <1>2, <1>3, <1>4, <1>5, <1>6, <1>7, <1>8, <1>9, <1>10, <1>11, <1>12, <1>13
  DEF LinkNext, SessionStep, ServerStep

\* The inductive invariant: the request of the last call is in one place, all
\* earlier ones are answered, and a dead session has a caller that knows, or
\* will find out from its reply.
THEOREM Inductive == Spec => []IInv
<1>1. LinkInit => IInv
  BY InitInv
<1>2. IInv /\ [LinkNext]_vars => IInv'
  BY TypeStep, InvStep DEF IInv
<1>3. QED
  BY <1>1, <1>2, PTL DEF Spec

\* A call that returns a response (ClientSession::send_sync) returns the one to
\* its own request, which the server has handled once.
THEOREM AnswersMatch == Spec => []AnswersMatchCalls
<1>1. IInv => AnswersMatchCalls
  <2> SUFFICES ASSUME IInv, NEW n \in Call, result[n].status = "ok"
      PROVE result[n] = Ok(n) /\ handled[n] = 1
    BY DEF IInv, AnswersMatchCalls
  <2>1. n \in Nat /\ calls \in Nat /\ n # 0
    BY DEF Call, IInv, TypeOK
  <2>2. CASE n < calls
    BY <2>2 DEF IInv, EarlierCallsAnswered
  <2>3. CASE n = calls
    BY <2>1, <2>3, Statuses DEF IInv, CallerInv
  <2>4. CASE n > calls
    BY <2>4, Statuses DEF IInv, EarlierCallsAnswered
  <2>5. QED
    BY <2>1, <2>2, <2>3, <2>4
<1>2. QED
  BY <1>1, Inductive, PTL

\* Neither the unwrap of send nor the `unreachable!()` of send_sync is hit: no
\* call is made to a session that has returned, and none is left unanswered.
THEOREM NoPanic == Spec => []CallerNeverPanics
<1>1. IInv => CallerNeverPanics
  BY DEF IInv, CallerInv, CallerNeverPanics
<1>2. QED
  BY <1>1, Inductive, PTL

=============================================================================
