------------------------------ MODULE GuestStart ------------------------------
(***************************************************************************)
(* From a room code to a forwarded Minecraft port: the host makes a room   *)
(* and shows its code, the guest types it, joins the network that the code *)
(* stands for, looks for the host among the members, forwards the port of  *)
(* its scaffolding server and, having asked there for the port of the      *)
(* Minecraft server, that one on both protocols and both address families. *)
(***************************************************************************)
EXTENDS RoomCode, PortForwards

CONSTANTS
  Randoms,        \* bound: what the host's random numbers are
  Typed,          \* what a guest may type
  DiscoverTries   \* rounds of `for _ in 0..5` in start_guest

ASSUME GuestStartAssumption ==
  /\ Randoms \subseteq Numbers
  /\ Typed \subseteq Seq(STRING)
  /\ DiscoverTries \in Nat \ {0}

VARIABLES
  hosted,    \* the number of the host's room
  text,      \* what the guest has typed
  network,   \* the network its EasyTier is in
  stage,     \* where start_guest is
  tries

startVars == <<hosted, text, network, stage, tries>>
vars == <<startVars, forwardVars>>

\* The rules: for the scaffolding server, and the four of Minecraft in the
\* order of the array.
ScaffoldingRule == <<"0.0.0.0", "tcp", "scaffolding">>
MinecraftRules ==
  << <<"0.0.0.0", "tcp", "minecraft">>, <<"0.0.0.0", "udp", "minecraft">>,
     <<"[::]", "tcp", "minecraft">>, <<"[::]", "udp", "minecraft">> >>
AllRules == {ScaffoldingRule} \cup ToSet(MinecraftRules)

ASSUME RulesAssumption == Rules = AllRules

Stages == {"typed", "refused", "discover", "not found", "forward scaffolding",
           "dial", "failed", "forward minecraft", "joined", "crashed"}

NoNetwork == [name |-> <<>>, secret |-> <<>>]
Rooms == {Rounded(n) : n \in Numbers}
CodeOf == [room \in Rooms |-> Code(room)]

-----------------------------------------------------------------------------

\* create_room, and a text that reaches the guest.
GuestStartInit ==
  /\ ForwardInit
  /\ hosted \in {Rounded(n) : n \in Randoms}
  /\ text \in Typed
  /\ network = NoNetwork
  /\ stage = "typed"
  /\ tries = 0

\* set_guesting with what Room::from makes of the text.  The text is no longer
\* needed then.
Submit ==
  /\ stage = "typed"
  /\ text' = <<>>
  /\ IF Parse(text) = NoRoom
     THEN stage' = "refused" /\ UNCHANGED network
     ELSE stage' = "discover" /\ network' = Network(Parse(text))
  /\ UNCHANGED <<hosted, tries, forwardVars>>

(* The members of the guest's network: itself, and, in any order, the host *)
(* when it is its network, another guest and one whose host name only      *)
(* begins like a server's.                                                 *)
Member(name, address, local) == [name |-> name, address |-> address, local |-> local]

Others == {Member("guest", TRUE, FALSE), Member("server with no port", TRUE, FALSE)}
            \cup (IF network = Network(hosted)
                  THEN {Member("server", address, FALSE) : address \in BOOLEAN} ELSE {})

MemberLists ==
  {<<Member("guest", TRUE, TRUE), two[1], two[2]>> : two \in Others \X Others} \cup {<<>>}

IsServer(member) == member.name = "server" /\ member.address /\ ~member.local

\* One round of the search, unless EasyTier is gone; the first server among the
\* members is it.  After the last round nobody asks whether EasyTier is there.
Discover ==
  /\ stage = "discover"
  /\ \/ /\ tries = DiscoverTries
        /\ stage' = "not found"
        /\ UNCHANGED <<tries, forwardVars>>
     \/ /\ tries < DiscoverTries
        /\ ~alive
        /\ stage' = "crashed"
        /\ UNCHANGED <<tries, forwardVars>>
     \/ /\ tries < DiscoverTries
        /\ alive
        /\ \E members \in MemberLists :
             IF \E i \in DOMAIN members : IsServer(members[i])
             THEN /\ Forward(<<ScaffoldingRule>>)
                  /\ stage' = "forward scaffolding"
                  /\ UNCHANGED tries
             ELSE /\ tries' = tries + 1
                  /\ UNCHANGED <<stage, forwardVars>>
  /\ UNCHANGED <<hosted, text, network>>

\* add_port_forward has returned.
ScaffoldingForwarded ==
  /\ stage = "forward scaffolding"
  /\ place \in Returned
  /\ stage' = IF place = "true" THEN "dial" ELSE "crashed"
  /\ UNCHANGED <<hosted, text, network, tries, forwardVars>>

\* c:ping and c:server_port through the first rule, or in vain; the rules of
\* Minecraft are next.
Dial ==
  /\ stage = "dial"
  /\ \/ ScaffoldingRule \in installed /\ Forward(MinecraftRules) /\ stage' = "forward minecraft"
     \/ stage' = "failed" /\ UNCHANGED forwardVars
  /\ UNCHANGED <<hosted, text, network, tries>>

MinecraftForwarded ==
  /\ stage = "forward minecraft"
  /\ place \in Returned
  /\ stage' = IF place = "true" THEN "joined" ELSE "crashed"
  /\ UNCHANGED <<hosted, text, network, tries, forwardVars>>

\* What happens beside start_guest.
InForward ==
  /\ ForwardStep \/ Crash \/ \E i \in DOMAIN processes : Exit(i)
  /\ UNCHANGED startVars

-----------------------------------------------------------------------------

GuestStartNext ==
  \/ Submit \/ Discover \/ ScaffoldingForwarded \/ Dial \/ MinecraftForwarded
  \/ InForward

Spec == GuestStartInit /\ [][GuestStartNext]_vars

\* The thread of start_guest runs - which is stated on the variables that each
\* of its steps outside add_port_forward changes - and every easytier-cli ends
\* some time.
GoesOn ==
  /\ \/ stage \in {"typed", "discover", "dial"}
     \/ stage \in {"forward scaffolding", "forward minecraft"} /\ place \in Returned
  /\ \E at \in Stages, n \in 0 .. DiscoverTries : stage' = at /\ tries' = n

Fairness ==
  /\ WF_<<stage, tries>>(GoesOn)
  /\ WF_vars(ForwardStep /\ UNCHANGED startVars)
  /\ WF_vars((\E i \in DOMAIN processes : Exit(i)) /\ UNCHANGED startVars)

FairSpec == Spec /\ Fairness

-----------------------------------------------------------------------------
(* Properties. *)

TypeOK ==
  /\ ForwardTypeOK
  /\ hosted \in Rooms
  /\ stage \in Stages
  /\ tries \in 0 .. DiscoverTries

\* The text is read as the generator wrote it: the room is that of the leftmost
\* part that, in upper case and with I and O for 1 and 0, is the code of a room
\* as create_room makes them, and there is none only if no part is.
Legible(c) == CASE Upper(c) = "I" -> "1" [] Upper(c) = "O" -> "0" [] OTHER -> Upper(c)

ParseFindsFirstRoom ==
  stage = "typed" =>
    LET Here(k) == {room \in Rooms : \A i \in 1 .. Size : Legible(text[k + i - 1]) = CodeOf[room][i]}
        places == {k \in 1 .. Len(text) - Size + 1 : Here(k) # {}}
    IN  IF places = {} THEN Parse(text) = NoRoom
        ELSE Here(CHOOSE k \in places : \A j \in places : k <= j) = {Parse(text)}

\* Who joins a room meets nobody of another one: the network is the room's own.
RoomsApart == network # NoNetwork => Cardinality({room \in Rooms : Network(room) = network}) = 1

\* Who is let in is in the host's network, with every port forwarded that
\* Minecraft and the guest loop need, for as long as EasyTier runs, however its
\* CLI processes failed, raced and were repeated on the way.
JoinedIsConnected ==
  /\ TypeOK
  /\ stage = "joined" /\ alive => installed = AllRules
  /\ stage \in {"forward scaffolding", "dial", "forward minecraft", "joined"}
       => network = Network(hosted)

\* The thread, which has the state lock for all of add_port_forward, is through
\* some time.
StartResolves == stage = "typed" ~> stage \in {"refused", "not found", "failed", "joined", "crashed"}

-----------------------------------------------------------------------------
(* The inductive invariant behind JoinedIsConnected and EveryChildReaped:   *)
(* where the call of add_port_forward is at each stage of start_guest, the  *)
(* state of each CLI process by its place before, at or behind the cursor,  *)
(* and that a rule asked for is installed unless it is still in the vector. *)

RulesOnce == \A i, j \in DOMAIN processes : processes[i].rule = processes[j].rule => i = j

VectorBounded == Len(processes) <= Len(MinecraftRules) /\ cursor <= Len(MinecraftRules)

SameNetwork ==
  stage \in {"forward scaffolding", "dial", "forward minecraft", "joined"}
    => network = Network(hosted)

Calling == {"forward scaffolding", "forward minecraft"}

\* The rules of the call that runs, or ran last.
Called == IF stage \in {"forward minecraft", "joined"} THEN ToSet(MinecraftRules)
                                                      ELSE {ScaffoldingRule}

CallPlaced ==
  /\ stage \in {"typed", "refused", "discover", "not found"} => place = "idle"
  /\ stage \in {"dial", "failed", "joined"} => place = "true"
  /\ stage \in Calling => place # "idle"
  /\ place \in {"spawn", "wait", "sleep"} => stage \in Calling /\ time < Rounds

ChildrenByPlace ==
  /\ place \in {"idle", "true"} => processes = <<>>
  /\ place \in {"spawn", "wait"} => cursor \in 1 .. Len(processes)
  /\ place = "spawn" \/ CutShort => \A i \in DOMAIN processes :
       processes[i].child \in IF i < cursor THEN {"running", "added", "failed"}
                                           ELSE {"none", "failed"}
  /\ place = "wait" => \A i \in DOMAIN processes :
       processes[i].child \in IF i > cursor THEN {"failed"}
                                           ELSE {"running", "added", "failed"}
  /\ place = "sleep" => processes # <<>>
  /\ place \in {"sleep", "false"} /\ ~CutShort =>
       \A i \in DOMAIN processes : processes[i].child = "failed"

RulesCovered ==
  alive =>
    /\ \A i \in DOMAIN processes :
         processes[i].child = "added" => processes[i].rule \in installed
    /\ place \notin {"idle", "false"} =>
         Called \subseteq installed \cup {processes[i].rule : i \in DOMAIN processes}
    /\ stage \in {"forward minecraft", "joined"} => ScaffoldingRule \in installed

IInv ==
  /\ TypeOK
  /\ RulesOnce
  /\ VectorBounded
  /\ SameNetwork
  /\ CallPlaced
  /\ ChildrenByPlace
  /\ RulesCovered

=============================================================================
