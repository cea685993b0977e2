------------------------------ MODULE LanScanner ------------------------------
(***************************************************************************)
(* MinecraftScanner::run: the thread that listens for "open to LAN"        *)
(* announcements and publishes the ports of the servers it hears of, the   *)
(* first of which set_scanning hosts.                                      *)
(*                                                                         *)
(* `ports` is the thread's own list, the announcement heard last at its    *)
(* end; `output` is the list behind the mutex that get_ports() clones.     *)
(* SystemTimes are ages in ticks that saturate at Expiry.  When the clock   *)
(* has been set back they may be negative: there duration_since fails.     *)
(***************************************************************************)
EXTENDS Integers, SequencesExt

CONSTANTS
  Servers,     \* Minecraft servers in the LAN, by port
  Expiry,      \* 5 s, in ticks
  MaxBack      \* bound: ticks by which the clock is set back in all

ASSUME LanScannerAssumption == Expiry \in Nat \ {0} /\ MaxBack \in Nat

VARIABLES
  lan,         \* servers that are open to the LAN
  inflight,    \* servers with an announcement on a socket
  ports,       \* [port, age] as the scanner knows them
  output,      \* what it published
  step,        \* "expire", or the wait for a message: "clean" or "dirty"
  back         \* by how much the clock has been set back

scannerVars == <<lan, inflight, ports, output, step, back>>

-----------------------------------------------------------------------------

Known(list) == {list[i].port : i \in DOMAIN list}

\* The search for a known port ends with the first one.
Without(list, port) == RemoveFirstMatch(list, LAMBDA e : e.port = port)

\* The body of the loop over `(0..ports.len()).rev()`, and the loop.
RemoveIfSilent(list, i) ==
  IF list[i].age >= Expiry THEN RemoveAt(list, i) ELSE list

Heard(list) ==
  FoldLeft(RemoveIfSilent, list, [k \in DOMAIN list |-> Len(list) + 1 - k])

(* Seeded faults of the publication. *)
PublishUnlessShorter(list, dirty) ==   \* not when a server fell silent
  IF dirty /\ Len(list) >= Len(output)
  THEN output' = [i \in DOMAIN list |-> list[1].port]
  ELSE UNCHANGED output
PublishLast(list, dirty) ==            \* the newest, unless it is the only one
  IF dirty THEN output' = [i \in 1 .. Len(list) - 1 |-> list[i + 1].port]
           ELSE UNCHANGED output

\* `if dirty`: the published list gets one entry for each known server, and
\* that entry is always ports[0].
Publish(list, dirty) ==
  IF dirty THEN output' = [i \in DOMAIN list |-> list[1].port]
           ELSE UNCHANGED output

-----------------------------------------------------------------------------

ScannerInit ==
  /\ lan = {}
  /\ inflight = {}
  /\ ports = <<>>
  /\ output = <<>>
  /\ step = "expire"
  /\ back = 0

\* A world is opened to the LAN or closed; an open one announces itself.
OpenToLan(s) ==
  /\ s \notin lan
  /\ lan' = lan \cup {s}
  /\ UNCHANGED <<inflight, ports, output, step, back>>

Close(s) ==
  /\ s \in lan
  /\ lan' = lan \ {s}
  /\ UNCHANGED <<inflight, ports, output, step, back>>

Announce(s) ==
  /\ s \in lan
  /\ inflight' = inflight \cup {s}
  /\ UNCHANGED <<lan, ports, output, step, back>>

Tick ==
  /\ ports' = [i \in DOMAIN ports |->
                 [ports[i] EXCEPT !.age = IF @ < Expiry THEN @ + 1 ELSE Expiry]]
  /\ UNCHANGED <<lan, inflight, output, step, back>>

\* The clock is set back.  To set it forward is to tick several times.
SetBack(ticks) ==
  /\ back + ticks <= MaxBack
  /\ back' = back + ticks
  /\ ports' = [i \in DOMAIN ports |-> [ports[i] EXCEPT !.age = @ - ticks]]
  /\ UNCHANGED <<lan, inflight, output, step>>

(* Seeded fault: what expires does not make the list dirty. *)
ExpireQuietly ==
  /\ step = "expire"
  /\ ports' = Heard(ports)
  /\ step' = "clean"
  /\ UNCHANGED <<lan, inflight, output, back>>

\* Top of the loop: servers that have been silent for 5 s are forgotten, which
\* is published at the end of the round.
Expire ==
  /\ step = "expire"
  /\ ports' = Heard(ports)
  /\ step' = IF ports' # ports THEN "dirty" ELSE "clean"
  /\ UNCHANGED <<lan, inflight, output, back>>

\* Each socket times out or has a datagram that the filter refuses; one that it
\* accepts may wait behind that.
ReceiveNothing ==
  /\ step # "expire"
  /\ Publish(ports, step = "dirty")
  /\ step' = "expire"
  /\ UNCHANGED <<lan, inflight, ports, back>>

\* The first announcement that is accepted ends the wait.
Receive(s) ==
  /\ step # "expire"
  /\ s \in inflight
  /\ inflight' = inflight \ {s}
  /\ ports' = Append(Without(ports, s), [port |-> s, age |-> 0])
  /\ Publish(ports', step = "dirty" \/ s \notin Known(ports))
  /\ step' = "expire"
  /\ UNCHANGED <<lan, back>>

-----------------------------------------------------------------------------

ReceiveAny == \E s \in Servers : Receive(s)

Round == Expire \/ ReceiveNothing \/ ReceiveAny

ScannerNext ==
  \/ Round
  \/ Tick
  \/ \E ticks \in 1 .. MaxBack : SetBack(ticks)
  \/ \E s \in Servers : OpenToLan(s) \/ Close(s) \/ Announce(s)

ScannerSpec == ScannerInit /\ [][ScannerNext]_scannerVars

\* The thread loops (its sockets have read timeouts) and gets to every datagram
\* of a socket in turn, time passes, and Minecraft announces an open world every
\* 1.5 s.
ScannerFairSpec ==
  /\ ScannerSpec
  /\ WF_scannerVars(Round)
  /\ SF_scannerVars(ReceiveAny)
  /\ WF_scannerVars(Tick)
  /\ \A s \in Servers : WF_scannerVars(Announce(s))

-----------------------------------------------------------------------------
(* Properties. *)

ScannerTypeOK ==
  /\ lan \subseteq Servers
  /\ inflight \subseteq Servers
  /\ ports \in Seq([port : Servers, age : -back .. Expiry])
  /\ output \in Seq(Servers)
  /\ step \in {"expire", "clean", "dirty"}
  /\ back \in 0 .. MaxBack

\* The list has a server once, the one heard longest ago first; by its times,
\* too, unless the clock was set back.
HeardInOrder ==
  \A i, j \in DOMAIN ports :
    i < j => /\ ports[i].port # ports[j].port
             /\ back = 0 => ports[i].age >= ports[j].age

\* What the poll of set_scanning takes, the first published port, is that of
\* a server the thread still knows, except while the round that forgot it is
\* waiting on the sockets; and it finds nothing only when nothing is known.
\* The list is published on changes of the set alone, while each announcement
\* reorders it.
FirstIsKnown ==
  /\ ScannerTypeOK
  /\ HeardInOrder
  /\ step # "dirty" =>
       /\ output = <<>> <=> ports = <<>>
       /\ output # <<>> => Head(output) \in Known(ports)

\* A closed world ends up hidden from the host for good, whatever was still
\* on the sockets when it was closed, and although the clock was set back.
SilentServersVanish ==
  \A s \in Servers :
    <>[](s \notin lan) => <>[](s \notin ToSet(output))

\* A world that stays open is found, or another one before it.
SomeServerIsFound == \A s \in Servers : s \in lan ~> (output # <<>> \/ s \notin lan)

\* "Updating server list to [...]": between two rounds, every known server is
\* in the list.
ListComplete == step = "expire" => ToSet(output) = Known(ports)

=============================================================================
