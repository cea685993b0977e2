----------------------------- MODULE PortForwards -----------------------------
(***************************************************************************)
(* add_port_forward of the EasyTier child process: one easytier-cli for    *)
(* each rule, all of them started before the first one is waited for;      *)
(* what failed is tried again, three times in all.  The rules still to be  *)
(* added are a vector, from which the loop that waits - from the last to   *)
(* the first - takes those that were added by swap_remove.                 *)
(*                                                                         *)
(* The linked-in EasyTier takes all rules in one call.                     *)
(***************************************************************************)
EXTENDS Integers, SequencesExt

CONSTANTS
  Rules,     \* the port forwards that are ever asked for
  Rounds     \* 3

ASSUME PortForwardsAssumption == Rounds \in Nat \ {0}

VARIABLES
  processes,   \* the rules to be added, each with its last CLI process
  place,       \* where the call is, or what it has returned
  cursor,      \* the index of its inner loop
  time,        \* the round
  installed,   \* the rules EasyTier has
  alive,       \* EasyTier runs
  linked       \* EasyTier is linked in

forwardVars == <<processes, place, cursor, time, installed, alive, linked>>

Returned == {"true", "false"}

-----------------------------------------------------------------------------

ForwardInit ==
  /\ processes = <<>>
  /\ place = "idle"
  /\ cursor = 0
  /\ time = 0
  /\ installed = {}
  /\ alive = TRUE
  /\ linked \in BOOLEAN

\* The call.  The linked-in EasyTier takes the whole patch or refuses it.
Forward(rules) ==
  /\ place \in {"idle"} \cup Returned
  /\ time' = 0
  /\ \/ /\ ~linked
        /\ processes' = [i \in DOMAIN rules |-> [rule |-> rules[i], child |-> "none"]]
        /\ place' = "spawn"
        /\ cursor' = 1
        /\ UNCHANGED installed
     \/ /\ linked
        /\ \/ alive /\ place' = "true" /\ installed' = installed \cup ToSet(rules)
           \/ place' = "false" /\ UNCHANGED installed
        /\ UNCHANGED <<processes, cursor>>
  /\ UNCHANGED <<alive, linked>>

\* The next easytier-cli is started.  One that cannot be started ends the
\* call; those that run already are left alone.
Spawn ==
  /\ place = "spawn"
  /\ \/ /\ processes' = [processes EXCEPT ![cursor].child = "running"]
        /\ IF cursor = Len(processes) THEN place' = "wait" /\ UNCHANGED cursor
                                      ELSE cursor' = cursor + 1 /\ UNCHANGED place
     \/ /\ place' = "false"
        /\ UNCHANGED <<processes, cursor>>
  /\ UNCHANGED <<time, installed, alive, linked>>

\* A CLI process ends: the rule is added, or it fails, be it after EasyTier
\* has taken the rule.
Exit(i) ==
  /\ processes[i].child = "running"
  /\ \E ok \in IF alive THEN BOOLEAN ELSE {FALSE}, taken \in IF alive THEN BOOLEAN ELSE {FALSE} :
       /\ ok => taken
       /\ processes' = [processes EXCEPT ![i].child = IF ok THEN "added" ELSE "failed"]
       /\ installed' = IF taken THEN installed \cup {processes[i].rule} ELSE installed
  /\ UNCHANGED <<place, cursor, time, alive, linked>>

\* Vec::swap_remove.
SwapRemove(list, i) == Front([list EXCEPT ![i] = Last(list)])

(* Seeded fault: the place of what was taken out is passed over. *)
WaitUpwards ==
  LET i == Len(processes) + 1 - cursor
      left == IF processes[i].child = "added" THEN SwapRemove(processes, i) ELSE processes
  IN  /\ place = "wait"
      /\ processes[i].child \in {"added", "failed"}
      /\ processes' = left
      /\ cursor' = IF Len(left) > i THEN Len(left) - i ELSE 0
      /\ place' = IF cursor' > 0 THEN "wait" ELSE IF left = <<>> THEN "true" ELSE "sleep"
      /\ UNCHANGED <<time, installed, alive, linked>>

\* wait() on the process at the cursor, however long it takes.
Wait ==
  LET left == IF processes[cursor].child = "added" THEN SwapRemove(processes, cursor)
                                                   ELSE processes
  IN  /\ place = "wait"
      /\ processes[cursor].child \in {"added", "failed"}
      /\ processes' = left
      /\ cursor' = cursor - 1
      /\ place' = IF cursor > 1 THEN "wait" ELSE IF left = <<>> THEN "true" ELSE "sleep"
      /\ UNCHANGED <<time, installed, alive, linked>>

(* Seeded fault: out of rounds is taken for success. *)
SleepToTrue ==
  /\ place = "sleep"
  /\ time' = time + 1
  /\ IF time' < Rounds THEN place' = "spawn" /\ cursor' = 1
                       ELSE place' = "true" /\ UNCHANGED cursor
  /\ UNCHANGED <<processes, installed, alive, linked>>
(* Seeded fault: `loop` in place of `for time in 0..3`. *)
SleepForever ==
  /\ place = "sleep"
  /\ place' = "spawn"
  /\ cursor' = 1
  /\ UNCHANGED <<processes, time, installed, alive, linked>>

Sleep ==
  /\ place = "sleep"
  /\ time' = time + 1
  /\ IF time' < Rounds THEN place' = "spawn" /\ cursor' = 1
                       ELSE place' = "false" /\ UNCHANGED cursor
  /\ UNCHANGED <<processes, installed, alive, linked>>

\* EasyTier goes away, and what it has forwarded with it.
Crash ==
  /\ alive
  /\ alive' = FALSE
  /\ installed' = {}
  /\ UNCHANGED <<processes, place, cursor, time, linked>>

ForwardStep == Spawn \/ Wait \/ Sleep

-----------------------------------------------------------------------------
(* Properties. *)

ForwardTypeOK ==
  /\ processes \in Seq([rule : Rules, child : {"none", "running", "added", "failed"}])
  /\ place \in {"idle", "spawn", "wait", "sleep"} \cup Returned
  /\ cursor \in 0 .. Cardinality(Rules)
  /\ time \in 0 .. Rounds
  /\ installed \subseteq Rules
  /\ alive \in BOOLEAN
  /\ linked \in BOOLEAN

\* A call that has ended before its rounds were over: because an easytier-cli
\* could not be started (or, with no process at all, refused by the linked-in
\* EasyTier).
CutShort == place = "false" /\ time < Rounds

\* While a vector shrinks under the index that runs over it, every CLI process
\* is waited for in the round it was started in, no rule whose process
\* succeeded is tried again, and none is there twice.  Who gets false after
\* the last round has left no process behind.  The one exception is a call that
\* ends because a process cannot be started: those of the same round that were
\* started before, and only those, are left alone, running or not.
EveryChildReaped ==
  /\ \A i, j \in DOMAIN processes : processes[i].rule = processes[j].rule => i = j
  /\ place \in {"sleep"} \cup Returned /\ ~CutShort =>
       \A i \in DOMAIN processes : processes[i].child = "failed"
  /\ place = "spawn" \/ CutShort =>
       \A i \in DOMAIN processes : i >= cursor => processes[i].child \in {"none", "failed"}
  /\ place = "wait" =>
       \A i \in DOMAIN processes : i > cursor => processes[i].child = "failed"

=============================================================================
