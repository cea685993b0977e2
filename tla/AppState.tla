------------------------------ MODULE AppState ------------------------------
(***************************************************************************)
(* The global state cell of src/controller/states.rs: one value behind one *)
(* mutex, a version counter, and captures that let a worker thread find    *)
(* out, each time it takes the lock, whether the state it works for is     *)
(* still the current one.                                                  *)
(*                                                                         *)
(* A step of a module that uses this one is a critical section of the      *)
(* mutex, so the three fields of Holder change together.  The counters are *)
(* natural numbers: the code's u32 wraps only after 2^32 state changes of  *)
(* one process.                                                            *)
(***************************************************************************)
EXTENDS Naturals

VARIABLES
  index,     \* Holder.index: bumped by every change of the state
  sharing,   \* Holder.sharing: in-place changes since the last replacement
  value      \* Holder.value: the AppState itself

holder == <<index, sharing, value>>

\* AppState::acquire, the lazily built global: index 0, sharing 0.
HolderInit(v) ==
  /\ index = 0
  /\ sharing = 0
  /\ value = v

-----------------------------------------------------------------------------
(* Seeded faults the properties must notice; never part of a specification. *)

SetToKeepingSharing(v) ==      \* increase() without `sharing = 0`
  /\ index' = index + 1
  /\ sharing' = sharing
  /\ value' = v

ChangeInPlaceExclusively ==    \* increase() where increase_shared() is meant
  /\ index' = index + 1
  /\ sharing' = 0
  /\ UNCHANGED value

CanCaptureAlways(c) ==         \* acquire() where try_capture() is meant
  c = c

-----------------------------------------------------------------------------

\* The replacement count: the index of the last set() or replace().
Base == index - sharing

\* AppStateContainer::set and ::replace: a new value, and every capture taken
\* before becomes stale.  The caller's new capture is index'.
SetTo(v) ==
  /\ index' = index + 1
  /\ sharing' = 0
  /\ value' = v

\* AppStateContainer::increase_shared after a change inside the value (the
\* profile list, the difficulty): the version moves, captures stay good.
ChangeInPlace ==
  /\ index' = index + 1
  /\ sharing' = sharing + 1
  /\ UNCHANGED value

\* AppStateCapture::try_capture, `index - sharing <= self.index`.
CanCapture(c) == index - sharing <= c

=============================================================================
