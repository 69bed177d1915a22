------------------------------ MODULE DumpSlot ------------------------------
(***************************************************************************)
(* What the memory output of MCoreDump promises: one slot that holds at    *)
(* most one complete core dump, always the one begun last, and hands it    *)
(* out whole.                                                              *)
(***************************************************************************)
EXTENDS Naturals

CONSTANT None

VARIABLES
  slot,     \* the dump kept, or None
  taken,    \* number of dumps begun so far; dump n is the n-th one
  printed   \* the dump printed last, or None

vars == <<slot, taken, printed>>

Init == slot = None /\ taken = 0 /\ printed = None

Begin == taken' = taken + 1 /\ UNCHANGED <<slot, printed>>

\* A dump is given up only for a newer one.
Drop == slot # taken /\ slot' = None /\ UNCHANGED <<taken, printed>>

Commit == slot = None /\ slot' = taken /\ UNCHANGED <<taken, printed>>

Show == slot # None /\ printed' = slot /\ UNCHANGED <<slot, taken>>

\* The terminal forgets what it showed before a restart; the dump stays
\* unless power was lost.
Restart == slot' \in {slot, None} /\ printed' = None /\ UNCHANGED taken

Next == Begin \/ Drop \/ Commit \/ Show \/ Restart

Spec == Init /\ [][Next]_vars
=============================================================================
