----------------------------- MODULE MCCoreDump -----------------------------
(***************************************************************************)
(* Model checking instance of CoreDump: the sizes of the 32 bit ELF        *)
(* structures, three threads with stacks in the SRAM of a Cortex-M, and    *)
(* stack pointers on and off a 64 byte line.                               *)
(***************************************************************************)
EXTENDS CoreDump

MCThreads == 1..3
MCRam == 536870912                             \* 0x20000000
MCStackTop == [t \in MCThreads |-> MCRam + 2048 * t]
MCStackPointers == [t \in MCThreads |->
                      {MCStackTop[t] - d : d \in IF t = 1 THEN {200, 320} ELSE
                                                 IF t = 2 THEN {320} ELSE {200}}]
MCResidue == [addr |-> 4, len |-> 8]

\* The entry points during which the part of the system being dumped stands still.
MCFrozen == {"hardfault", "serial", "mini"}
MCMemory == {"memory"}
MCAllEntries == MCFrozen \cup MCMemory

\* Two threads, for the runs in which the kernel keeps running during a dump.
MCTwoThreads == 1..2
MCTwoTops == [t \in MCTwoThreads |-> MCStackTop[t]]
MCTwoPointers == [t \in MCTwoThreads |-> {MCStackTop[t] - 200, MCStackTop[t] - 320}]

\* One stack pointer each, for liveness: the thread list still changes.
MCFixedPointers == [t \in MCTwoThreads |-> {MCStackTop[t] - 200}]
=============================================================================
