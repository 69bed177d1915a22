----------------------------- MODULE StackFrame -----------------------------
(***************************************************************************)
(* Register collection: collect_registers_armv7m and _armv8m, called with  *)
(* the saved stack pointer of a thread or, from the hard fault hooks, with *)
(* a pointer computed from the exception frame (arch/armv7m/armv7m.c,      *)
(* arch/armv8m/armv8m.c).                                                  *)
(*                                                                         *)
(* The stack is a sequence of words, each known by the register that was   *)
(* saved in it; the context switch and the fault handler, which are code   *)
(* of RT-Thread, lay it out as the comments of the collectors say.  The    *)
(* collectors read one word after the other.  A word that is read as       *)
(* something it is not can have any value.                                 *)
(*                                                                         *)
(* A definition NAME_Fault is a mutated form of NAME.  Nothing uses it: it *)
(* stands for a bug the properties below have to notice.                   *)
(***************************************************************************)
EXTENDS Naturals, Sequences

CONSTANTS
  Cases,  \* the builds and the contexts to be collected
  Base    \* where the frame begins, in words

\* fpu: MCD_FPU_SUPPORT.  active: there is FPU context.  below: s16-s31 are below
\* r4-r11, as the comment above the hooks has it, and not above them, as the
\* comments of the collectors have it.
CaseType == [arch : {"armv7m", "armv8m"}, fpu : BOOLEAN, kind : {"thread", "fault"},
             active : BOOLEAN, below : BOOLEAN]

\* There is no FPU context without an FPU.
ASSUME CasesAssumption ==
  /\ Cases \subseteq CaseType
  /\ \A c \in Cases : (c.active => c.fpu) /\ (c.below => c.active /\ c.kind = "fault")
  /\ Base \in Nat /\ Base >= 16

VARIABLES
  case,         \* the build and the context
  pc,           \* "header", "words" or "done"
  current_ptr,  \* the next word to be read
  fpu_flag,     \* is there FPU context to collect?
  next,         \* position in the order of destinations
  regset        \* core_regset and fp_regset

vars == <<case, pc, current_ptr, fpu_flag, next, regset>>

-----------------------------------------------------------------------------
(* Registers and frames. *)

\* A word is known by the name and number of what was saved in it.
StackWord ==
  {"r", "s", "fpscr", "lr", "pc", "xpsr", "exc_return", "flag", "tz", "psplim", "control",
   "skipped", "zero", "stack"} \X Nat

R(n) == <<"r", n>>
S(n) == <<"s", n>>
FPSCR == <<"fpscr", 0>>
Skipped == <<"skipped", 0>>
Zero == <<"zero", 0>>

\* struct armv7m_core_regset and armv8m_core_regset, without sp
CoreRegset == {R(n) : n \in 0..12} \cup {<<"lr", 0>>, <<"pc", 0>>, <<"xpsr", 0>>}

\* struct arm_vfpv2_regset: d0-d15 are s0-s31
FpRegset == {S(n) : n \in 0..31} \cup {FPSCR}

When(c, s) == IF c THEN s ELSE <<>>

Software == [k \in 1..8 |-> R(k + 3)]
FpHigh == [k \in 1..16 |-> S(k + 15)]
Hardware == <<R(0), R(1), R(2), R(3), R(12), <<"lr", 0>>, <<"pc", 0>>, <<"xpsr", 0>>>>
FpLow == [k \in 1..16 |-> S(k - 1)] \o <<FPSCR, Skipped>>

\* EXC_RETURN has bit 4 clear, and the flag word is set, when there is FPU context.
ExcReturn(active) == <<"exc_return", IF active THEN 0 ELSE 1>>
Flag(active) == <<"flag", IF active THEN 1 ELSE 0>>

\* What lies below r4-r11.
Below(c) ==
  When(c.kind = "fault", <<ExcReturn(c.active)>>) \o
  IF c.arch = "armv7m" THEN When(c.fpu, <<Flag(c.active)>>)
  ELSE <<<<"tz", 0>>, <<"lr", 1>>, <<"psplim", 0>>, <<"control", 0>>>>

\* From low to high addresses.
Frame(c) ==
  Below(c) \o When(c.below, FpHigh) \o Software \o When(c.active /\ ~c.below, FpHigh) \o
  Hardware \o When(c.active, FpLow)

\* The word at position p; what lies around the frame is not a register.
Word(p) ==
  IF p \in Base..(Base + Len(Frame(case)) - 1) THEN Frame(case)[p - Base + 1] ELSE <<"stack", 0>>

-----------------------------------------------------------------------------
(* The collectors. *)

\* The exception frame, which the hard fault hooks are given.
Context(c) == Base + Len(Frame(c)) - Len(Hardware) - Len(When(c.active, FpLow))

\* The hook goes back to r4 and not to the flag.
armv7m_hard_fault_exception_hook_Fault(c) == Context(c) - 8

\* Both branches of MCD_FPU_SUPPORT go back one word from r4.
armv7m_hard_fault_exception_hook(c) == Context(c) - 8 - 1

armv8m_hard_fault_exception_hook(c) == Context(c) - 8 - 4 - 1

\* stack_top: thread->sp, or what the hook computed.
StackTop(c) ==
  IF c.kind = "thread" THEN Base
  ELSE IF c.arch = "armv7m" THEN armv7m_hard_fault_exception_hook(c)
  ELSE armv8m_hard_fault_exception_hook(c)

\* Can word w be taken for an EXC_RETURN, for a flag that is set, for an
\* EXC_RETURN with bit 4 clear?
Known(w) == w[1] \in {"exc_return", "flag", "tz"}
TakenForExcReturn(w) == IF Known(w) THEN {w[1] = "exc_return"} ELSE BOOLEAN
TakenForFlag(w) == IF w[1] = "flag" THEN {w[2] = 1}
                   ELSE IF w[1] = "exc_return" THEN {TRUE} ELSE BOOLEAN
TakenForFpu(w) == IF w[1] = "exc_return" THEN {w[2] = 0} ELSE BOOLEAN

\* The FPU flag of armv7m, if the build has an FPU.
ReadFlag ==
  /\ pc = "header" /\ case.arch = "armv7m"
  /\ IF case.fpu
     THEN fpu_flag' \in TakenForFlag(Word(current_ptr)) /\ current_ptr' = current_ptr + 1
     ELSE UNCHANGED <<fpu_flag, current_ptr>>
  /\ pc' = "words"
  /\ UNCHANGED <<case, next, regset>>

\* The first word of armv8m tells an exception from a thread.
ReadFirstWord ==
  /\ pc = "header" /\ case.arch = "armv8m"
  /\ \E exception \in TakenForExcReturn(Word(current_ptr)) :
       IF exception
       THEN fpu_flag' \in TakenForFpu(Word(current_ptr)) /\ current_ptr' = current_ptr + 1 + 4
       ELSE fpu_flag' = FALSE /\ current_ptr' = current_ptr + 4
  /\ pc' = "words"
  /\ UNCHANGED <<case, next, regset>>

\* The parts that depend on the flag are compiled in whatever the flag.
Order_Fault == Software \o When(case.fpu, FpHigh) \o Hardware \o When(case.fpu, FpLow)

\* Where the words go, in the order they are read.
Order ==
  LET fp == case.fpu /\ fpu_flag
  IN  Software \o When(fp, FpHigh) \o Hardware \o When(fp, FpLow)

\* The reserved word is stored too.
CopyWord_Fault ==
  /\ pc = "words" /\ next <= Len(Order)
  /\ regset' = [r \in DOMAIN regset \cup {Order[next]} |->
                  IF r = Order[next] THEN Word(current_ptr) ELSE regset[r]]
  /\ current_ptr' = current_ptr + 1 /\ next' = next + 1
  /\ UNCHANGED <<case, pc, fpu_flag>>

CopyWord ==
  /\ pc = "words" /\ next <= Len(Order)
  /\ regset' = IF Order[next] = Skipped THEN regset
               ELSE [regset EXCEPT ![Order[next]] = Word(current_ptr)]
  /\ current_ptr' = current_ptr + 1 /\ next' = next + 1
  /\ UNCHANGED <<case, pc, fpu_flag>>

\* sp is not moved past the reserved word.
SetSp_Fault ==
  /\ pc = "words" /\ next >= Len(Order)
  /\ pc' = "done"
  /\ UNCHANGED <<case, current_ptr, fpu_flag, next, regset>>

\* core_regset->sp = current_ptr, which stays where it is.
SetSp ==
  /\ pc = "words" /\ next > Len(Order)
  /\ pc' = "done"
  /\ UNCHANGED <<case, current_ptr, fpu_flag, next, regset>>

Init ==
  /\ case \in Cases
  /\ pc = "header" /\ current_ptr = StackTop(case) /\ fpu_flag = FALSE /\ next = 1
  /\ regset = [r \in CoreRegset \cup FpRegset |-> Zero]

Next == ReadFlag \/ ReadFirstWord \/ CopyWord \/ SetSp

Spec == Init /\ [][Next]_vars

-----------------------------------------------------------------------------
(* Properties. *)

\* The contexts the collectors are right about: threads, with FPU context on
\* armv7m only, and hard faults without FPU context in a build with an FPU, or on
\* armv8m.
Collectable(c) ==
  \/ c.kind = "thread" /\ (c.arch = "armv7m" \/ ~c.active)
  \/ c.kind = "fault" /\ ~c.active /\ (c.arch = "armv8m" \/ c.fpu)

\* Every variable has its type: no register is added to the two sets.
TypeOK ==
  /\ case \in Cases /\ pc \in {"header", "words", "done"}
  /\ current_ptr \in Nat /\ fpu_flag \in BOOLEAN /\ next \in Nat \ {0}
  /\ DOMAIN regset = CoreRegset \cup FpRegset
  /\ \A r \in DOMAIN regset : regset[r] \in StackWord

\* Every register is collected from the word it was saved in, whatever the
\* layout of the frame, and without FPU context the FPU registers are zero: a
\* pointer that starts or moves one word off shifts every register after it
\* (collect_registers_armv7m, collect_registers_armv8m).
RegistersRestored ==
  pc = "done" =>
    /\ \A r \in CoreRegset : regset[r] = r
    /\ \A r \in FpRegset : regset[r] = IF case.active THEN r ELSE Zero

\* The sp that is collected is the one before the context was saved, so that a
\* debugger unwinds from the right place (core_regset->sp = current_ptr).
SpIsBeforeContext == pc = "done" => current_ptr = Base + Len(Frame(case))

\* No word beyond the frame is read, above which the stack may end: the parts
\* read for FPU context are the parts that were saved.
ReadsWithinFrame == current_ptr <= Base + Len(Frame(case))
=============================================================================
