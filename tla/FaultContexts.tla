--------------------------- MODULE FaultContexts ---------------------------
(***************************************************************************)
(* The callers of mcd_faultdump (src/faultdump.c) together: threads of     *)
(* different priority that dump to memory or over the serial port, the     *)
(* assertion hook (osal/rtthread.c), the shell command that prints the     *)
(* memory buffer, and the hard fault handler.  They share the write-out    *)
(* function in m_ctx, the buffer and contexts of MemoryStore, and the      *)
(* terminal, from which a user saves core files with tools/hex_to_elf.py.  *)
(*                                                                         *)
(* A definition NAME_Fault is a mutated form of NAME.  Nothing uses it: it *)
(* stands for a bug the properties below have to notice.                   *)
(***************************************************************************)
EXTENDS FiniteSets, MemoryStore, Crc32

CONSTANT
  Systems  \* priorities of the threads, the calls they make, and the bound on their dumps

Calls == {"memory", "serial", "assert", "print"}
Threads == Tasks \cup {Shell}

ASSUME SystemsAssumption ==
  \A s \in Systems : /\ s.prio \in [Threads -> Nat]
                     /\ s.calls \in [Threads -> SUBSET Calls]
                     /\ s.dumps \in Nat
                     /\ \A a \in Threads \ {Shell} : "print" \notin s.calls[a]

VARIABLES
  sys,             \* the system that runs
  at,              \* at[a]: where a is in mcd_init, a serial dump or the assertion hook
  call,            \* call[a]: the call a makes
  writeout_func,   \* of m_ctx: "none", "memory" or "serial"
  irq,             \* the actor that disabled interrupts, if any
  serial_crc32,    \* static, of the serial dump
  print_crc,       \* serial_crc, a local of mcd_dump_memory
  rec,             \* the text since the last "coredump start" on the terminal
  files            \* what hex_to_elf.py made of the text between two markers

fcVars == <<sys, at, call, writeout_func, irq, serial_crc32, print_crc, rec, files>>
allVars == <<vars, fcVars>>

-----------------------------------------------------------------------------
(* Scheduling. *)

Busy(a) == pc[a] # "idle" \/ at[a] # "none"

\* A thread runs while no handler and no thread of higher priority does and
\* nobody else has disabled interrupts.  An assertion that spins stays busy.
CanRun(a) ==
  /\ MayRun(a)
  /\ a \in Threads =>
       /\ irq \subseteq {a}
       /\ \A b \in Threads : sys.prio[b] > sys.prio[a] => ~Busy(b)

Begins(a, c) ==
  /\ CanRun(a) /\ ~Busy(a) /\ (a \in Threads => c \in sys.calls[a])
  /\ c # "print" => Len(lens) < sys.dumps
  /\ call' = [call EXCEPT ![a] = c]

Goes(a, from, to) == CanRun(a) /\ at[a] = from /\ at' = [at EXCEPT ![a] = to]

-----------------------------------------------------------------------------
(* The terminal. *)

\* The bytes that stand for the cells of a core file, no two of them alike.
Byte(cell) == IF cell \in Nat \X Nat
              THEN {b \in 0..2 : (cell[1] \div (2^b)) % 2 = 1} \cup
                   {3 + b : b \in {i \in 0..2 : (cell[2] \div (2^i)) % 2 = 1}}
              ELSE IF cell = Blank THEN {} ELSE {7}

Start == [open |-> TRUE, noise |-> FALSE, bytes |-> <<>>]
Closed == [open |-> FALSE, noise |-> FALSE, bytes |-> <<>>]
Text(r) == IF r.open THEN [r EXCEPT !.noise = TRUE] ELSE r
Hex(r, cell) == IF r.open THEN [r EXCEPT !.bytes = Append(@, cell)] ELSE r

\* The end marker and the checksum.  A user copies what is between the markers;
\* unhexlify fails on anything but hexadecimal digits, and a file whose CRC-32
\* is not the one shown is not used.
End(crc) ==
  /\ rec' = Closed
  /\ files' = IF /\ rec.open /\ ~rec.noise
                 /\ CRC32([k \in DOMAIN rec.bytes |-> Byte(rec.bytes[k])]) = crc
              THEN files \cup {rec.bytes} ELSE files

-----------------------------------------------------------------------------
(* mcd_init, in two stores: memset, then the assignments. *)

InitClear(a) ==
  /\ Goes(a, "clear", "func") /\ pc[a] \in {"idle", "gen"}
  /\ writeout_func' = "none"
  /\ UNCHANGED <<vars, sys, call, irq, serial_crc32, print_crc, rec, files>>

\* The write-out function of another dump is kept.
InitFunc_Fault(a) ==
  /\ Goes(a, "func", IF pc[a] = "gen" THEN "gen" ELSE "irq")
  /\ UNCHANGED <<vars, sys, call, writeout_func, irq, serial_crc32, print_crc, rec, files>>

InitFunc(a) ==
  /\ Goes(a, "func", IF pc[a] = "gen" THEN "gen" ELSE "irq")
  /\ writeout_func' = IF pc[a] = "gen" THEN "memory" ELSE "serial"
  /\ UNCHANGED <<vars, sys, call, irq, serial_crc32, print_crc, rec, files>>

-----------------------------------------------------------------------------
(* mcd_faultdump(MCD_OUTPUT_SERIAL) and the assertion hook around it. *)

\* The hook first prints the assertion that failed.
StartSerial(a, len) ==
  /\ \E c \in {"serial", "assert"} :
       Begins(a, c) /\ rec' = IF c = "assert" THEN Text(rec) ELSE rec
  /\ lens' = Append(lens, len)
  /\ dump' = [dump EXCEPT ![a] = Len(lens) + 1] /\ pos' = [pos EXCEPT ![a] = 0]
  /\ at' = [at EXCEPT ![a] = "clear"]
  /\ UNCHANGED <<coredump_memory_buffer, memory_write_ctx, mode, pc, out, term,
                 sys, writeout_func, irq, serial_crc32, print_crc, files>>

DisableIrq(a) ==
  /\ Goes(a, "irq", "gen")
  /\ irq' = {a} /\ serial_crc32' = Bits32 /\ rec' = Start
  /\ UNCHANGED <<vars, sys, call, writeout_func, print_crc, files>>

\* The checksum is inverted after every byte.
corefile_serial_write_Fault(cell) ==
  /\ serial_crc32' = mcd_crc32b(<<Byte(cell)>>, serial_crc32)
  /\ rec' = Hex(rec, cell)

\* Every byte is printed as it passes, and its checksum taken.
corefile_serial_write(cell) ==
  /\ serial_crc32' = Not(mcd_crc32b(<<Byte(cell)>>, serial_crc32))
  /\ rec' = Hex(rec, cell)

\* A byte of a dump, by whoever writes it, when the serial port is the output.
WriteSerial(a) ==
  /\ CanRun(a) /\ at[a] = "gen" /\ writeout_func = "serial" /\ pos[a] < lens[dump[a]]
  /\ corefile_serial_write(<<dump[a], pos[a]>>)
  /\ pos' = [pos EXCEPT ![a] = @ + 1]
  /\ UNCHANGED <<coredump_memory_buffer, memory_write_ctx, mode, lens, pc, dump, out, term,
                 sys, at, call, writeout_func, irq, print_crc, files>>

\* A serial dump whose write-out function a memory dump has replaced since its
\* mcd_init: its bytes follow those of that dump in the buffer.
StoreSerial(a) ==
  /\ CanRun(a) /\ at[a] = "gen" /\ pc[a] = "idle" /\ writeout_func = "memory"
  /\ \E n \in 1..Cap+1 : PassChunk(a, n)
  /\ rec' = IF memory_write_ctx'.overflow # ctx.overflow THEN Text(rec) ELSE rec
  /\ UNCHANGED <<sys, at, call, writeout_func, irq, serial_crc32, print_crc, files>>

\* Interrupts stay disabled.
EndSerial_Fault(a) ==
  /\ Goes(a, "gen", IF call[a] = "assert" THEN "spin" ELSE "none")
  /\ pc[a] = "idle" /\ pos[a] = lens[dump[a]]
  /\ serial_crc32' = Not(serial_crc32) /\ End(serial_crc32')
  /\ UNCHANGED <<vars, sys, call, writeout_func, irq, print_crc>>

\* The last byte is left out.
LastSerial_Fault(a) == pos[a] + 1 >= lens[dump[a]]
LastSerial(a) == pos[a] = lens[dump[a]]

\* The end marker and the checksum; interrupts are enabled.  An assertion spins.
EndSerial(a) ==
  /\ Goes(a, "gen", IF call[a] = "assert" THEN "spin" ELSE "none")
  /\ pc[a] = "idle" /\ LastSerial(a)
  /\ serial_crc32' = Not(serial_crc32) /\ End(serial_crc32')
  /\ irq' = {}
  /\ UNCHANGED <<vars, sys, call, writeout_func, print_crc>>

-----------------------------------------------------------------------------
(* mcd_faultdump(MCD_OUTPUT_MEMORY): the steps of MemoryStore, with mcd_init *)
(* before the first byte and each byte passed to writeout_func.              *)

StartMemory(a, len) ==
  /\ Begins(a, "memory") /\ StartDump(a, len)
  /\ at' = [at EXCEPT ![a] = "clear"] /\ rec' = Text(rec)
  /\ UNCHANGED <<sys, writeout_func, irq, serial_crc32, print_crc, files>>

\* The buffer is cleared, written and finalized; an overflow and the end print a line.
MemoryStep(a) ==
  /\ CanRun(a)
  /\ \/ ClearHeader(a) \/ ClearData(a)
     \/ /\ at[a] = "gen" /\ writeout_func = "memory"
        /\ \E n \in 1..Cap+1 : WriteChunk(a, n)
     \/ at[a] = "gen" /\ EndOfStream(a)
     \/ SetMagic(a) \/ SetSize(a) \/ SetCrc(a)
  /\ at' = IF pc[a] = "gen" /\ pc'[a] # "gen" THEN [at EXCEPT ![a] = "none"] ELSE at
  /\ rec' = IF pc'[a] \in {"idle", "halted"} \/ memory_write_ctx'.overflow # ctx.overflow
            THEN Text(rec) ELSE rec
  /\ UNCHANGED <<sys, call, writeout_func, irq, serial_crc32, print_crc, files>>

-----------------------------------------------------------------------------
(* mcd_dump_memory, on the terminal. *)

StartShow ==
  /\ Begins(Shell, "print") /\ StartPrint
  /\ print_crc' = Bits32 /\ rec' = Start
  /\ UNCHANGED <<sys, at, writeout_func, irq, serial_crc32, files>>

ShowByte ==
  /\ CanRun(Shell) /\ PrintByte
  /\ LET cell == buf.data[Len(out)]
     IN /\ print_crc' = Not(mcd_crc32b(<<Byte(cell)>>, print_crc))
        /\ rec' = Hex(rec, cell)
  /\ UNCHANGED <<sys, at, call, writeout_func, irq, serial_crc32, files>>

EndShow ==
  /\ CanRun(Shell) /\ EndPrint
  /\ print_crc' = Not(print_crc) /\ End(print_crc')
  /\ UNCHANGED <<sys, at, call, writeout_func, irq, serial_crc32>>

-----------------------------------------------------------------------------
\* The boot report goes to the terminal, which keeps what it showed.  The losses
\* of power are left to MemoryStore.
Again ==
  /\ Reset
  /\ at' = [a \in Actors |-> "none"] /\ call' = [a \in Actors |-> "none"]
  /\ writeout_func' = "none" /\ irq' = {}
  /\ serial_crc32' = {} /\ print_crc' = {} /\ rec' = Text(rec)
  /\ UNCHANGED <<sys, files>>

FCInit ==
  /\ Init /\ sys \in Systems
  /\ at = [a \in Actors |-> "none"] /\ call = [a \in Actors |-> "none"]
  /\ writeout_func = "none" /\ irq = {}
  /\ serial_crc32 = {} /\ print_crc = {} /\ rec = Closed /\ files = {}

\* What a does by itself once it has been called.
Proceeds(a) ==
  \/ InitClear(a) \/ InitFunc(a)
  \/ DisableIrq(a) \/ WriteSerial(a) \/ StoreSerial(a) \/ EndSerial(a)
  \/ MemoryStep(a)
  \/ a = Shell /\ (ShowByte \/ EndShow)

FCNext ==
  \/ \E a \in Threads, len \in StreamLens : StartSerial(a, len)
  \/ \E a \in Threads \cup {Handler}, len \in StreamLens : StartMemory(a, len)
  \/ \E a \in Actors : Proceeds(a)
  \/ StartShow
  \/ Boot /\ UNCHANGED fcVars
  \/ Again

\* The processor executes the code of an actor that can run.
FCSpec == FCInit /\ [][FCNext]_allVars /\ WF_allVars(\E a \in Actors : Proceeds(a))

-----------------------------------------------------------------------------
(* Properties. *)

\* Systems whose dumps do not get in each other's way: threads have different
\* priorities, and what a thread of higher priority does and returns from goes to the
\* output of every dump below it.  From an assertion or a fault nothing returns.
Output(c) == IF c = "memory" THEN "memory" ELSE "serial"
KeepsFunction(s) ==
  \A a, b \in Threads : a # b =>
    /\ s.prio[a] # s.prio[b]
    /\ s.prio[b] > s.prio[a] =>
         \A c \in s.calls[a] \ {"print"}, d \in s.calls[b] \ {"print", "assert"} :
           Output(c) = Output(d)

\* Interrupts are disabled by at most one serial dump, while it writes; words
\* keep 32 bits (irq_save of mcd_faultdump_ex).
FCTypeOK ==
  /\ sys \in Systems
  /\ at \in [Actors -> {"none", "clear", "func", "irq", "gen", "spin"}]
  /\ call \in [Actors -> Calls \cup {"none"}]
  /\ writeout_func \in {"none", "memory", "serial"}
  /\ irq = {a \in Actors : at[a] = "gen" /\ pc[a] = "idle"} /\ Cardinality(irq) <= 1
  /\ serial_crc32 \subseteq Bits32 /\ print_crc \subseteq Bits32
  /\ rec.open \in BOOLEAN /\ rec.noise \in BOOLEAN /\ rec.bytes \in Seq(Cell)
  /\ \A f \in files : f \in Seq(Cell)

\* Whoever is about to write has the write-out function it asked for, in systems that
\* keep it: mcd_init runs with interrupts enabled, and a thread that comes in between
\* clears and replaces the pointer in m_ctx (faultdump.c:332, coredump.c:192).
OwnWriteout ==
  KeepsFunction(sys) =>
    \A a \in Actors : CanRun(a) /\ at[a] = "gen" =>
      writeout_func = IF pc[a] = "gen" THEN "memory" ELSE "serial"

\* Whoever is about to write has a write-out function in every system, be it that of
\* another dump: mcd_gen_coredump calls
\* m_ctx.writeout_func without a check, and mcd_init of another thread clears it
\* before it sets it again (coredump.c:192, :225).
FunctionIsSet == \A a \in Actors : CanRun(a) /\ at[a] = "gen" => writeout_func # "none"

\* The systems in which what is accepted is complete: the buffer and the write
\* context are one, so at most one thread may dump to memory.
StoresAlone(s) ==
  \A a, b \in Threads : "memory" \in s.calls[a] /\ "memory" \in s.calls[b] => a = b

\* In a system that keeps the functions, a file that was saved from the terminal is one
\* complete core file, whatever was printed by others, however often and by whom the
\* dump was interrupted.
FilesAreComplete ==
  KeepsFunction(sys) => \A f \in files : \E d \in 1..Len(lens) : f = Stream(d)

\* When an assertion spins in such a system, its core file has been shown, with a
\* checksum a user can check it with: nothing more will come (rtt_assert_hook).
AssertionIsShown ==
  KeepsFunction(sys) => \A a \in Threads : at[a] = "spin" => Stream(dump[a]) \in files

\* A call ends, unless an assertion spins, a fault halts the system or it is
\* reset: neither disabled interrupts nor a thread of higher priority hold it up
\* for ever, and every assertion reaches the end of its dump.
CallsEnd ==
  \A a \in Threads :
    Busy(a) ~> (~Busy(a) \/ (\E b \in Threads : at[b] = "spin") \/ pc[Handler] = "halted")
=============================================================================
