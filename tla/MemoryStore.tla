----------------------------- MODULE MemoryStore -----------------------------
(***************************************************************************)
(* The memory output of MCoreDump (src/faultdump.c): mcd_faultdump_ex with *)
(* MCD_OUTPUT_MEMORY fills coredump_memory_buffer, which survives a reset; *)
(* mcd_print_memoryinfo reports it at boot and mcd_dump_memory prints it.  *)
(*                                                                         *)
(* Application tasks call these functions; the hard fault handler preempts *)
(* every task, dumps and halts until a reset.  A reset can come between    *)
(* any two stores, and a loss of power garbles the buffer.                 *)
(*                                                                         *)
(* Bytes are abstracted to their origin: cell <<d, p>> is byte p of the    *)
(* core file of dump d.  A checksum is abstracted to the bytes it was      *)
(* computed from: different contents have different checksums.             *)
(*                                                                         *)
(* A definition NAME_Fault is a mutated form of NAME.  Nothing uses it: it *)
(* stands for a bug the properties below have to notice.                   *)
(***************************************************************************)
EXTENDS Naturals, Sequences

CONSTANTS
  Tasks,       \* threads that call mcd_faultdump
  Shell,       \* the thread that executes shell commands; it may be one of Tasks
  Handler,     \* the hard fault handler
  Cap,         \* COREDUMP_MEMORY_SIZE
  StreamLens,  \* sizes a core file can have
  GarbledSizes, \* what data_size may read as after a loss of power
  Blank,       \* a cell holding zero
  Garbage,     \* what a cell or field holds after a loss of power
  MaxDumps     \* bound: dumps begun in a behaviour

ASSUME MemoryAssumption ==
  /\ Cap \in Nat \ {0} /\ StreamLens \subseteq Nat \ {0} /\ MaxDumps \in Nat
  /\ GarbledSizes \subseteq Nat /\ GarbledSizes \cap StreamLens = {}
  /\ Handler \notin Tasks \cup {Shell}
  /\ Garbage \notin Seq((Nat \X Nat) \cup {Blank, Garbage})
  /\ Blank \notin Nat \X Nat /\ Garbage \notin Nat \X Nat

VARIABLES
  coredump_memory_buffer,  \* magic (is it COREDUMP_MEMORY_MAGIC?), data_size, crc32, data
  memory_write_ctx,        \* offset, overflow
  mode,                    \* "boot" until mcd_coredump_init has run, then "run"
  lens,                    \* lens[d] = size of the core file of dump d
  pc,                      \* pc[a]: where actor a is in the code
  dump,                    \* dump[a]: the dump a is taking
  pos,                     \* pos[a]: bytes of its core file a has passed to the writer
  out,                     \* cells mcd_dump_memory has printed so far
  term                     \* the last complete core file on the terminal

buf == coredump_memory_buffer
ctx == memory_write_ctx
vars == <<coredump_memory_buffer, memory_write_ctx, mode, lens, pc, dump, pos, out, term>>

Actors == Tasks \cup {Shell, Handler}
Cell == (Nat \X Nat) \cup {Blank, Garbage}

TypeOK ==
  /\ buf \in [magic : BOOLEAN, data_size : Nat, crc32 : Seq(Cell) \cup {Garbage},
              data : [0..Cap-1 -> Cell]]
  /\ ctx \in [offset : 0..Cap, overflow : BOOLEAN]
  /\ mode \in {"boot", "run"}
  /\ lens \in Seq(StreamLens)
  /\ pc \in [Actors -> {"idle", "clear", "zero", "gen", "magic", "size", "crc",
                        "halted", "emit"}]
  /\ dump \in [Actors -> 0..Len(lens)] /\ pos \in [Actors -> Nat]
  /\ out \in Seq(Cell) /\ term \in Seq(Cell)

\* The first n bytes of the data buffer, and their checksum.
Content(n) == [k \in 1..n |-> buf.data[k - 1]]
crc32b(n) == Content(n)

mcd_check_memory_coredump == buf.magic /\ buf.data_size > 0 /\ buf.data_size <= Cap

\* The checksum is left out.
Accepted_Fault == mcd_check_memory_coredump

\* What mcd_dump_memory requires before it prints.
Accepted == mcd_check_memory_coredump /\ buf.crc32 = crc32b(buf.data_size)

\* A thread runs only while the hard fault handler does not.
MayRun(a) == mode = "run" /\ (a # Handler => pc[Handler] = "idle")

-----------------------------------------------------------------------------
(* mcd_faultdump_ex(MCD_OUTPUT_MEMORY). *)

\* The handler never returns to the thread that faulted.
Return(a) == IF a = Handler THEN "halted" ELSE "idle"

\* memory_write_ctx keeps what the dump before left.
StartDump_Fault(a, len) ==
  /\ MayRun(a) /\ pc[a] = "idle" /\ Len(lens) < MaxDumps
  /\ lens' = Append(lens, len)
  /\ dump' = [dump EXCEPT ![a] = Len(lens) + 1] /\ pos' = [pos EXCEPT ![a] = 0]
  /\ pc' = [pc EXCEPT ![a] = "clear"]
  /\ UNCHANGED <<coredump_memory_buffer, memory_write_ctx, mode, out, term>>

StartDump(a, len) ==
  /\ MayRun(a) /\ pc[a] = "idle" /\ Len(lens) < MaxDumps
  /\ lens' = Append(lens, len)
  /\ dump' = [dump EXCEPT ![a] = Len(lens) + 1] /\ pos' = [pos EXCEPT ![a] = 0]
  /\ memory_write_ctx' = [offset |-> 0, overflow |-> FALSE]
  /\ pc' = [pc EXCEPT ![a] = "clear"]
  /\ UNCHANGED <<coredump_memory_buffer, mode, out, term>>

\* mcd_memset: the header comes first, the data after it.
ClearHeader(a) ==
  /\ MayRun(a) /\ pc[a] = "clear"
  /\ coredump_memory_buffer' = [buf EXCEPT !.magic = FALSE, !.data_size = 0, !.crc32 = <<>>]
  /\ pc' = [pc EXCEPT ![a] = "zero"]
  /\ UNCHANGED <<memory_write_ctx, mode, lens, dump, pos, out, term>>

ClearData(a) ==
  /\ MayRun(a) /\ pc[a] = "zero"
  /\ coredump_memory_buffer' = [buf EXCEPT !.data = [k \in 0..Cap-1 |-> Blank]]
  /\ pc' = [pc EXCEPT ![a] = "gen"]
  /\ UNCHANGED <<memory_write_ctx, mode, lens, dump, pos, out, term>>

\* The length is not cut to what is left.
corefile_memory_write_Fault(d, p, n) ==
  IF ctx.overflow THEN UNCHANGED <<coredump_memory_buffer, memory_write_ctx>>
  ELSE /\ memory_write_ctx' = [offset |-> ctx.offset + n, overflow |-> ctx.offset + n > Cap]
       /\ coredump_memory_buffer' =
            [buf EXCEPT !.data = [k \in 0..Cap-1 |->
               IF ctx.offset <= k /\ k < ctx.offset + n
               THEN <<d, p + (k - ctx.offset)>> ELSE buf.data[k]]]

\* n bytes, from byte p of dump d on
corefile_memory_write(d, p, n) ==
  LET fits == ctx.offset + n <= Cap
      m == IF fits THEN n ELSE Cap - ctx.offset
  IN  IF ctx.overflow THEN UNCHANGED <<coredump_memory_buffer, memory_write_ctx>>
      ELSE /\ memory_write_ctx' = [offset |-> ctx.offset + m, overflow |-> ~fits]
           /\ coredump_memory_buffer' =
                [buf EXCEPT !.data = [k \in 0..Cap-1 |->
                   IF ctx.offset <= k /\ k < ctx.offset + m
                   THEN <<d, p + (k - ctx.offset)>> ELSE buf.data[k]]]

\* mcd_gen_coredump passes its next n bytes to corefile_memory_write.
PassChunk(a, n) ==
  /\ pos[a] + n <= lens[dump[a]]
  /\ corefile_memory_write(dump[a], pos[a], n)
  /\ pos' = [pos EXCEPT ![a] = pos[a] + n]
  /\ UNCHANGED <<mode, lens, pc, dump, out, term>>

WriteChunk(a, n) == MayRun(a) /\ pc[a] = "gen" /\ PassChunk(a, n)

\* A dump that overflowed the buffer is finalized too.
EndOfStream_Fault(a) ==
  /\ MayRun(a) /\ pc[a] = "gen" /\ pos[a] = lens[dump[a]]
  /\ pc' = [pc EXCEPT ![a] = IF ctx.offset > 0 THEN "magic" ELSE Return(a)]
  /\ UNCHANGED <<coredump_memory_buffer, memory_write_ctx, mode, lens, dump, pos,
                 out, term>>

\* mcd_gen_coredump returns: the dump is finalized, or given up.
EndOfStream(a) ==
  /\ MayRun(a) /\ pc[a] = "gen" /\ pos[a] = lens[dump[a]]
  /\ pc' = [pc EXCEPT ![a] = IF ~ctx.overflow /\ ctx.offset > 0 THEN "magic" ELSE Return(a)]
  /\ UNCHANGED <<coredump_memory_buffer, memory_write_ctx, mode, lens, dump, pos,
                 out, term>>

SetMagic(a) ==
  /\ MayRun(a) /\ pc[a] = "magic"
  /\ coredump_memory_buffer' = [buf EXCEPT !.magic = TRUE]
  /\ pc' = [pc EXCEPT ![a] = "size"]
  /\ UNCHANGED <<memory_write_ctx, mode, lens, dump, pos, out, term>>

SetSize(a) ==
  /\ MayRun(a) /\ pc[a] = "size"
  /\ coredump_memory_buffer' = [buf EXCEPT !.data_size = ctx.offset]
  /\ pc' = [pc EXCEPT ![a] = "crc"]
  /\ UNCHANGED <<memory_write_ctx, mode, lens, dump, pos, out, term>>

SetCrc(a) ==
  /\ MayRun(a) /\ pc[a] = "crc"
  /\ coredump_memory_buffer' = [buf EXCEPT !.crc32 = crc32b(ctx.offset)]
  /\ pc' = [pc EXCEPT ![a] = Return(a)]
  /\ UNCHANGED <<memory_write_ctx, mode, lens, dump, pos, out, term>>

DumpStep(a) ==
  \/ ClearHeader(a) \/ ClearData(a)
  \/ \E n \in 1..Cap+1 : WriteChunk(a, n)
  \/ EndOfStream(a) \/ SetMagic(a) \/ SetSize(a) \/ SetCrc(a)

-----------------------------------------------------------------------------
(* mcd_dump_memory, in the shell thread. *)

\* The command prints whatever the boot report calls a core dump.
StartPrint_Fault ==
  /\ MayRun(Shell) /\ pc[Shell] = "idle" /\ mcd_check_memory_coredump
  /\ pc' = [pc EXCEPT ![Shell] = "emit"] /\ out' = <<>>
  /\ UNCHANGED <<coredump_memory_buffer, memory_write_ctx, mode, lens, dump, pos, term>>

\* A buffer that fails the check or the checksum ends the command at once.
StartPrint ==
  /\ MayRun(Shell) /\ pc[Shell] = "idle"
  /\ Accepted
  /\ pc' = [pc EXCEPT ![Shell] = "emit"] /\ out' = <<>>
  /\ UNCHANGED <<coredump_memory_buffer, memory_write_ctx, mode, lens, dump, pos, term>>

\* The loop reads data_size again for every byte.
PrintByte ==
  /\ MayRun(Shell) /\ pc[Shell] = "emit" /\ Len(out) < buf.data_size
  /\ out' = Append(out, buf.data[Len(out)])
  /\ UNCHANGED <<coredump_memory_buffer, memory_write_ctx, mode, lens, pc, dump, pos,
                 term>>

\* The end marker, with the checksum of the bytes that were printed.
EndPrint ==
  /\ MayRun(Shell) /\ pc[Shell] = "emit" /\ ~(Len(out) < buf.data_size)
  /\ term' = out /\ out' = <<>>
  /\ pc' = [pc EXCEPT ![Shell] = "idle"]
  /\ UNCHANGED <<coredump_memory_buffer, memory_write_ctx, mode, lens, dump, pos>>

-----------------------------------------------------------------------------
(* Reset, loss of power and boot. *)

\* Everything but the no-init buffer starts again.
Restart ==
  /\ mode' = "boot"
  /\ memory_write_ctx' = [offset |-> 0, overflow |-> FALSE]
  /\ pc' = [a \in Actors |-> "idle"]
  /\ dump' = [a \in Actors |-> 0] /\ pos' = [a \in Actors |-> 0]
  /\ out' = <<>> /\ term' = <<>>
  /\ UNCHANGED lens

Reset == Restart /\ UNCHANGED coredump_memory_buffer

\* Every header field is kept or garbled, and the data cells in lost are
\* garbled.  A garbled field does not by luck read as what it once was.
PowerLoss ==
  /\ Restart
  /\ \E m \in {buf.magic, FALSE}, s \in {buf.data_size} \cup GarbledSizes,
        c \in {buf.crc32, Garbage}, lost \in {{}, {0}, 0..Cap-1} :
       coredump_memory_buffer' =
         [magic |-> m, data_size |-> s, crc32 |-> c,
          data |-> [k \in 0..Cap-1 |-> IF k \in lost THEN Garbage ELSE buf.data[k]]]

\* mcd_coredump_init: the buffer is reported, which changes nothing, and the hooks are installed.
Boot ==
  /\ mode = "boot" /\ mode' = "run"
  /\ UNCHANGED <<coredump_memory_buffer, memory_write_ctx, lens, pc, dump, pos, out, term>>

-----------------------------------------------------------------------------
\* A buffer that was never written does not by luck hold the magic number.
Init ==
  /\ \E s \in {0} \cup GarbledSizes :
       coredump_memory_buffer = [magic |-> FALSE, data_size |-> s, crc32 |-> Garbage,
                                 data |-> [k \in 0..Cap-1 |-> Garbage]]
  /\ memory_write_ctx = [offset |-> 0, overflow |-> FALSE]
  /\ mode = "boot" /\ lens = <<>>
  /\ pc = [a \in Actors |-> "idle"]
  /\ dump = [a \in Actors |-> 0] /\ pos = [a \in Actors |-> 0]
  /\ out = <<>> /\ term = <<>>

Next ==
  \/ \E a \in Tasks \cup {Handler} : (\E len \in StreamLens : StartDump(a, len)) \/ DumpStep(a)
  \/ StartPrint \/ PrintByte \/ EndPrint
  \/ Reset \/ PowerLoss \/ Boot

Spec == Init /\ [][Next]_vars

-----------------------------------------------------------------------------
(* Properties. *)

\* The core file of dump d.
Stream(d) == [k \in 1..lens[d] |-> <<d, k - 1>>]

\* A buffer that passes the check and the checksum holds one complete core
\* file, whatever preemption, reset or loss of power went before.
AcceptedIsComplete == Accepted => \E d \in 1..Len(lens) : Content(buf.data_size) = Stream(d)

\* When the hard fault handler is done, its own dump is in the buffer if it
\* fits, and nothing is if it does not.
FaultDumpIsStored ==
  pc[Handler] = "halted" =>
    IF lens[dump[Handler]] <= Cap
    THEN Accepted /\ Content(buf.data_size) = Stream(dump[Handler])
    ELSE ~mcd_check_memory_coredump

\* A core file the terminal shows with a matching checksum is complete.
TerminalIsComplete == term # <<>> => \E d \in 1..Len(lens) : term = Stream(d)

\* The dump that cells s are the complete core file of; a number no dump has
\* when they are none.
Origin(s) == IF \E d \in 1..Len(lens) : s = Stream(d)
             THEN CHOOSE d \in 1..Len(lens) : s = Stream(d) ELSE Len(lens) + 1

\* The buffer is a slot that keeps the dump finished last until a newer one is
\* begun or power is lost, and what is printed is what it keeps.
D == INSTANCE DumpSlot WITH
       None <- 0,
       slot <- IF Accepted THEN Origin(Content(buf.data_size)) ELSE 0,
       taken <- Len(lens),
       printed <- IF term = <<>> THEN 0 ELSE Origin(term)

ImplementsDumpSlot == D!Spec
=============================================================================
