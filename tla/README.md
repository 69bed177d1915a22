# MCoreDump in TLA+

MCoreDump writes an ELF core file of an RT-Thread system on a Cortex-M: from the
hard fault handler into a buffer that survives a reset, or over the serial port,
and from the buffer into a file.  The modules here model the code that does it,
TLC checks them on small instances, and TLAPS proves their safety properties and both
refinements for every size and every number of threads, contexts and dumps, and the
checksum for every message.  Paths are relative to the directory that holds `src/`,
the repository.

## The system

| Component | Source | State | Operations |
|---|---|---|---|
| ELF core writer | `src/src/coredump.c` | `m_ctx` (file offset, scratch union, register sets, write-out function), `current_core_regset` | `mcd_init`, `mcd_gen_coredump`, `mcd_corefile_size`, the mini operations |
| Thread adapter | `src/osal/rtthread.c` | static `rtthread_ti_priv_t`: cached count and index; reads the kernel's thread list | `rtthread_thr_cnts`, `_cur_idx`, `_thr_rset`, `_get_memarea`, `mcd_rtos_thread_ops` |
| Memory output | `src/src/faultdump.c` | `coredump_memory_buffer` in `.noinit`, `memory_write_ctx` | `mcd_faultdump(MCD_OUTPUT_MEMORY)`, `corefile_memory_write`, `mcd_check_memory_coredump`, `mcd_print_memoryinfo`, `mcd_dump_memory` |
| Filesystem save | `src/src/faultdump.c` | `coredump_fd`, `coredump_filename`, `file_counter`, the files | `mcd_dump_filesystem`, `prepare_coredump_filesystem`, `create_coredump_filename` |
| Register collection | `src/arch/*/arm*.c` | none; reads a stack | `collect_registers_*`, `*_hard_fault_exception_hook`, `mcd_get_regset` |
| Serial output | `src/src/faultdump.c` | `serial_crc32`, `serial_byte_count`; the terminal | `mcd_faultdump(MCD_OUTPUT_SERIAL)`, `corefile_serial_write`, `mcd_crc32b` |
| Initialisation and hooks | `src/osal/rtthread.c` | `is_init` | `mcd_coredump_init`, the hard fault hook, the assertion hook |
| ARM note descriptors | `src/src/arm/mcd_arm.c` | `task_id_counter`; writes into `m_ctx.tmp` | `arm32_fill_note_*_desc` |
| Example, host tool | `src/example`, `src/tools` | none | `mcd_test`: a serial dump, an assertion, a fault; `hex_to_elf` |
| Headers | `src/inc` | none | |

How they interact: a hook or an application calls `mcd_faultdump`, which chooses a
write-out function, and `mcd_gen_coredump` then asks the thread adapter through the
callbacks of `struct thread_info_ops` and passes chunks to the write-out function.
The adapter walks the kernel's list on every call and calls `collect_registers` on
the stacks of waiting threads.  The shell commands `mcd_dump_memory` and
`mcd_dump_filesystem` read the buffer a fault has left.  Nothing has a lock.
Only a serial dump disables interrupts; the fault handler preempts everything and
never returns to a thread.

What is hard here, and what correctness means for each part:

* The writer goes over the callbacks three times, and the first pass promises
  offsets and sizes.  A dump must be one snapshot: each header describes the bytes
  written for it, and all of them the system as it was when the dump began.
* The list, the saved stack pointers and the cached count can change during a
  dump that is not protected.  A dump must still end.
* The memory buffer is filled store by store while faults, resets and losses of
  power strike.  What passes the check and the checksum must be one whole dump,
  and a fault must leave its own dump behind.
* Saving has failing calls, repeated names and a buffer to be cleared.  The last
  dump must be somewhere, whole, and a file reported as saved must stay so.
* The hooks compute where a frame begins from where it ends, for several layouts.
  Every register must come from the word it was saved in.
* Headers and notes of all threads are built one after the other in one union.  A
  note must show the registers of its own thread, where a debugger looks for them, and
  nothing of another thread.
* All callers share `m_ctx`, the buffer and the terminal.  Whoever dumps must write
  with its own function, what a user takes from the terminal must be one core file,
  and nobody may be held up for ever by disabled interrupts.

## Modules

| Module | What it is |
|---|---|
| `Snapshot` | abstract: a dump is a well formed core file of a system that stands still |
| `CoreDump` | the writer, the two sets of thread operations and the kernel around them |
| `CoreSize` | extends `CoreDump`: the size functions, asked before a dump |
| `CoreDumpProofs` | theorems about `CoreDump`, which implements `Snapshot`, and `CoreSize` |
| `DumpSlot` | abstract: a slot that keeps the dump begun last, whole |
| `MemoryStore` | the memory output, its check and `mcd_dump_memory`, faults, resets, losses of power |
| `MemoryStoreProofs` | theorems about `MemoryStore`, which implements `DumpSlot` |
| `FileSave` | `mcd_dump_filesystem` with a filesystem that can fail |
| `FileSaveProofs` | theorems about `FileSave` |
| `StackFrame` | the collectors and the hooks, word by word |
| `StackFrameProofs` | theorems about `StackFrame` |
| `ThreadNotes` | extends `StackFrame`: the notes of one context after the other, in the union `m_ctx.tmp` |
| `ThreadNotesProofs` | theorems about `ThreadNotes`; extends `StackFrameProofs` |
| `Crc32` | `mcd_crc32b`, bit by bit, and CRC-32 by its definition |
| `Crc32Proofs` | the two are the same |
| `FaultContexts` | extends `MemoryStore` and `Crc32`: threads of different priority, the assertion hook, the shell and the fault handler with one `m_ctx` and one terminal |
| `FaultContextsProofs` | who finds its write-out function in `FaultContexts`, what is in the buffer and in the files, what an assertion shows; extends `MemoryStoreProofs` and `Crc32Proofs` |
| `Induction` | lemmas: induction over a range of numbers, and what a loop computes |
| `MC*` | instances of these for TLC |

A definition `NAME_Fault` is a plausible bug in `NAME`; nothing uses it.  Each
property of a passing run fails when one of them takes the place of its original.

### CoreDump

`WriteFileHeader`, `WriteNoteHeader`, `WriteLoadHeader`, `WriteThreadNotes`,
`WriteMemoryArea` and `NextPass` are `mcd_gen_coredump`, one action per loop
iteration.  `StartDump(e)` enters it in one of four ways: from the hard fault hook,
over the serial port, as a memory dump asked for by a thread, as a mini dump.
`priv` is the static private data, `cur` is `current_core_regset`, `area` and `rset`
are the locals and scratch registers that keep their value when an index is past the
end of the list.  `phdrs`, `notes`, `segs`, `written` record the output with file
positions.  The kernel (`OtherRuns`, `CreateThread`, `DeleteThread`, `QuerySize`)
moves during a dump only when `KernelRuns`: not in the fault handler and not
between `mcd_irq_disable` and `mcd_irq_enable`.  A register set is abstracted to
its thread and its stack pointer, memory to address and length.
Note sizes follow from the structures: 168 and 280 bytes.  Addresses do not
wrap.  `is_thread_object` accepts every object, since the list it filters is that
of the thread class.  The caller of a mini or unprotected memory dump cannot be
deleted while it dumps.

The refinement mapping hides everything until the dump is done: `S!Spec` says that
between `Begin` and `Finish` the view of the system does not change and that the
finished file is the core file of that view.

### CoreSize

`mcd_mini_dump_size` and `mcd_multi_dump_size` (`Ask`) may be called at any time before a
dump, also before anything has called `mcd_init` (`inited`), when `m_ctx` and
`current_core_regset` are zero.  `Prepare` is an `mcd_init` by the application;
every dump begins with one.  `asked` is the last answer, forgotten when the system it
was about changes: what remains at the end of a dump was given about the system
that was dumped.  An answer takes the alignment of the running thread's stack from
`current_core_regset`, which holds the registers of the dump before.  `SizeIsNear` says how far
it can be off by that.  Answers given during a dump (`QuerySize` of `CoreDump`) only matter for the
private data they overwrite.

### MemoryStore and DumpSlot

Every store to the header is an action, so that a reset or a fault can come
between any two.  The memset of the buffer is two (header, data), as the header
comes first in memory.  `WriteChunk` passes any number of bytes, in place of the calls of
`m_ctx.writeout_func` in `mcd_gen_coredump`: the writer's chunk
sizes are covered by all ways of cutting a core file.  `PassChunk` is what such a call does;
`FaultContexts` has another caller of it.  A byte is `<<d, p>>`, byte p of
dump d, and a checksum is the bytes it was computed from, so that it is right
exactly when the bytes are; a real CRC can collide.  `PowerLoss` keeps or garbles each
field; a garbled field does not by luck read as a value that was valid.  The order of
the three header stores is that of the source; a compiler may change it.
Reading the buffer for the checksum is one step: `mcd_dump_memory` rereads it only
afterwards, byte by byte (`PrintByte`).  `mcd_print_memoryinfo` changes no state.

`ImplementsDumpSlot` maps the buffer to a slot that is full when its content is
accepted.  It says that the slot is never filled with anything but the newest dump,
that it is emptied only for a newer dump or by a restart, and that what is printed
is what the slot held.

### FileSave

The buffer is filled in one step (`FinishDump`), or by a fault at any point
(`Fault`); that this is right is what `FaultDumpIsStored` of `MemoryStore` says.
`WriteByte` lets a fault or reset strike in the middle of `write()`.  What `write()` has
taken need not be on the medium: `StoreByte`, a step of the filesystem, puts it there byte
by byte, at any time until `close()` returns; `files` is the medium, and what is not on it
when a fault or reset comes is lost.  The bytes are stored in their order: a filesystem that
stores them in another order is not modelled.  Nor is one that loses
what it has stored, or fails later than `close()`.  `WriteReturns` is the return of `write()`,
`CloseFile` that of `close()`, whose result the code ignores: with `CloseErrors` it may
return while bytes are still missing, without it all are stored.
`HasClock` chooses between the two kinds of names, `MinGap` whether two saves
can fall into one second, `ShortWrites` whether `write()` may store less than it was asked to.
Only dumps that fit the buffer occur; dumps of other threads during a save are
not modelled.

### StackFrame

A stack is a sequence of words, each known by what was saved in it.  `Frame` is
external: it is laid out by RT-Thread's `PendSV_Handler` and by the fault handler the
repository's README refers to, and is taken from the comments above the
collectors and hooks; where these disagree on s16-s31 (`below`) both are used.
`ReadFlag`, `ReadFirstWord`, `CopyWord` and `SetSp` are the collectors.  A word that is
taken for something it is not can have any value, so `TakenFor...` is a choice.

### ThreadNotes

Composed with `StackFrame`: `Collect` is a step of the collector, `WritePrstatus` and
`WriteVfp` are `fill_one_threads_regset`, `NextNote` goes to another thread of the dump or
ends the dump.  `StartDump` either clears the union, as `mcd_init` does, or leaves
it as it is, for `mcd_mini_dump` and `mcd_multi_dump` called by themselves.

`tmp` is the union in cells of 16 bits, the largest unit in which every store
of the code is a whole number (the names of the notes end between two words).  A
cell is what was stored there and for which context; equal values of different
contexts stay different, so that a stale value is always seen.  `Store` does not
stop at the end of the union: a store beyond it makes `tmp` larger than its type.  The
fill functions are operators on a union, named like those of `coredump.c` and `mcd_arm.c`.

The running thread is not among the contexts: `rtthread_thr_rset` copies its
register sets whole (`CoreDump`), and the descriptors treat them like any others.

### Crc32

A word is the set of its bits.  `mcd_crc32b` is the code's two loops: `AfterBytes` and
`AfterBits` are the register after each iteration, `CrcBit` is the body of the inner
one.  `CRC32` is the remainder of a division of polynomials over the field of two elements.
`CrcIsCrc32`, an assumption of `MCFaultContexts` that TLC evaluates, compares
them on 156 messages of up to three bytes and on "123456789", whose checksum is published:
that the definition is the CRC-32 of other programs is what this one message shows, and
`CrcIsCorrect` proves that the code computes it for every other message too.

### FaultContexts

`at[a]` says where an actor is in `mcd_init` (two stores, `InitClear` and
`InitFunc`), in a serial dump, or in the loop of the assertion hook.  A memory dump
takes the steps of `MemoryStore`, one store each, with `mcd_init` before the first
byte; each byte goes to `writeout_func` as it stands at that moment: those of a memory dump
to the buffer (`WriteChunk`) or the terminal (`WriteSerial`), those of a serial dump to the
terminal or, when a memory dump has come in after its `mcd_init`, to the buffer
(`StoreSerial`).  A caller that finds NULL would stop there, since the code calls through it;
`FunctionIsSet` says that nobody does.  A serial dump writes its bytes between `DisableIrq` and `EndSerial`.
`CanRun` is the scheduler: the fault handler before everything, then whoever disabled
interrupts, then the thread of the highest priority.  Which threads exist, their
priorities and calls are the constant `Systems`; a call may begin at any
moment its caller can run.  Two threads have different priorities.

`rec` is the terminal as a user sees it: the hexadecimal text since the last start marker,
and whether anything else was printed since.  At an end marker and checksum (`End`) the
user converts it with `hex_to_elf.py`, which fails on anything but digits, and drops
a file whose CRC-32 is not the one shown; the rest are `files`.  Printing a byte and taking its
checksum are one step.  The line that every mode prints last is left out: the
record of a serial dump is closed by then.  A core file has distinct bytes here (`Byte`), so
that no two that differ have one checksum at these lengths.

The bytes of a dump are those of `MemoryStore`, known by dump and position: what the
callers do to each other's registers, offsets and union is not in this module.
`Again` is a reset; losses of power stay with `MemoryStore`, since they differ from
a reset only in what the buffer holds.  `rt_interrupt_enter` and `rt_interrupt_leave` in the assertion
hook only count.

## Runs

| Run | Expectation | Shows |
|---|---|---|
| `core_dump` | pass | three threads, created, deleted, switched; protected and mini dumps are snapshots; after `mcd_init` the size functions are less than a line off, and by the alignment of one stack only |
| `core_dump_live` | pass | a dump ends, also an unprotected one |
| `memory_dump_preempted` | violation | an unprotected memory dump has headers that do not describe its data |
| `memory_dump_registers` | violation | a memory dump asked for by a thread has no registers of that thread |
| `memory_store` | pass | one dumping task, the fault handler, resets, losses of power; refinement of `DumpSlot` |
| `fault_contexts` | pass | threads, assertions, prints, faults and resets with one `m_ctx` and one terminal: a function to call and the right one, complete files, calls that end |
| `mixed_dumps` | violation | a serial dump of another thread redirects the rest of a memory dump; the part in the buffer is accepted |
| `file_save` | pass | with a clock, and a filesystem whose `write()` is whole and whose `close()` succeeds, nothing is lost, mixed or wrongly reported |
| `short_write` | violation | a short write is reported as a success, and with the buffer cleared the dump is lost |
| `file_name_reuse` | violation | the end of an older file stays behind a shorter dump |
| `stack_frame` | pass | waiting threads, and faults without FPU context in a build with an FPU: their registers, and the notes of up to three of them |
| `armv7m_no_fpu` | violation | without an FPU the armv7m hook starts at EXC_RETURN, one word before r4 |

The violations are disagreements between the code and what its comments or its
README say; PROJECT.json quotes both under "findings".

Bounds, and why they are enough:

* `core_dump` has three threads, one with two stack pointers, on and off a 64 byte
  line, and two with one of these each: a list in which the running thread is first, in the
  middle, last or missing, and areas with and without alignment.  The sizes are the
  real ones.  Its specification is `SizeSpec`, whose steps are those of `Spec` with a
  question that may come before a dump.  The proofs drop the bounds.
* `core_dump_live` has two threads with one stack pointer each; the list and the
  private data still change at every step, and these are all that the loop
  conditions read.
* `memory_store` has a buffer of three bytes and core files of two, three and five: partly
  filled, exactly filled, overflowing by a part of a chunk or by whole chunks.
  Three dumps: an old one, one that is interrupted, and the one that interrupts it.
* `file_save` has core files of two and three bytes, three dumps and three saves: a file that
  is complete, one that is broken off, and a new one.
* `stack_frame` has every context there is, and three of them in a row (`MaxNotes`), of one
  dump or several: with a thread that has FPU context before or after one that has not, a
  second dump with a union that was cleared or was not.  `FirstTask` is the initial
  value in the source.
* `fault_contexts` has five systems of a shell and a worker of higher priority.  Core files
  have two and four bytes and the buffer three, so that a dump leaves room or overflows;
  there are two or three dumps.  The first has a memory dump
  that is printed while an assertion of the worker, a fault and a reset come between.  In
  all of them at most one thread dumps to memory, and in four no other thread returns to it
  (`KeepsFunction`); `mixed_dumps` has the smallest system in which one does.  In the one where the worker dumps to
  memory, the shell prints: its dump replaces the buffer under a print that goes on
  afterwards (`FilesAreComplete`), which in `memory_store` only a fault does, and that ends the print.
  In the fifth the worker dumps to memory while the shell dumps over the serial port: `StoreSerial`
  occurs, also with room in the buffer.  There `OwnWriteout`, `FilesAreComplete` and
  `AssertionIsShown` say nothing; the other properties hold there too.

`StackFrame` and `ThreadNotes` end, so their runs do not check for deadlock.  All others do.

Fairness: `FairSpec` is `WF_vars(WriterStep)`.  The writer is straight-line code
without waiting; in the fault handler and with interrupts disabled nothing else
runs, and a thread that dumps is delayed by threads of higher priority only as long
as these do not block.  A thread that is never scheduled again would not finish its dump.

`FCSpec` is weak fairness of `\E a : Proceeds(a)`: the processor goes on executing
whichever actor runs now.  It says nothing of which one that is: that a thread of low
priority ends its call follows from every other call ending, and `CallsEnd` excuses
only an assertion that spins and a halted fault.  Calls are bounded (`dumps`), so that a worker
that never stops calling, which would starve the shell in the code too, does not occur.
No other property needs fairness.

## Proofs

Assumptions are those of the modules: sizes are natural numbers, the line size is not
zero, saved stack pointers lie within their stacks, the running thread and the handler
are as their constants say.

`CoreDumpProofs`: `TypeCorrect` holds for every entry point. The others assume that no
unprotected memory dump is among the entry points, which `memory_dump_preempted` and
`memory_dump_registers` show to be necessary. None of the properties is inductive: they
speak of a finished file. `IInv` says for each pass which headers, notes and segments
have been written, that each is what `View` gives at its position, and where the next
byte goes; it holds because `OpsServeView` shows that the callbacks return the view and
`ViewStable` that no step of a protected dump changes it. `HeadersMatch`,
`RunningThreadIsCaptured` and `DumpImplementsSnapshot` follow from `IInv` at the last
pass; the latter also shows that each step maps to a step of `Snapshot` or to a stutter.
`SizeIsNearlyPromised` is about `CoreSize`, whose steps are steps of `CoreDump`
(`SizeStepsAreSteps`), so that `IInv` holds there too. `AskedInv` says what an answer is in terms of the
system as it stands, and that nothing has changed since. By induction over the areas, each
iteration of the loop of `mcd_corefile_size` comes to where the writer puts the next
segment (`SizeOfFile`), were it not for one area whose length is off by the difference of the
alignments (`SizesApart`). The sizes do not wrap.

`MemoryStoreProofs`: `StoreTypeCorrect` needs that a print in progress stays within the
buffer. `AcceptedDumpIsComplete` assumes at most one dumping task (with two,
`mixed_dumps` shows what the write-out function alone does to it). Its invariant
`StoreInv` says of every dump in progress how far the buffer agrees with it, and that a
checksum in the header is that of a complete core file, or of nothing (`GenuineCrc`):
this survives the loss of power, where the accepted buffer itself does not. Two tasks
that both dump to memory break it too: the buffer and the write context are one.
`FaultDumpStored` has no such assumption: the handler runs alone, and `FaultInv` follows
it from its first store. `TerminalShowsCompleteDumps` assumes that only the shell dumps;
with another task TLC finds a dump that is begun while an older one is printed, whose
mixture gets a fresh checksum. Its invariant is `PrintInv`: what is printed so far is
the beginning of what is accepted.

Also there, `SlotIsImplemented` has the same assumption as the terminal. The slot
is a function of the buffer, the lengths and the terminal, so a step that leaves these
alone is a stutter, and the steps that do not are taken one by one. The stores of the
magic number and of the size must not fill the slot, and that of the checksum must:
`NotYetStored` says that until then the checksum in the header is not that of the dump
in progress, so that the slot cannot be full by accident.

`FileSaveProofs`: `FilesAreNotMixed` assumes `NewNames`, a clock and at most one save in
a second; `file_name_reuse` is a run without it. `SuccessIsTrue` and `LatestIsNotLost`
assume in addition that `write()` takes all it was asked to or fails, and that `close()`
succeeds; `short_write` is a run without either. Faults, resets, losses of power and failing calls are as in the model, at every
point and in any number. `FilesInv` says that no file has a name still to come
(`NamesArePast`) and that the file being written is as long as what was written of the
buffer (`WritesNewFile`), which `FileHoldsOneDump` alone does not. `SaveInv` adds that
the name in use was not reported before, and that the buffer is about to be cleared only
when the file is equal to it.

`StackFrameProofs`: for every base of a frame and every set of builds and contexts the
collectors are typed. `RegistersAreRestored`, `SpIsRestored` and `NothingBehindIsRead`
assume `Collectable` contexts: not FPU context on armv8m, nor at a fault, nor a fault
without FPU on armv7m; `armv7m_no_fpu` shows what happens there. `CollectInv` compares the collector
with `Saved`, the sequence of what the layout holds for it: the next word is at the next
place, and of the registers exactly those before it are restored. Most of the proof
computes these sequences, layout by layout.

`ThreadNotesProofs`: any number of notes, in any number of dumps. `NotesTyped` and
`NothingForeign` hold for all contexts, also those whose registers come out wrong.
`NotesTyped` says that no store leaves the union, although `Store` would let it: each
fill function is shown to store cells within its own range. `NothingForeign` is not
inductive, since a note shows cells that nobody has stored in this dump; `UnionInv` says
which cells no fill function touches, and which a prstatus note leaves to the VFP note
of its own thread. `ContextsAreShown` assumes `Collectable` contexts; `ShowInv` joins
`NotesInv` and `CollectInv`, which also gives `CollectorsAreRestarted`: what
`StackFrameProofs` proves of one context is true of the second and later ones.

`FaultContextsProofs`: `EveryoneKeepsFunction` is `OwnWriteout` for any threads,
priorities and calls; the system that runs satisfies `KeepsFunction` (`Keeps`): priorities differ, and what a thread of
higher priority does and returns from has the same output as every dump below it.
`OwnWriteout` is not inductive, since it says nothing of a dump that is interrupted.
`FuncInv` does: who has passed its function to `mcd_init` finds it, or there is somebody
who outranks it and is not finished (`FuncKept`), and where an actor is in the two
modules goes together (`Places`, `Called`). When the one that outranks it returns,
`RunnerHasFunc` gives the function that is in place and `KeepsFunction` says that it is
the right one (`DumpReturns`).  `FunctionStaysSet` is `FunctionIsSet` and needs only that
priorities differ: `SetInv` says that who is about to write has a function, or somebody who
outranks it is between the two stores of `mcd_init`, and who can run is outranked by nobody
that is busy (`RunnerIsAlone`).

What is stored and shown: `CallersTyped` and `HandlerStoresItsDump` speak of systems with
`KeepsFunction` too; `BufferIsComplete` and `SavedFilesAreComplete` add `StoresAlone`,
that at most one thread has calls that dump to memory, because the buffer and the write
context are one. Callers of the serial output, the shell's prints, assertions and faults
may be any number. What `MemoryStoreProofs` says of a step of a dump is used again for
the dumps of threads, which is why its lemmas are about any actor. `SerialInv` says that
a serial dump finds on the terminal exactly what it has written. `ShownInv` says the
same of a print: while nothing else was printed, it is the beginning of an accepted
buffer, and no thread above the shell is in the middle of a memory dump; one that began
later would have printed first. So a record that is not spoilt is complete at its end
marker whatever its checksum is, and nothing about CRC-32 is needed: the checksum only
keeps more files away.  That it never keeps away a good one is `AssertionsAreShown`, for
systems with `KeepsFunction`: when the loop of the assertion hook is reached, the core file has been
converted and kept.  `AssertInv` adds to `SerialInv` that a dump in progress has seen nothing
else on the terminal and that `serial_crc32`, taken and inverted byte by byte, is the
register of one pass over what was printed (`CountedInv`), and that whoever spins has shown its
dump (`SpinInv`).  `CrcIsCorrect` makes this register, inverted once more at the
end, the checksum the user computes.

`Crc32Proofs`: `CrcIsCorrect` is for messages of any length.  The register stands for a
polynomial, its bits in reverse; one iteration of the inner loop is one step of the
division (`OneBit`), and after k bytes the rest of the division is the register above
the bytes to come (`OneMoreByte`, `OneByte`).

`Induction` has what these two inductions need.  The induction theorems of the library take
an operator as a parameter, which the provers cannot instantiate, so `RangeInduction` is
stated of a set and rests on the fact that the order of the natural numbers is well-founded:
a set that misses a number misses a smallest one.  `LoopTyped`, `LoopUnique` and `LoopExists`
say that a function defined step by step along `0..n` exists and has the type of its values.

`KeepsFunction`, `StoresAlone` and `Collectable` are definitions of the models. TLC
evaluates the first two for the systems of `fault_contexts`: all satisfy the second, four the
first. `mixed_dumps` does not satisfy the first. The contexts of `stack_frame` are the
`Collectable` ones.

Only model-checked: `DumpCompletes` and `CallsEnd`, since liveness under fairness is out of
the prover's reach, and `AcceptedIsComplete` and `FaultDumpIsStored` in the system where the bytes of a serial dump
may end in the buffer, since `BufferIsComplete` and `HandlerStoresItsDump` speak of systems with
`KeepsFunction`.

## Not modelled

* The values of the constant fields of the ELF headers (`mcd_elf_define.h`): each is one
  value that its fill function stores.
* Several callers in one union, one file offset and one set of thread operations:
  `FaultContexts` has the write-out function, the buffer and the terminal in common, and its
  dumps are otherwise undisturbed; `CoreDump` has one dump at a time.
* Threads of one priority that share time.  Between the two stores of `mcd_init` the
  write-out function is NULL, and a dump of another thread that comes back there would
  call it.
* What memory holds.  The writer reads a fixed 1024 or 1536 bytes from the running
  thread's stack pointer, which may lie beyond its stack.  Saved stack pointers lie within
  their stacks: with one outside, the length would wrap (rtthread.c:176), be
  negative as an `int`, and pass the check at faultdump.c:138.
* Padding of a stack by the hardware at exception entry, which no layout of the comments has.
* File names longer than the 64 bytes of `coredump_filename`.
* 64 bit ARM: no architecture of the repository uses it.
* The prompts and file names of the host tool, and the configuration headers, which
  have no behaviour.

Observations that no run states, each seen with TLC on the modules above: an error of `close()`, which
`mcd_dump_filesystem` ignores (faultdump.c:235), loses the dump like a short write (`file_save`
with `CloseErrors` alone).  `mcd_mini_dump_size` asked before anything has called `mcd_init`
counts neither the stack nor the FPU note (284 bytes, and the dump writes 2156), and asked after
it the alignment of an older stack pointer (2100 bytes).  In the fifth system of `fault_contexts` a memory dump
that comes between `mcd_init` and `mcd_irq_disable` of a failed assertion sends its core file into the
buffer, and the terminal shows nothing (faultdump.c:332).  With FPU context the armv7m hook
does not step over s16-s31 (armv7m.c:360) and takes s31 for the FPU flag.

Observations from the source: `README.md:422` promises that data survive a loss
of power ("断电保持"), which a `.noinit` section does not;
`mcd_check_memory_coredump` does not look at the checksum, so that the boot report
calls a buffer valid that was reset between the stores of size and checksum;
`README.md:417` calls `mcd_dump_memory_to_serial`, which does not exist;
`armv7m.c:330` says that the hook always returns -1 and it returns 0; the branch of
`prepare_coredump_filesystem` that makes the directory is never reached, since the
same call of `stat` has failed and returned before; `MCD_OUTPUT_FILESYSTEM` is
accepted and ignored.  `mcd_arm.c:48` says that 256 bytes of VFP registers are copied; 132
are, so that the place of d16 in the note shows fpscr and what the prstatus note left
there, and that of the others what the union held (`NoForeignRegisters` shows that it is nothing of
another thread).  `fill_note_base` clears `namesz & 3` bytes, which for "CORE" is one
of three.  The checksum in the header of the buffer, printed as `CRC32:`, is the
complement of the one printed as `crc32 :` for the same bytes, since one is inverted
twice and the other three times.

## Plan

1. Done: the writer against `Snapshot`; the memory output against `DumpSlot`; the save
   command; the collectors; notes and union; the checksum; concurrent callers.
2. Done: theorems about all of these; every safety property that a passing run checks, both
   refinements and the checksum are proved.
3. Left for the model checker: liveness, and what the buffer holds when a serial dump is stored in it.
4. If a later version clears the context or disables interrupts in another order,
   `mcd_faultdump_ex` is the first thing to compare with `FaultContexts`.
