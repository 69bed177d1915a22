------------------------------ MODULE CoreDump ------------------------------
(***************************************************************************)
(* The ELF core writer of MCoreDump: mcd_gen_coredump (src/coredump.c)     *)
(* driven through struct thread_info_ops, with the two implementations of  *)
(* those operations: the RT-Thread adapter (osal/rtthread.c) and the       *)
(* single thread "mini" operations (src/coredump.c).                       *)
(*                                                                         *)
(* The writer makes three passes over the same callbacks: it writes one    *)
(* program header per memory area, then one note group per thread, then    *)
(* the memory areas.  The first pass promises file offsets and sizes that  *)
(* the later passes have to honour.  Between two callbacks the kernel may  *)
(* change the thread list and the saved stack pointers, unless the dump    *)
(* runs in the hard fault handler or with interrupts disabled.             *)
(*                                                                         *)
(* A definition NAME_Fault is a mutated form of NAME.  Nothing uses it: it *)
(* stands for a bug the properties below have to notice.                   *)
(***************************************************************************)
EXTENDS Integers, Sequences

CONSTANTS
  Entries,          \* the entry points through which dumps are taken
  Threads,          \* thread control blocks the kernel can hold
  StackTop,         \* StackTop[t] = thread->stack_addr + thread->stack_size
  StackPointers,    \* StackPointers[t]: values the SP of t can take while it runs
  FrameSize,        \* bytes of the register frame stored below a saved SP
  EhdrSize,         \* sizeof(elf_ehdr_t)
  PhdrSize,         \* sizeof(elf_phdr_t)
  PrstatusNoteSize, \* sizeof(elf_note_prstatus_t)
  FpregNoteSize,    \* sizeof(elf_note_fpreg_entry_t)
  WithFp,           \* m_ctx.with_fp after mcd_init, i.e. MCD_FPU_SUPPORT
  LineSize,         \* bytes of a memory line: ~CORE_MEM_LINE_MASK + 1
  CurrentStackLen,  \* bytes dumped of the running thread's stack (1024)
  MiniStackLen,     \* m_ctx.stack_size (1536)
  NoThread,         \* owner of an all-zero register set
  StackResidue      \* what the uninitialised locals addr and memlen hold

\* "hardfault": armv7m/armv8m_hard_fault_exception_hook, then MCD_OUTPUT_MEMORY
\* "serial":    mcd_multi_dump with interrupts disabled (MCD_OUTPUT_SERIAL)
\* "memory":    mcd_faultdump(MCD_OUTPUT_MEMORY) called by an application thread
\* "mini":      mcd_mini_dump called by an application thread
ASSUME EntriesAssumption == Entries \subseteq {"hardfault", "serial", "memory", "mini"}

ASSUME SizeAssumption ==
  /\ {EhdrSize, PhdrSize, PrstatusNoteSize, FpregNoteSize} \subseteq Nat
  /\ {FrameSize, CurrentStackLen, MiniStackLen} \subseteq Nat
  /\ LineSize \in Nat \ {0}
  /\ WithFp \in BOOLEAN

ASSUME StackAssumption ==
  /\ NoThread \notin Threads
  /\ StackTop \in [Threads -> Nat] /\ StackPointers \in [Threads -> SUBSET Nat]
  /\ \A t \in Threads : \A s \in StackPointers[t] : FrameSize <= s /\ s <= StackTop[t]
  /\ StackResidue \in [addr : Nat, len : Nat]

VARIABLES
  objects,  \* the kernel's list of thread objects, most recent first
  sp,       \* sp[t]: thread->sp, saved when t was last switched out
  self,     \* rt_thread_self()
  live,     \* SP of self
  cur,      \* current_core_regset
  entry,    \* how the current dump was entered
  pc,       \* pass the writer is in
  i,        \* loop variable of the pass
  priv,     \* rtthread_ti_priv_t
  fileOff,  \* m_ctx.file_off
  area,     \* locals addr and memlen of mcd_gen_coredump
  rset,     \* m_ctx.tmp_core_rset
  phnum,    \* e_phnum written in the file header
  phdrs,    \* program headers written
  notes,    \* note groups written (prstatus and, with an FPU, VFP registers)
  segs,     \* memory areas written
  written   \* bytes passed to the write-out function

kernel == <<objects, sp, self, live>>
output == <<phnum, phdrs, notes, segs, written>>
vars == <<objects, sp, self, live, cur, entry, pc, i, priv, fileOff, area, rset,
          phnum, phdrs, notes, segs, written>>

-----------------------------------------------------------------------------
(* Types.                                                                  *)

Passes == {"header", "note", "load", "regs", "mem", "done"}

Regset == [thread : Threads \cup {NoThread}, sp : Nat]
ZeroRegset == [thread |-> NoThread, sp |-> 0]
Area == [addr : Nat, len : Nat]
ProgramHeader == [type : {"NOTE", "LOAD"}, offset : Nat, vaddr : Nat, filesz : Nat]
Priv == [thr_cnts : Nat \cup {-1}, cur_idx : Nat \cup {-1}]

TypeOK ==
  /\ objects \in Seq(Threads)
  /\ sp \in [Threads -> Nat] /\ \A t \in Threads : sp[t] + FrameSize \in StackPointers[t]
  /\ self \in Threads /\ live \in StackPointers[self]
  /\ cur \in Regset /\ rset \in Regset
  /\ entry \in Entries /\ pc \in Passes \cup {"idle"}
  /\ i \in Nat /\ priv \in Priv /\ fileOff \in Nat /\ area \in Area
  /\ phnum \in Nat /\ phdrs \in Seq(ProgramHeader)
  /\ notes \in Seq([at : Nat, regs : Regset])
  /\ segs \in Seq([at : Nat, addr : Nat, len : Nat])
  /\ written \in Nat

-----------------------------------------------------------------------------
(* struct thread_info_ops.                                                 *)

\* Position of the running thread in the list; 0 when it is not in it.
IndexOfSelf ==
  IF \E k \in 1..Len(objects) : objects[k] = self
  THEN (CHOOSE k \in 1..Len(objects) : objects[k] = self) - 1
  ELSE 0

\* The private data after rtthread_thr_cnts: counted once, then cached.
rtthread_thr_cnts(p) ==
  IF p.thr_cnts = -1 THEN [thr_cnts |-> Len(objects), cur_idx |-> IndexOfSelf] ELSE p

UnsetPriv == [thr_cnts |-> -1, cur_idx |-> -1]

\* get_threads_count and get_memarea_count answer alike in both implementations.
Count(p) == IF entry = "mini" THEN 1 ELSE p.thr_cnts

\* Registers restored from the frame a switched-out thread has on its stack.
collect_registers(t) == [thread |-> t, sp |-> sp[t] + FrameSize]

\* An index past the end of the list leaves the result as it was.
rtthread_thr_rset(idx) ==
  IF idx >= Len(objects) THEN rset
  ELSE IF idx = priv.cur_idx THEN cur
  ELSE collect_registers(objects[idx + 1])

\* The stack length is taken the wrong way round.
rtthread_get_memarea_Fault(idx) ==
  LET t == objects[idx + 1] IN [addr |-> sp[t], len |-> sp[t] - StackTop[t]]

rtthread_get_memarea(idx) ==
  IF idx >= Len(objects) THEN area
  ELSE IF idx = priv.cur_idx THEN [addr |-> cur.sp, len |-> CurrentStackLen]
  ELSE LET t == objects[idx + 1] IN [addr |-> sp[t], len |-> StackTop[t] - sp[t]]

minidump_memarea == [addr |-> cur.sp, len |-> MiniStackLen]

get_thread_regset(idx) == IF entry = "mini" THEN cur ELSE rtthread_thr_rset(idx)

get_memarea(idx) == IF entry = "mini" THEN minidump_memarea ELSE rtthread_get_memarea(idx)

\* The address is rounded down and the length forgotten.
addr_align_Fault(a) == [addr |-> a.addr - (a.addr % LineSize), len |-> a.len]

addr_align(a) == [addr |-> a.addr - (a.addr % LineSize), len |-> a.len + (a.addr % LineSize)]

-----------------------------------------------------------------------------
(* mcd_gen_coredump, one action per loop iteration or straight-line write. *)

NoteSize == PrstatusNoteSize + (IF WithFp THEN FpregNoteSize ELSE 0)

\* The file offset is not advanced.
WriteProgramHeader_Fault(type, vaddr, filesz) ==
  /\ phdrs' = Append(phdrs, [type |-> type, offset |-> fileOff,
                             vaddr |-> vaddr, filesz |-> filesz])
  /\ written' = written + PhdrSize /\ UNCHANGED fileOff

\* fill_program_header and the write of the header it filled.
WriteProgramHeader(type, vaddr, filesz) ==
  /\ phdrs' = Append(phdrs, [type |-> type, offset |-> fileOff,
                             vaddr |-> vaddr, filesz |-> filesz])
  /\ fileOff' = fileOff + filesz
  /\ written' = written + PhdrSize

WriteFileHeader ==
  /\ pc = "header"
  /\ priv' = IF entry = "mini" THEN priv ELSE rtthread_thr_cnts(priv)
  /\ phnum' = Count(priv') + 1
  /\ fileOff' = EhdrSize + (Count(priv') + 1) * PhdrSize
  /\ written' = written + EhdrSize
  /\ pc' = "note"
  /\ UNCHANGED <<kernel, cur, entry, i, area, rset, phdrs, notes, segs>>

WriteNoteHeader ==
  /\ pc = "note"
  /\ WriteProgramHeader("NOTE", 0, NoteSize * Count(priv))
  /\ pc' = "load" /\ i' = 0
  /\ UNCHANGED <<kernel, cur, entry, priv, area, rset, phnum, notes, segs>>

WriteLoadHeader ==
  /\ pc = "load" /\ i < Count(priv)
  /\ area' = addr_align(get_memarea(i))
  /\ WriteProgramHeader("LOAD", area'.addr, area'.len)
  /\ i' = i + 1
  /\ UNCHANGED <<kernel, cur, entry, pc, priv, rset, phnum, notes, segs>>

\* get_thread_regset and fill_one_threads_regset
WriteThreadNotes ==
  /\ pc = "regs" /\ i < Count(priv)
  /\ rset' = get_thread_regset(i)
  /\ notes' = Append(notes, [at |-> written, regs |-> rset'])
  /\ written' = written + NoteSize
  /\ i' = i + 1
  /\ UNCHANGED <<kernel, cur, entry, pc, priv, fileOff, area, phnum, phdrs, segs>>

WriteMemoryArea ==
  /\ pc = "mem" /\ i < Count(priv)
  /\ area' = addr_align(get_memarea(i))
  /\ segs' = Append(segs, [at |-> written, addr |-> area'.addr, len |-> area'.len])
  /\ written' = written + area'.len
  /\ i' = i + 1
  /\ UNCHANGED <<kernel, cur, entry, pc, priv, fileOff, rset, phnum, phdrs, notes>>

\* The writer waits for the thread list to agree with its count.
NextPass_Fault ==
  /\ pc \in {"load", "regs", "mem"} /\ ~(i < Count(priv)) /\ priv.thr_cnts = Len(objects)
  /\ pc' = CASE pc = "load" -> "regs" [] pc = "regs" -> "mem" [] pc = "mem" -> "done"
  /\ i' = 0
  /\ UNCHANGED <<kernel, cur, entry, priv, fileOff, area, rset, output>>

\* A loop whose condition fails gives way to the next pass.
NextPass ==
  /\ pc \in {"load", "regs", "mem"} /\ ~(i < Count(priv))
  /\ pc' = CASE pc = "load" -> "regs" [] pc = "regs" -> "mem" [] pc = "mem" -> "done"
  /\ i' = 0
  /\ UNCHANGED <<kernel, cur, entry, priv, fileOff, area, rset, output>>

WriterStep ==
  \/ WriteFileHeader \/ WriteNoteHeader \/ WriteLoadHeader
  \/ WriteThreadNotes \/ WriteMemoryArea \/ NextPass

-----------------------------------------------------------------------------
(* Entering and leaving a dump.                                            *)

\* The registers are never captured.
Captured_Fault(e) == cur

\* mcd_get_regset, or collect_registers on the exception frame: the registers
\* of the running thread.  MCD_OUTPUT_MEMORY captures nothing by itself.
Captured(e) == IF e = "memory" THEN cur ELSE [thread |-> self, sp |-> live]

\* mcd_init, the capture, mcd_rtos_thread_ops or mcd_mini_dump_ops
StartDump(e) ==
  /\ pc = "idle"
  /\ e \in {"memory", "mini"} => \E k \in 1..Len(objects) : objects[k] = self
  /\ entry' = e
  /\ cur' = Captured(e)
  /\ priv' = IF e = "mini" THEN priv ELSE UnsetPriv
  /\ rset' = ZeroRegset /\ fileOff' = 0
  /\ area' = StackResidue
  /\ pc' = "header" /\ i' = 0
  /\ UNCHANGED <<kernel, output>>

\* The caller takes the finished core file.
FinishDump ==
  /\ pc = "done"
  /\ pc' = "idle" /\ i' = 0
  /\ phnum' = 0 /\ phdrs' = <<>> /\ notes' = <<>> /\ segs' = <<>> /\ written' = 0
  /\ UNCHANGED <<kernel, cur, entry, priv, fileOff, area, rset>>

-----------------------------------------------------------------------------
(* The kernel around the dump.  It stands still in the hard fault handler  *)
(* and while mcd_irq_disable is in force.                                  *)

KernelRuns == pc = "idle" \/ entry \in {"memory", "mini"}

\* The running thread moves its stack pointer.
SelfRuns(s) ==
  /\ pc = "idle"
  /\ live' = s
  /\ UNCHANGED <<objects, sp, self, cur, entry, pc, i, priv, fileOff, area, rset, output>>

\* Another thread takes the processor for good.
SwitchTo(t) ==
  /\ pc = "idle" /\ t # self
  /\ \E k \in 1..Len(objects) : objects[k] = t
  /\ sp' = [sp EXCEPT ![self] = live - FrameSize]
  /\ self' = t /\ live' = sp[t] + FrameSize
  /\ UNCHANGED <<objects, cur, entry, pc, i, priv, fileOff, area, rset, output>>

\* Another thread runs for a while and is switched out at stack pointer s.
OtherRuns(t, s) ==
  /\ KernelRuns /\ t # self
  /\ \E k \in 1..Len(objects) : objects[k] = t
  /\ sp' = [sp EXCEPT ![t] = s - FrameSize]
  /\ UNCHANGED <<objects, self, live, cur, entry, pc, i, priv, fileOff, area, rset, output>>

\* rt_object_init inserts the new object at the head of its class list.
CreateThread(t, s) ==
  /\ KernelRuns /\ t # self
  /\ \A k \in 1..Len(objects) : objects[k] # t
  /\ objects' = <<t>> \o objects
  /\ sp' = [sp EXCEPT ![t] = s - FrameSize]
  /\ UNCHANGED <<self, live, cur, entry, pc, i, priv, fileOff, area, rset, output>>

\* rt_object_detach or rt_object_delete.  A thread that exits leaves the list
\* and still runs until the next switch.
DeleteThread(k) ==
  /\ KernelRuns
  /\ objects[k] = self => pc = "idle"
  /\ objects' = SubSeq(objects, 1, k - 1) \o SubSeq(objects, k + 1, Len(objects))
  /\ UNCHANGED <<sp, self, live, cur, entry, pc, i, priv, fileOff, area, rset, output>>

\* mcd_multi_dump_size: it shares the static private data with a running dump.
QuerySize ==
  /\ KernelRuns
  /\ priv' = rtthread_thr_cnts(UnsetPriv)
  /\ UNCHANGED <<kernel, cur, entry, pc, i, fileOff, area, rset, output>>

KernelStep ==
  \/ \E s \in StackPointers[self] : SelfRuns(s)
  \/ \E t \in Threads : SwitchTo(t)
  \/ \E t \in Threads : \E s \in StackPointers[t] : OtherRuns(t, s) \/ CreateThread(t, s)
  \/ \E k \in 1..Len(objects) : DeleteThread(k)
  \/ QuerySize

-----------------------------------------------------------------------------
Init ==
  /\ self \in Threads /\ objects = <<self>>
  /\ live \in StackPointers[self]
  /\ \E init \in [Threads -> UNION {StackPointers[t] : t \in Threads}] :
       /\ \A t \in Threads : init[t] \in StackPointers[t]
       /\ sp = [t \in Threads |-> init[t] - FrameSize]
  /\ cur = ZeroRegset /\ rset = ZeroRegset
  /\ entry \in Entries /\ pc = "idle" /\ i = 0
  /\ priv = [thr_cnts |-> 0, cur_idx |-> 0]
  /\ fileOff = 0 /\ area = StackResidue
  /\ phnum = 0 /\ phdrs = <<>> /\ notes = <<>> /\ segs = <<>> /\ written = 0

Next == (\E e \in Entries : StartDump(e)) \/ WriterStep \/ FinishDump \/ KernelStep

Spec == Init /\ [][Next]_vars

\* The writer is straight-line code: it runs on until the file is finished.
FairSpec == Spec /\ WF_vars(WriterStep)

-----------------------------------------------------------------------------
(* The system as a dump has to see it.                                     *)

\* The running thread, or the first one when the running thread is not listed.
TakenForSelf(k) ==
  \/ objects[k] = self
  \/ k = 1 /\ \A j \in 1..Len(objects) : objects[j] # self

\* Memory from the line that holds address a up to address end.
Lines(a, end) == [addr |-> a - (a % LineSize), len |-> end - (a - (a % LineSize))]

View ==
  LET running(len) == [regs |-> [thread |-> self, sp |-> live],
                       addr |-> Lines(live, live + len).addr,
                       len  |-> Lines(live, live + len).len]
      waiting(t) == [regs |-> [thread |-> t, sp |-> sp[t] + FrameSize],
                     addr |-> Lines(sp[t], StackTop[t]).addr,
                     len  |-> Lines(sp[t], StackTop[t]).len]
  IN  IF entry = "mini" THEN <<running(MiniStackLen)>>
      ELSE [k \in 1..Len(objects) |->
              IF TakenForSelf(k) THEN running(CurrentStackLen) ELSE waiting(objects[k])]

CoreFile == [phnum |-> phnum, phdrs |-> phdrs, notes |-> notes, segs |-> segs,
             size |-> written]

S == INSTANCE Snapshot WITH
       NoFile <- NoThread,
       phase <- IF pc \in {"idle", "done"} THEN pc ELSE "dumping",
       view <- View,
       file <- IF pc = "done" THEN CoreFile ELSE NoThread

-----------------------------------------------------------------------------
(* Properties.                                                             *)

\* Every dump is one consistent snapshot: what mcd_gen_coredump gathers over
\* its three passes is a core file of the system as it was when it began.
ImplementsSnapshot == S!Spec

\* The program header written for a memory area in the first pass describes
\* the bytes written for it in the last one: place, address and size.
HeadersMatchSegments ==
  pc = "done" =>
    \A k \in 1..Len(segs) :
      /\ k < Len(phdrs)
      /\ segs[k] = [at |-> phdrs[k + 1].offset, addr |-> phdrs[k + 1].vaddr,
                    len |-> phdrs[k + 1].filesz]

\* The thread that was running when the dump began is in the file with the
\* registers it had at that moment.
RunningThreadCaptured ==
  pc = "done" /\ Len(notes) > 0 =>
    \E k \in 1..Len(notes) : notes[k].regs = [thread |-> self, sp |-> live]

\* A dump that has begun is finished, whatever other threads do meanwhile.
DumpCompletes == (pc = "header") ~> (pc = "done")
=============================================================================
