------------------------------ MODULE CoreSize ------------------------------
(***************************************************************************)
(* The size functions of src/coredump.c beside the writer of CoreDump:     *)
(* mcd_multi_dump_size and mcd_mini_dump_size may be called at any time    *)
(* before a dump.  They read what earlier calls left behind: m_ctx, which  *)
(* is zero until the first mcd_init, and current_core_regset, which holds  *)
(* the registers of the last dump and not those of the caller.             *)
(***************************************************************************)
EXTENDS CoreDump

VARIABLES
  inited,  \* mcd_init has run since the reset: m_ctx is no longer zero
  asked    \* the last answer about the system as it stands, or NoAnswer

sizeVars == <<vars, inited, asked>>

\* The size function that speaks of the dumps of an entry point.
KindOf(e) == IF e = "mini" THEN "mini" ELSE "multi"

\* regs is current_core_regset.sp when the question was asked.
NoAnswer == [kind |-> "none", size |-> 0, regs |-> 0, inited |-> FALSE]

\* The lengths get_memarea and addr_align deliver, one per memory area.
AreaLengths(kind) ==
  IF kind = "mini"
  THEN <<addr_align([addr |-> cur.sp, len |-> IF inited THEN MiniStackLen ELSE 0]).len>>
  ELSE [k \in 1..priv.thr_cnts |-> addr_align(rtthread_get_memarea(k - 1)).len]

\* elf_size after each iteration of the loop, from what it is before the loop.
ElfSizes(start, lens) ==
  LET elf_size[k \in 0..Len(lens)] ==
        IF k = 0 THEN start ELSE elf_size[k - 1] + lens[k]
  IN  elf_size

\* The bytes of the register notes of one thread.
NotesOfThread(fp) == PrstatusNoteSize + (IF fp THEN FpregNoteSize ELSE 0)

\* The notes of one thread only are counted.
CoreFileSize_Fault(fp, lens) ==
  LET n == Len(lens)
  IN  ElfSizes(EhdrSize + (n + 1) * PhdrSize + NotesOfThread(fp), lens)[n]

\* Headers and notes of n threads, and the memory areas.
CoreFileSize(fp, lens) ==
  LET n == Len(lens)
  IN  ElfSizes(EhdrSize + (n + 1) * PhdrSize + NotesOfThread(fp) * n, lens)[n]

mcd_corefile_size(kind) == CoreFileSize(inited /\ WithFp, AreaLengths(kind))

\* mcd_multi_dump_size counts the threads anew and mcd_mini_dump_size keeps
\* nothing; both then run mcd_corefile_size.
Ask(kind) ==
  /\ pc = "idle"
  /\ IF kind = "multi" THEN QuerySize ELSE UNCHANGED vars
  /\ UNCHANGED inited
  /\ asked' = [kind |-> kind, size |-> mcd_corefile_size(kind)',
               regs |-> cur.sp, inited |-> inited]

\* The application calls mcd_init by itself before its first dump.
Prepare == pc = "idle" /\ ~inited /\ inited' = TRUE /\ UNCHANGED <<vars, asked>>

\* mcd_init comes first in every dump.  An answer of the other kind is of no
\* more interest.
Begin(e) ==
  /\ StartDump(e)
  /\ inited' = TRUE
  /\ asked' = IF asked.kind = KindOf(e) THEN asked ELSE NoAnswer

\* What the kernel does before a dump makes an answer obsolete.
Move == KernelStep /\ UNCHANGED inited /\ asked' = IF pc = "idle" THEN NoAnswer ELSE asked

Proceed == WriterStep /\ UNCHANGED <<inited, asked>>

Leave == FinishDump /\ UNCHANGED inited /\ asked' = NoAnswer

SizeInit == Init /\ inited = FALSE /\ asked = NoAnswer

SizeNext ==
  \/ \E kind \in {"multi", "mini"} : Ask(kind)
  \/ \E e \in Entries : Begin(e)
  \/ Prepare \/ Proceed \/ Leave \/ Move

SizeSpec == SizeInit /\ [][SizeNext]_sizeVars

-----------------------------------------------------------------------------
(* Properties.                                                             *)

\* Once mcd_init has run, an answer given before a dump of the same
\* system is the number of bytes that dump writes, but for the alignment of the
\* running thread's stack, which the size functions take from the registers of
\* the dump before: it is exact if the two stack pointers lie alike in their
\* lines, and never off by a line.
SizeIsNear ==
  pc = "done" /\ asked.inited =>
    /\ asked.size - LineSize < written /\ written < asked.size + LineSize
    /\ asked.regs % LineSize = live % LineSize => written = asked.size
=============================================================================
