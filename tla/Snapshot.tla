------------------------------ MODULE Snapshot ------------------------------
(***************************************************************************)
(* What a core dump promises: a file that describes the system as it was   *)
(* at one moment.  The system is seen as a sequence of threads, each with  *)
(* its registers and the memory to be saved.  It stands still from the     *)
(* moment a dump begins; the finished file is a well formed ELF core file  *)
(* of that sequence.                                                       *)
(***************************************************************************)
EXTENDS Integers, Sequences

CONSTANTS EhdrSize, PhdrSize, NoteSize, NoFile

VARIABLES
  phase,  \* "idle", "dumping" or "done"
  view,   \* the threads: records of regs, addr and len
  file    \* the finished core file

vars == <<phase, view, file>>

\* File f is the core file of the threads v: one NOTE header, then one LOAD
\* header per thread; the notes and the memory follow the headers, each where
\* its header says, with nothing between them and nothing after them.
IsCoreFileOf(f, v) ==
  /\ f.phnum = Len(v) + 1 /\ Len(f.phdrs) = Len(v) + 1
  /\ Len(f.notes) = Len(v) /\ Len(f.segs) = Len(v)
  /\ f.phdrs[1] = [type |-> "NOTE", offset |-> EhdrSize + (Len(v) + 1) * PhdrSize,
                   vaddr |-> 0, filesz |-> NoteSize * Len(v)]
  /\ \A k \in 1..Len(v) :
       /\ f.phdrs[k + 1] = [type |-> "LOAD",
                            offset |-> f.phdrs[k].offset + f.phdrs[k].filesz,
                            vaddr |-> v[k].addr, filesz |-> v[k].len]
       /\ f.notes[k] = [at |-> f.phdrs[1].offset + NoteSize * (k - 1), regs |-> v[k].regs]
       /\ f.segs[k] = [at |-> f.phdrs[k + 1].offset, addr |-> v[k].addr, len |-> v[k].len]
  /\ f.size = f.phdrs[Len(v) + 1].offset + f.phdrs[Len(v) + 1].filesz

Init == phase = "idle" /\ file = NoFile

Begin == phase = "idle" /\ phase' = "dumping" /\ file' = NoFile

Finish == /\ phase = "dumping" /\ phase' = "done"
          /\ view' = view
          /\ IsCoreFileOf(file', view)

Release == phase = "done" /\ phase' = "idle" /\ file' = NoFile

\* Between dumps the system does what it likes.
Run == phase = "idle" /\ phase' = "idle" /\ file' = NoFile

Next == Begin \/ Finish \/ Release \/ Run

Spec == Init /\ [][Next]_vars
=============================================================================
