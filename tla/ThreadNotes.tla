---------------------------- MODULE ThreadNotes ----------------------------
(***************************************************************************)
(* The notes of a core file: for every thread the collectors of StackFrame *)
(* fill two register sets, which are put into a prstatus note and, with    *)
(* an FPU, a VFP note (fill_one_threads_regset, src/coredump.c, with the   *)
(* descriptors of src/arm/mcd_arm.c).                                      *)
(*                                                                         *)
(* Headers and notes are built one after the other in the union m_ctx.tmp  *)
(* and written from there, so that what is not filled keeps what was in    *)
(* the union before.  The union is modelled in cells of 16 bits.           *)
(*                                                                         *)
(* A definition NAME_Fault is a mutated form of NAME.  Nothing uses it: it *)
(* stands for a bug the properties below have to notice.                   *)
(***************************************************************************)
EXTENDS StackFrame

CONSTANTS
  MaxNotes,  \* bound: contexts collected in a behaviour
  FirstTask  \* initial value of task_id_counter

ASSUME NotesAssumption == MaxNotes \in Nat \ {0} /\ FirstTask \in Nat

VARIABLES
  stage,            \* "idle", "headers", "collect", "vfp" or "written"
  tmp,              \* m_ctx.tmp
  task_id_counter,  \* a static of mcd_arm.c that only a restart resets
  notes             \* what has been passed to the write-out function

noteVars == <<stage, tmp, task_id_counter, notes>>
allVars == <<vars, noteVars>>

-----------------------------------------------------------------------------
(* The union m_ctx.tmp and the stores into it. *)

\* Bytes: the descriptors, where they begin in their notes, and the registers
\* in prstatus.
MCOREDUMP_PRSTATUS_SIZE == 148
MCOREDUMP_FPREGSET_SIZE_Fault == 32 * 8  \* without fpscr
MCOREDUMP_FPREGSET_SIZE == 32 * 8 + 4
MCD_PRSTATUS_REG_OFFSET == 72
Desc == 20

\* Byte b is in cell b \div 2; the largest member is the VFP note.
Cells == 0..((Desc + MCOREDUMP_FPREGSET_SIZE) \div 2 - 1)

\* A cell is known by what is in it and by the context that stems from, 0 for
\* none.  A register that is zero because nothing was collected is nobody's.
Plain(name, n) == [what |-> <<name, n>>, of |-> 0]
Nought == Plain("zero", 0)
Collected(word, k) == IF word = Zero THEN Nought ELSE [what |-> word, of |-> k]

\* 32 bit values stored from a byte on, and memset; nothing stops at the end of
\* the union.
Store(u, byte, values) ==
  LET hit == (byte \div 2)..((byte + 4 * Len(values)) \div 2 - 1)
  IN  [c \in DOMAIN u \cup hit |->
         IF c \in hit THEN values[(2 * c - byte) \div 4 + 1] ELSE u[c]]
Clear(u, byte, size) == Store(u, byte, [n \in 1..(size \div 4) |-> Nought])

\* The context that is being collected, and its registers in the order of struct
\* armv7m_core_regset and of struct arm_vfpv2_regset, d0-d15 and fpscr.
Current == Len(notes) + (IF stage = "vfp" THEN 0 ELSE 1)
CoreValues ==
  [n \in 1..17 |-> Collected(CASE n <= 13 -> regset[R(n - 1)]
                               [] n = 14 -> <<"sp", current_ptr>>
                               [] n = 15 -> regset[<<"lr", 0>>]
                               [] n = 16 -> regset[<<"pc", 0>>]
                               [] n = 17 -> regset[<<"xpsr", 0>>], Current)]
FpValues == [n \in 1..33 |-> Collected(regset[IF n = 33 THEN FPSCR ELSE S(n - 1)], Current)]

-----------------------------------------------------------------------------
(* The fill functions, as functions of the union. *)

\* After the memset of 52 bytes, the fields that are not zero: e_ident, e_type to
\* e_version, e_phoff, and e_ehsize to e_phnum.
fill_core_file_header(u) ==
  LET cleared == Clear(u, 0, 52)
      set == (0..3) \cup (8..11) \cup {14} \cup (20..22)
  IN  [c \in DOMAIN u |-> IF c \in set THEN Plain("elf header", c) ELSE cleared[c]]

\* Every field of the program header, 8 words.
fill_program_header(u) == Store(u, 0, [n \in 1..8 |-> Plain("program header", n)])

\* namesz, descsz and type; the name with its terminating zero, and namesz % 4
\* zeros after it, which for "CORE" leaves the two bytes before the descriptor.
fill_note_base(u, name, namesz) ==
  LET base == Store(u, 0, [n \in 1..3 |-> Plain("note base", n)])
      end == 12 + namesz + (namesz % 4)
  IN  [c \in DOMAIN u |-> IF 12 <= 2 * c /\ 2 * c < end THEN Plain(name, c) ELSE base[c]]

\* The descriptor is not cleared.
arm32_fill_note_prstatus_desc_Fault(u) ==
  Store(Store(u, Desc + 24, <<Plain("task", task_id_counter)>>),
        Desc + MCD_PRSTATUS_REG_OFFSET, CoreValues)

\* The whole descriptor is cleared, the signal too.
arm32_fill_note_prstatus_desc(u) ==
  LET cleared == Clear(u, Desc, MCOREDUMP_PRSTATUS_SIZE)
  IN  Store(Store(cleared, Desc + 24, <<Plain("task", task_id_counter)>>),
            Desc + MCD_PRSTATUS_REG_OFFSET, CoreValues)

\* fpscr only where it follows d15 in the register set.
arm32_fill_note_fpregset_desc_Fault(u) == Store(u, Desc, FpValues)

\* The register set, and once more fpscr, behind the place of d16-d31.
arm32_fill_note_fpregset_desc(u) ==
  Store(Store(u, Desc, FpValues), Desc + 32 * 8, <<FpValues[33]>>)

fill_note_prstatus(u) == arm32_fill_note_prstatus_desc(fill_note_base(u, "CORE", 5))
fill_note_vfp_regset(u) == arm32_fill_note_fpregset_desc(fill_note_base(u, "LINUX", 6))

-----------------------------------------------------------------------------
(* Actions. *)

\* The bytes of a note that are written, given the size of its descriptor.
Written(u, size) == [c \in 0..((Desc + size) \div 2 - 1) |-> u[c]]

\* At most one context of a behaviour is that of a fault, from which nothing returns.
Faulted == \E k \in DOMAIN notes : notes[k].context.kind = "fault"

\* A dump begins with mcd_init, or goes on with the context of the one before, as
\* mcd_mini_dump and mcd_multi_dump do when they are called by themselves.
StartDump ==
  /\ stage = "idle"
  /\ tmp' \in {tmp, [c \in Cells |-> Nought]}
  /\ stage' = "headers"
  /\ UNCHANGED <<vars, task_id_counter, notes>>

\* The file header and the program headers, of which the last one stays.
WriteHeaders ==
  /\ stage = "headers"
  /\ tmp' = fill_program_header(fill_core_file_header(tmp))
  /\ stage' = "collect"
  /\ UNCHANGED <<vars, task_id_counter, notes>>

\* The collector, word by word
Collect == stage = "collect" /\ Next /\ UNCHANGED noteVars

\* fill_note_prstatus and the write of the note
WritePrstatus ==
  /\ stage = "collect" /\ pc = "done"
  /\ tmp' = fill_note_prstatus(tmp)
  /\ task_id_counter' = task_id_counter + 1
  /\ notes' = Append(notes,
       [context |-> case, prstatus |-> Written(tmp', MCOREDUMP_PRSTATUS_SIZE), vfp |-> <<>>])
  /\ stage' = IF case.fpu THEN "vfp" ELSE "written"
  /\ UNCHANGED vars

\* fill_note_vfp_regset and the write of the note, in a build with an FPU
WriteVfp ==
  /\ stage = "vfp"
  /\ tmp' = fill_note_vfp_regset(tmp)
  /\ notes' =
       [notes EXCEPT ![Len(notes)].vfp = Written(tmp', MCOREDUMP_FPREGSET_SIZE)]
  /\ stage' = "written"
  /\ UNCHANGED <<vars, task_id_counter>>

\* The collector does not clear the register sets.
NextContext_Fault(c) ==
  /\ case' = c /\ pc' = "header" /\ current_ptr' = StackTop(c)
  /\ fpu_flag' = FALSE /\ next' = 1
  /\ UNCHANGED regset

\* The collector is called for context c of the same build.
NextContext(c) ==
  /\ case' = c /\ pc' = "header" /\ current_ptr' = StackTop(c)
  /\ fpu_flag' = FALSE /\ next' = 1
  /\ regset' = [r \in CoreRegset \cup FpRegset |-> Zero]

\* Another thread of the dump, or the first one of another dump.
NextNote ==
  /\ stage = "written" /\ Len(notes) < MaxNotes
  /\ \E c \in Cases :
       /\ c.arch = case.arch /\ c.fpu = case.fpu /\ (Faulted => c.kind = "thread")
       /\ NextContext(c)
  /\ stage' \in {"collect"} \cup (IF Faulted THEN {} ELSE {"idle"})
  /\ UNCHANGED <<tmp, task_id_counter, notes>>

NotesInit ==
  /\ Init
  /\ stage = "idle" /\ tmp = [c \in Cells |-> Nought]
  /\ task_id_counter = FirstTask /\ notes = <<>>

NotesNext ==
  StartDump \/ WriteHeaders \/ Collect \/ WritePrstatus \/ WriteVfp \/ NextNote

NotesSpec == NotesInit /\ [][NotesNext]_allVars

-----------------------------------------------------------------------------
(* Properties. *)

\* What a cell may hold, and a note.
CellType ==
  [what : StackWord \cup ({"sp", "elf header", "program header", "note base", "CORE", "LINUX",
                           "task"} \X Nat),
   of : Nat]
NoteType ==
  [context : Cases,
   prstatus : [0..((Desc + MCOREDUMP_PRSTATUS_SIZE) \div 2 - 1) -> CellType],
   vfp : {<<>>} \cup [0..((Desc + MCOREDUMP_FPREGSET_SIZE) \div 2 - 1) -> CellType]]

\* Every variable has its type: in particular nothing is stored beyond the end
\* of the union, and a note is as long as its descriptor says (sizes and offsets of
\* mcd_arm_define.h).
NotesTypeOK ==
  /\ stage \in {"idle", "headers", "collect", "vfp", "written"}
  /\ tmp \in [Cells -> CellType]
  /\ task_id_counter \in Nat
  /\ notes \in Seq(NoteType) /\ Len(notes) <= MaxNotes

\* The 32 bit value at byte b of the descriptor of a note holds v.
Holds(note, b, v) == \A c \in {(Desc + b) \div 2, (Desc + b) \div 2 + 1} : note[c] = v

\* What a debugger reads at its offsets is what was saved for this context, and
\* zero in the FPU registers of a context that has none; no two contexts share
\* an identifier.  The notes pass through the frame, the register sets and the
\* union, and a stale value in any of them shows here (collect_registers_armv7m,
\* arm32_fill_note_prstatus_desc, arm32_fill_note_fpregset_desc).
NotesShowContext ==
  \A k \in DOMAIN notes :
    LET c == notes[k].context
        Reg(n) == CASE n < 13 -> R(n)
                    [] n = 13 -> <<"sp", Base + Len(Frame(c))>>
                    [] n = 14 -> <<"lr", 0>>
                    [] n = 15 -> <<"pc", 0>>
                    [] n = 16 -> <<"xpsr", 0>>
        Fp(r) == IF c.active THEN [what |-> r, of |-> k] ELSE Nought
    IN  /\ \A n \in 0..16 : Holds(notes[k].prstatus, 72 + 4 * n, [what |-> Reg(n), of |-> k])
        /\ notes[k].vfp # <<>> => /\ \A n \in 0..31 : Holds(notes[k].vfp, 4 * n, Fp(S(n)))
                                  /\ Holds(notes[k].vfp, 256, Fp(FPSCR))
        /\ \A j \in 1..k-1 : notes[j].prstatus[(Desc + 24) \div 2] #
                             notes[k].prstatus[(Desc + 24) \div 2]

\* A note holds nothing of another context, of an earlier thread or dump, in the
\* bytes that its fill functions leave alone either: the VFP descriptor shows at
\* most the pc and xpsr of its own thread in the places of d16 and d17.
NoForeignRegisters ==
  \A k \in DOMAIN notes : \A note \in {notes[k].prstatus, notes[k].vfp} \ {<<>>} :
    \A c \in DOMAIN note : note[c].of \in {0, k}
=============================================================================
