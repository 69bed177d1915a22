--------------------------- MODULE CoreDumpProofs ---------------------------
(***************************************************************************)
(* Proofs about CoreDump: type correctness for every entry point, and, for *)
(* the entry points during which the dumped system stands still, that      *)
(* every core file is a consistent snapshot (CoreDump implements           *)
(* Snapshot); and, about CoreSize, how far the size functions are off.     *)
(*                                                                         *)
(* The inductive invariant IInv describes the half-written file pass by    *)
(* pass: every header, note and area written so far is the one the view of *)
(* the system demands, header k starts where header k - 1 ends, and the    *)
(* writer's position is the sum of what it has written.                    *)
(***************************************************************************)
EXTENDS CoreSize, SequenceTheorems, Induction

\* A dump is running through an entry point that keeps its system still.
Dumping == pc # "idle" /\ entry # "memory"

\* Where the notes begin, and where the part described by header k ends.
Base == EhdrSize + (Len(View) + 1) * PhdrSize
EndOf(k) == phdrs[k].offset + phdrs[k].filesz

\* A thread is listed once.
Distinct == \A j, k \in 1..Len(objects) : objects[j] = objects[k] => j = k

PrivOK ==
  /\ pc \notin {"idle", "header"} => Count(priv) \in Nat
  /\ Dumping /\ entry # "mini" =>
       priv = IF pc = "header" THEN UnsetPriv
              ELSE [thr_cnts |-> Len(objects), cur_idx |-> IndexOfSelf]

OutputEmpty ==
  pc \in {"idle", "header"} =>
    phdrs = <<>> /\ notes = <<>> /\ segs = <<>> /\ written = 0

HeadersOK ==
  Dumping =>
    /\ Len(phdrs) = CASE pc \in {"header", "note"} -> 0
                      [] pc = "load" -> i + 1
                      [] OTHER -> Len(View) + 1
    /\ Len(phdrs) > 0 => phdrs[1] = [type |-> "NOTE", offset |-> Base, vaddr |-> 0,
                                     filesz |-> NoteSize * Len(View)]
    /\ \A k \in 1..(Len(phdrs) - 1) :
         phdrs[k + 1] = [type |-> "LOAD", offset |-> EndOf(k),
                         vaddr |-> View[k].addr, filesz |-> View[k].len]
    /\ pc # "header" => fileOff = IF Len(phdrs) = 0 THEN Base ELSE EndOf(Len(phdrs))

NotesOK ==
  Dumping =>
    /\ Len(notes) = CASE pc = "regs" -> i
                      [] pc \in {"mem", "done"} -> Len(View)
                      [] OTHER -> 0
    /\ \A k \in 1..Len(notes) :
         notes[k] = [at |-> Base + NoteSize * (k - 1), regs |-> View[k].regs]

SegsOK ==
  Dumping =>
    /\ Len(segs) = CASE pc = "mem" -> i [] pc = "done" -> Len(View) [] OTHER -> 0
    /\ \A k \in 1..Len(segs) :
         segs[k] = [at |-> phdrs[k + 1].offset, addr |-> View[k].addr, len |-> View[k].len]

PositionOK ==
  Dumping =>
    /\ cur = [thread |-> self, sp |-> live]
    /\ pc # "header" => phnum = Len(View) + 1
    /\ pc \in {"load", "regs", "mem"} => i <= Len(View)
    /\ written = CASE pc = "header" -> 0
                   [] pc = "note" -> EhdrSize
                   [] pc = "load" -> EhdrSize + (i + 1) * PhdrSize
                   [] pc = "regs" -> Base + NoteSize * i
                   [] pc = "mem" -> EndOf(i + 1)
                   [] OTHER -> EndOf(Len(View) + 1)

IInv == /\ TypeOK /\ Distinct /\ PrivOK /\ OutputEmpty
        /\ HeadersOK /\ NotesOK /\ SegsOK /\ PositionOK

-----------------------------------------------------------------------------
(* The operators. *)

\* A remainder is a natural number no larger than what is divided.
LEMMA ModFacts ==
  ASSUME NEW a \in Nat, NEW m \in Nat \ {0}
  PROVE  a % m \in Nat /\ a % m <= a
<1>1. a % m \in 0..(m - 1)
  OBVIOUS
<1>2. a = m * (a \div m) + (a % m) /\ a \div m \in Nat
  OBVIOUS
<1> QED BY <1>1, <1>2

\* One more element of size m adds m, after n elements.
LEMMA NextMultiple ==
  ASSUME NEW n \in Nat, NEW m \in Nat
  PROVE  /\ m * n \in Nat /\ n * m \in Nat
         /\ m * (n + 1) = m * n + m /\ (n + 1) * m = n * m + m
OBVIOUS

\* addr_align keeps an area an area.
LEMMA AlignType ==
  ASSUME NEW a \in Area
  PROVE  addr_align(a) \in Area
<1>1. a.addr \in Nat /\ a.len \in Nat
  BY DEF Area
<1>2. a.addr % LineSize \in Nat /\ a.addr % LineSize <= a.addr
  BY <1>1, ModFacts, SizeAssumption
<1> QED BY <1>1, <1>2 DEF addr_align, Area

\* The stack a thread was switched out on lies below the top of its stack.
LEMMA StackFacts ==
  ASSUME TypeOK, NEW t \in Threads
  PROVE  /\ sp[t] \in Nat /\ StackTop[t] \in Nat
         /\ StackTop[t] - sp[t] \in Nat /\ sp[t] + FrameSize \in Nat
<1>1. sp[t] \in Nat /\ sp[t] + FrameSize \in StackPointers[t]
  BY DEF TypeOK
<1>2. StackTop[t] \in Nat /\ sp[t] + FrameSize <= StackTop[t] /\ FrameSize \in Nat
  BY <1>1, StackAssumption, SizeAssumption
<1> QED BY <1>1, <1>2

\* The stack pointer of the running thread lies below the top of its stack.
LEMMA LiveFacts ==
  ASSUME TypeOK
  PROVE  live \in Nat /\ self \in Threads /\ live - FrameSize \in Nat
         /\ live - FrameSize + FrameSize = live
<1>1. self \in Threads /\ live \in StackPointers[self]
  BY DEF TypeOK
<1>2. StackPointers[self] \in SUBSET Nat /\ FrameSize <= live /\ FrameSize \in Nat
  BY <1>1, StackAssumption, SizeAssumption
<1> QED BY <1>1, <1>2

\* A note group has a size.
LEMMA NoteSizeType == NoteSize \in Nat
  BY SizeAssumption DEF NoteSize

\* The thread operations deliver areas and register sets.
LEMMA MemareaType ==
  ASSUME TypeOK, NEW idx \in Nat
  PROVE  get_memarea(idx) \in Area
<1>1. area \in Area /\ cur.sp \in Nat /\ CurrentStackLen \in Nat /\ MiniStackLen \in Nat
  BY SizeAssumption DEF TypeOK, Regset
<1>2. CASE entry = "mini"
  BY <1>1, <1>2 DEF get_memarea, minidump_memarea, Area
<1>3. CASE entry # "mini" /\ idx >= Len(objects)
  BY <1>1, <1>3 DEF get_memarea, rtthread_get_memarea
<1>4. CASE entry # "mini" /\ ~(idx >= Len(objects))
  <2>1. objects[idx + 1] \in Threads
    BY <1>4 DEF TypeOK
  <2>2. [addr |-> sp[objects[idx + 1]],
         len |-> StackTop[objects[idx + 1]] - sp[objects[idx + 1]]] \in Area
    BY <2>1, StackFacts DEF Area
  <2> QED BY <1>1, <1>4, <2>2 DEF get_memarea, rtthread_get_memarea, Area
<1> QED BY <1>2, <1>3, <1>4

\* get_thread_regset delivers a register set.
LEMMA RegsetType ==
  ASSUME TypeOK, NEW idx \in Nat
  PROVE  get_thread_regset(idx) \in Regset
<1>1. cur \in Regset /\ rset \in Regset
  BY DEF TypeOK
<1>2. CASE entry = "mini" \/ idx >= Len(objects)
  BY <1>1, <1>2 DEF get_thread_regset, rtthread_thr_rset
<1>3. CASE entry # "mini" /\ ~(idx >= Len(objects))
  <2>1. objects[idx + 1] \in Threads
    BY <1>3 DEF TypeOK
  <2>2. collect_registers(objects[idx + 1]) \in Regset
    BY <2>1, StackFacts DEF collect_registers, Regset
  <2> QED BY <1>1, <1>3, <2>2 DEF get_thread_regset, rtthread_thr_rset
<1> QED BY <1>2, <1>3

\* Counting the threads leaves a count.
LEMMA CountType ==
  ASSUME TypeOK, NEW p \in Priv
  PROVE  /\ rtthread_thr_cnts(p) \in Priv
         /\ rtthread_thr_cnts(p).thr_cnts \in Nat
<1>1. Len(objects) \in Nat
  BY DEF TypeOK
<1>2. IndexOfSelf \in Nat
  BY <1>1 DEF IndexOfSelf
<1> QED BY <1>1, <1>2 DEF rtthread_thr_cnts, Priv

-----------------------------------------------------------------------------
(* The thread list. *)

\* A list with a new element at its head is a list of the old elements and it.
LEMMA ListPrepend ==
  ASSUME NEW s \in Seq(Threads), NEW t \in Threads
  PROVE  /\ <<t>> \o s \in Seq(Threads)
         /\ Len(<<t>> \o s) = Len(s) + 1
         /\ \A k \in 1..(Len(s) + 1) : (<<t>> \o s)[k] = IF k = 1 THEN t ELSE s[k - 1]
<1>1. <<t>> \in Seq(Threads) /\ Len(<<t>>) = 1 /\ <<t>>[1] = t
  OBVIOUS
<1> QED BY <1>1, ConcatProperties

\* Two lists put together hold the elements of both.
LEMMA ListJoin ==
  \A b, a \in Seq(Threads) :
    /\ b \o a \in Seq(Threads) /\ Len(b \o a) = Len(b) + Len(a)
    /\ \A k \in 1..(Len(b) + Len(a)) :
         (b \o a)[k] = IF k <= Len(b) THEN b[k] ELSE a[k - Len(b)]
  BY ConcatProperties

\* A list from which one element was cut holds only old elements, each once.
LEMMA ListRemove ==
  ASSUME NEW s \in Seq(Threads), NEW n \in 1..Len(s),
         NEW r, r = SubSeq(s, 1, n - 1) \o SubSeq(s, n + 1, Len(s))
  PROVE  /\ r \in Seq(Threads)
         /\ Len(r) = Len(s) - 1
         /\ \A k \in 1..(Len(s) - 1) : r[k] = IF k < n THEN s[k] ELSE s[k + 1]
<1> DEFINE b == SubSeq(s, 1, n - 1)
           a == SubSeq(s, n + 1, Len(s))
<1>1. b \in Seq(Threads) /\ Len(b) = n - 1 /\ \A k \in 1..(n - 1) : b[k] = s[k]
  BY SubSeqProperties
<1>2. a \in Seq(Threads) /\ Len(a) = Len(s) - n /\ \A k \in 1..(Len(s) - n) : a[k] = s[n + k]
  BY SubSeqProperties
<1>3. r = b \o a
  OBVIOUS
<1> HIDE DEF a, b
<1>4. /\ r \in Seq(Threads) /\ Len(r) = Len(b) + Len(a)
      /\ \A k \in 1..(Len(b) + Len(a)) : r[k] = IF k <= Len(b) THEN b[k] ELSE a[k - Len(b)]
  <2>1. b \in Seq(Threads) /\ a \in Seq(Threads)
    BY <1>1, <1>2
  <2>2. /\ b \o a \in Seq(Threads) /\ Len(b \o a) = Len(b) + Len(a)
        /\ \A k \in 1..(Len(b) + Len(a)) :
             (b \o a)[k] = IF k <= Len(b) THEN b[k] ELSE a[k - Len(b)]
    BY <2>1, ListJoin
  <2> QED BY <1>3, <2>2
<1>5. /\ Len(s) \in Nat /\ n \in Nat /\ 1 <= n /\ n <= Len(s)
      /\ Len(b) + Len(a) = Len(s) - 1
  BY <1>1, <1>2
<1>6. ASSUME NEW k \in 1..(Len(s) - 1)
      PROVE  r[k] = IF k < n THEN s[k] ELSE s[k + 1]
  <2>1. CASE k < n
    <3>1. k <= Len(b) /\ k \in 1..(n - 1)
      BY <1>1, <1>5, <2>1
    <3>2. r[k] = b[k]
      BY <1>4, <1>5, <3>1
    <3> QED BY <1>1, <2>1, <3>1, <3>2
  <2>2. CASE ~(k < n)
    <3>1. ~(k <= Len(b)) /\ k - Len(b) \in 1..(Len(s) - n) /\ n + (k - Len(b)) = k + 1
      BY <1>1, <1>5, <2>2
    <3>2. r[k] = a[k - Len(b)]
      BY <1>4, <1>5, <3>1
    <3> QED BY <1>2, <2>2, <3>1, <3>2
  <2> QED BY <2>1, <2>2
<1> QED BY <1>4, <1>5, <1>6

-----------------------------------------------------------------------------
(* Type correctness. *)

\* The part of the invariant that keeps the types of the writer's sums.
TInv == TypeOK /\ (pc \notin {"idle", "header"} => Count(priv) \in Nat)

\* The initial states are well typed.
LEMMA TypeInit == Init => TInv
<1> SUFFICES ASSUME Init PROVE TInv
  OBVIOUS
<1>1. sp \in [Threads -> Nat] /\ \A t \in Threads : sp[t] + FrameSize \in StackPointers[t]
  <2>1. PICK init \in [Threads -> UNION {StackPointers[t] : t \in Threads}] :
          /\ \A t \in Threads : init[t] \in StackPointers[t]
          /\ sp = [t \in Threads |-> init[t] - FrameSize]
    BY DEF Init
  <2>2. ASSUME NEW t \in Threads
        PROVE  init[t] - FrameSize \in Nat /\ init[t] - FrameSize + FrameSize = init[t]
    BY <2>1, StackAssumption, SizeAssumption
  <2> QED BY <2>1, <2>2
<1>2. objects \in Seq(Threads) /\ StackResidue \in Area
  BY StackAssumption DEF Init, Area
<1> QED BY <1>1, <1>2 DEF Init, TInv, TypeOK, Regset, ZeroRegset, Priv, ProgramHeader

\* Writing a program header keeps the header table and the offsets typed.
LEMMA HeaderType ==
  ASSUME TypeOK, NEW type \in {"NOTE", "LOAD"}, NEW vaddr \in Nat, NEW filesz \in Nat,
         WriteProgramHeader(type, vaddr, filesz)
  PROVE  phdrs' \in Seq(ProgramHeader) /\ fileOff' \in Nat /\ written' \in Nat
<1>1. fileOff \in Nat /\ written \in Nat /\ phdrs \in Seq(ProgramHeader)
  BY DEF TypeOK
<1>2. [type |-> type, offset |-> fileOff, vaddr |-> vaddr, filesz |-> filesz]
        \in ProgramHeader
  BY <1>1 DEF ProgramHeader
<1> QED BY <1>1, <1>2, SizeAssumption, AppendProperties, SMTT(30) DEF WriteProgramHeader

\* Every step keeps the types.
LEMMA TypeStep == TInv /\ [Next]_vars => TInv'
<1> SUFFICES ASSUME TInv, [Next]_vars PROVE TInv'
  OBVIOUS
<1> USE DEF TInv
<1>1. ASSUME NEW e \in Entries, StartDump(e) PROVE TInv'
  <2>1. Captured(e) \in Regset
    BY LiveFacts DEF Captured, TypeOK, Regset
  <2>2. UnsetPriv \in Priv /\ StackResidue \in Area /\ ZeroRegset \in Regset
    BY StackAssumption DEF UnsetPriv, Priv, Area, ZeroRegset, Regset
  <2> QED BY <1>1, <2>1, <2>2 DEF StartDump, TypeOK, kernel, output, Passes
<1>2. CASE WriteFileHeader
  <2>1. priv' \in Priv /\ Count(priv)' \in Nat /\ Count(priv') = Count(priv)'
    BY <1>2, CountType DEF WriteFileHeader, Count, TypeOK
  <2>2. phnum' \in Nat /\ written' \in Nat
    <3>1. written \in Nat /\ EhdrSize \in Nat
      BY SizeAssumption DEF TypeOK
    <3> QED BY <1>2, <2>1, <3>1 DEF WriteFileHeader
  <2>3. (Count(priv') + 1) * PhdrSize \in Nat
    BY <2>1, SizeAssumption
  <2>4. fileOff' \in Nat
    BY <1>2, <2>3, SizeAssumption DEF WriteFileHeader
  <2> QED BY <1>2, <2>1, <2>2, <2>4 DEF WriteFileHeader, TypeOK, Passes, kernel
<1>3. CASE WriteNoteHeader
  <2>1. Count(priv) \in Nat /\ Count(priv)' = Count(priv)
    BY <1>3 DEF WriteNoteHeader, Count
  <2>2. NoteSize * Count(priv) \in Nat
    BY <2>1, NoteSizeType
  <2> QED BY <1>3, <2>1, <2>2, HeaderType DEF WriteNoteHeader, TypeOK, Passes, kernel
<1>4. CASE WriteLoadHeader
  <2>1. area' \in Area
    BY <1>4, MemareaType, AlignType DEF WriteLoadHeader, TypeOK
  <2>2. area'.addr \in Nat /\ area'.len \in Nat
    BY <2>1 DEF Area
  <2>3. Count(priv)' \in Nat
    BY <1>4 DEF WriteLoadHeader, Count
  <2> QED BY <1>4, <2>1, <2>2, <2>3, HeaderType DEF WriteLoadHeader, TypeOK, Passes, kernel
<1>5. CASE WriteThreadNotes
  <2>1. rset' \in Regset
    BY <1>5, RegsetType DEF WriteThreadNotes, TypeOK
  <2>2. Count(priv)' \in Nat
    BY <1>5 DEF WriteThreadNotes, Count
  <2> QED BY <1>5, <2>1, <2>2, NoteSizeType DEF WriteThreadNotes, TypeOK, Passes, kernel
<1>6. CASE WriteMemoryArea
  <2>1. area' \in Area
    BY <1>6, MemareaType, AlignType DEF WriteMemoryArea, TypeOK
  <2>2. area'.addr \in Nat /\ area'.len \in Nat
    BY <2>1 DEF Area
  <2>3. Count(priv)' \in Nat
    BY <1>6 DEF WriteMemoryArea, Count
  <2> QED BY <1>6, <2>1, <2>2, <2>3, SMTT(30) DEF WriteMemoryArea, TypeOK, Passes, kernel
<1>7. CASE NextPass
  BY <1>7 DEF NextPass, TypeOK, Passes, kernel, output, Count
<1>8. CASE FinishDump
  BY <1>8 DEF FinishDump, TypeOK, kernel
<1>9. ASSUME NEW s \in StackPointers[self], SelfRuns(s) PROVE TInv'
  BY <1>9 DEF SelfRuns, TypeOK, output
<1>10. ASSUME NEW t \in Threads, SwitchTo(t) PROVE TInv'
  <2>1. sp' \in [Threads -> Nat]
        /\ \A u \in Threads : sp'[u] + FrameSize \in StackPointers[u]
    BY <1>10, LiveFacts DEF SwitchTo, TypeOK
  <2> QED BY <1>10, <2>1 DEF SwitchTo, TypeOK, output
<1>11. ASSUME NEW t \in Threads, NEW s \in StackPointers[t], OtherRuns(t, s) \/ CreateThread(t, s)
       PROVE  TInv'
  <2>1. s \in Nat /\ s - FrameSize \in Nat /\ s - FrameSize + FrameSize = s
    BY StackAssumption, SizeAssumption
  <2>2. sp' = [sp EXCEPT ![t] = s - FrameSize]
    BY <1>11 DEF OtherRuns, CreateThread
  <2>3. sp' \in [Threads -> Nat]
        /\ \A u \in Threads : sp'[u] + FrameSize \in StackPointers[u]
    BY <2>1, <2>2 DEF TypeOK
  <2>4. objects' \in Seq(Threads)
    <3>1. objects \in Seq(Threads)
      BY DEF TypeOK
    <3>2. objects' \in {objects, <<t>> \o objects}
      BY <1>11 DEF OtherRuns, CreateThread
    <3>3. <<t>> \o objects \in Seq(Threads)
      BY <3>1, ListPrepend
    <3> QED BY <3>1, <3>2, <3>3
  <2> QED BY <1>11, <2>3, <2>4 DEF OtherRuns, CreateThread, TypeOK, output, Count
<1>12. ASSUME NEW k \in 1..Len(objects), DeleteThread(k) PROVE TInv'
  <2>1. objects' \in Seq(Threads)
    BY <1>12, ListRemove DEF DeleteThread, TypeOK
  <2> QED BY <1>12, <2>1 DEF DeleteThread, TypeOK, output, Count
<1>13. CASE QuerySize
  <2>1. UnsetPriv \in Priv
    BY DEF UnsetPriv, Priv
  <2>2. priv' \in Priv /\ Count(priv)' \in Nat
    BY <1>13, <2>1, CountType DEF QuerySize, Count
  <2> QED BY <1>13, <2>2 DEF QuerySize, TypeOK, kernel, output
<1>14. CASE UNCHANGED vars
  BY <1>14 DEF vars, TypeOK, Count
<1> QED
  BY <1>1, <1>2, <1>3, <1>4, <1>5, <1>6, <1>7, <1>8, <1>9, <1>10, <1>11, <1>12, <1>13, <1>14
     DEF Next, WriterStep, KernelStep

\* In every reachable state, for all entry points, the writer's variables
\* hold areas, register sets, file offsets and lengths: none is negative.
THEOREM TypeCorrect == Spec => []TypeOK
<1>1. TInv => TypeOK
  BY DEF TInv
<1> QED BY TypeInit, TypeStep, <1>1, PTL DEF Spec

-----------------------------------------------------------------------------
(* The view of the system, and what the thread operations say of it. *)

\* The view has one element per note group the writer is going to write.
LEMMA ViewLength ==
  ASSUME TypeOK
  PROVE  /\ Len(View) = IF entry = "mini" THEN 1 ELSE Len(objects)
         /\ Len(View) \in Nat
<1>1. Len(objects) \in Nat
  BY DEF TypeOK
<1> QED BY <1>1 DEF View

\* The view changes only with the kernel or the entry point.
LEMMA ViewStable ==
  ASSUME UNCHANGED <<entry, self, live>>, entry = "mini" \/ UNCHANGED <<objects, sp>>
  PROVE  View' = View
BY DEF View, TakenForSelf, Lines

\* The cached index is the position at which the view puts the running thread.
LEMMA IndexOfSelfFacts ==
  ASSUME TypeOK, Distinct, NEW k \in 1..Len(objects)
  PROVE  TakenForSelf(k) <=> IndexOfSelf = k - 1
<1>1. Len(objects) \in Nat
  BY DEF TypeOK
<1>2. CASE \E j \in 1..Len(objects) : objects[j] = self
  <2>1. PICK j \in 1..Len(objects) : objects[j] = self
    BY <1>2
  <2>2. (CHOOSE n \in 1..Len(objects) : objects[n] = self) = j
    BY <2>1 DEF Distinct
  <2>3. IndexOfSelf = j - 1
    BY <1>2, <2>2 DEF IndexOfSelf
  <2>4. TakenForSelf(k) <=> k = j
    BY <2>1 DEF Distinct, TakenForSelf
  <2> QED BY <1>1, <2>3, <2>4
<1>3. CASE ~ \E j \in 1..Len(objects) : objects[j] = self
  BY <1>1, <1>3 DEF IndexOfSelf, TakenForSelf
<1> QED BY <1>2, <1>3

\* After the file header, every answer of the thread operations is the view's.
LEMMA OpsServeView ==
  ASSUME TypeOK, Distinct, PrivOK, Dumping, pc # "header",
         cur = [thread |-> self, sp |-> live], NEW idx \in Nat, idx < Len(View)
  PROVE  /\ addr_align(get_memarea(idx)) = [addr |-> View[idx + 1].addr,
                                            len |-> View[idx + 1].len]
         /\ get_thread_regset(idx) = View[idx + 1].regs
<1>1. live \in Nat /\ CurrentStackLen \in Nat /\ MiniStackLen \in Nat
  BY LiveFacts, SizeAssumption
<1>2. live % LineSize \in Nat
  BY <1>1, ModFacts, SizeAssumption
<1>3. CASE entry = "mini"
  <2>1. Len(View) = 1
    BY <1>3, ViewLength
  <2>3. idx = 0
    BY <2>1
  <2>2. View[1] = [regs |-> [thread |-> self, sp |-> live],
                   addr |-> live - (live % LineSize),
                   len |-> live + MiniStackLen - (live - (live % LineSize))]
    BY <1>1, <1>2, <1>3 DEF View, Lines
  <2> QED BY <1>1, <1>2, <1>3, <2>2, <2>3
          DEF addr_align, get_memarea, minidump_memarea, get_thread_regset
<1>4. CASE entry # "mini"
  <2>1. idx + 1 \in 1..Len(objects) /\ ~(idx >= Len(objects))
    BY <1>4, ViewLength DEF TypeOK
  <2>2. objects[idx + 1] \in Threads
    BY <2>1 DEF TypeOK
  <2>3. priv.cur_idx = IndexOfSelf
    BY <1>4 DEF PrivOK, Dumping
  <2>4. TakenForSelf(idx + 1) <=> idx = priv.cur_idx
    BY <2>1, <2>3, IndexOfSelfFacts
  <2>5. CASE idx = priv.cur_idx
    <3>1. View[idx + 1] = [regs |-> [thread |-> self, sp |-> live],
                           addr |-> live - (live % LineSize),
                           len |-> live + CurrentStackLen - (live - (live % LineSize))]
      BY <1>1, <1>2, <1>4, <2>1, <2>4, <2>5 DEF View, Lines
    <3> QED BY <1>1, <1>2, <1>4, <2>1, <2>5, <3>1
            DEF addr_align, get_memarea, rtthread_get_memarea, get_thread_regset,
                rtthread_thr_rset
  <2>6. CASE idx # priv.cur_idx
    <3> DEFINE t == objects[idx + 1]
    <3>1. View[idx + 1] = [regs |-> [thread |-> t, sp |-> sp[t] + FrameSize],
                           addr |-> sp[t] - (sp[t] % LineSize),
                           len |-> StackTop[t] - (sp[t] - (sp[t] % LineSize))]
      BY <1>4, <2>1, <2>4, <2>6 DEF View, Lines
    <3>2. sp[t] \in Nat /\ StackTop[t] \in Nat
      BY <2>2, StackFacts
    <3>3. sp[t] % LineSize \in Nat
      BY <3>2, ModFacts, SizeAssumption
    <3>4. get_memarea(idx) = [addr |-> sp[t], len |-> StackTop[t] - sp[t]]
          /\ get_thread_regset(idx) = collect_registers(t)
      BY <1>4, <2>1, <2>6 DEF get_memarea, rtthread_get_memarea, get_thread_regset,
                              rtthread_thr_rset
    <3> QED BY <3>1, <3>2, <3>3, <3>4 DEF addr_align, collect_registers
  <2> QED BY <2>5, <2>6
<1> QED BY <1>3, <1>4

\* The count of threads is the length of the view, before the first call to
\* get_memarea_count and after it.
LEMMA CountOfView ==
  ASSUME TypeOK, PrivOK, Dumping
  PROVE  /\ pc # "header" => Count(priv) = Len(View)
         /\ pc = "header" =>
              /\ Count(IF entry = "mini" THEN priv ELSE rtthread_thr_cnts(priv)) = Len(View)
              /\ entry # "mini" => rtthread_thr_cnts(priv) = [thr_cnts |-> Len(objects),
                                                            cur_idx |-> IndexOfSelf]
BY ViewLength DEF Count, PrivOK, rtthread_thr_cnts, UnsetPriv

-----------------------------------------------------------------------------
(* Every step keeps the invariant. *)

FileInv == PrivOK /\ OutputEmpty /\ HeadersOK /\ NotesOK /\ SegsOK /\ PositionOK

\* No thread is in the thread list twice.
LEMMA DistinctStep ==
  ASSUME TypeOK, Distinct, [Next]_vars
  PROVE  Distinct'
<1>1. Len(objects) \in Nat /\ objects \in Seq(Threads)
  BY DEF TypeOK
<1>2. CASE UNCHANGED objects
  BY <1>2 DEF Distinct
<1>3. ASSUME NEW t \in Threads, NEW s \in StackPointers[t], CreateThread(t, s)
      PROVE  Distinct'
  <2>1. /\ Len(objects') = Len(objects) + 1
        /\ \A k \in 1..(Len(objects) + 1) : objects'[k] = IF k = 1 THEN t ELSE objects[k - 1]
    BY <1>1, <1>3, ListPrepend DEF CreateThread
  <2>2. \A k \in 1..Len(objects) : objects[k] # t
    BY <1>3 DEF CreateThread
  <2>3. SUFFICES ASSUME NEW j \in 1..(Len(objects) + 1), NEW k \in 1..(Len(objects) + 1),
                        objects'[j] = objects'[k]
                 PROVE  j = k
    BY <2>1 DEF Distinct
  <2>4. CASE j = 1 \/ k = 1
    BY <1>1, <2>1, <2>2, <2>3, <2>4
  <2>5. CASE j # 1 /\ k # 1
    <3>1. j - 1 \in 1..Len(objects) /\ k - 1 \in 1..Len(objects)
      BY <1>1, <2>5
    <3>2. objects[j - 1] = objects[k - 1]
      BY <2>1, <2>3, <2>5
    <3>3. j - 1 = k - 1
      BY <3>1, <3>2 DEF Distinct
    <3> QED BY <1>1, <3>3
  <2> QED BY <2>4, <2>5
<1>4. ASSUME NEW n \in 1..Len(objects), DeleteThread(n)
      PROVE  Distinct'
  <2>1. /\ Len(objects') = Len(objects) - 1
        /\ \A k \in 1..(Len(objects) - 1) :
             objects'[k] = IF k < n THEN objects[k] ELSE objects[k + 1]
    BY <1>1, <1>4, ListRemove DEF DeleteThread
  <2>2. SUFFICES ASSUME NEW j \in 1..(Len(objects) - 1), NEW k \in 1..(Len(objects) - 1),
                        objects'[j] = objects'[k]
                 PROVE  j = k
    BY <2>1 DEF Distinct
  <2> DEFINE old(m) == IF m < n THEN m ELSE m + 1
  <2>3. old(j) \in 1..Len(objects) /\ old(k) \in 1..Len(objects)
    BY <1>1
  <2>4. objects[old(j)] = objects[old(k)]
    BY <2>1, <2>2
  <2>5. old(j) = old(k)
    <3> HIDE DEF old
    <3> QED BY <2>3, <2>4 DEF Distinct
  <2> QED BY <1>1, <2>5
<1> QED
  BY <1>2, <1>3, <1>4
     DEF Next, WriterStep, KernelStep, vars, kernel, StartDump, WriteFileHeader,
         WriteNoteHeader, WriteLoadHeader, WriteThreadNotes, WriteMemoryArea, NextPass,
         FinishDump, SelfRuns, SwitchTo, OtherRuns, QuerySize

\* Where no dump that keeps still is running, little is claimed.
LEMMA NothingClaimed ==
  ASSUME TInv', ~Dumping', OutputEmpty'
  PROVE  FileInv'
BY DEF TInv, FileInv, PrivOK, HeadersOK, NotesOK, SegsOK, PositionOK

\* A dump begins with an empty file.
LEMMA StartStep ==
  ASSUME IInv, TInv', NEW e \in Entries, StartDump(e)
  PROVE  FileInv'
<1>1. pc' = "header" /\ entry' = e /\ UNCHANGED <<self, live>>
  BY DEF StartDump, kernel
<1>2. phdrs' = <<>> /\ notes' = <<>> /\ segs' = <<>> /\ written' = 0
  BY DEF IInv, OutputEmpty, StartDump, output
<1>3. e # "memory" => cur' = [thread |-> self', sp |-> live']
  BY <1>1 DEF StartDump, Captured
<1>4. e # "mini" => priv' = UnsetPriv
  BY DEF StartDump
<1>5. PrivOK'
  BY <1>1, <1>4 DEF PrivOK, Dumping, UnsetPriv
<1>6. OutputEmpty' /\ HeadersOK' /\ NotesOK' /\ SegsOK'
  BY <1>1, <1>2 DEF OutputEmpty, HeadersOK, NotesOK, SegsOK
<1>7. PositionOK'
  BY <1>1, <1>2, <1>3 DEF PositionOK, Dumping
<1> QED BY <1>5, <1>6, <1>7 DEF FileInv

\* mcd_gen_coredump, file header: the count and the first offset are those of the view.
LEMMA FileHeaderStep ==
  ASSUME IInv, TInv', WriteFileHeader
  PROVE  FileInv'
<1>1. pc = "header" /\ pc' = "note" /\ UNCHANGED <<kernel, cur, entry, i, phdrs, notes, segs>>
  BY DEF WriteFileHeader
<1>2. OutputEmpty' /\ phdrs = <<>> /\ notes = <<>> /\ segs = <<>> /\ written = 0
  BY <1>1 DEF OutputEmpty, IInv
<1>3. CASE ~Dumping
  BY <1>1, <1>2, <1>3, NothingClaimed DEF Dumping
<1>4. CASE Dumping
  <2>1. View' = View /\ Base' = Base
    BY <1>1, ViewStable DEF kernel, Base
  <2>2. Count(priv') = Len(View) /\ (entry # "mini" => priv' = [thr_cnts |-> Len(objects),
                                                              cur_idx |-> IndexOfSelf])
    BY <1>1, <1>4, CountOfView DEF WriteFileHeader, IInv
  <2>3. phnum' = Len(View) + 1 /\ fileOff' = Base /\ written' = EhdrSize
    <3>1. /\ phnum' = Count(priv') + 1 /\ written' = written + EhdrSize
          /\ fileOff' = EhdrSize + (Count(priv') + 1) * PhdrSize
      BY DEF WriteFileHeader
    <3>2. written' = EhdrSize BY <1>2, <3>1, SizeAssumption
    <3>3. phnum' = Len(View) + 1 /\ fileOff' = EhdrSize + (Len(View) + 1) * PhdrSize
      BY <2>2, <3>1, Zenon
    <3> QED BY <3>2, <3>3 DEF Base
  <2>4. PrivOK'
    BY <1>1, <2>2 DEF TInv, PrivOK, kernel, IndexOfSelf
  <2>5. HeadersOK' /\ NotesOK' /\ SegsOK'
    BY <1>1, <1>2, <2>1, <2>3 DEF HeadersOK, NotesOK, SegsOK
  <2>6. PositionOK'
    BY <1>1, <1>4, <2>1, <2>3 DEF PositionOK, IInv, kernel
  <2> QED BY <1>2, <2>4, <2>5, <2>6 DEF FileInv
<1> QED BY <1>3, <1>4

\* mcd_gen_coredump, note header: the notes are announced right behind the headers.
LEMMA NoteHeaderStep ==
  ASSUME IInv, TInv', WriteNoteHeader
  PROVE  FileInv'
<1>1. /\ pc = "note" /\ pc' = "load" /\ i' = 0
      /\ UNCHANGED <<kernel, cur, entry, priv, phnum, notes, segs>>
  BY DEF WriteNoteHeader
<1>2. OutputEmpty'
  BY <1>1 DEF OutputEmpty
<1>3. CASE ~Dumping
  BY <1>1, <1>2, <1>3, NothingClaimed DEF Dumping
<1>4. CASE Dumping
  <2>1. View' = View /\ Base' = Base /\ Len(View) \in Nat
    BY <1>1, ViewStable, ViewLength DEF kernel, Base, IInv
  <2>2. Len(phdrs) = 0 /\ fileOff = Base /\ phdrs \in Seq(ProgramHeader)
    BY <1>1, <1>4 DEF IInv, HeadersOK, TypeOK
  <2>3. Count(priv) = Len(View)
    BY <1>1, <1>4, CountOfView DEF IInv
  <2>4. /\ Len(phdrs') = 1
        /\ phdrs'[1] = [type |-> "NOTE", offset |-> Base, vaddr |-> 0,
                        filesz |-> NoteSize * Len(View)]
        /\ fileOff' = Base + NoteSize * Len(View)
        /\ written' = EhdrSize + PhdrSize
    BY <1>1, <1>4, <2>2, <2>3, SizeAssumption
       DEF WriteNoteHeader, WriteProgramHeader, IInv, PositionOK
  <2>5. HeadersOK'
    BY <1>1, <2>1, <2>4 DEF HeadersOK, EndOf
  <2>6. NotesOK' /\ SegsOK'
    BY <1>1, <1>4, <2>1 DEF IInv, NotesOK, SegsOK, Dumping
  <2>7. PositionOK'
    BY <1>1, <1>4, <2>1, <2>4, SizeAssumption DEF IInv, PositionOK, Dumping, kernel
  <2>8. PrivOK'
    BY <1>1, <1>4 DEF IInv, PrivOK, TInv, Dumping, kernel, IndexOfSelf
  <2> QED BY <1>2, <2>5, <2>6, <2>7, <2>8 DEF FileInv
<1> QED BY <1>3, <1>4

\* mcd_gen_coredump, first pass: the next area is announced behind the one before.
LEMMA LoadHeaderStep ==
  ASSUME IInv, TInv', WriteLoadHeader
  PROVE  FileInv'
<1>1. /\ pc = "load" /\ i' = i + 1 /\ i < Count(priv) /\ i \in Nat
      /\ UNCHANGED <<kernel, cur, entry, pc, priv, phnum, notes, segs>>
  BY DEF WriteLoadHeader, IInv, TypeOK
<1>2. OutputEmpty'
  BY <1>1 DEF OutputEmpty
<1>3. CASE ~Dumping
  BY <1>1, <1>2, <1>3, NothingClaimed DEF Dumping
<1>4. CASE Dumping
  <2>1. View' = View /\ Base' = Base /\ Len(View) \in Nat
    BY <1>1, ViewStable, ViewLength DEF kernel, Base, IInv
  <2>2. Count(priv) = Len(View)
    BY <1>1, <1>4, CountOfView DEF IInv
  <2>3. area' = [addr |-> View[i + 1].addr, len |-> View[i + 1].len]
    BY <1>1, <1>4, <2>2, OpsServeView DEF WriteLoadHeader, IInv, PositionOK
  <2>4. Len(phdrs) = i + 1 /\ fileOff = EndOf(i + 1) /\ phdrs \in Seq(ProgramHeader)
    BY <1>1, <1>4 DEF IInv, HeadersOK, TypeOK
  <2> DEFINE h == [type |-> "LOAD", offset |-> fileOff, vaddr |-> View[i + 1].addr,
                   filesz |-> View[i + 1].len]
  <2>5. phdrs' = Append(phdrs, h) /\ fileOff' = fileOff + View[i + 1].len
        /\ written' = written + PhdrSize
    BY <2>3 DEF WriteLoadHeader, WriteProgramHeader
  <2>6. /\ Len(phdrs') = i + 2 /\ phdrs'[i + 2] = h
        /\ \A k \in 1..(i + 1) : phdrs'[k] = phdrs[k]
    <3> HIDE DEF h
    <3> QED BY <1>1, <2>4, <2>5
  <2>7. \A k \in 1..(i + 1) : EndOf(k)' = EndOf(k)
    BY <2>6 DEF EndOf
  <2>8. HeadersOK'
    <3>1. phdrs'[1] = phdrs[1] /\ phdrs[1] = [type |-> "NOTE", offset |-> Base, vaddr |-> 0,
                                             filesz |-> NoteSize * Len(View)]
      BY <1>1, <1>4, <2>4, <2>6 DEF IInv, HeadersOK
    <3>2. ASSUME NEW k \in 1..(i + 1)
          PROVE  phdrs'[k + 1] = [type |-> "LOAD", offset |-> EndOf(k)',
                                  vaddr |-> View[k].addr, filesz |-> View[k].len]
      <4>1. CASE k = i + 1
        BY <1>1, <2>4, <2>6, <2>7, <4>1
      <4>2. CASE k < i + 1
        <5>1. k \in 1..i /\ k + 1 \in 1..(i + 1)
          BY <1>1, <4>2
        <5>2. phdrs[k + 1] = [type |-> "LOAD", offset |-> EndOf(k),
                              vaddr |-> View[k].addr, filesz |-> View[k].len]
          BY <1>1, <1>4, <2>4, <5>1 DEF IInv, HeadersOK
        <5> QED BY <2>6, <2>7, <5>1, <5>2
      <4> QED BY <1>1, <4>1, <4>2
    <3>3. fileOff' = phdrs'[i + 2].offset + phdrs'[i + 2].filesz
      BY <2>5, <2>6
    <3>4. Len(phdrs') = i' + 1 /\ Len(phdrs') = i + 2 /\ Len(phdrs') - 1 = i + 1
      BY <1>1, <2>6
    <3>5. fileOff' = EndOf(Len(phdrs))'
      BY <3>3, <3>4 DEF EndOf
    <3> QED BY <1>1, <2>1, <3>1, <3>2, <3>4, <3>5 DEF HeadersOK
  <2>9. NotesOK' /\ SegsOK'
    BY <1>1, <1>4, <2>1 DEF IInv, NotesOK, SegsOK, Dumping
  <2>10. PositionOK'
    <3>1. written = EhdrSize + (i + 1) * PhdrSize
      BY <1>1, <1>4 DEF IInv, PositionOK
    <3>2. /\ (i + 1) * PhdrSize \in Nat
          /\ (i + 2) * PhdrSize = (i + 1) * PhdrSize + PhdrSize
      <4>1. i + 1 \in Nat /\ PhdrSize \in Nat /\ i + 2 = (i + 1) + 1
        BY <1>1, SizeAssumption
      <4>2. ((i + 1) + 1) * PhdrSize = (i + 1) * PhdrSize + PhdrSize
        BY <4>1, NextMultiple
      <4> QED BY <4>1, <4>2, NextMultiple
    <3> DEFINE p == (i + 1) * PhdrSize
    <3>3. written = EhdrSize + p /\ p \in Nat BY <3>1, <3>2
    <3>4. (i + 2) * PhdrSize = p + PhdrSize BY <3>2
    <3> HIDE DEF p
    <3>5. written' = EhdrSize + (p + PhdrSize)
      BY <2>5, <3>3, SizeAssumption
    <3>6. written' = EhdrSize + (i + 2) * PhdrSize
      BY <3>4, <3>5
    <3>7. i' + 1 = i + 2 BY <1>1
    <3> QED BY <1>1, <1>4, <2>1, <2>2, <3>6, <3>7 DEF IInv, PositionOK, Dumping, kernel
  <2>11. PrivOK'
    BY <1>1, <1>4 DEF IInv, PrivOK, TInv, Dumping, kernel, IndexOfSelf
  <2> QED BY <1>2, <2>8, <2>9, <2>10, <2>11 DEF FileInv
<1> QED BY <1>3, <1>4

\* mcd_gen_coredump, second pass: the next note group is that of the next thread.
LEMMA NotesStep ==
  ASSUME IInv, TInv', WriteThreadNotes
  PROVE  FileInv'
<1>1. /\ pc = "regs" /\ i' = i + 1 /\ i < Count(priv) /\ i \in Nat
      /\ UNCHANGED <<kernel, cur, entry, pc, priv, fileOff, area, phnum, phdrs, segs>>
  BY DEF WriteThreadNotes, IInv, TypeOK
<1>2. OutputEmpty'
  BY <1>1 DEF OutputEmpty
<1>3. CASE ~Dumping
  BY <1>1, <1>2, <1>3, NothingClaimed DEF Dumping
<1>4. CASE Dumping
  <2>1. View' = View /\ Base' = Base /\ Len(View) \in Nat /\ Base \in Nat
    BY <1>1, ViewStable, ViewLength, SizeAssumption DEF kernel, Base, IInv
  <2>2. Count(priv) = Len(View)
    BY <1>1, <1>4, CountOfView DEF IInv
  <2>3. rset' = View[i + 1].regs
    BY <1>1, <1>4, <2>2, OpsServeView DEF WriteThreadNotes, IInv, PositionOK
  <2>4. Len(notes) = i /\ written = Base + NoteSize * i /\ notes \in Seq([at : Nat, regs : Regset])
    BY <1>1, <1>4 DEF IInv, NotesOK, PositionOK, TypeOK
  <2> DEFINE n == [at |-> written, regs |-> View[i + 1].regs]
  <2>5. notes' = Append(notes, n) /\ written' = written + NoteSize
    BY <2>3 DEF WriteThreadNotes
  <2>6. /\ Len(notes') = i + 1 /\ notes'[i + 1] = n
        /\ \A k \in 1..i : notes'[k] = notes[k]
    <3> HIDE DEF n
    <3> QED BY <1>1, <2>4, <2>5
  <2>7. HeadersOK' /\ SegsOK'
    BY <1>1, <1>4, <2>1 DEF IInv, HeadersOK, SegsOK, Dumping, EndOf
  <2>8. NotesOK'
    <3>1. ASSUME NEW k \in 1..(i + 1)
          PROVE  notes'[k] = [at |-> Base + NoteSize * (k - 1), regs |-> View[k].regs]
      <4>1. CASE k = i + 1
        BY <1>1, <2>4, <2>6, <4>1
      <4>2. CASE k \in 1..i
        BY <1>1, <1>4, <2>4, <2>6, <4>2 DEF IInv, NotesOK
      <4> QED BY <1>1, <4>1, <4>2
    <3> QED BY <1>1, <2>1, <2>6, <3>1 DEF NotesOK
  <2>9. PositionOK'
    <3>1. NoteSize * (i + 1) = NoteSize * i + NoteSize /\ NoteSize * i \in Nat
      BY <1>1, NoteSizeType, NextMultiple
    <3> DEFINE p == NoteSize * i
    <3>2. written = Base + p /\ p \in Nat BY <2>4, <3>1
    <3>3. NoteSize * (i + 1) = p + NoteSize BY <3>1
    <3> HIDE DEF p
    <3>4. written' = Base + (p + NoteSize)
      BY <2>1, <2>5, <3>2, NoteSizeType
    <3>5. written' = Base + NoteSize * (i + 1)
      BY <3>3, <3>4
    <3> QED BY <1>1, <1>4, <2>1, <2>2, <3>5 DEF IInv, PositionOK, Dumping, kernel
  <2>10. PrivOK'
    BY <1>1, <1>4 DEF IInv, PrivOK, TInv, Dumping, kernel, IndexOfSelf
  <2> QED BY <1>2, <2>7, <2>8, <2>9, <2>10 DEF FileInv
<1> QED BY <1>3, <1>4

\* mcd_gen_coredump, third pass: the next area lands where it was announced.
LEMMA MemoryAreaStep ==
  ASSUME IInv, TInv', WriteMemoryArea
  PROVE  FileInv'
<1>1. /\ pc = "mem" /\ i' = i + 1 /\ i < Count(priv) /\ i \in Nat
      /\ UNCHANGED <<kernel, cur, entry, pc, priv, fileOff, rset, phnum, phdrs, notes>>
  BY DEF WriteMemoryArea, IInv, TypeOK
<1>2. OutputEmpty'
  BY <1>1 DEF OutputEmpty
<1>3. CASE ~Dumping
  BY <1>1, <1>2, <1>3, NothingClaimed DEF Dumping
<1>4. CASE Dumping
  <2>1. View' = View /\ Base' = Base /\ Len(View) \in Nat
    BY <1>1, ViewStable, ViewLength DEF kernel, Base, IInv
  <2>2. Count(priv) = Len(View)
    BY <1>1, <1>4, CountOfView DEF IInv
  <2>3. area' = [addr |-> View[i + 1].addr, len |-> View[i + 1].len]
    BY <1>1, <1>4, <2>2, OpsServeView DEF WriteMemoryArea, IInv, PositionOK
  <2>4. Len(segs) = i /\ written = EndOf(i + 1)
        /\ segs \in Seq([at : Nat, addr : Nat, len : Nat])
    BY <1>1, <1>4 DEF IInv, SegsOK, PositionOK, TypeOK
  <2>5. phdrs[i + 2] = [type |-> "LOAD", offset |-> EndOf(i + 1),
                        vaddr |-> View[i + 1].addr, filesz |-> View[i + 1].len]
    <3>1. Len(phdrs) = Len(View) + 1
      BY <1>1, <1>4 DEF IInv, HeadersOK
    <3>2. i + 1 \in 1..(Len(phdrs) - 1) /\ (i + 1) + 1 = i + 2
      BY <1>1, <2>1, <2>2, <3>1
    <3> QED BY <1>4, <3>2 DEF IInv, HeadersOK
  <2> DEFINE m == [at |-> written, addr |-> View[i + 1].addr, len |-> View[i + 1].len]
  <2>6. segs' = Append(segs, m) /\ written' = written + View[i + 1].len
    BY <2>3 DEF WriteMemoryArea
  <2>7. /\ Len(segs') = i + 1 /\ segs'[i + 1] = m
        /\ \A k \in 1..i : segs'[k] = segs[k]
    <3> HIDE DEF m
    <3> QED BY <1>1, <2>4, <2>6
  <2>8. HeadersOK' /\ NotesOK'
    BY <1>1, <1>4, <2>1 DEF IInv, HeadersOK, NotesOK, Dumping, EndOf
  <2>9. SegsOK'
    <3>1. ASSUME NEW k \in 1..(i + 1)
          PROVE  segs'[k] = [at |-> phdrs[k + 1].offset, addr |-> View[k].addr,
                             len |-> View[k].len]
      <4>1. CASE k = i + 1
        BY <1>1, <2>4, <2>5, <2>7, <4>1
      <4>2. CASE k \in 1..i
        BY <1>1, <1>4, <2>4, <2>7, <4>2 DEF IInv, SegsOK
      <4> QED BY <1>1, <4>1, <4>2
    <3> QED BY <1>1, <2>1, <2>7, <3>1 DEF SegsOK
  <2>10. PositionOK'
    <3>1. written' = phdrs'[i' + 1].offset + phdrs'[i' + 1].filesz
      BY <1>1, <2>4, <2>5, <2>6
    <3> QED BY <1>1, <1>4, <2>1, <2>2, <3>1 DEF IInv, PositionOK, Dumping, kernel, EndOf
  <2>11. PrivOK'
    BY <1>1, <1>4 DEF IInv, PrivOK, TInv, Dumping, kernel, IndexOfSelf
  <2> QED BY <1>2, <2>8, <2>9, <2>10, <2>11 DEF FileInv
<1> QED BY <1>3, <1>4

\* mcd_gen_coredump, end of a loop: what the pass had to write is complete.
LEMMA NextPassStep ==
  ASSUME IInv, TInv', NextPass
  PROVE  FileInv'
<1>1. /\ pc \in {"load", "regs", "mem"} /\ i' = 0 /\ ~(i < Count(priv)) /\ i \in Nat
      /\ pc = "load" => pc' = "regs"
      /\ pc = "regs" => pc' = "mem"
      /\ pc = "mem" => pc' = "done"
      /\ UNCHANGED <<kernel, cur, entry, priv, fileOff, area, rset, output>>
  BY DEF NextPass, IInv, TypeOK
<1>2. OutputEmpty' /\ pc' \in {"regs", "mem", "done"}
  BY <1>1 DEF OutputEmpty
<1>3. CASE ~Dumping
  BY <1>1, <1>2, <1>3, NothingClaimed DEF Dumping
<1>4. CASE Dumping
  <2>1. View' = View /\ Base' = Base /\ Len(View) \in Nat /\ Base \in Nat
    BY <1>1, ViewStable, ViewLength, SizeAssumption, SMTT(30) DEF kernel, Base, IInv
  <2>2. i = Len(View)
    BY <1>1, <1>4, <2>1, CountOfView DEF IInv, PositionOK
  <2>3. HeadersOK' /\ NotesOK' /\ SegsOK'
    BY <1>1, <1>2, <1>4, <2>1, <2>2
       DEF IInv, HeadersOK, NotesOK, SegsOK, Dumping, output, EndOf
  <2>4. PositionOK'
    <3>1. CASE pc = "load"
      BY <1>1, <1>4, <2>1, <2>2, <3>1, SizeAssumption, NoteSizeType
         DEF IInv, PositionOK, Dumping, output, kernel, Base
    <3>2. CASE pc = "regs"
      <4>1. written = Base + NoteSize * Len(View)
        BY <1>4, <2>2, <3>2 DEF IInv, PositionOK
      <4>2. Len(phdrs) > 0 /\ phdrs[1].offset = Base /\ phdrs[1].filesz = NoteSize * Len(View)
        BY <1>4, <2>1, <3>2 DEF IInv, HeadersOK
      <4>3. written' = EndOf(i + 1)'
        BY <1>1, <4>1, <4>2 DEF output, EndOf
      <4> QED BY <1>1, <1>4, <2>1, <3>2, <4>3
              DEF IInv, PositionOK, Dumping, output, kernel
    <3>3. CASE pc = "mem"
      <4>1. written' = EndOf(Len(View) + 1)'
        BY <1>1, <1>4, <2>1, <2>2, <3>3 DEF IInv, PositionOK, output, EndOf
      <4> QED BY <1>1, <1>4, <2>1, <3>3, <4>1
              DEF IInv, PositionOK, Dumping, output, kernel
    <3> QED BY <1>1, <3>1, <3>2, <3>3
  <2>5. PrivOK'
    BY <1>1, <1>2, <1>4 DEF IInv, PrivOK, TInv, Dumping, kernel, IndexOfSelf
  <2> QED BY <1>2, <2>3, <2>4, <2>5 DEF FileInv
<1> QED BY <1>3, <1>4

\* Taking the file leaves nothing behind.
LEMMA FinishStep ==
  ASSUME IInv, TInv', FinishDump
  PROVE  FileInv'
<1>1. ~Dumping' /\ OutputEmpty'
  BY DEF FinishDump, Dumping, OutputEmpty
<1> QED BY <1>1, NothingClaimed

\* Whatever the kernel does, it does not touch the file, and a dump that
\* depends on more than the running thread keeps the kernel still.
LEMMA KernelKeepsFile ==
  ASSUME KernelStep
  PROVE  /\ UNCHANGED <<cur, entry, pc, i, fileOff, area, rset, output>>
         /\ Dumping => entry = "mini" /\ UNCHANGED <<self, live>>
BY DEF KernelStep, SelfRuns, SwitchTo, OtherRuns, CreateThread, DeleteThread, QuerySize,
       KernelRuns, Dumping, kernel

\* A step of the kernel keeps what is claimed of the file.
LEMMA KernelFileStep ==
  ASSUME IInv, TInv', KernelStep
  PROVE  FileInv'
<1>1. UNCHANGED <<cur, entry, pc, i, fileOff, area, rset, output>>
      /\ (Dumping => entry = "mini" /\ UNCHANGED <<self, live>>)
  BY KernelKeepsFile
<1>2. OutputEmpty'
  BY <1>1 DEF OutputEmpty, IInv, output
<1>3. CASE ~Dumping
  BY <1>1, <1>2, <1>3, NothingClaimed DEF Dumping
<1>4. CASE Dumping
  <2>1. View' = View /\ Base' = Base
    BY <1>1, <1>4, ViewStable DEF Base
  <2>2. HeadersOK' /\ NotesOK' /\ SegsOK' /\ PositionOK'
    BY <1>1, <1>4, <2>1
       DEF IInv, HeadersOK, NotesOK, SegsOK, PositionOK, Dumping, output, EndOf
  <2>3. PrivOK'
    BY <1>1, <1>4 DEF PrivOK, TInv
  <2> QED BY <1>2, <2>2, <2>3 DEF FileInv
<1> QED BY <1>3, <1>4

\* A stuttering step keeps what is claimed of the file.
LEMMA StutterStep ==
  ASSUME IInv, TInv', UNCHANGED vars
  PROVE  FileInv'
<1>1. View' = View /\ Base' = Base
  BY ViewStable DEF vars, Base
<1> QED BY <1>1 DEF vars, IInv, FileInv, PrivOK, OutputEmpty, HeadersOK, NotesOK, SegsOK,
                    PositionOK, Dumping, EndOf, Count, IndexOfSelf

\* The invariant holds initially.
LEMMA InvInit == Init => IInv
<1> SUFFICES ASSUME Init PROVE IInv
  OBVIOUS
<1>1. TInv
  BY TypeInit
<1>2. Distinct
  BY DEF Init, Distinct
<1>3. pc = "idle" /\ phdrs = <<>> /\ notes = <<>> /\ segs = <<>> /\ written = 0
  BY DEF Init
<1> QED BY <1>1, <1>2, <1>3
        DEF IInv, TInv, PrivOK, OutputEmpty, HeadersOK, NotesOK, SegsOK, PositionOK, Dumping

\* Every step keeps the invariant.
LEMMA InvStep == IInv /\ [Next]_vars => IInv'
<1> SUFFICES ASSUME IInv, [Next]_vars PROVE IInv'
  OBVIOUS
<1>1. TInv'
  BY TypeStep DEF IInv, TInv, PrivOK
<1>2. Distinct'
  BY DistinctStep DEF IInv
<1>3. FileInv'
  BY <1>1, StartStep, FileHeaderStep, NoteHeaderStep, LoadHeaderStep, NotesStep,
     MemoryAreaStep, NextPassStep, FinishStep, KernelFileStep, StutterStep
     DEF Next, WriterStep
<1> QED BY <1>1, <1>2, <1>3 DEF IInv, TInv, FileInv

\* The half-written file is described by IInv in every reachable state.
THEOREM InvariantHolds == Spec => []IInv
BY InvInit, InvStep, PTL DEF Spec

-----------------------------------------------------------------------------
(* What follows for the dumps that keep their system still. *)

\* Dumps are entered only through the entry points of the instance.
LEMMA EntryStays == Spec => [](entry \in Entries)
<1>1. Init => entry \in Entries
  BY DEF Init
<1>2. entry \in Entries /\ [Next]_vars => (entry \in Entries)'
  BY DEF Next, WriterStep, KernelStep, vars, StartDump, WriteFileHeader, WriteNoteHeader,
         WriteLoadHeader, WriteThreadNotes, WriteMemoryArea, NextPass, FinishDump, SelfRuns,
         SwitchTo, OtherRuns, CreateThread, DeleteThread, QuerySize
<1> QED BY <1>1, <1>2, PTL DEF Spec

\* Hard fault, serial and mini dumps write every memory area exactly as the
\* program header of the first pass announces it.
THEOREM HeadersMatch ==
  ASSUME "memory" \notin Entries
  PROVE  Spec => []HeadersMatchSegments
<1>1. IInv /\ entry \in Entries => HeadersMatchSegments
  <2> SUFFICES ASSUME IInv, entry \in Entries, pc = "done", NEW k \in 1..Len(segs)
               PROVE  /\ k < Len(phdrs)
                      /\ segs[k] = [at |-> phdrs[k + 1].offset, addr |-> phdrs[k + 1].vaddr,
                                    len |-> phdrs[k + 1].filesz]
    BY DEF HeadersMatchSegments
  <2>1. Dumping /\ Len(View) \in Nat
    BY ViewLength DEF Dumping, IInv
  <2>2. Len(segs) = Len(View) /\ Len(phdrs) = Len(View) + 1
    BY <2>1 DEF IInv, SegsOK, HeadersOK
  <2>3. segs[k] = [at |-> phdrs[k + 1].offset, addr |-> View[k].addr, len |-> View[k].len]
    BY <2>1 DEF IInv, SegsOK
  <2>4. k \in 1..(Len(phdrs) - 1)
    BY <2>1, <2>2
  <2>5. phdrs[k + 1] = [type |-> "LOAD", offset |-> EndOf(k),
                        vaddr |-> View[k].addr, filesz |-> View[k].len]
    BY <2>1, <2>4 DEF IInv, HeadersOK
  <2> QED BY <2>1, <2>2, <2>3, <2>5
<1> QED BY <1>1, InvariantHolds, EntryStays, PTL

\* Hard fault, serial and mini dumps contain the registers of the running
\* thread, whatever its place in the thread list.
THEOREM RunningThreadIsCaptured ==
  ASSUME "memory" \notin Entries
  PROVE  Spec => []RunningThreadCaptured
<1>1. IInv /\ entry \in Entries => RunningThreadCaptured
  <2> SUFFICES ASSUME IInv, entry \in Entries, pc = "done", Len(notes) > 0
               PROVE  \E k \in 1..Len(notes) : notes[k].regs = [thread |-> self, sp |-> live]
    BY DEF RunningThreadCaptured
  <2>1. Dumping /\ Len(View) \in Nat /\ Len(objects) \in Nat
    BY ViewLength DEF Dumping, IInv, TypeOK
  <2>2. /\ Len(notes) = Len(View)
        /\ \A k \in 1..Len(notes) : notes[k].regs = View[k].regs
    <3>1. Len(notes) = Len(View)
      BY <2>1 DEF IInv, NotesOK
    <3>2. ASSUME NEW k \in 1..Len(notes)
          PROVE  notes[k].regs = View[k].regs
      <4>1. notes[k] = [at |-> Base + NoteSize * (k - 1), regs |-> View[k].regs]
        BY <2>1 DEF IInv, NotesOK
      <4> QED BY <4>1
    <3> QED BY <3>1, <3>2
  <2>3. CASE entry = "mini"
    <3>1. View[1].regs = [thread |-> self, sp |-> live]
      BY <2>3 DEF View, Lines
    <3> QED BY <2>1, <2>2, <3>1
  <2>4. CASE entry # "mini"
    <3>1. Len(View) = Len(objects)
      BY <2>4, ViewLength DEF IInv
    <3>2. PICK k \in 1..Len(objects) : TakenForSelf(k)
      BY <2>1, <2>2, <3>1 DEF TakenForSelf
    <3>3. View[k].regs = [thread |-> self, sp |-> live]
      BY <2>4, <3>2 DEF View, Lines
    <3> QED BY <2>1, <2>2, <3>1, <3>2, <3>3
  <2> QED BY <2>3, <2>4
<1> QED BY <1>1, InvariantHolds, EntryStays, PTL

\* The last pass ends with a file that is the core file of the view.
LEMMA FileIsOfView == IInv /\ Dumping /\ pc = "done" => S!IsCoreFileOf(CoreFile, View)
<1> SUFFICES ASSUME IInv, Dumping, pc = "done" PROVE S!IsCoreFileOf(CoreFile, View)
  OBVIOUS
<1>1. Len(View) \in Nat
  BY ViewLength DEF IInv
<1>2. /\ Len(phdrs) = Len(View) + 1 /\ Len(notes) = Len(View) /\ Len(segs) = Len(View)
      /\ phnum = Len(View) + 1 /\ written = EndOf(Len(View) + 1)
  BY DEF IInv, HeadersOK, NotesOK, SegsOK, PositionOK
<1>3. phdrs[1] = [type |-> "NOTE", offset |-> EhdrSize + (Len(View) + 1) * PhdrSize,
                  vaddr |-> 0, filesz |-> NoteSize * Len(View)]
  BY <1>1, <1>2 DEF IInv, HeadersOK, Base
<1>4. ASSUME NEW k \in 1..Len(View)
      PROVE  /\ phdrs[k + 1] = [type |-> "LOAD", offset |-> phdrs[k].offset + phdrs[k].filesz,
                                vaddr |-> View[k].addr, filesz |-> View[k].len]
             /\ notes[k] = [at |-> phdrs[1].offset + NoteSize * (k - 1), regs |-> View[k].regs]
             /\ segs[k] = [at |-> phdrs[k + 1].offset, addr |-> View[k].addr, len |-> View[k].len]
  BY <1>1, <1>2, <1>3 DEF IInv, HeadersOK, NotesOK, SegsOK, EndOf, Base
<1> QED BY <1>1, <1>2, <1>3, <1>4 DEF S!IsCoreFileOf, CoreFile, EndOf

\* One step of the writer or the kernel is a step of Snapshot or a stutter.
LEMMA SnapshotStep ==
  ASSUME IInv, IInv', entry \in Entries, entry' \in Entries, "memory" \notin Entries,
         [Next]_vars
  PROVE  [S!Next]_(S!vars)
<1>1. ASSUME NEW e \in Entries, StartDump(e) PROVE S!Begin
  BY <1>1 DEF StartDump, S!Begin
<1>2. ASSUME pc \notin {"idle", "done"}, pc' \notin {"idle", "done"},
             UNCHANGED <<kernel, entry>>
      PROVE  UNCHANGED S!vars
  BY <1>2, ViewStable DEF S!vars, kernel
<1>3. CASE WriteFileHeader \/ WriteNoteHeader \/ WriteLoadHeader \/ WriteThreadNotes
           \/ WriteMemoryArea
  BY <1>2, <1>3 DEF WriteFileHeader, WriteNoteHeader, WriteLoadHeader, WriteThreadNotes,
                    WriteMemoryArea
<1>4. CASE NextPass
  <2>1. CASE pc # "mem"
    <3>1. pc \notin {"idle", "done"} /\ pc' \in {"regs", "mem"} /\ UNCHANGED <<kernel, entry>>
      BY <1>4, <2>1 DEF NextPass
    <3> QED BY <1>2, <3>1
  <2>2. CASE pc = "mem"
    <3>1. pc' = "done" /\ UNCHANGED <<kernel, entry>>
      BY <1>4, <2>2 DEF NextPass
    <3>2. View' = View
      BY <3>1, ViewStable DEF kernel
    <3>3. (IInv /\ Dumping /\ pc = "done" => S!IsCoreFileOf(CoreFile, View))'
      BY FileIsOfView, PTL
    <3>4. S!IsCoreFileOf(CoreFile, View)'
      BY <3>1, <3>3 DEF Dumping
    <3> QED BY <2>2, <3>1, <3>2, <3>4 DEF S!Next, S!Finish
  <2> QED BY <2>1, <2>2
<1>5. CASE FinishDump
  BY <1>5 DEF FinishDump, S!Next, S!Release
<1>6. CASE KernelStep
  <2>1. UNCHANGED <<entry, pc, output>> /\ (Dumping => entry = "mini" /\ UNCHANGED <<self, live>>)
    BY <1>6, KernelKeepsFile
  <2>2. CASE pc = "idle"
    BY <2>1, <2>2 DEF S!Next, S!Run
  <2>3. CASE pc # "idle"
    <3>1. View' = View
      BY <2>1, <2>3, ViewStable DEF Dumping
    <3> QED BY <2>1, <3>1 DEF S!vars, CoreFile, output
  <2> QED BY <2>2, <2>3
<1>7. CASE UNCHANGED vars
  BY <1>7, ViewStable DEF vars, S!vars, CoreFile
<1> QED BY <1>1, <1>3, <1>4, <1>5, <1>6, <1>7 DEF Next, WriterStep, S!Next

\* Hard fault, serial and mini dumps implement Snapshot: for every number of
\* threads, every thread list and all stack pointers the finished file is the
\* core file of the system as it was when the dump began.
THEOREM DumpImplementsSnapshot ==
  ASSUME "memory" \notin Entries
  PROVE  Spec => ImplementsSnapshot
<1>1. Init => S!Init
  BY DEF Init, S!Init
<1>2. IInv /\ IInv' /\ entry \in Entries /\ (entry \in Entries)' /\ [Next]_vars
        => [S!Next]_(S!vars)
  BY SnapshotStep
<1> QED BY <1>1, <1>2, InvariantHolds, EntryStays, PTL DEF Spec, ImplementsSnapshot, S!Spec

-----------------------------------------------------------------------------
(* The size of the file. *)

\* What the size functions should add for the memory areas, were s the stack pointer
\* of the running thread.
Wanted(kind, s) ==
  IF kind = "mini" THEN <<MiniStackLen + (s % LineSize)>>
  ELSE [k \in 1..Len(objects) |->
          IF TakenForSelf(k) THEN CurrentStackLen + (s % LineSize)
          ELSE LET t == objects[k] IN StackTop[t] - sp[t] + (sp[t] % LineSize)]

\* An answer given since mcd_init is right about the system as it stands, but for the
\* stack pointer of the running thread.
AskedInv ==
  asked.inited =>
    /\ asked.kind \in {"mini", "multi"} /\ asked.regs \in Nat
    /\ asked.size = CoreFileSize(WithFp, Wanted(asked.kind, asked.regs))
    /\ pc # "idle" => asked.kind = KindOf(entry)

\* The lengths that are wanted are numbers, one per memory area.
LEMMA WantedType ==
  ASSUME TypeOK, NEW kind, NEW s \in Nat
  PROVE  /\ Wanted(kind, s) \in Seq(Nat)
         /\ Len(Wanted(kind, s)) = IF kind = "mini" THEN 1 ELSE Len(objects)
<1>1. s % LineSize \in Nat /\ MiniStackLen \in Nat /\ CurrentStackLen \in Nat
  BY ModFacts, SizeAssumption
<1>2. CASE kind = "mini"
  BY <1>1, <1>2 DEF Wanted
<1>3. CASE kind # "mini"
  <2>1. ASSUME NEW k \in 1..Len(objects)
        PROVE  StackTop[objects[k]] - sp[objects[k]] + (sp[objects[k]] % LineSize) \in Nat
    <3>1. objects[k] \in Threads BY DEF TypeOK
    <3>2. sp[objects[k]] \in Nat /\ StackTop[objects[k]] - sp[objects[k]] \in Nat
      BY <3>1, StackFacts
    <3>3. sp[objects[k]] % LineSize \in Nat BY <3>2, ModFacts, SizeAssumption
    <3> QED BY <3>2, <3>3
  <2>2. Len(objects) \in Nat BY DEF TypeOK
  <2> QED BY <1>1, <1>3, <2>1, <2>2 DEF Wanted
<1> QED BY <1>2, <1>3

\* The loop of mcd_corefile_size has a value after each iteration.
LEMMA SizeLoop ==
  ASSUME NEW start \in Nat, NEW lens \in Seq(Nat)
  PROVE  /\ ElfSizes(start, lens)[0] = start
         /\ \A k \in 1..Len(lens) :
              ElfSizes(start, lens)[k] = ElfSizes(start, lens)[k - 1] + lens[k]
         /\ \A k \in 0..Len(lens) : ElfSizes(start, lens)[k] \in Nat
<1> DEFINE n == Len(lens)
           body == [k \in 1..n |-> [v \in Nat |-> v + lens[k]]]
           Is(f) == f = [k \in 0..n |-> IF k = 0 THEN start ELSE f[k - 1] + lens[k]]
<1>1. n \in Nat /\ \A k \in 1..n : lens[k] \in Nat OBVIOUS
<1>2. ElfSizes(start, lens) = CHOOSE f : Is(f) BY DEF ElfSizes
<1> HIDE DEF n
<1>3. \A k \in 1..n, v \in Nat : body[k][v] = v + lens[k] /\ body[k][v] \in Nat BY <1>1
<1> HIDE DEF body
<1>4. \E f \in [0..n -> Nat] : Runs(f, start, body, n) BY <1>1, <1>3, LoopExists
<1>5. \E f \in [0..n -> Nat] : Is(f)
  <2>1. PICK f \in [0..n -> Nat] : Runs(f, start, body, n) BY <1>4
  <2>2. f[0] = start BY <2>1 DEF Runs
  <2>3. ASSUME NEW k \in 1..n PROVE f[k] = f[k - 1] + lens[k]
    <3>1. k - 1 \in 0..n /\ f[k - 1] \in Nat BY <1>1
    <3> QED BY <1>3, <2>1, <3>1 DEF Runs
  <2>4. \A k \in 0..n : f[k] = IF k = 0 THEN start ELSE f[k - 1] + lens[k]
    <3>1. \A k \in 0..n : k = 0 \/ k \in 1..n BY <1>1
    <3> QED BY <2>2, <2>3, <3>1
  <2> QED BY <2>1, <2>4
<1>6. Is(ElfSizes(start, lens)) BY <1>2, <1>5
<1>7. /\ ElfSizes(start, lens)[0] = start
      /\ \A k \in 1..n : ElfSizes(start, lens)[k] = ElfSizes(start, lens)[k - 1] + lens[k]
  BY <1>1, <1>6
<1>8. Runs(ElfSizes(start, lens), start, body, n)
  <2> DEFINE T == {k \in 0..n : ElfSizes(start, lens)[k] \in Nat}
  <2>1. 0 \in T BY <1>1, <1>7
  <2>2. ASSUME NEW k \in 1..n, k - 1 \in T PROVE k \in T
    <3>1. k \in 0..n BY <1>1
    <3>2. ElfSizes(start, lens)[k - 1] \in Nat /\ lens[k] \in Nat BY <1>1, <2>2
    <3>3. ElfSizes(start, lens)[k] = ElfSizes(start, lens)[k - 1] + lens[k] BY <1>7
    <3> QED BY <3>1, <3>2, <3>3
  <2>3. \A k \in 0..n : k \in T
    <3> HIDE DEF T
    <3> QED BY <1>1, <2>1, <2>2, RangeInduction
  <2>4. ASSUME NEW k \in 1..n
        PROVE  ElfSizes(start, lens)[k] = body[k][ElfSizes(start, lens)[k - 1]]
    <3>1. k - 1 \in 0..n BY <1>1
    <3> QED BY <1>3, <1>7, <2>3, <3>1
  <2> QED BY <1>7, <2>4 DEF Runs
<1>9. \A k \in 0..n : ElfSizes(start, lens)[k] \in Nat BY <1>1, <1>3, <1>8, LoopTyped
<1> QED BY <1>7, <1>9 DEF n

\* Two sequences of lengths are alike, but that the j-th, if there is one, differs by d.
ApartAt(a, b, j, d) ==
  Len(a) = Len(b) /\ \A k \in 1..Len(a) : a[k] = b[k] + (IF k = j THEN d ELSE 0)

\* Two loops over lengths that differ by d in one place, if at all, end d apart or alike.
LEMMA SizesApart ==
  ASSUME NEW start \in Nat, NEW a \in Seq(Nat), NEW b \in Seq(Nat),
         NEW j \in Int, NEW d \in Int, ApartAt(a, b, j, d)
  PROVE  ElfSizes(start, a)[Len(a)]
           = ElfSizes(start, b)[Len(b)] + (IF j \in 1..Len(a) THEN d ELSE 0)
<1> DEFINE n == Len(a)
           A == ElfSizes(start, a)
           B == ElfSizes(start, b)
           T == {k \in 0..n : A[k] = B[k] + (IF j \in 1..k THEN d ELSE 0)}
<1>1. /\ n \in Nat /\ n = Len(b)
      /\ \A k \in 1..n : a[k] \in Nat /\ b[k] \in Nat
  <2>1. Len(a) \in Nat /\ Len(a) = Len(b) BY DEF ApartAt
  <2>2. \A k \in 1..Len(a) : a[k] \in Nat BY ElementOfSeq
  <2>3. \A k \in 1..Len(b) : b[k] \in Nat BY ElementOfSeq
  <2> QED BY <2>1, <2>2, <2>3
<1>2. /\ A[0] = start /\ \A k \in 1..n : A[k] = A[k - 1] + a[k]
      /\ \A k \in 0..n : A[k] \in Nat
  BY SizeLoop
<1>3. /\ B[0] = start /\ \A k \in 1..n : B[k] = B[k - 1] + b[k]
      /\ \A k \in 0..n : B[k] \in Nat
  <2>1. /\ B[0] = start /\ \A k \in 1..Len(b) : B[k] = B[k - 1] + b[k]
        /\ \A k \in 0..Len(b) : B[k] \in Nat
    BY SizeLoop
  <2> QED BY <1>1, <2>1
<1> HIDE DEF A, B, n
<1>4. 0 \in T BY <1>1, <1>2, <1>3
<1>5. ASSUME NEW k \in 1..n, k - 1 \in T PROVE k \in T
  <2>1. k - 1 \in 0..n /\ k \in 0..n /\ B[k - 1] \in Nat BY <1>1, <1>3
  <2>2. A[k] = B[k - 1] + (IF j \in 1..(k - 1) THEN d ELSE 0) + a[k] BY <1>2, <1>5
  <2>3. a[k] = b[k] + (IF k = j THEN d ELSE 0) /\ b[k] \in Nat BY <1>1 DEF n, ApartAt
  <2>4. (IF j \in 1..(k - 1) THEN d ELSE 0) + (IF k = j THEN d ELSE 0)
          = IF j \in 1..k THEN d ELSE 0
    BY <2>1
  <2>5. B[k] = B[k - 1] + b[k] BY <1>3
  <2>6. A[k] = B[k] + (IF j \in 1..k THEN d ELSE 0)
    <3> DEFINE x == IF j \in 1..(k - 1) THEN d ELSE 0
               y == IF k = j THEN d ELSE 0
               z == IF j \in 1..k THEN d ELSE 0
    <3>1. x \in Int /\ y \in Int /\ z \in Int OBVIOUS
    <3>2. A[k] = B[k - 1] + x + a[k] /\ a[k] = b[k] + y /\ x + y = z BY <2>2, <2>3, <2>4
    <3>3. B[k - 1] \in Int /\ b[k] \in Int BY <2>1, <2>3
    <3> HIDE DEF x, y, z
    <3>4. A[k] = (B[k - 1] + b[k]) + (x + y)
      <4>1. \A u, v, p, q \in Int : u + p + (v + q) = (u + v) + (p + q) OBVIOUS
      <4> QED BY <3>1, <3>2, <3>3, <4>1
    <3> QED BY <2>5, <3>2, <3>4 DEF z
  <2> QED BY <2>1, <2>6
<1>6. \A k \in 0..n : k \in T
  <2> HIDE DEF T
  <2> QED BY <1>1, <1>4, <1>5, RangeInduction
<1>7. A[n] = B[n] + (IF j \in 1..n THEN d ELSE 0)
  <2>1. n \in 0..n BY <1>1
  <2> QED BY <1>6, <2>1
<1> QED
  <2> HIDE DEF T
  <2>1. A[Len(a)] = B[Len(b)] + (IF j \in 1..Len(a) THEN d ELSE 0) BY <1>1, <1>7 DEF n
  <2> QED BY <2>1 DEF A, B

\* The size functions add up the lengths that are wanted.
LengthsRight ==
  \A kd \in {"mini", "multi"} :
    (kd = "multi" => priv = [thr_cnts |-> Len(objects), cur_idx |-> IndexOfSelf])
      => AreaLengths(kd) = Wanted(kd, cur.sp)

\* A question asked after mcd_init adds up the lengths that are wanted, with the stack
\* pointer the last dump has left in current_core_regset.
LEMMA LengthsAsked == TypeOK /\ Distinct /\ inited => LengthsRight
<1> SUFFICES ASSUME TypeOK, Distinct, inited, NEW kind \in {"mini", "multi"},
                    kind = "multi" =>
                      priv = [thr_cnts |-> Len(objects), cur_idx |-> IndexOfSelf]
             PROVE  AreaLengths(kind) = Wanted(kind, cur.sp)
  BY DEF LengthsRight
<1>1. CASE kind = "mini" BY <1>1 DEF AreaLengths, Wanted, addr_align
<1>2. CASE kind = "multi"
  <2>1. Len(objects) \in Nat BY DEF TypeOK
  <2>2. ASSUME NEW k \in 1..Len(objects)
        PROVE  addr_align(rtthread_get_memarea(k - 1)).len = Wanted(kind, cur.sp)[k]
    <3>1. k - 1 \in Nat /\ ~(k - 1 >= Len(objects)) /\ (k - 1) + 1 = k BY <2>1
    <3>2. TakenForSelf(k) <=> priv.cur_idx = k - 1 BY <1>2, IndexOfSelfFacts
    <3>3. CASE TakenForSelf(k)
      <4>1. rtthread_get_memarea(k - 1) = [addr |-> cur.sp, len |-> CurrentStackLen]
        BY <3>1, <3>2, <3>3 DEF rtthread_get_memarea
      <4> QED BY <1>2, <3>3, <4>1 DEF addr_align, Wanted
    <3>4. CASE ~TakenForSelf(k)
      <4>1. rtthread_get_memarea(k - 1)
              = [addr |-> sp[objects[k]], len |-> StackTop[objects[k]] - sp[objects[k]]]
        BY <3>1, <3>2, <3>4 DEF rtthread_get_memarea
      <4> QED BY <1>2, <3>4, <4>1 DEF addr_align, Wanted
    <3> QED BY <3>3, <3>4
  <2>3. AreaLengths(kind)
          = [k \in 1..Len(objects) |-> addr_align(rtthread_get_memarea(k - 1)).len]
    BY <1>2 DEF AreaLengths
  <2>4. Wanted(kind, cur.sp) = [k \in 1..Len(objects) |-> Wanted(kind, cur.sp)[k]]
    BY <1>2 DEF Wanted
  <2> QED BY <2>2, <2>3, <2>4
<1> QED BY <1>1, <1>2

\* The lines of an area begin where its address does, rounded down.
LEMMA LinesLength == \A a, e : Lines(a, e).len = e - (a - (a % LineSize))
BY DEF Lines

\* The size of a finished file is the one the size functions would compute, did they
\* know the stack pointer of the running thread.
LEMMA SizeOfFile ==
  ASSUME IInv, Dumping, pc = "done"
  PROVE  written = CoreFileSize(WithFp, Wanted(KindOf(entry), live))
<1> DEFINE n == Len(View)
           lens == Wanted(KindOf(entry), live)
           start == EhdrSize + (n + 1) * PhdrSize + NoteSize * n
           size == ElfSizes(start, lens)
           T == {k \in 0..n : EndOf(k + 1) = size[k]}
<1>1. TypeOK /\ live \in Nat /\ live % LineSize \in Nat
  BY LiveFacts, ModFacts, SizeAssumption DEF IInv
<1>2. n = (IF entry = "mini" THEN 1 ELSE Len(objects)) /\ n \in Nat BY <1>1, ViewLength
<1>3. /\ Len(phdrs) = n + 1
      /\ phdrs[1] = [type |-> "NOTE", offset |-> Base, vaddr |-> 0, filesz |-> NoteSize * n]
      /\ \A k \in 1..n : phdrs[k + 1] = [type |-> "LOAD", offset |-> EndOf(k),
                                         vaddr |-> View[k].addr, filesz |-> View[k].len]
      /\ written = EndOf(n + 1)
  BY <1>2 DEF IInv, HeadersOK, PositionOK
<1>4. lens \in Seq(Nat) /\ Len(lens) = n BY <1>1, <1>2, WantedType DEF KindOf
<1>5. ASSUME NEW k \in 1..n PROVE View[k].len = lens[k]
  <2> HIDE DEF n
  <2>1. CASE entry = "mini"
    <3>1. k = 1 BY <1>2, <2>1
    <3>2. View[k].len = (live + MiniStackLen) - (live - (live % LineSize))
      <4>1. View[k].len = Lines(live, live + MiniStackLen).len BY <2>1, <3>1 DEF View
      <4> QED BY <4>1, LinesLength
    <3>3. lens[1] = MiniStackLen + (live % LineSize) BY <2>1 DEF Wanted, KindOf
    <3> QED BY <1>1, <3>1, <3>2, <3>3, SizeAssumption
  <2>2. CASE entry # "mini"
    <3>1. k \in 1..Len(objects) /\ objects[k] \in Threads BY <1>1, <1>2, <2>2 DEF TypeOK
    <3>2. CASE TakenForSelf(k)
      <4>1. View[k].len = (live + CurrentStackLen) - (live - (live % LineSize))
        <5>1. View[k].len = Lines(live, live + CurrentStackLen).len
          BY <2>2, <3>1, <3>2 DEF View
        <5> QED BY <5>1, LinesLength
      <4>2. lens[k] = CurrentStackLen + (live % LineSize)
        BY <2>2, <3>1, <3>2 DEF Wanted, KindOf
      <4> QED BY <1>1, <4>1, <4>2, SizeAssumption
    <3>3. CASE ~TakenForSelf(k)
      <4> DEFINE t == objects[k]
      <4>1. sp[t] \in Nat /\ StackTop[t] \in Nat BY <1>1, <3>1, StackFacts
      <4>2. sp[t] % LineSize \in Nat BY <4>1, ModFacts, SizeAssumption
      <4>3. View[k].len = StackTop[t] - (sp[t] - (sp[t] % LineSize))
        <5>1. View[k].len = Lines(sp[t], StackTop[t]).len
          BY <2>2, <3>1, <3>3 DEF View
        <5> QED BY <5>1, LinesLength
      <4>4. lens[k] = StackTop[t] - sp[t] + (sp[t] % LineSize)
        BY <2>2, <3>1, <3>3 DEF Wanted, KindOf
      <4> QED BY <4>1, <4>2, <4>3, <4>4
    <3> QED BY <3>2, <3>3
  <2> QED BY <2>1, <2>2
<1>6. start \in Nat
  <2> HIDE DEF n
  <2>1. n + 1 \in Nat BY <1>2
  <2>2. (n + 1) * PhdrSize \in Nat /\ NoteSize * n \in Nat
    BY <1>2, <2>1, NoteSizeType, NextMultiple, SizeAssumption
  <2> QED BY <2>2, SizeAssumption
<1>7. size[0] = start /\ \A k \in 1..n : size[k] = size[k - 1] + lens[k]
  <2> HIDE DEF n, lens, start
  <2> QED BY <1>4, <1>6, SizeLoop
<1>8. written = size[n] => written = CoreFileSize(WithFp, lens)
  BY <1>4 DEF CoreFileSize, NotesOfThread, NoteSize
<1> HIDE DEF size, lens
<1>9. 0 \in T
  <2>1. EndOf(1) = Base + NoteSize * n BY <1>3 DEF EndOf
  <2>2. 0 + 1 = 1 /\ 0 \in 0..n BY <1>2
  <2> QED BY <1>7, <2>1, <2>2 DEF Base
<1>10. ASSUME NEW k \in 1..n, k - 1 \in T PROVE k \in T
  <2>1. (k - 1) + 1 = k /\ k \in 0..n BY <1>2
  <2>2. EndOf(k) = size[k - 1] BY <1>10, <2>1
  <2>3. EndOf(k + 1) = EndOf(k) + View[k].len
    <3>0. phdrs[k + 1] = [type |-> "LOAD", offset |-> EndOf(k),
                          vaddr |-> View[k].addr, filesz |-> View[k].len]
      <4> HIDE DEF n
      <4> QED BY <1>3
    <3>1. phdrs[k + 1].offset = EndOf(k) /\ phdrs[k + 1].filesz = View[k].len BY <3>0
    <3>2. EndOf(k + 1) = phdrs[k + 1].offset + phdrs[k + 1].filesz BY DEF EndOf
    <3> QED BY <3>1, <3>2
  <2> QED BY <1>5, <1>7, <2>1, <2>2, <2>3
<1>11. \A k \in 0..n : k \in T
  <2> HIDE DEF T, n
  <2> QED BY <1>2, <1>9, <1>10, RangeInduction
<1>12. EndOf(n + 1) = size[n]
  <2>1. n \in 0..n BY <1>2
  <2> QED BY <1>11, <2>1
<1> QED BY <1>3, <1>8, <1>12 DEF lens

\* The size functions only add steps that the writer and the kernel can take.
LEMMA SizeStepsAreSteps == [SizeNext]_sizeVars => [Next]_vars
BY DEF SizeNext, sizeVars, Ask, Begin, Prepare, Proceed, Leave, Move, Next, KernelStep

\* Every answer is right when it is given, and the dump it is compared with is of the
\* system it was given about.
LEMMA AskedStep ==
  ASSUME IInv, IInv', AskedInv, "memory" \notin Entries, [SizeNext]_sizeVars
  PROVE  AskedInv'
<1> USE DEF AskedInv
<1>1. ASSUME NEW k, UNCHANGED <<objects, sp, self>> \/ k = "mini"
      PROVE  \A s : Wanted(k, s)' = Wanted(k, s)
  BY <1>1 DEF Wanted, TakenForSelf
<1>2. ASSUME NEW kind \in {"multi", "mini"}, Ask(kind) PROVE AskedInv'
  <2>1. CASE ~inited BY <1>2, <2>1 DEF Ask
  <2>2. CASE inited
    <3>1. inited' /\ cur' = cur /\ pc' = "idle"
      BY <1>2, <2>2 DEF Ask, QuerySize, vars
    <3>2. (kind = "multi" => priv = [thr_cnts |-> Len(objects), cur_idx |-> IndexOfSelf])'
      <4>1. kind = "multi" =>
              priv' = [thr_cnts |-> Len(objects), cur_idx |-> IndexOfSelf]
              /\ UNCHANGED <<objects, self>>
        BY <1>2 DEF Ask, QuerySize, rtthread_thr_cnts, UnsetPriv, kernel
      <4>2. UNCHANGED <<objects, self>> => IndexOfSelf' = IndexOfSelf BY DEF IndexOfSelf
      <4> QED BY <4>1, <4>2
    <3>3. (TypeOK /\ Distinct /\ inited => LengthsRight)'
      BY LengthsAsked, PTL
    <3>4. AreaLengths(kind)' = Wanted(kind, cur.sp)'
      BY <3>1, <3>2, <3>3 DEF IInv, LengthsRight
    <3>5. asked' = [kind |-> kind, size |-> mcd_corefile_size(kind)',
                    regs |-> cur.sp, inited |-> inited]
      BY <1>2 DEF Ask
    <3>6. mcd_corefile_size(kind)' = CoreFileSize(WithFp, Wanted(kind, cur.sp)')
      BY <3>1, <3>4, SizeAssumption DEF mcd_corefile_size
    <3>7. cur.sp \in Nat BY DEF IInv, TypeOK, Regset
    <3> QED BY <3>1, <3>5, <3>6, <3>7
  <2> QED BY <2>1, <2>2
<1>3. ASSUME NEW e \in Entries, Begin(e) PROVE AskedInv'
  <2>1. /\ entry' = e /\ UNCHANGED <<objects, sp, self>>
        /\ asked' = IF asked.kind = KindOf(e) THEN asked ELSE NoAnswer
    BY <1>3 DEF Begin, StartDump, kernel
  <2>2. CASE asked.kind = KindOf(e)
    BY <1>1, <2>1, <2>2 DEF KindOf
  <2>3. CASE asked.kind # KindOf(e)
    BY <2>1, <2>3 DEF NoAnswer
  <2> QED BY <2>2, <2>3
<1>4. CASE Proceed
  <2>1. /\ UNCHANGED <<objects, sp, self, entry, asked>> /\ pc # "idle"
    BY <1>4 DEF Proceed, WriterStep, WriteFileHeader, WriteNoteHeader, WriteLoadHeader,
                WriteThreadNotes, WriteMemoryArea, NextPass, kernel
  <2> QED BY <1>1, <2>1 DEF KindOf
<1>5. CASE Leave BY <1>5 DEF Leave, NoAnswer
<1>6. CASE Move
  <2>1. CASE pc = "idle" BY <1>6, <2>1 DEF Move, NoAnswer
  <2>2. CASE pc # "idle"
    <3>1. entry # "memory" BY DEF IInv, TypeOK
    <3>2. entry = "mini" /\ UNCHANGED <<pc, entry, asked>>
      BY <1>6, <2>2, <3>1, KernelKeepsFile DEF Move, Dumping, IInv
    <3> QED BY <1>1, <2>2, <3>2 DEF KindOf
  <2> QED BY <2>1, <2>2
<1>7. CASE Prepare \/ UNCHANGED sizeVars
  <2>1. UNCHANGED <<objects, sp, self, pc, entry, asked>> BY <1>7 DEF Prepare, sizeVars, vars
  <2> QED BY <1>1, <2>1 DEF KindOf
<1> QED BY <1>2, <1>3, <1>4, <1>5, <1>6, <1>7 DEF SizeNext

\* The stack of the running thread is counted once or not at all, so that its alignment
\* is all by which an answer can differ from the file.
LEMMA NearAnswer ==
  ASSUME IInv, Dumping, pc = "done", AskedInv, asked.inited
  PROVE  LET d == (live % LineSize) - (asked.regs % LineSize)
         IN  asked.size \in Nat /\ (written = asked.size + d \/ written = asked.size)
<1> DEFINE kind == KindOf(entry)
           a == Wanted(kind, live)
           b == Wanted(kind, asked.regs)
           n == Len(a)
           d == (live % LineSize) - (asked.regs % LineSize)
           start == EhdrSize + (n + 1) * PhdrSize + NoteSize * n
           j == IF kind = "mini" THEN 1 ELSE IndexOfSelf + 1
<1>1. /\ TypeOK /\ Distinct /\ live \in Nat /\ asked.regs \in Nat /\ Len(objects) \in Nat
      /\ live % LineSize \in Nat /\ asked.regs % LineSize \in Nat
  <2>1. TypeOK /\ Distinct BY DEF IInv
  <2>2. live \in Nat /\ asked.regs \in Nat BY <2>1, LiveFacts DEF AskedInv
  <2>3. Len(objects) \in Nat BY <2>1 DEF TypeOK
  <2>4. live % LineSize \in Nat /\ asked.regs % LineSize \in Nat
    BY <2>2, ModFacts, SizeAssumption
  <2> QED BY <2>1, <2>2, <2>3, <2>4
<1>2. /\ written = CoreFileSize(WithFp, a) /\ asked.size = CoreFileSize(WithFp, b)
  BY SizeOfFile DEF AskedInv
<1>3. /\ a \in Seq(Nat) /\ b \in Seq(Nat) /\ Len(a) = Len(b) /\ n \in Nat
      /\ n = IF kind = "mini" THEN 1 ELSE Len(objects)
  BY <1>1, WantedType
<1>4. j \in Int BY <1>1 DEF IndexOfSelf
<1>5. ASSUME NEW k \in 1..n PROVE a[k] = b[k] + (IF k = j THEN d ELSE 0)
  <2>1. CASE kind = "mini"
    <3>1. k = 1 BY <1>3, <2>1
    <3>2. a[1] = MiniStackLen + (live % LineSize)
          /\ b[1] = MiniStackLen + (asked.regs % LineSize)
      BY <2>1 DEF Wanted
    <3> QED BY <1>1, <2>1, <3>1, <3>2, SizeAssumption
  <2>2. CASE kind # "mini"
    <3>1. k \in 1..Len(objects) /\ objects[k] \in Threads BY <1>1, <1>3, <2>2 DEF TypeOK
    <3>2. TakenForSelf(k) <=> k = j
      <4>1. TakenForSelf(k) <=> IndexOfSelf = k - 1 BY <1>1, <3>1, IndexOfSelfFacts
      <4>2. IndexOfSelf \in Int BY <1>1 DEF IndexOfSelf
      <4> QED BY <2>2, <3>1, <4>1, <4>2
    <3>3. CASE TakenForSelf(k)
      <4>1. a[k] = CurrentStackLen + (live % LineSize)
            /\ b[k] = CurrentStackLen + (asked.regs % LineSize)
        BY <2>2, <3>1, <3>3 DEF Wanted
      <4> QED BY <1>1, <3>2, <3>3, <4>1, SizeAssumption
    <3>4. CASE ~TakenForSelf(k)
      <4>1. a[k] = b[k] BY <2>2, <3>1, <3>4 DEF Wanted
      <4>2. b[k] \in Nat BY <1>3, ElementOfSeq
      <4> QED BY <3>2, <3>4, <4>1, <4>2
    <3> QED BY <3>3, <3>4
  <2> QED BY <2>1, <2>2
<1>6. start \in Nat
  <2> HIDE DEF n
  <2>1. (n + 1) * PhdrSize \in Nat /\ NoteSize * n \in Nat
    BY <1>3, NoteSizeType, NextMultiple, SizeAssumption
  <2> QED BY <2>1, SizeAssumption
<1>7. d \in Int BY <1>1
<1>8. written = ElfSizes(start, a)[Len(a)] /\ asked.size = ElfSizes(start, b)[Len(b)]
  BY <1>2, <1>3 DEF CoreFileSize, NotesOfThread, NoteSize
<1> HIDE DEF a, b, d, j, n, kind, start
<1>9. ElfSizes(start, b)[Len(b)] \in Nat
  <2>1. \A k \in 0..Len(b) : ElfSizes(start, b)[k] \in Nat BY <1>3, <1>6, SizeLoop
  <2>2. Len(b) \in 0..Len(b) BY <1>3
  <2> QED BY <2>1, <2>2
<1>10. ElfSizes(start, a)[Len(a)]
         = ElfSizes(start, b)[Len(b)] + (IF j \in 1..Len(a) THEN d ELSE 0)
  <2>1. ApartAt(a, b, j, d) BY <1>3, <1>5 DEF n, ApartAt
  <2> QED BY <1>3, <1>4, <1>6, <1>7, <2>1, SizesApart
<1>11. asked.size \in Nat /\ (written = asked.size + d \/ written = asked.size)
  BY <1>7, <1>8, <1>9, <1>10
<1> QED BY <1>11 DEF d

\* For any number of threads and any stacks: an answer of the size functions given
\* since the first mcd_init is never a line away from the bytes the next dump of the
\* same system writes, and exact when the stack pointers lie alike in their lines.
THEOREM SizeIsNearlyPromised ==
  ASSUME "memory" \notin Entries
  PROVE  SizeSpec => []SizeIsNear
<1>1. "memory" \notin Entries
  OBVIOUS
<1>2. SizeSpec => Spec
  <2>1. SizeInit => Init BY DEF SizeInit
  <2> QED BY <2>1, SizeStepsAreSteps, PTL DEF SizeSpec, Spec
<1>3. SizeInit => AskedInv BY DEF SizeInit, AskedInv, NoAnswer
<1>4. IInv /\ IInv' /\ AskedInv /\ [SizeNext]_sizeVars => AskedInv'
  BY <1>1, AskedStep
<1>5. IInv /\ AskedInv => SizeIsNear
  <2> SUFFICES ASSUME IInv, AskedInv, pc = "done", asked.inited
               PROVE  /\ asked.size - LineSize < written /\ written < asked.size + LineSize
                      /\ asked.regs % LineSize = live % LineSize => written = asked.size
    BY DEF SizeIsNear
  <2>1. Dumping BY <1>1 DEF Dumping, IInv, TypeOK
  <2>2. LET d == (live % LineSize) - (asked.regs % LineSize)
        IN  asked.size \in Nat /\ (written = asked.size + d \/ written = asked.size)
    BY <2>1, NearAnswer
  <2>3. LineSize \in Nat \ {0} /\ live \in Nat /\ asked.regs \in Nat /\ written \in Nat
    BY LiveFacts, SizeAssumption DEF IInv, AskedInv, TypeOK
  <2>4. live % LineSize \in 0..(LineSize - 1) /\ asked.regs % LineSize \in 0..(LineSize - 1)
    BY <2>3
  <2> QED BY <2>2, <2>3, <2>4
<1> QED BY <1>2, <1>3, <1>4, <1>5, InvariantHolds, PTL DEF SizeSpec
=============================================================================
