------------------------- MODULE MemoryStoreProofs -------------------------
(***************************************************************************)
(* Theorems about MemoryStore, for every buffer size, every set of core    *)
(* file sizes and every number of dumps.                                   *)
(***************************************************************************)
EXTENDS MemoryStore, SequenceTheorems, TLAPS

\* While the shell prints, data_size stays within the buffer: without this the
\* loop of mcd_dump_memory would run past the data.
PrintsWithinBuffer == pc[Shell] = "emit" => buf.data_size <= Cap

TypeInv == TypeOK /\ PrintsWithinBuffer

-----------------------------------------------------------------------------
(* Facts about the definitions. *)

\* The first n bytes of the buffer are a sequence of n cells.
LEMMA ContentType ==
  ASSUME TypeOK, NEW n \in 0..Cap
  PROVE  Content(n) \in Seq(Cell) /\ Len(Content(n)) = n
<1>1. \A k \in 1..n : buf.data[k - 1] \in Cell
  BY MemoryAssumption DEF TypeOK
<1>2. Content(n) \in [1..n -> Cell] BY <1>1 DEF Content
<1>3. n \in Nat BY MemoryAssumption
<1>4. Content(n) \in Seq(Cell) BY <1>2, <1>3, SeqDef
<1> QED BY <1>2, <1>3, <1>4, LenProperties

\* The write function keeps offset and data within the buffer.
LEMMA WriteType ==
  ASSUME TypeOK, NEW d \in Nat, NEW p \in Nat, NEW n \in Nat,
         corefile_memory_write(d, p, n)
  PROVE  /\ buf' = [buf EXCEPT !.data = buf'.data]
         /\ buf'.data \in [0..Cap-1 -> Cell]
         /\ ctx' \in [offset : 0..Cap, overflow : BOOLEAN]
<1> DEFINE fits == ctx.offset + n <= Cap
           m == IF fits THEN n ELSE Cap - ctx.offset
<1>0. /\ Cap \in Nat /\ ctx \in [offset : 0..Cap, overflow : BOOLEAN]
      /\ buf.data \in [0..Cap-1 -> Cell]
      /\ buf \in [magic : BOOLEAN, data_size : Nat, crc32 : Seq(Cell) \cup {Garbage},
                  data : [0..Cap-1 -> Cell]]
  BY MemoryAssumption DEF TypeOK
<1>1. CASE ctx.overflow BY <1>0, <1>1 DEF corefile_memory_write, buf, ctx
<1>2. CASE ~ctx.overflow
  <2> DEFINE new == [k \in 0..Cap-1 |-> IF ctx.offset <= k /\ k < ctx.offset + m
                                        THEN <<d, p + (k - ctx.offset)>> ELSE buf.data[k]]
  <2>1. ctx' = [offset |-> ctx.offset + m, overflow |-> ~fits] /\ buf' = [buf EXCEPT !.data = new]
    BY <1>2 DEF corefile_memory_write, buf, ctx
  <2>2. ctx.offset + m \in 0..Cap BY <1>0
  <2>3. ASSUME NEW k \in 0..Cap-1, ctx.offset <= k PROVE <<d, p + (k - ctx.offset)>> \in Cell
    <3>1. p + (k - ctx.offset) \in Nat BY <1>0, <2>3
    <3> QED BY <3>1 DEF Cell
  <2>4. new \in [0..Cap-1 -> Cell] BY <1>0, <2>3
  <2> QED BY <1>0, <2>1, <2>2, <2>4
<1> QED BY <1>1, <1>2

-----------------------------------------------------------------------------
(* Types. *)

\* The initial states are well typed.
LEMMA TypeInit == Init => TypeInv
<1> SUFFICES ASSUME Init PROVE TypeInv OBVIOUS
<1> USE MemoryAssumption DEF Init, buf, ctx
<1>1. /\ buf \in [magic : BOOLEAN, data_size : Nat, crc32 : Seq(Cell) \cup {Garbage},
                  data : [0..Cap-1 -> Cell]]
  BY DEF Cell
<1>2. lens \in Seq(StreamLens) /\ Len(lens) = 0 BY EmptySeq
<1>3. out \in Seq(Cell) /\ term \in Seq(Cell) BY EmptySeq
<1>4. ctx \in [offset : 0..Cap, overflow : BOOLEAN] OBVIOUS
<1>5. /\ pc \in [Actors -> {"idle"}] /\ dump \in [Actors -> 0..Len(lens)]
      /\ pos \in [Actors -> Nat] /\ mode \in {"boot", "run"}
  BY <1>2
<1>6. pc[Shell] = "idle" BY <1>5 DEF Actors
<1> QED BY <1>1, <1>2, <1>3, <1>4, <1>5, <1>6 DEF TypeOK, TypeInv, PrintsWithinBuffer

\* Beginning a dump keeps the types, whoever begins it.
LEMMA StartKeepsTypes ==
  ASSUME TypeInv, NEW a \in Actors, NEW len \in StreamLens, StartDump(a, len)
  PROVE  TypeInv'
<1>0. TypeOK /\ PrintsWithinBuffer /\ Cap \in Nat /\ Handler # Shell /\ Len(lens) \in Nat
  <2>1. TypeOK /\ PrintsWithinBuffer BY DEF TypeInv
  <2>2. lens \in Seq(StreamLens) BY <2>1 DEF TypeOK
  <2> QED BY <2>1, <2>2, MemoryAssumption
<1>1. lens' \in Seq(StreamLens) /\ Len(lens') = Len(lens) + 1
  BY <1>0, AppendProperties DEF StartDump, TypeOK
<1>2. dump' \in [Actors -> 0..Len(lens')] BY <1>0, <1>1 DEF StartDump, TypeOK
<1>3. pos' \in [Actors -> Nat] BY <1>0 DEF StartDump, TypeOK
<1>4. ctx' \in [offset : 0..Cap, overflow : BOOLEAN] BY <1>0 DEF StartDump, ctx
<1> QED BY <1>0, <1>1, <1>2, <1>3, <1>4
        DEF StartDump, TypeInv, TypeOK, PrintsWithinBuffer, buf, ctx

\* So do the steps of a dump.
LEMMA DumpStepKeepsTypes == ASSUME TypeInv, NEW a \in Actors, DumpStep(a) PROVE TypeInv'
<1> DEFINE Buffers == [magic : BOOLEAN, data_size : Nat, crc32 : Seq(Cell) \cup {Garbage},
                       data : [0..Cap-1 -> Cell]]
<1>0. /\ TypeOK /\ PrintsWithinBuffer /\ Cap \in Nat /\ Handler # Shell
      /\ buf \in Buffers /\ Blank \in Cell /\ <<>> \in Seq(Cell)
  <2>1. Blank \in Cell /\ <<>> \in Seq(Cell) BY EmptySeq DEF Cell
  <2> QED BY <2>1, MemoryAssumption DEF TypeInv, TypeOK
<1>1. CASE ClearHeader(a)
  <2>1. buf' \in Buffers BY <1>0, <1>1 DEF ClearHeader, buf
  <2>2. buf'.data_size = 0 BY <1>0, <1>1 DEF ClearHeader, buf
  <2> QED BY <1>0, <1>1, <2>1, <2>2
          DEF ClearHeader, TypeInv, TypeOK, PrintsWithinBuffer, buf, ctx, Actors
<1>2. CASE ClearData(a)
  <2>1. buf' \in Buffers BY <1>0, <1>2 DEF ClearData, buf
  <2>2. buf'.data_size = buf.data_size BY <1>0, <1>2 DEF ClearData, buf
  <2> QED BY <1>0, <1>2, <2>1, <2>2
          DEF ClearData, TypeInv, TypeOK, PrintsWithinBuffer, buf, ctx, Actors
<1>3. ASSUME NEW n \in 1..Cap+1, WriteChunk(a, n) PROVE TypeInv'
  <2>0. dump[a] \in Nat /\ pos[a] \in Nat /\ n \in Nat BY <1>0 DEF TypeOK
  <2>1. corefile_memory_write(dump[a], pos[a], n) BY <1>3 DEF WriteChunk, PassChunk
  <2>2. /\ buf' \in Buffers /\ buf'.data_size = buf.data_size
        /\ ctx' \in [offset : 0..Cap, overflow : BOOLEAN]
    BY <1>0, <2>0, <2>1, WriteType
  <2>3. pos' \in [Actors -> Nat] BY <1>0, <1>3, <2>0, SMTT(30)
          DEF WriteChunk, PassChunk, TypeOK
  <2> QED BY <1>0, <1>3, <2>2, <2>3
          DEF WriteChunk, PassChunk, TypeInv, TypeOK, PrintsWithinBuffer
<1>4. CASE EndOfStream(a)
  BY <1>0, <1>4 DEF EndOfStream, TypeInv, TypeOK, PrintsWithinBuffer, buf, ctx, Actors, Return
<1>5. CASE SetMagic(a)
  <2>1. buf' \in Buffers /\ buf'.data_size = buf.data_size BY <1>0, <1>5 DEF SetMagic, buf
  <2> QED BY <1>0, <1>5, <2>1
          DEF SetMagic, TypeInv, TypeOK, PrintsWithinBuffer, buf, ctx, Actors
<1>6. CASE SetSize(a)
  <2>0. ctx.offset \in Nat /\ ctx.offset <= Cap BY <1>0 DEF TypeOK
  <2>1. buf' \in Buffers /\ buf'.data_size = ctx.offset BY <1>0, <1>6, <2>0 DEF SetSize, buf
  <2> QED BY <1>0, <1>6, <2>0, <2>1
          DEF SetSize, TypeInv, TypeOK, PrintsWithinBuffer, buf, ctx, Actors
<1>7. CASE SetCrc(a)
  <2>0. ctx.offset \in 0..Cap BY <1>0 DEF TypeOK
  <2>1. crc32b(ctx.offset) \in Seq(Cell) BY <1>0, <2>0, ContentType DEF crc32b
  <2>2. buf' \in Buffers /\ buf'.data_size = buf.data_size BY <1>0, <1>7, <2>1 DEF SetCrc, buf
  <2> QED BY <1>0, <1>7, <2>2
          DEF SetCrc, TypeInv, TypeOK, PrintsWithinBuffer, buf, ctx, Actors, Return
<1> QED BY <1>1, <1>2, <1>3, <1>4, <1>5, <1>6, <1>7 DEF DumpStep

\* Every step keeps the types.
LEMMA TypeStep == TypeInv /\ [Next]_vars => TypeInv'
<1> SUFFICES ASSUME TypeInv, [Next]_vars PROVE TypeInv' OBVIOUS
<1> DEFINE Buffers == [magic : BOOLEAN, data_size : Nat, crc32 : Seq(Cell) \cup {Garbage},
                       data : [0..Cap-1 -> Cell]]
<1>0. /\ TypeOK /\ PrintsWithinBuffer /\ Cap \in Nat /\ Handler # Shell
      /\ buf \in Buffers
      /\ Blank \in Cell /\ Garbage \in Cell /\ <<>> \in Seq(Cell)
      /\ lens \in Seq(StreamLens) /\ Len(lens) \in Nat
  BY MemoryAssumption, EmptySeq, SMTT(30) DEF TypeInv, TypeOK, Cell
<1>1. ASSUME NEW a \in Tasks \cup {Handler},
             (\E len \in StreamLens : StartDump(a, len)) \/ DumpStep(a)
      PROVE  TypeInv'
  BY <1>1, StartKeepsTypes, DumpStepKeepsTypes DEF Actors
<1>2. CASE StartPrint
  <2>1. buf.data_size <= Cap BY <1>2 DEF StartPrint, Accepted, mcd_check_memory_coredump
  <2> QED BY <1>0, <1>2, <2>1
          DEF StartPrint, TypeInv, TypeOK, PrintsWithinBuffer, buf, ctx, Actors
<1>3. CASE PrintByte
  <2>1. Len(out) \in 0..Cap-1 BY <1>0, <1>3 DEF PrintByte, PrintsWithinBuffer, TypeOK
  <2>2. out' \in Seq(Cell) BY <1>0, <1>3, <2>1, AppendProperties DEF PrintByte, TypeOK
  <2> QED BY <1>0, <1>3, <2>2 DEF PrintByte, TypeInv, TypeOK, PrintsWithinBuffer, buf, ctx
<1>4. CASE EndPrint
  BY <1>0, <1>4 DEF EndPrint, TypeInv, TypeOK, PrintsWithinBuffer, buf, ctx, Actors
<1>5. ASSUME Restart, buf' \in Buffers PROVE TypeInv'
  <2>1. lens' \in Seq(StreamLens) /\ Len(lens') \in Nat BY <1>0, <1>5 DEF Restart
  <2>2. ctx' \in [offset : 0..Cap, overflow : BOOLEAN] BY <1>0, <1>5 DEF Restart, ctx
  <2>3. /\ pc' = [c \in Actors |-> "idle"] /\ dump' \in [Actors -> 0..Len(lens')]
        /\ pos' \in [Actors -> Nat]
    BY <1>5, <2>1 DEF Restart
  <2>4. pc'[Shell] = "idle" /\ pc' \in [Actors -> {"idle"}] BY <2>3 DEF Actors
  <2>5. mode' \in {"boot", "run"} /\ out' = <<>> /\ term' = <<>>
    BY <1>5 DEF Restart
  <2>6. PrintsWithinBuffer' BY <2>4 DEF PrintsWithinBuffer
  <2>7. TypeOK' BY <1>0, <1>5, <2>1, <2>2, <2>3, <2>4, <2>5 DEF TypeOK
  <2> QED BY <2>6, <2>7 DEF TypeInv
<1>6. CASE Reset BY <1>0, <1>5, <1>6 DEF Reset, buf
<1>7. CASE PowerLoss
  <2>1. PICK m \in {buf.magic, FALSE}, s \in {buf.data_size} \cup GarbledSizes,
             c \in {buf.crc32, Garbage}, lost \in {{}, {0}, 0..Cap-1} :
          coredump_memory_buffer' =
            [magic |-> m, data_size |-> s, crc32 |-> c,
             data |-> [k \in 0..Cap-1 |-> IF k \in lost THEN Garbage ELSE buf.data[k]]]
    BY <1>7 DEF PowerLoss
  <2>2. [k \in 0..Cap-1 |-> IF k \in lost THEN Garbage ELSE buf.data[k]] \in [0..Cap-1 -> Cell]
    BY <1>0
  <2>3. m \in BOOLEAN /\ s \in Nat /\ c \in Seq(Cell) \cup {Garbage} BY <1>0, MemoryAssumption
  <2>4. buf' \in Buffers BY <2>1, <2>2, <2>3 DEF buf
  <2> QED BY <1>5, <1>7, <2>4 DEF PowerLoss
<1>8. CASE Boot
  BY <1>0, <1>8 DEF Boot, TypeInv, TypeOK, PrintsWithinBuffer, buf, ctx,
                     mcd_check_memory_coredump
<1>9. CASE UNCHANGED vars
  BY <1>0, <1>9 DEF vars, TypeInv, TypeOK, PrintsWithinBuffer, buf, ctx
<1> QED BY <1>1, <1>2, <1>3, <1>4, <1>6, <1>7, <1>8, <1>9 DEF Next

\* In every reachable state of the memory output the variables are well typed
\* and the print loop stays within the buffer.
THEOREM StoreTypeCorrect == Spec => []TypeOK
<1>1. TypeInv => TypeOK BY DEF TypeInv
<1> QED BY <1>1, TypeInit, TypeStep, PTL DEF Spec

-----------------------------------------------------------------------------
(* What a dump in progress has achieved. *)

Dumpers == Tasks \cup {Handler}

Dumping(a) == pc[a] \in {"clear", "zero", "gen", "magic", "size", "crc"}

\* The buffer holds the bytes a has passed to the writer.
HoldsStream(a) ==
  ctx.offset = pos[a] /\ \A k \in 0..Cap-1 : k < ctx.offset => buf.data[k] = <<dump[a], k>>

Progress(a) ==
  Dumping(a) =>
    /\ dump[a] \in 1..Len(lens) /\ pos[a] <= lens[dump[a]]
    /\ pc[a] \in {"clear", "zero"} => pos[a] = 0 /\ ~ctx.overflow
    /\ pc[a] \in {"magic", "size", "crc"} => pos[a] = lens[dump[a]] /\ ~ctx.overflow
    /\ IF ctx.overflow THEN Cap < pos[a] ELSE HoldsStream(a)

\* The size of a dump that was begun is a positive number.
LEMMA LensType == ASSUME TypeOK, NEW d \in 1..Len(lens) PROVE lens[d] \in Nat \ {0}
BY MemoryAssumption, ElementOfSeq DEF TypeOK

\* Beginning a dump leaves the sizes of the earlier ones alone.
LEMMA StartKeepsLens ==
  ASSUME TypeOK, NEW a, NEW len \in StreamLens, StartDump(a, len)
  PROVE  /\ Len(lens') = Len(lens) + 1 /\ lens'[Len(lens) + 1] = len
         /\ \A d \in 1..Len(lens) : lens'[d] = lens[d]
BY AppendProperties DEF StartDump, TypeOK

\* A chunk that fits extends what the buffer holds of the dump; one that does
\* not leaves fewer bytes in the buffer than were passed.
LEMMA ChunkKeepsProgress ==
  ASSUME TypeInv, NEW a \in Actors, NEW n \in 1..Cap+1, WriteChunk(a, n), Progress(a)
  PROVE  Progress(a)'
<1>0. /\ TypeOK /\ Cap \in Nat /\ pos[a] \in Nat /\ n \in Nat /\ n > 0 /\ ctx.offset \in 0..Cap
      /\ pos \in [Actors -> Nat] /\ a \in Actors /\ buf.data \in [0..Cap-1 -> Cell]
      /\ pc[a] = "gen" /\ Dumping(a) /\ dump[a] \in 1..Len(lens) /\ ctx.overflow \in BOOLEAN
  <2>1. TypeOK /\ Cap \in Nat /\ n \in Nat /\ n > 0 BY MemoryAssumption DEF TypeInv
  <2>2. pos \in [Actors -> Nat] /\ pos[a] \in Nat BY <2>1 DEF TypeOK
  <2>3. ctx.offset \in 0..Cap /\ ctx.overflow \in BOOLEAN BY <2>1 DEF TypeOK
  <2>4. buf.data \in [0..Cap-1 -> Cell] BY <2>1 DEF TypeOK
  <2>5. pc[a] = "gen" /\ Dumping(a) BY DEF WriteChunk, PassChunk, Dumping
  <2>6. dump[a] \in 1..Len(lens) BY <2>5 DEF Progress
  <2> QED BY <2>1, <2>2, <2>3, <2>4, <2>5, <2>6
<1>1. /\ pos'[a] = pos[a] + n /\ pos'[a] <= lens[dump[a]]
      /\ corefile_memory_write(dump[a], pos[a], n)
      /\ UNCHANGED <<pc, dump, lens>>
  BY <1>0 DEF WriteChunk, PassChunk
<1>2. IF ctx'.overflow THEN Cap < pos'[a] ELSE HoldsStream(a)'
  <2>1. CASE ctx.overflow
    <3>1. ctx' = ctx BY <1>1, <2>1 DEF corefile_memory_write, ctx
    <3>2. Cap < pos[a] BY <1>0, <2>1 DEF Progress
    <3> QED BY <1>0, <1>1, <2>1, <3>1, <3>2
  <2>2. CASE ~ctx.overflow
    <3> DEFINE fits == ctx.offset + n <= Cap
               m == IF fits THEN n ELSE Cap - ctx.offset
               new == [k \in 0..Cap-1 |-> IF ctx.offset <= k /\ k < ctx.offset + m
                                          THEN <<dump[a], pos[a] + (k - ctx.offset)>>
                                          ELSE buf.data[k]]
    <3>1. /\ ctx' = [offset |-> ctx.offset + m, overflow |-> ~fits]
          /\ buf' = [buf EXCEPT !.data = new]
      BY <1>1, <2>2 DEF corefile_memory_write, buf, ctx
    <3>2. /\ ctx.offset = pos[a]
          /\ \A k \in 0..Cap-1 : k < ctx.offset => buf.data[k] = <<dump[a], k>>
      BY <1>0, <2>2 DEF Progress, HoldsStream
    <3>3. CASE ~fits
      <4>1. ctx'.overflow BY <3>1, <3>3
      <4> QED BY <1>0, <1>1, <3>2, <3>3, <4>1
    <3>4. CASE fits
      <4>1. ctx' = [offset |-> ctx.offset + n, overflow |-> FALSE] BY <3>1, <3>4
      <4>2. ASSUME NEW k \in 0..Cap-1, k < ctx.offset + n PROVE new[k] = <<dump[a], k>>
        <5>1. CASE k < ctx.offset
          <6>1. ~(ctx.offset <= k) BY <1>0, <5>1
          <6>2. new[k] = buf.data[k] BY <6>1
          <6> QED BY <3>2, <5>1, <6>2
        <5>2. CASE ctx.offset <= k
          <6>1. new[k] = <<dump[a], pos[a] + (k - ctx.offset)>> BY <3>4, <4>2, <5>2
          <6>2. pos[a] + (k - ctx.offset) = k BY <1>0, <3>2
          <6> QED BY <6>1, <6>2
        <5> QED BY <1>0, <5>1, <5>2
      <4>3. buf'.data = new
        BY <1>0, <3>1 DEF TypeOK
      <4>4. ctx'.offset = pos'[a] /\ ~ctx'.overflow BY <1>1, <3>2, <4>1
      <4> HIDE DEF new
      <4>5. \A k \in 0..Cap-1 : k < ctx'.offset => buf'.data[k] = <<dump'[a], k>>
        BY <1>1, <4>1, <4>2, <4>3
      <4> QED BY <4>4, <4>5 DEF HoldsStream
    <3> QED BY <3>3, <3>4
  <2> QED BY <2>1, <2>2
<1> QED BY <1>0, <1>1, <1>2 DEF Progress, Dumping

\* Every step of the actor that dumps keeps what it has achieved.
LEMMA OwnStepKeepsProgress ==
  ASSUME TypeInv, NEW a \in Actors, Progress(a),
         (\E len \in StreamLens : StartDump(a, len)) \/ DumpStep(a)
  PROVE  Progress(a)'
<1>0. /\ TypeOK /\ Cap \in Nat /\ pos[a] \in Nat /\ a \in Actors
      /\ pc \in [Actors -> {"idle", "clear", "zero", "gen", "magic", "size", "crc",
                            "halted", "emit"}]
      /\ buf.data \in [0..Cap-1 -> Cell] /\ ctx.offset \in 0..Cap
      /\ pos \in [Actors -> Nat] /\ dump \in [Actors -> 0..Len(lens)] /\ Len(lens) \in Nat
      /\ buf \in [magic : BOOLEAN, data_size : Nat, crc32 : Seq(Cell) \cup {Garbage},
                  data : [0..Cap-1 -> Cell]]
  BY MemoryAssumption DEF TypeInv, TypeOK, Dumpers, Actors
<1>1. ASSUME NEW len \in StreamLens, StartDump(a, len) PROVE Progress(a)'
  <2>1. /\ dump'[a] = Len(lens) + 1 /\ pos'[a] = 0 /\ pc'[a] = "clear"
        /\ ctx' = [offset |-> 0, overflow |-> FALSE]
    BY <1>0, <1>1 DEF StartDump, ctx
  <2>2. Len(lens') = Len(lens) + 1 /\ lens'[Len(lens) + 1] = len
    BY <1>0, <1>1, StartKeepsLens
  <2>3. len \in Nat BY MemoryAssumption
  <2>4. HoldsStream(a)' BY <2>1 DEF HoldsStream
  <2> QED BY <1>0, <2>1, <2>2, <2>3, <2>4 DEF Progress
<1>2. CASE ClearHeader(a)
  <2>1. /\ pc[a] = "clear" /\ pc'[a] = "zero" /\ buf'.data = buf.data
        /\ ctx' = ctx /\ UNCHANGED <<lens, dump, pos>>
    BY <1>0, <1>2 DEF ClearHeader, ctx, buf
  <2> QED BY <1>0, <2>1 DEF Progress, Dumping, HoldsStream
<1>3. CASE ClearData(a)
  <2>1. /\ pc[a] = "zero" /\ pc'[a] = "gen"
        /\ ctx' = ctx /\ UNCHANGED <<lens, dump, pos>>
    BY <1>0, <1>3 DEF ClearData, ctx
  <2>2. ctx.offset = 0 /\ ~ctx.overflow /\ pos[a] = 0
    BY <1>0, <2>1 DEF Progress, Dumping, HoldsStream
  <2> QED BY <1>0, <2>1, <2>2 DEF Progress, Dumping, HoldsStream
<1>4. ASSUME NEW n \in 1..Cap+1, WriteChunk(a, n) PROVE Progress(a)'
  BY <1>4, ChunkKeepsProgress
<1>5. CASE EndOfStream(a)
  <2>1. /\ pc[a] = "gen" /\ pos[a] = lens[dump[a]]
        /\ (pc'[a] = "magic" /\ ~ctx.overflow) \/ pc'[a] \in {"halted", "idle"}
        /\ ctx' = ctx /\ buf' = buf /\ UNCHANGED <<lens, dump, pos>>
    BY <1>0, <1>5 DEF EndOfStream, ctx, buf, Return
  <2> QED BY <1>0, <2>1 DEF Progress, Dumping, HoldsStream
<1>6. CASE SetMagic(a)
  <2>1. /\ pc[a] = "magic" /\ pc'[a] = "size" /\ buf'.data = buf.data
        /\ ctx' = ctx /\ UNCHANGED <<lens, dump, pos>>
    BY <1>0, <1>6 DEF SetMagic, ctx, buf
  <2> QED BY <1>0, <2>1 DEF Progress, Dumping, HoldsStream
<1>7. CASE SetSize(a)
  <2>1. /\ pc[a] = "size" /\ pc'[a] = "crc" /\ buf'.data = buf.data
        /\ ctx' = ctx /\ UNCHANGED <<lens, dump, pos>>
    BY <1>0, <1>7 DEF SetSize, ctx, buf
  <2> QED BY <1>0, <2>1 DEF Progress, Dumping, HoldsStream
<1>8. CASE SetCrc(a)
  <2>1. pc'[a] \in {"halted", "idle"} BY <1>0, <1>8 DEF SetCrc, Return
  <2> QED BY <2>1 DEF Progress, Dumping
<1> QED BY <1>1, <1>2, <1>3, <1>4, <1>5, <1>6, <1>7, <1>8 DEF DumpStep

-----------------------------------------------------------------------------
(* One task at a time: what a buffer that is accepted holds. *)

\* Threads stop while the hard fault handler runs.
InCharge(a) == a # Handler => pc[Handler] = "idle"

\* A checksum in the buffer is that of a complete core file.
GenuineCrc == buf.crc32 \in {<<>>, Garbage} \cup {Stream(d) : d \in 1..Len(lens)}

StoreInv == TypeInv /\ GenuineCrc /\ \A a \in Dumpers : InCharge(a) => Progress(a)

\* The invariant is strong enough: a checksum that matches a nonempty content
\* is neither blank nor garbage.
LEMMA InvAccepted == StoreInv => AcceptedIsComplete
<1> SUFFICES ASSUME StoreInv, Accepted
             PROVE  \E d \in 1..Len(lens) : Content(buf.data_size) = Stream(d)
  BY DEF AcceptedIsComplete
<1>1. TypeOK /\ buf.data_size \in 1..Cap
  BY MemoryAssumption
     DEF StoreInv, TypeInv, TypeOK, Accepted, mcd_check_memory_coredump
<1>2. Content(buf.data_size) \in Seq(Cell) /\ Len(Content(buf.data_size)) > 0
  BY <1>1, ContentType
<1>3. buf.crc32 = Content(buf.data_size) BY DEF Accepted, crc32b
<1>4. buf.crc32 # Garbage BY <1>2, <1>3, MemoryAssumption DEF Cell
<1>5. buf.crc32 # <<>> BY <1>2, <1>3
<1> QED BY <1>3, <1>4, <1>5 DEF StoreInv, GenuineCrc

\* A core file that exists already stays what it is when a dump is begun.
LEMMA StreamStays ==
  ASSUME TypeOK, NEW a, NEW len \in StreamLens, StartDump(a, len), NEW d \in 1..Len(lens)
  PROVE  d \in 1..Len(lens') /\ Stream(d)' = Stream(d)
<1>1. lens'[d] = lens[d] /\ Len(lens') = Len(lens) + 1 /\ Len(lens) \in Nat
  BY StartKeepsLens DEF TypeOK
<1> QED BY <1>1 DEF Stream

\* The checksum SetCrc stores is that of the complete core file.
LEMMA CrcIsGenuine ==
  ASSUME TypeInv, NEW a \in Actors, SetCrc(a), Progress(a)
  PROVE  GenuineCrc'
<1>1. /\ TypeOK /\ pc[a] = "crc" /\ dump[a] \in 1..Len(lens) /\ pos[a] = lens[dump[a]]
      /\ HoldsStream(a) /\ buf'.crc32 = crc32b(ctx.offset) /\ lens' = lens
      /\ ctx.offset \in 0..Cap /\ Cap \in Nat
  <2>1. TypeOK /\ Dumping(a) /\ pc[a] = "crc" BY DEF SetCrc, Dumping, TypeInv
  <2>2. buf'.crc32 = crc32b(ctx.offset) BY <2>1 DEF SetCrc, TypeOK, buf
  <2> QED BY <2>1, <2>2, MemoryAssumption DEF SetCrc, Progress, TypeOK
<1>2. crc32b(ctx.offset) = Stream(dump[a])
  <2>1. ctx.offset = lens[dump[a]] BY <1>1 DEF HoldsStream
  <2>2. \A k \in 1..ctx.offset : buf.data[k - 1] = <<dump[a], k - 1>>
    BY <1>1 DEF HoldsStream
  <2> QED BY <2>1, <2>2 DEF crc32b, Content, Stream
<1>4. buf'.crc32 \in {Stream(d) : d \in 1..Len(lens)} BY <1>1, <1>2
<1>5. {Stream(d) : d \in 1..Len(lens)}' = {Stream(d) : d \in 1..Len(lens)}
  BY <1>1 DEF Stream
<1> QED BY <1>4, <1>5 DEF GenuineCrc

\* A state in which the checksum and the sizes are as before keeps GenuineCrc.
LEMMA CrcStays ==
  ASSUME GenuineCrc, lens' = lens, buf'.crc32 \in {buf.crc32, <<>>, Garbage}
  PROVE  GenuineCrc'
<1>1. {Stream(d) : d \in 1..Len(lens)}' = {Stream(d) : d \in 1..Len(lens)} BY DEF Stream
<1> QED BY <1>1 DEF GenuineCrc

\* Nothing is claimed of an actor that is not dumping.
LEMMA NotDumping == ASSUME NEW a, pc[a] \in {"idle", "halted", "emit"} PROVE Progress(a)
BY DEF Progress, Dumping

\* Nothing is claimed of an actor that will not be dumping.
LEMMA NotDumpingNext ==
  ASSUME NEW a, pc'[a] \in {"idle", "halted", "emit"} PROVE Progress(a)'
BY DEF Progress, Dumping

\* Before the first dump nothing is claimed.
LEMMA StoreInvInit == Init => StoreInv
<1> SUFFICES ASSUME Init PROVE StoreInv OBVIOUS
<1>1. TypeInv BY TypeInit
<1>2. GenuineCrc BY DEF Init, GenuineCrc, buf
<1>3. ASSUME NEW a \in Dumpers PROVE Progress(a)
  <2>1. pc[a] = "idle" BY DEF Init, Dumpers, Actors
  <2> QED BY <2>1, NotDumping
<1> QED BY <1>1, <1>2, <1>3 DEF StoreInv

\* A step of a dump: only the actor that takes it has its place in the code changed.
LEMMA OnlyOwnPc ==
  ASSUME TypeOK, NEW a \in Actors,
         (\E len \in StreamLens : StartDump(a, len)) \/ DumpStep(a)
  PROVE  /\ MayRun(a)
         /\ \A b \in Actors \ {a} : pc'[b] = pc[b]
         /\ a = Handler => pc'[a] # "idle"
<1>1. /\ a \in Actors
      /\ pc \in [Actors -> {"idle", "clear", "zero", "gen", "magic", "size", "crc",
                            "halted", "emit"}]
  BY DEF TypeOK, Dumpers, Actors
<1> QED BY <1>1 DEF StartDump, DumpStep, ClearHeader, ClearData,
                    WriteChunk, PassChunk, EndOfStream,
                    SetMagic, SetSize, SetCrc, Return

\* A step of a dump stores the checksum of a complete core file, or none.
LEMMA StepKeepsCrc ==
  ASSUME TypeInv, GenuineCrc, NEW a \in Actors, Progress(a),
         (\E len \in StreamLens : StartDump(a, len)) \/ DumpStep(a)
  PROVE  GenuineCrc'
<1>0. /\ TypeOK
      /\ buf \in [magic : BOOLEAN, data_size : Nat, crc32 : Seq(Cell) \cup {Garbage},
                  data : [0..Cap-1 -> Cell]]
  BY DEF TypeInv, TypeOK
<1>1. ASSUME NEW len \in StreamLens, StartDump(a, len) PROVE GenuineCrc'
  <2>1. buf' = buf BY <1>1 DEF StartDump, buf
  <2>2. CASE buf.crc32 \in {<<>>, Garbage} BY <2>1, <2>2 DEF GenuineCrc
  <2>3. CASE \E d \in 1..Len(lens) : buf.crc32 = Stream(d)
    <3>1. PICK d \in 1..Len(lens) : buf.crc32 = Stream(d) BY <2>3
    <3>2. d \in 1..Len(lens') /\ Stream(d)' = Stream(d) BY <1>0, <1>1, StreamStays
    <3>3. buf'.crc32 = Stream(d)' BY <2>1, <3>1, <3>2
    <3>4. Stream(d)' \in {Stream(e) : e \in 1..Len(lens)}' BY <3>2 DEF Stream
    <3> QED BY <3>3, <3>4 DEF GenuineCrc
  <2> QED BY <1>0, <2>2, <2>3 DEF GenuineCrc
<1>2. CASE SetCrc(a) BY <1>0, <1>2, CrcIsGenuine
<1>3. CASE ClearHeader(a)
  <2>1. buf'.crc32 = <<>> /\ lens' = lens BY <1>0, <1>3 DEF ClearHeader, buf
  <2> QED BY <1>0, <2>1, CrcStays
<1>4. CASE ClearData(a) \/ EndOfStream(a) \/ SetMagic(a) \/ SetSize(a)
  <2>1. buf'.crc32 = buf.crc32 /\ lens' = lens
    BY <1>0, <1>4 DEF ClearData, EndOfStream, SetMagic, SetSize, buf
  <2> QED BY <1>0, <2>1, CrcStays
<1>5. ASSUME NEW n \in 1..Cap+1, WriteChunk(a, n) PROVE GenuineCrc'
  <2>1. dump[a] \in Nat /\ pos[a] \in Nat /\ n \in Nat
    BY <1>0, MemoryAssumption DEF TypeOK
  <2>2. buf' = [buf EXCEPT !.data = buf'.data]
    BY <1>0, <1>5, <2>1, WriteType DEF WriteChunk, PassChunk
  <2>3. buf'.crc32 = buf.crc32 /\ lens' = lens BY <1>0, <1>5, <2>2 DEF WriteChunk, PassChunk
  <2> QED BY <1>0, <2>3, CrcStays
<1> QED BY <1>1, <1>2, <1>3, <1>4, <1>5 DEF DumpStep

\* When one thread at most calls mcd_faultdump, every step keeps the invariant.
LEMMA StoreInvStep ==
  ASSUME \A s, t \in Tasks : s = t
  PROVE  StoreInv /\ [Next]_vars => StoreInv'
<1> SUFFICES ASSUME StoreInv, [Next]_vars PROVE StoreInv' OBVIOUS
<1>0. /\ TypeInv /\ TypeOK /\ TypeInv' /\ GenuineCrc
      /\ buf \in [magic : BOOLEAN, data_size : Nat, crc32 : Seq(Cell) \cup {Garbage},
                  data : [0..Cap-1 -> Cell]]
      /\ pc \in [Actors -> {"idle", "clear", "zero", "gen", "magic", "size", "crc",
                            "halted", "emit"}]
      /\ Handler # Shell /\ Handler \notin Tasks /\ Dumpers \subseteq Actors
  BY TypeStep, MemoryAssumption DEF StoreInv, TypeInv, TypeOK, Dumpers, Actors
<1>1. ASSUME NEW a \in Dumpers, (\E len \in StreamLens : StartDump(a, len)) \/ DumpStep(a)
      PROVE  StoreInv'
  <2>1. MayRun(a) /\ (\A b \in Actors \ {a} : pc'[b] = pc[b]) /\ (a = Handler => pc'[a] # "idle")
    BY <1>0, <1>1, OnlyOwnPc
  <2>2. Progress(a) BY <2>1 DEF MayRun, InCharge, StoreInv
  <2>3. Progress(a)' BY <1>0, <1>1, <2>2, OwnStepKeepsProgress
  <2>4. ASSUME NEW b \in Dumpers, b # a, InCharge(b)' PROVE Progress(b)'
    <3>1. CASE b = Handler
      <4>1. pc'[b] = "idle" BY <1>0, <2>1, <2>4, <3>1 DEF MayRun
      <4> QED BY <4>1, NotDumpingNext
    <3>2. CASE b # Handler
      <4>1. a = Handler BY <2>4, <3>2 DEF Dumpers
      <4> QED BY <2>1, <2>4, <3>2, <4>1 DEF InCharge
    <3> QED BY <3>1, <3>2
  <2>5. GenuineCrc' BY <1>0, <1>1, <2>2, StepKeepsCrc DEF StoreInv
  <2> QED BY <1>0, <2>3, <2>4, <2>5 DEF StoreInv
<1>2. ASSUME StartPrint \/ PrintByte \/ EndPrint PROVE StoreInv'
  <2>1. buf' = buf /\ ctx' = ctx /\ UNCHANGED <<lens, dump, pos>>
    BY <1>2 DEF StartPrint, PrintByte, EndPrint, buf, ctx
  <2>2. GenuineCrc' BY <1>0, <2>1, CrcStays
  <2>3. ASSUME NEW a \in Dumpers, InCharge(a)' PROVE Progress(a)'
    <3>1. (pc'[a] = pc[a] /\ pc'[Handler] = pc[Handler]) \/ pc'[a] \in {"idle", "emit"}
      BY <1>0, <1>2 DEF StartPrint, PrintByte, EndPrint, Actors
    <3>2. pc'[Handler] = pc[Handler]
      BY <1>0, <1>2 DEF StartPrint, PrintByte, EndPrint, Actors
    <3>3. InCharge(a) BY <2>3, <3>2 DEF InCharge
    <3>4. Progress(a) BY <3>3 DEF StoreInv
    <3>5. CASE pc'[a] = pc[a] BY <2>1, <3>4, <3>5 DEF Progress, Dumping, HoldsStream
    <3>6. CASE pc'[a] \in {"idle", "emit"} BY <3>6, NotDumpingNext
    <3> QED BY <3>1, <3>5, <3>6
  <2> QED BY <1>0, <2>2, <2>3 DEF StoreInv
<1>3. ASSUME Restart, buf'.crc32 \in {buf.crc32, Garbage} PROVE StoreInv'
  <2>1. GenuineCrc' BY <1>0, <1>3, CrcStays DEF Restart
  <2>2. ASSUME NEW a \in Dumpers PROVE Progress(a)'
    <3>1. pc'[a] = "idle" BY <1>0, <1>3 DEF Restart
    <3> QED BY <3>1, NotDumpingNext
  <2> QED BY <1>0, <2>1, <2>2 DEF StoreInv
<1>4. CASE Reset BY <1>3, <1>4 DEF Reset, buf
<1>5. CASE PowerLoss
  <2>1. buf'.crc32 \in {buf.crc32, Garbage} BY <1>0, <1>5 DEF PowerLoss, buf
  <2> QED BY <1>3, <1>5, <2>1 DEF PowerLoss
<1>6. ASSUME Boot \/ UNCHANGED vars PROVE StoreInv'
  <2>1. buf' = buf /\ ctx' = ctx /\ UNCHANGED <<lens, pc, dump, pos>>
    BY <1>6 DEF Boot, vars, buf, ctx
  <2>2. GenuineCrc' BY <1>0, <2>1, CrcStays
  <2>3. ASSUME NEW a \in Dumpers, InCharge(a)' PROVE Progress(a)'
    BY <2>1, <2>3 DEF StoreInv, InCharge, Progress, Dumping, HoldsStream
  <2> QED BY <1>0, <2>2, <2>3 DEF StoreInv
<1> QED BY <1>1, <1>2, <1>4, <1>5, <1>6 DEF Next, Dumpers

\* Whatever the size of the buffer and of the core files, and wherever resets
\* and losses of power fall, a buffer mcd_dump_memory accepts holds one
\* complete core file, as long as one thread at most calls mcd_faultdump.
THEOREM AcceptedDumpIsComplete ==
  ASSUME \A s, t \in Tasks : s = t
  PROVE  Spec => []AcceptedIsComplete
BY InvAccepted, StoreInvInit, StoreInvStep, PTL DEF Spec

-----------------------------------------------------------------------------
(* The dump of the hard fault handler, however many threads were dumping when *)
(* the fault came.                                                            *)

\* What the handler has made of the header so far.
HandlerHeader ==
  /\ pc[Handler] \in {"zero", "gen", "magic"} => ~buf.magic
  /\ pc[Handler] \in {"size", "crc"} => buf.magic
  /\ pc[Handler] = "crc" => buf.data_size = ctx.offset

FaultInv == TypeInv /\ Progress(Handler) /\ HandlerHeader /\ FaultDumpIsStored

\* Nothing is claimed before the first fault.
LEMMA FaultInvInit == Init => FaultInv
<1> SUFFICES ASSUME Init PROVE FaultInv OBVIOUS
<1>1. TypeInv /\ pc[Handler] = "idle" BY TypeInit DEF Init, Actors
<1> QED BY <1>1, NotDumping DEF FaultInv, HandlerHeader, FaultDumpIsStored

\* The steps of the handler itself keep what is claimed of its dump.
LEMMA HandlerStep ==
  ASSUME FaultInv, (\E len \in StreamLens : StartDump(Handler, len)) \/ DumpStep(Handler)
  PROVE  HandlerHeader' /\ FaultDumpIsStored'
<1> DEFINE h == Handler
<1>0. /\ TypeInv /\ TypeOK /\ Cap \in Nat /\ h \in Actors /\ h \in Dumpers
      /\ HandlerHeader /\ FaultDumpIsStored /\ Progress(h)
      /\ buf \in [magic : BOOLEAN, data_size : Nat, crc32 : Seq(Cell) \cup {Garbage},
                  data : [0..Cap-1 -> Cell]]
      /\ pc \in [Actors -> {"idle", "clear", "zero", "gen", "magic", "size", "crc",
                            "halted", "emit"}]
      /\ ctx.offset \in 0..Cap /\ pos[h] \in Nat /\ dump[h] \in Nat
  BY MemoryAssumption DEF FaultInv, TypeInv, TypeOK, Dumpers, Actors
<1>1. ASSUME NEW len \in StreamLens, StartDump(h, len) PROVE HandlerHeader' /\ FaultDumpIsStored'
  <2>1. pc'[h] = "clear" BY <1>0, <1>1 DEF StartDump
  <2> QED BY <2>1 DEF HandlerHeader, FaultDumpIsStored
<1>2. CASE ClearHeader(h)
  <2>1. pc'[h] = "zero" /\ ~buf'.magic BY <1>0, <1>2 DEF ClearHeader, buf
  <2> QED BY <2>1 DEF HandlerHeader, FaultDumpIsStored
<1>3. CASE ClearData(h)
  <2>1. pc[h] = "zero" /\ pc'[h] = "gen" /\ buf'.magic = buf.magic
    BY <1>0, <1>3 DEF ClearData, buf
  <2> QED BY <1>0, <2>1 DEF HandlerHeader, FaultDumpIsStored
<1>4. ASSUME NEW n \in 1..Cap+1, WriteChunk(h, n) PROVE HandlerHeader' /\ FaultDumpIsStored'
  <2>1. pc[h] = "gen" /\ pc'[h] = "gen" /\ n \in Nat BY <1>0, <1>4 DEF WriteChunk, PassChunk
  <2>2. buf' = [buf EXCEPT !.data = buf'.data]
    BY <1>0, <1>4, <2>1, WriteType DEF WriteChunk, PassChunk
  <2>3. buf'.magic = buf.magic BY <1>0, <2>2
  <2> QED BY <1>0, <2>1, <2>3 DEF HandlerHeader, FaultDumpIsStored
<1>5. CASE EndOfStream(h)
  <2>1. /\ pc[h] = "gen" /\ buf' = buf /\ UNCHANGED <<lens, dump>>
        /\ pc'[h] = IF ~ctx.overflow /\ ctx.offset > 0 THEN "magic" ELSE "halted"
        /\ pos[h] = lens[dump[h]]
    BY <1>0, <1>5 DEF EndOfStream, buf, Return
  <2>2. ~buf'.magic BY <1>0, <2>1 DEF HandlerHeader
  <2>3. dump[h] \in 1..Len(lens) /\ IF ctx.overflow THEN Cap < pos[h] ELSE HoldsStream(h)
    BY <1>0, <2>1 DEF Progress, Dumping
  <2>4. lens[dump[h]] > 0 BY <1>0, <2>3, LensType
  <2>5. CASE ctx.overflow
    <3>1. pc'[h] = "halted" /\ Cap < lens'[dump'[h]] /\ lens'[dump'[h]] \in Nat
      BY <1>0, <2>1, <2>3, <2>5, LensType
    <3>2. ~mcd_check_memory_coredump' BY <2>2 DEF mcd_check_memory_coredump
    <3> QED BY <1>0, <3>1, <3>2 DEF HandlerHeader, FaultDumpIsStored
  <2>6. CASE ~ctx.overflow
    <3>1. ctx.offset > 0 BY <2>1, <2>3, <2>4, <2>6 DEF HoldsStream
    <3>2. pc'[h] = "magic" BY <2>1, <2>6, <3>1
    <3> QED BY <2>2, <3>2 DEF HandlerHeader, FaultDumpIsStored
  <2> QED BY <2>5, <2>6
<1>6. CASE SetMagic(h)
  <2>1. pc'[h] = "size" /\ buf'.magic BY <1>0, <1>6 DEF SetMagic, buf
  <2> QED BY <2>1 DEF HandlerHeader, FaultDumpIsStored
<1>7. CASE SetSize(h)
  <2>1. /\ pc[h] = "size" /\ pc'[h] = "crc" /\ buf'.magic = buf.magic
        /\ buf'.data_size = ctx'.offset
    BY <1>0, <1>7 DEF SetSize, buf, ctx
  <2> QED BY <1>0, <2>1 DEF HandlerHeader, FaultDumpIsStored
<1>8. CASE SetCrc(h)
  <2>1. /\ pc[h] = "crc" /\ pc'[h] = "halted" /\ buf'.magic = buf.magic
        /\ buf'.data_size = buf.data_size /\ buf'.data = buf.data
        /\ buf'.crc32 = crc32b(ctx.offset) /\ UNCHANGED <<lens, dump>>
    BY <1>0, <1>8 DEF SetCrc, buf, Return
  <2>2. buf.magic /\ buf.data_size = ctx.offset BY <1>0, <2>1 DEF HandlerHeader
  <2>3. /\ dump[h] \in 1..Len(lens) /\ pos[h] = lens[dump[h]] /\ HoldsStream(h)
    BY <1>0, <2>1 DEF Progress, Dumping
  <2>4. ctx.offset = lens[dump[h]] /\ lens[dump[h]] > 0
    BY <1>0, <2>3, LensType DEF HoldsStream
  <2>5. Content(buf.data_size)' = crc32b(ctx.offset) BY <2>1, <2>2 DEF Content, crc32b
  <2>6. crc32b(ctx.offset) = Stream(dump[h])
    <3>1. \A k \in 1..ctx.offset : buf.data[k - 1] = <<dump[h], k - 1>>
      BY <1>0, <2>3 DEF HoldsStream
    <3> QED BY <2>4, <3>1 DEF crc32b, Content, Stream
  <2>7. Stream(dump[h])' = Stream(dump[h]) BY <2>1 DEF Stream
  <2>8. mcd_check_memory_coredump'
    BY <1>0, <2>1, <2>2, <2>4 DEF mcd_check_memory_coredump
  <2>9. buf'.crc32 = crc32b(buf.data_size)' BY <2>1, <2>5 DEF crc32b
  <2>10. Accepted' BY <2>8, <2>9 DEF Accepted
  <2>11. lens'[dump'[h]] <= Cap BY <1>0, <2>1, <2>4
  <2> QED BY <2>1, <2>5, <2>6, <2>7, <2>10, <2>11 DEF HandlerHeader, FaultDumpIsStored
<1> QED BY <1>1, <1>2, <1>3, <1>4, <1>5, <1>6, <1>7, <1>8 DEF DumpStep

\* Every step keeps what is claimed of the handler's dump: no thread runs
\* between the fault and the reset.
LEMMA FaultInvStep == FaultInv /\ [Next]_vars => FaultInv'
<1> SUFFICES ASSUME FaultInv, [Next]_vars PROVE FaultInv' OBVIOUS
<1>0. /\ TypeInv /\ TypeOK /\ TypeInv' /\ Handler # Shell /\ Handler \in Actors
      /\ Handler \in Dumpers /\ Shell \in Actors
      /\ pc \in [Actors -> {"idle", "clear", "zero", "gen", "magic", "size", "crc",
                            "halted", "emit"}]
  BY TypeStep, MemoryAssumption DEF FaultInv, TypeInv, TypeOK, Dumpers, Actors
<1>1. ASSUME pc'[Handler] = "idle" PROVE FaultInv'
  BY <1>0, <1>1, NotDumpingNext DEF FaultInv, HandlerHeader, FaultDumpIsStored
<1>2. ASSUME NEW a \in Dumpers, (\E len \in StreamLens : StartDump(a, len)) \/ DumpStep(a)
      PROVE  FaultInv'
  <2>1. MayRun(a) /\ (\A b \in Actors \ {a} : pc'[b] = pc[b])
    BY <1>0, <1>2, OnlyOwnPc DEF Dumpers, Actors
  <2>2. CASE a = Handler
    <3>1. Progress(Handler)' BY <1>0, <1>2, <2>2, OwnStepKeepsProgress DEF FaultInv
    <3> QED BY <1>0, <1>2, <2>2, <3>1, HandlerStep DEF FaultInv
  <2>3. CASE a # Handler
    <3>1. pc'[Handler] = "idle" BY <1>0, <2>1, <2>3 DEF MayRun
    <3> QED BY <1>1, <3>1
  <2> QED BY <2>2, <2>3
<1>3. ASSUME StartPrint \/ PrintByte \/ EndPrint PROVE FaultInv'
  <2>1. pc'[Handler] = "idle"
    BY <1>0, <1>3 DEF StartPrint, PrintByte, EndPrint, MayRun
  <2> QED BY <1>1, <2>1
<1>4. ASSUME Reset \/ PowerLoss PROVE FaultInv'
  <2>1. pc'[Handler] = "idle" BY <1>0, <1>4 DEF Reset, PowerLoss, Restart
  <2> QED BY <1>1, <2>1
<1>5. ASSUME Boot \/ UNCHANGED vars PROVE FaultInv'
  <2>1. buf' = buf /\ ctx' = ctx /\ UNCHANGED <<lens, pc, dump, pos>>
    BY <1>5 DEF Boot, vars, buf, ctx
  <2>2. Progress(Handler)' BY <2>1 DEF FaultInv, Progress, Dumping, HoldsStream
  <2>3. HandlerHeader' BY <2>1 DEF FaultInv, HandlerHeader
  <2>4. FaultDumpIsStored'
    BY <2>1 DEF FaultInv, FaultDumpIsStored, Accepted, mcd_check_memory_coredump, crc32b,
                Content, Stream
  <2> QED BY <1>0, <2>2, <2>3, <2>4 DEF FaultInv
<1> QED BY <1>2, <1>3, <1>4, <1>5 DEF Next, Dumpers

\* However many threads were in the middle of a dump when the fault came, the
\* handler's own dump is in the buffer, complete and accepted, when the handler
\* is done, or the buffer is invalid when the dump does not fit.
THEOREM FaultDumpStored == Spec => []FaultDumpIsStored
<1>1. FaultInv => FaultDumpIsStored BY DEF FaultInv
<1> QED BY <1>1, FaultInvInit, FaultInvStep, PTL DEF Spec

-----------------------------------------------------------------------------
(* What the terminal shows, when only the shell calls mcd_faultdump. *)

\* What was printed so far is the beginning of an accepted buffer.
Printing ==
  pc[Shell] = "emit" /\ pc[Handler] = "idle" =>
    /\ Accepted /\ Len(out) <= buf.data_size
    /\ \A k \in 1..Len(out) : out[k] = buf.data[k - 1]

PrintInv == StoreInv /\ Printing /\ TerminalIsComplete

\* Nothing has been printed at first.
LEMMA PrintInvInit == Init => PrintInv
<1> SUFFICES ASSUME Init PROVE PrintInv OBVIOUS
<1>1. StoreInv /\ pc[Shell] = "idle" /\ term = <<>> BY StoreInvInit DEF Init, Actors
<1> QED BY <1>1 DEF PrintInv, Printing, TerminalIsComplete

\* When only the shell dumps, every step keeps the invariant of printing.
LEMMA PrintInvStep ==
  ASSUME Tasks \subseteq {Shell}
  PROVE  PrintInv /\ [Next]_vars => PrintInv'
<1> SUFFICES ASSUME PrintInv, [Next]_vars PROVE PrintInv' OBVIOUS
<1>0. /\ StoreInv /\ TypeInv /\ TypeOK /\ Handler # Shell /\ Handler \in Actors
      /\ Shell \in Actors /\ Dumpers \subseteq Actors /\ Len(lens) \in Nat /\ Cap \in Nat
      /\ pc \in [Actors -> {"idle", "clear", "zero", "gen", "magic", "size", "crc",
                            "halted", "emit"}]
      /\ out \in Seq(Cell) /\ buf.data_size \in Nat
  BY MemoryAssumption DEF PrintInv, StoreInv, TypeInv, TypeOK, Dumpers, Actors
<1>1. StoreInv'
  <2>1. \A s, t \in Tasks : s = t OBVIOUS
  <2> QED BY <1>0, <2>1, StoreInvStep
<1>2. ASSUME NEW a \in Dumpers, (\E len \in StreamLens : StartDump(a, len)) \/ DumpStep(a)
      PROVE  PrintInv'
  <2>1. (\A b \in Actors \ {a} : pc'[b] = pc[b]) /\ (a = Handler => pc'[a] # "idle")
    BY <1>0, <1>2, OnlyOwnPc
  <2>2. Printing'
    <3>1. CASE a = Handler BY <2>1, <3>1 DEF Printing
    <3>2. CASE a # Handler
      <4>1. a = Shell BY <3>2 DEF Dumpers
      <4>2. pc'[Shell] # "emit"
        BY <1>0, <1>2, <3>2, <4>1
           DEF StartDump, DumpStep, ClearHeader, ClearData,
               WriteChunk, PassChunk, EndOfStream,
               SetMagic, SetSize, SetCrc, Return
      <4> QED BY <4>2 DEF Printing
    <3> QED BY <3>1, <3>2
  <2>3. TerminalIsComplete'
    <3>1. term' = term
      BY <1>2 DEF StartDump, DumpStep, ClearHeader, ClearData,
                  WriteChunk, PassChunk, EndOfStream,
                  SetMagic, SetSize, SetCrc
    <3>2. ASSUME NEW d \in 1..Len(lens) PROVE d \in 1..Len(lens') /\ Stream(d)' = Stream(d)
      <4>1. ASSUME NEW len \in StreamLens, StartDump(a, len)
            PROVE  d \in 1..Len(lens') /\ Stream(d)' = Stream(d)
        BY <1>0, <4>1, StreamStays
      <4>2. CASE DumpStep(a)
        <5>1. lens' = lens
          BY <4>2 DEF DumpStep, ClearHeader, ClearData, WriteChunk, PassChunk, EndOfStream,
                      SetMagic, SetSize, SetCrc
        <5> QED BY <5>1 DEF Stream
      <4> QED BY <1>2, <4>1, <4>2
    <3>3. ASSUME term' # <<>> PROVE \E d \in 1..Len(lens') : term' = Stream(d)'
      <4>1. PICK d \in 1..Len(lens) : term = Stream(d)
        BY <3>1, <3>3 DEF PrintInv, TerminalIsComplete
      <4> QED BY <3>1, <3>2, <4>1
    <3> QED BY <3>3 DEF TerminalIsComplete, Stream
  <2> QED BY <1>1, <2>2, <2>3 DEF PrintInv
<1>3. CASE StartPrint
  <2>1. /\ Accepted /\ out' = <<>> /\ buf' = buf /\ term' = term /\ lens' = lens
    BY <1>3 DEF StartPrint, buf
  <2>2. Accepted' BY <2>1 DEF Accepted, mcd_check_memory_coredump, crc32b, Content
  <2>3. Len(out') = 0 BY <2>1
  <2>4. Printing' BY <1>0, <2>1, <2>2, <2>3 DEF Printing
  <2>5. TerminalIsComplete' BY <2>1 DEF PrintInv, TerminalIsComplete, Stream
  <2> QED BY <1>1, <2>4, <2>5 DEF PrintInv
<1>4. CASE PrintByte
  <2>1. /\ out' = Append(out, buf.data[Len(out)]) /\ buf' = buf /\ term' = term /\ lens' = lens
        /\ pc' = pc /\ pc[Shell] = "emit" /\ pc[Handler] = "idle" /\ Len(out) < buf.data_size
    BY <1>0, <1>4 DEF PrintByte, buf, MayRun
  <2>2. Accepted' BY <2>1 DEF PrintInv, Printing, Accepted, mcd_check_memory_coredump,
                              crc32b, Content
  <2>3. \A k \in 1..Len(out) : out[k] = buf.data[k - 1] BY <2>1 DEF PrintInv, Printing
  <2>4. Len(out) \in 0..Cap-1 BY <1>0, <2>1 DEF TypeInv, PrintsWithinBuffer
  <2>5. buf.data[Len(out)] \in Cell BY <1>0, <2>4 DEF TypeOK
  <2>6. /\ Len(out') = Len(out) + 1 /\ out'[Len(out) + 1] = buf.data[Len(out)]
        /\ \A k \in 1..Len(out) : out'[k] = out[k]
    BY <1>0, <2>1, <2>5, AppendProperties
  <2>7. \A k \in 1..Len(out') : out'[k] = buf'.data[k - 1]
    BY <2>1, <2>3, <2>4, <2>6
  <2>8. Len(out') <= buf'.data_size BY <1>0, <2>1, <2>4, <2>6
  <2>9. Printing' BY <2>2, <2>7, <2>8 DEF Printing
  <2>10. TerminalIsComplete' BY <2>1 DEF PrintInv, TerminalIsComplete, Stream
  <2> QED BY <1>1, <2>9, <2>10 DEF PrintInv
<1>5. CASE EndPrint
  <2>1. /\ term' = out /\ lens' = lens /\ pc'[Shell] = "idle"
        /\ pc[Shell] = "emit" /\ pc[Handler] = "idle" /\ ~(Len(out) < buf.data_size)
    BY <1>0, <1>5 DEF EndPrint, MayRun
  <2>2. /\ Accepted /\ Len(out) = buf.data_size
        /\ \A k \in 1..Len(out) : out[k] = buf.data[k - 1]
    BY <1>0, <2>1, LenProperties DEF PrintInv, Printing
  <2>3. out = Content(buf.data_size)
    <3>1. out \in [1..Len(out) -> Cell] BY <1>0, LenProperties
    <3> QED BY <2>2, <3>1 DEF Content
  <2>4. \E d \in 1..Len(lens) : out = Stream(d)
    BY <1>0, <2>2, <2>3, InvAccepted DEF AcceptedIsComplete
  <2>5. TerminalIsComplete' BY <2>1, <2>4 DEF TerminalIsComplete, Stream
  <2> QED BY <1>1, <2>1, <2>5 DEF PrintInv, Printing
<1>6. ASSUME Reset \/ PowerLoss PROVE PrintInv'
  <2>1. pc'[Shell] = "idle" /\ term' = <<>> BY <1>0, <1>6 DEF Reset, PowerLoss, Restart
  <2> QED BY <1>1, <2>1 DEF PrintInv, Printing, TerminalIsComplete
<1>7. ASSUME Boot \/ UNCHANGED vars PROVE PrintInv'
  <2>1. buf' = buf /\ UNCHANGED <<lens, pc, out, term>> BY <1>7 DEF Boot, vars, buf
  <2>2. Printing' BY <2>1 DEF PrintInv, Printing, Accepted, mcd_check_memory_coredump,
                              crc32b, Content
  <2>3. TerminalIsComplete' BY <2>1 DEF PrintInv, TerminalIsComplete, Stream
  <2> QED BY <1>1, <2>2, <2>3 DEF PrintInv
<1> QED BY <1>2, <1>3, <1>4, <1>5, <1>6, <1>7 DEF Next, Dumpers

\* When no thread but the shell calls mcd_faultdump, every core file the
\* terminal shows is one complete dump, although mcd_dump_memory checks the
\* checksum only before it prints and a fault may cut the printing short.
THEOREM TerminalShowsCompleteDumps ==
  ASSUME Tasks \subseteq {Shell}
  PROVE  Spec => []TerminalIsComplete
<1>1. PrintInv => TerminalIsComplete BY DEF PrintInv
<1> QED BY <1>1, PrintInvInit, PrintInvStep, PTL DEF Spec

-----------------------------------------------------------------------------
(* MemoryStore implements DumpSlot when the shell is the only thread that  *)
(* dumps.                                                                  *)

(* The refinement mapping, as a function of the buffer, the sizes and the text *)
(* on the terminal.                                                            *)

StreamOf(l, d) == [k \in 1..l[d] |-> <<d, k - 1>>]
OriginIn(l, s) == IF \E d \in 1..Len(l) : s = StreamOf(l, d)
                  THEN CHOOSE d \in 1..Len(l) : s = StreamOf(l, d) ELSE Len(l) + 1
CellsOf(b, n) == [k \in 1..n |-> b.data[k - 1]]
AcceptedOf(b) ==
  b.magic /\ b.data_size > 0 /\ b.data_size <= Cap /\ b.crc32 = CellsOf(b, b.data_size)
SlotOf(b, l) == IF AcceptedOf(b) THEN OriginIn(l, b.crc32) ELSE 0
PrintedOf(t, l) == IF t = <<>> THEN 0 ELSE OriginIn(l, t)

Buffers == [magic : BOOLEAN, data_size : Nat, crc32 : Seq(Cell) \cup {Garbage},
            data : [0..Cap-1 -> Cell]]

\* These are the expressions the abstract variables are replaced with.
LEMMA MappingIs ==
  /\ Accepted <=> AcceptedOf(buf)
  /\ (IF Accepted THEN Origin(Content(buf.data_size)) ELSE 0) = SlotOf(buf, lens)
  /\ (IF term = <<>> THEN 0 ELSE Origin(term)) = PrintedOf(term, lens)
<1>1. Accepted <=> AcceptedOf(buf)
  BY DEF Accepted, AcceptedOf, mcd_check_memory_coredump, crc32b, Content, CellsOf
<1>2. ASSUME NEW s PROVE Origin(s) = OriginIn(lens, s)
  BY DEF Origin, OriginIn, Stream, StreamOf
<1>3. Accepted => Content(buf.data_size) = buf.crc32 BY DEF Accepted, crc32b
<1> QED BY <1>1, <1>2, <1>3 DEF SlotOf, PrintedOf

LEMMA MappingIsNext ==
  /\ (IF Accepted THEN Origin(Content(buf.data_size)) ELSE 0)' = SlotOf(buf', lens')
  /\ (IF term = <<>> THEN 0 ELSE Origin(term))' = PrintedOf(term', lens')
<1>1. Accepted' <=> AcceptedOf(buf')
  BY DEF Accepted, AcceptedOf, mcd_check_memory_coredump, crc32b, Content, CellsOf
<1>2. Origin(term)' = OriginIn(lens', term')
  BY DEF Origin, OriginIn, Stream, StreamOf
<1>3. Origin(Content(buf.data_size))' = OriginIn(lens', Content(buf.data_size)')
  BY DEF Origin, OriginIn, Stream, StreamOf
<1>4. Accepted' => Content(buf.data_size)' = buf'.crc32 BY DEF Accepted, crc32b
<1> QED BY <1>1, <1>2, <1>3, <1>4 DEF SlotOf, PrintedOf

\* No two dumps have the same core file.
LEMMA OriginOf ==
  ASSUME NEW l \in Seq(Nat \ {0}), NEW d \in 1..Len(l)
  PROVE  OriginIn(l, StreamOf(l, d)) = d
<1>1. ASSUME NEW e \in 1..Len(l), StreamOf(l, d) = StreamOf(l, e) PROVE e = d
  <2>1. l[d] \in Nat \ {0} /\ l[e] \in Nat \ {0} BY ElementOfSeq
  <2>2. StreamOf(l, d)[1] = <<d, 0>> BY <2>1 DEF StreamOf
  <2>3. StreamOf(l, e)[1] = <<e, 0>> BY <2>1 DEF StreamOf
  <2> QED BY <1>1, <2>2, <2>3
<1> QED BY <1>1 DEF OriginIn

\* An empty checksum is that of no dump.
LEMMA NotAccepted ==
  ASSUME NEW b \in Buffers, b.crc32 = <<>>
  PROVE  ~AcceptedOf(b)
<1>1. b.data_size \in Nat BY DEF Buffers
<1>2. ASSUME b.data_size > 0 PROVE CellsOf(b, b.data_size) # <<>>
  <2>1. 1 \in DOMAIN CellsOf(b, b.data_size) BY <1>1, <1>2 DEF CellsOf
  <2> QED BY <2>1
<1> QED BY <1>2 DEF AcceptedOf

\* More dumps do not change whose a core file is.
LEMMA OriginStays ==
  ASSUME NEW l \in Seq(Nat \ {0}), NEW len \in Nat \ {0}, NEW s,
         \E d \in 1..Len(l) : s = StreamOf(l, d)
  PROVE  OriginIn(Append(l, len), s) = OriginIn(l, s)
<1>1. PICK d \in 1..Len(l) : s = StreamOf(l, d) OBVIOUS
<1> DEFINE m == Append(l, len)
<1>2. m \in Seq(Nat \ {0}) /\ Len(m) = Len(l) + 1 /\ m[d] = l[d] /\ Len(l) \in Nat
  BY AppendProperties, LenProperties
<1> HIDE DEF m
<1>3. StreamOf(m, d) = StreamOf(l, d) BY <1>2 DEF StreamOf
<1>4. d \in 1..Len(m) BY <1>2
<1>5. OriginIn(l, s) = d BY <1>1, OriginOf
<1>6. OriginIn(m, s) = d BY <1>1, <1>2, <1>3, <1>4, OriginOf
<1> QED BY <1>5, <1>6 DEF m

-----------------------------------------------------------------------------
(* The invariant. *)

\* Whoever is dumping takes the dump begun last, which is in the buffer neither
\* before the header is cleared nor, until the checksum is stored, after it.
NotYetStored(a) ==
  InCharge(a) /\ Dumping(a) =>
    /\ dump[a] = Len(lens)
    /\ IF pc[a] = "clear" THEN buf.crc32 # StreamOf(lens, Len(lens)) ELSE buf.crc32 = <<>>

SlotInv == PrintInv /\ \A a \in Dumpers : NotYetStored(a)

\* What is known when it holds.
LEMMA SlotTypes ==
  ASSUME SlotInv
  PROVE  /\ TypeOK /\ StoreInv /\ buf \in Buffers /\ lens \in Seq(Nat \ {0})
         /\ Len(lens) \in Nat /\ Cap \in Nat /\ Handler # Shell /\ Dumpers \subseteq Actors
         /\ Handler \in Actors /\ Shell \in Actors
         /\ pc \in [Actors -> {"idle", "clear", "zero", "gen", "magic", "size", "crc",
                               "halted", "emit"}]
<1>1. TypeOK /\ StoreInv BY DEF SlotInv, PrintInv, StoreInv, TypeInv
<1>2. buf \in Buffers BY <1>1 DEF TypeOK, Buffers
<1>3. lens \in Seq(Nat \ {0})
  <2>1. lens \in Seq(StreamLens) /\ Len(lens) \in Nat BY <1>1, LenProperties DEF TypeOK
  <2>2. lens = [i \in 1..Len(lens) |-> lens[i]] BY <2>1
  <2>3. \A i \in 1..Len(lens) : lens[i] \in Nat \ {0} BY <1>1, LensType
  <2>4. lens \in [1..Len(lens) -> Nat \ {0}] BY <2>2, <2>3
  <2> QED BY <2>1, <2>4, SeqDef
<1> QED BY <1>1, <1>2, <1>3, LenProperties, MemoryAssumption DEF TypeOK, Dumpers, Actors

\* A buffer that is accepted holds a dump.
LEMMA SlotHolds ==
  ASSUME SlotInv, AcceptedOf(buf)
  PROVE  \E d \in 1..Len(lens) : buf.crc32 = StreamOf(lens, d) /\ SlotOf(buf, lens) = d
<1>1. Accepted BY MappingIs
<1>2. Content(buf.data_size) = buf.crc32 BY <1>1 DEF Accepted, crc32b
<1>3. PICK d \in 1..Len(lens) : buf.crc32 = Stream(d)
  BY <1>1, <1>2, SlotTypes, InvAccepted DEF AcceptedIsComplete
<1>4. buf.crc32 = StreamOf(lens, d) BY <1>3 DEF Stream, StreamOf
<1> QED BY <1>4, SlotTypes, OriginOf DEF SlotOf

-----------------------------------------------------------------------------
(* Steps of a dump. *)

\* A dump is begun: nothing else happens to the slot.
LEMMA SlotStart ==
  ASSUME SlotInv, NEW a \in Dumpers, NEW len \in StreamLens, StartDump(a, len)
  PROVE  /\ Len(lens') = Len(lens) + 1
         /\ SlotOf(buf', lens') = SlotOf(buf, lens)
         /\ PrintedOf(term', lens') = PrintedOf(term, lens)
         /\ buf'.crc32 # StreamOf(lens', Len(lens'))
<1>1. /\ lens \in Seq(Nat \ {0}) /\ len \in Nat \ {0} /\ Len(lens) \in Nat
      /\ buf' = buf /\ term' = term /\ lens' = Append(lens, len)
  BY SlotTypes, MemoryAssumption DEF StartDump, buf
<1>2. Len(lens') = Len(lens) + 1 BY <1>1, AppendProperties
<1>3. SlotOf(buf', lens') = SlotOf(buf, lens)
  <2>1. CASE AcceptedOf(buf)
    <3>1. \E d \in 1..Len(lens) : buf.crc32 = StreamOf(lens, d) BY <2>1, SlotHolds
    <3>2. OriginIn(lens', buf.crc32) = OriginIn(lens, buf.crc32) BY <1>1, <3>1, OriginStays
    <3> QED BY <1>1, <3>2 DEF SlotOf
  <2>2. CASE ~AcceptedOf(buf) BY <1>1, <2>2 DEF SlotOf
  <2> QED BY <2>1, <2>2
<1>4. PrintedOf(term', lens') = PrintedOf(term, lens)
  <2>1. CASE term # <<>>
    <3>1. \E d \in 1..Len(lens) : term = StreamOf(lens, d)
      BY <2>1 DEF SlotInv, PrintInv, TerminalIsComplete, Stream, StreamOf
    <3>2. OriginIn(lens', term) = OriginIn(lens, term) BY <1>1, <3>1, OriginStays
    <3> QED BY <1>1, <3>2 DEF PrintedOf
  <2>2. CASE term = <<>> BY <1>1, <2>2 DEF PrintedOf
  <2> QED BY <2>1, <2>2
<1>5. buf'.crc32 # StreamOf(lens', Len(lens'))
  <2> DEFINE n == Len(lens')
             new == StreamOf(lens', n)
  <2>1. lens' \in Seq(Nat \ {0}) /\ lens'[n] = len /\ n \in Nat
    BY <1>1, <1>2, AppendProperties
  <2>2. new[1] = <<n, 0>> /\ 1 \in DOMAIN new /\ new \in [1..len -> Nat \X Nat]
    BY <1>1, <2>1 DEF StreamOf
  <2> HIDE DEF new, n
  <2>3. new # <<>>
    <3>1. DOMAIN <<>> = {} OBVIOUS
    <3> QED BY <2>2, <3>1
  <2>4. new # Garbage
    <3>1. new \in [1..len -> (Nat \X Nat) \cup {Blank, Garbage}] BY <2>2
    <3>2. new \in Seq((Nat \X Nat) \cup {Blank, Garbage}) BY <1>1, <3>1, SeqDef
    <3> QED BY <3>2, MemoryAssumption
  <2>5. ASSUME NEW d \in 1..Len(lens) PROVE new # Stream(d)
    <3>1. lens[d] \in Nat \ {0} BY <2>5, SlotTypes, LensType
    <3>2. Stream(d)[1] = <<d, 0>> BY <3>1 DEF Stream
    <3>3. d # n BY <1>1, <1>2 DEF n
    <3>4. <<n, 0>> # <<d, 0>> BY <3>3
    <3> QED BY <2>2, <3>2, <3>4
  <2>6. buf.crc32 \in {<<>>, Garbage} \cup {Stream(d) : d \in 1..Len(lens)}
    BY SlotTypes DEF StoreInv, GenuineCrc
  <2>7. buf.crc32 # new BY <2>3, <2>4, <2>5, <2>6
  <2> QED BY <1>1, <2>7 DEF new, n
<1> QED BY <1>2, <1>3, <1>4, <1>5

\* What a step of a dump does to the checksum: the header is cleared, left, or
\* the checksum of the whole core file is stored, and only then is the dump kept.
LEMMA SlotDumpStep ==
  ASSUME SlotInv, NEW a \in Dumpers, DumpStep(a)
  PROVE  /\ lens' = lens /\ term' = term /\ dump' = dump /\ dump[a] = Len(lens)
         /\ Len(lens) \in 1..Len(lens)
         /\ \/ pc[a] = "clear" /\ buf'.crc32 = <<>> /\ buf.crc32 # StreamOf(lens, Len(lens))
            \/ pc[a] # "clear" /\ buf.crc32 = <<>> /\ buf'.crc32 = <<>>
            \/ /\ pc[a] = "crc" /\ buf.crc32 = <<>> /\ ~Dumping(a)'
               /\ buf'.crc32 = StreamOf(lens, Len(lens))
         /\ Dumping(a)' => pc'[a] # "clear"
<1>1. /\ MayRun(a) /\ Dumping(a) /\ lens' = lens /\ term' = term /\ dump' = dump
  BY DEF DumpStep, ClearHeader, ClearData,
         WriteChunk, PassChunk, EndOfStream, SetMagic, SetSize, SetCrc,
         Dumping
<1>2. /\ TypeOK /\ TypeInv /\ a \in Actors
      /\ pc \in [Actors -> {"idle", "clear", "zero", "gen", "magic", "size", "crc",
                            "halted", "emit"}]
      /\ buf \in [magic : BOOLEAN, data_size : Nat, crc32 : Seq(Cell) \cup {Garbage},
                  data : [0..Cap-1 -> Cell]]
  BY SlotTypes DEF StoreInv, Buffers
<1>3. InCharge(a) BY <1>1 DEF MayRun, InCharge
<1>4. Progress(a) BY <1>3, SlotTypes DEF StoreInv
<1>5. /\ dump[a] = Len(lens)
      /\ pc[a] = "clear" => buf.crc32 # StreamOf(lens, Len(lens))
      /\ pc[a] # "clear" => buf.crc32 = <<>>
  BY <1>1, <1>3 DEF SlotInv, NotYetStored
<1>6. dump[a] \in 1..Len(lens) BY <1>1, <1>4 DEF Progress
<1>7. CASE ClearHeader(a)
  <2>1. pc[a] = "clear" /\ buf'.crc32 = <<>> /\ pc'[a] = "zero"
    BY <1>2, <1>7 DEF ClearHeader, buf
  <2> QED BY <1>1, <1>5, <1>6, <2>1
<1>8. CASE ClearData(a) \/ EndOfStream(a) \/ SetMagic(a) \/ SetSize(a)
  <2>1. pc[a] # "clear" /\ buf'.crc32 = buf.crc32 /\ pc'[a] # "clear"
    BY <1>2, <1>8 DEF ClearData, EndOfStream, SetMagic, SetSize, Return, buf
  <2> QED BY <1>1, <1>5, <1>6, <2>1
<1>9. ASSUME NEW n \in 1..Cap+1, WriteChunk(a, n)
      PROVE  pc[a] # "clear" /\ buf'.crc32 = buf.crc32 /\ pc'[a] # "clear"
  <2>1. dump[a] \in Nat /\ pos[a] \in Nat /\ n \in Nat
    BY <1>2, MemoryAssumption DEF TypeOK
  <2>2. buf' = [buf EXCEPT !.data = buf'.data]
    BY <1>2, <1>9, <2>1, WriteType DEF WriteChunk, PassChunk
  <2> QED BY <1>2, <1>9, <2>2 DEF WriteChunk, PassChunk
<1>10. CASE SetCrc(a)
  <2>1. /\ pc[a] = "crc" /\ buf'.crc32 = crc32b(ctx.offset) /\ pc'[a] \in {"idle", "halted"}
    BY <1>2, <1>10 DEF SetCrc, Return, buf
  <2>2. HoldsStream(a) /\ pos[a] = lens[dump[a]] BY <1>1, <1>4, <2>1 DEF Progress
  <2>3. ctx.offset = lens[dump[a]] /\ ctx.offset \in 0..Cap /\ Cap \in Nat
    BY <1>2, <2>2, MemoryAssumption DEF HoldsStream, TypeOK
  <2>4. \A k \in 1..ctx.offset : buf.data[k - 1] = <<dump[a], k - 1>>
    BY <2>2, <2>3 DEF HoldsStream
  <2>5. crc32b(ctx.offset) = StreamOf(lens, dump[a])
    BY <2>3, <2>4 DEF crc32b, Content, StreamOf
  <2>6. ~Dumping(a)' BY <2>1 DEF Dumping
  <2> QED BY <1>1, <1>5, <1>6, <2>1, <2>5, <2>6
<1>11. CASE \E n \in 1..Cap+1 : WriteChunk(a, n)
  <2>1. pc[a] # "clear" /\ buf'.crc32 = buf.crc32 /\ pc'[a] # "clear" BY <1>9, <1>11
  <2> QED BY <1>1, <1>5, <1>6, <2>1
<1> QED BY <1>7, <1>8, <1>10, <1>11 DEF DumpStep

-----------------------------------------------------------------------------
(* The invariant holds. *)

LEMMA SlotInvInit == Init => SlotInv
<1> SUFFICES ASSUME Init PROVE SlotInv OBVIOUS
<1>1. PrintInv BY PrintInvInit
<1>2. ASSUME NEW a \in Dumpers PROVE ~Dumping(a) BY DEF Init, Dumpers, Actors, Dumping
<1> QED BY <1>1, <1>2 DEF SlotInv, NotYetStored

LEMMA SlotInvStep ==
  ASSUME Tasks \subseteq {Shell}
  PROVE  SlotInv /\ [Next]_vars => SlotInv'
<1> SUFFICES ASSUME SlotInv, [Next]_vars PROVE SlotInv' OBVIOUS
<1>0. /\ TypeOK /\ Handler # Shell /\ Dumpers \subseteq Actors
      /\ Handler \in Actors /\ Shell \in Actors
      /\ pc \in [Actors -> {"idle", "clear", "zero", "gen", "magic", "size", "crc",
                            "halted", "emit"}]
      /\ dump \in [Actors -> 0..Len(lens)]
  BY SlotTypes DEF TypeOK
<1>1. PrintInv' BY PrintInvStep DEF SlotInv
<1>2. ASSUME NEW a \in Dumpers, (\E len \in StreamLens : StartDump(a, len)) \/ DumpStep(a)
      PROVE  SlotInv'
  <2>1. MayRun(a) /\ (\A b \in Actors \ {a} : pc'[b] = pc[b]) /\ (a = Handler => pc'[a] # "idle")
    BY <1>0, <1>2, OnlyOwnPc
  <2>2. NotYetStored(a)'
    <3>1. CASE DumpStep(a)
      <4>1. /\ lens' = lens /\ dump' = dump /\ dump[a] = Len(lens)
            /\ Dumping(a)' => pc'[a] # "clear" /\ buf'.crc32 = <<>>
        BY <3>1, SlotDumpStep
      <4> QED BY <4>1 DEF NotYetStored
    <3>2. ASSUME NEW len \in StreamLens, StartDump(a, len) PROVE NotYetStored(a)'
      <4>1. pc'[a] = "clear" /\ dump'[a] = Len(lens) + 1
        BY <1>0, <3>2 DEF StartDump
      <4>2. Len(lens') = Len(lens) + 1 /\ buf'.crc32 # StreamOf(lens', Len(lens'))
        BY <3>2, SlotStart
      <4> QED BY <4>1, <4>2 DEF NotYetStored
    <3> QED BY <1>2, <3>1, <3>2
  <2>3. ASSUME NEW b \in Dumpers, b # a PROVE NotYetStored(b)'
    <3>1. CASE b = Handler
      <4>1. pc'[b] = "idle" BY <1>0, <2>1, <2>3, <3>1 DEF MayRun
      <4> QED BY <4>1 DEF NotYetStored, Dumping
    <3>2. CASE b # Handler
      <4>1. a = Handler BY <2>3, <3>2 DEF Dumpers
      <4> QED BY <2>1, <3>2, <4>1 DEF NotYetStored, InCharge
    <3> QED BY <3>1, <3>2
  <2> QED BY <1>1, <2>2, <2>3 DEF SlotInv
<1>3. ASSUME UNCHANGED <<coredump_memory_buffer, lens, dump>>,
             \A a \in Dumpers : ~Dumping(a)' \/ pc'[a] = pc[a],
             pc'[Handler] = pc[Handler]
      PROVE  SlotInv'
  <2>1. ASSUME NEW a \in Dumpers PROVE NotYetStored(a)'
    <3>1. NotYetStored(a) BY DEF SlotInv
    <3>2. CASE ~Dumping(a)' BY <3>2 DEF NotYetStored
    <3>3. CASE pc'[a] = pc[a]
      <4>1. buf' = buf BY <1>3 DEF buf
      <4>2. (InCharge(a)' <=> InCharge(a)) /\ (Dumping(a)' <=> Dumping(a))
        BY <1>3, <3>3 DEF InCharge, Dumping
      <4> QED BY <1>3, <3>1, <3>3, <4>1, <4>2 DEF NotYetStored
    <3> QED BY <1>3, <3>2, <3>3
  <2> QED BY <1>1, <2>1 DEF SlotInv
<1>4. ASSUME StartPrint \/ PrintByte \/ EndPrint PROVE SlotInv'
  <2>1. UNCHANGED <<coredump_memory_buffer, lens, dump>>
    BY <1>4 DEF StartPrint, PrintByte, EndPrint
  <2>2. /\ \A a \in Actors : pc'[a] = pc[a] \/ pc'[a] \in {"idle", "emit"}
        /\ pc'[Handler] = pc[Handler]
    BY <1>0, <1>4 DEF StartPrint, PrintByte, EndPrint
  <2> QED BY <1>0, <1>3, <2>1, <2>2 DEF Dumping
<1>5. ASSUME Reset \/ PowerLoss PROVE SlotInv'
  <2>1. \A a \in Dumpers : pc'[a] = "idle" BY <1>0, <1>5 DEF Reset, PowerLoss, Restart
  <2>2. \A a \in Dumpers : NotYetStored(a)' BY <2>1 DEF NotYetStored, Dumping
  <2> QED BY <1>1, <2>2 DEF SlotInv
<1>6. CASE Boot \/ UNCHANGED vars BY <1>3, <1>6 DEF Boot, vars
<1> QED BY <1>2, <1>4, <1>5, <1>6 DEF Next, Dumpers

-----------------------------------------------------------------------------
(* Restarts. *)

\* A loss of power leaves a dump that is accepted or a buffer that is not: a
\* garbled field or cell does not pass for what it was.
LEMMA PowerLossKeepsOrLoses ==
  ASSUME SlotInv, TypeOK', PowerLoss
  PROVE  lens' = lens /\ SlotOf(buf', lens') \in {SlotOf(buf, lens), 0}
<1>1. lens' = lens BY DEF PowerLoss, Restart
<1>2. /\ buf \in Buffers /\ buf' \in Buffers /\ lens \in Seq(Nat \ {0}) /\ Cap \in Nat
      /\ GenuineCrc /\ TypeOK
  BY SlotTypes DEF TypeOK, Buffers, StoreInv
<1>3. PICK m \in {buf.magic, FALSE}, s \in {buf.data_size} \cup GarbledSizes,
           c \in {buf.crc32, Garbage}, lost \in {{}, {0}, 0..Cap-1} :
        buf' = [magic |-> m, data_size |-> s, crc32 |-> c,
                data |-> [k \in 0..Cap-1 |-> IF k \in lost THEN Garbage ELSE buf.data[k]]]
  BY DEF PowerLoss, buf
<1>4. CASE ~AcceptedOf(buf') BY <1>1, <1>4 DEF SlotOf
<1>5. CASE AcceptedOf(buf')
  <2> DEFINE cells == CellsOf(buf', s)
  <2>1. /\ buf'.magic = m /\ buf'.data_size = s /\ buf'.crc32 = c
        /\ \A k \in 0..Cap-1 : buf'.data[k] = IF k \in lost THEN Garbage ELSE buf.data[k]
    BY <1>3
  <2>2. m /\ s > 0 /\ s <= Cap /\ c = cells /\ s \in Nat
    BY <1>2, <1>5, <2>1 DEF AcceptedOf, Buffers
  <2>3. DOMAIN cells = 1..s /\ 1 \in DOMAIN cells /\ cells \in [1..s -> Cell]
    <3>1. \A k \in 1..s : buf'.data[k - 1] \in Cell BY <1>2, <2>2 DEF Buffers
    <3> QED BY <2>2, <3>1 DEF CellsOf
  <2> HIDE DEF cells
  <2>4. c # Garbage
    <3>1. cells \in Seq(Cell) BY <2>2, <2>3, SeqDef
    <3> QED BY <2>2, <3>1, MemoryAssumption DEF Cell
  <2>5. c # <<>>
    <3>1. DOMAIN <<>> = {} OBVIOUS
    <3> QED BY <2>2, <2>3, <3>1
  <2>6. PICK d \in 1..Len(lens) : c = Stream(d)
    <3>1. c = buf.crc32 BY <2>4
    <3> QED BY <1>2, <2>4, <2>5, <3>1 DEF GenuineCrc
  <2>7. /\ s = lens[d] /\ lens[d] \in StreamLens
        /\ \A k \in 1..s : c[k] = <<d, k - 1>>
    <3>1. lens[d] \in Nat \ {0} /\ lens[d] \in StreamLens
      BY <1>2, <2>6, LensType, ElementOfSeq DEF TypeOK
    <3>2. DOMAIN c = 1..lens[d] BY <2>6 DEF Stream
    <3>3. 1..s = 1..lens[d] BY <2>2, <2>3, <3>2
    <3>4. s = lens[d] BY <2>2, <3>1, <3>3
    <3> QED BY <2>6, <3>1, <3>4 DEF Stream
  <2>8. m = buf.magic /\ c = buf.crc32 /\ s = buf.data_size
    <3>1. s \notin GarbledSizes BY <2>7, MemoryAssumption
    <3> QED BY <2>2, <2>4, <3>1
  <2>9. \A k \in 1..s : cells[k] = buf.data[k - 1]
    <3> TAKE k \in 1..s
    <3>1. k - 1 \in 0..Cap-1 BY <1>2, <2>2
    <3>2. cells[k] = buf'.data[k - 1] BY <2>2 DEF cells, CellsOf
    <3>3. cells[k] = <<d, k - 1>> BY <2>2, <2>7
    <3>4. <<d, k - 1>> # Garbage
      <4>1. <<d, k - 1>> \in Nat \X Nat BY <2>2
      <4> QED BY <4>1, MemoryAssumption
    <3> QED BY <2>1, <3>1, <3>2, <3>3, <3>4
  <2>10. cells = CellsOf(buf, s) BY <2>3, <2>9 DEF CellsOf
  <2>11. AcceptedOf(buf) BY <2>2, <2>8, <2>10 DEF AcceptedOf
  <2> QED BY <1>1, <1>5, <2>1, <2>8, <2>11 DEF SlotOf
<1> QED BY <1>1, <1>4, <1>5

-----------------------------------------------------------------------------
(* The refinement. *)

\* The steps of the slot, in terms of the mapping.
LEMMA SlotSteps ==
  ASSUME \/ /\ Len(lens') = Len(lens) + 1
            /\ SlotOf(buf', lens') = SlotOf(buf, lens)
            /\ PrintedOf(term', lens') = PrintedOf(term, lens)
         \/ /\ SlotOf(buf, lens) # Len(lens) /\ SlotOf(buf', lens') = 0
            /\ lens' = lens /\ PrintedOf(term', lens') = PrintedOf(term, lens)
         \/ /\ SlotOf(buf, lens) = 0 /\ SlotOf(buf', lens') = Len(lens)
            /\ lens' = lens /\ PrintedOf(term', lens') = PrintedOf(term, lens)
         \/ /\ SlotOf(buf, lens) # 0 /\ PrintedOf(term', lens') = SlotOf(buf, lens)
            /\ SlotOf(buf', lens') = SlotOf(buf, lens) /\ lens' = lens
         \/ /\ SlotOf(buf', lens') \in {SlotOf(buf, lens), 0} /\ PrintedOf(term', lens') = 0
            /\ lens' = lens
         \/ /\ SlotOf(buf', lens') = SlotOf(buf, lens) /\ lens' = lens
            /\ PrintedOf(term', lens') = PrintedOf(term, lens)
  PROVE  [D!Next]_(D!vars)
BY MappingIs, MappingIsNext
   DEF D!Next, D!Begin, D!Drop, D!Commit, D!Show, D!Restart, D!vars

LEMMA SlotInit == Init => D!Init
<1> SUFFICES ASSUME Init PROVE D!Init OBVIOUS
<1>1. ~buf.magic /\ Len(lens) = 0 /\ term = <<>> BY DEF Init, buf
<1>2. ~Accepted BY <1>1 DEF Accepted, mcd_check_memory_coredump
<1> QED BY <1>1, <1>2 DEF D!Init

LEMMA StepIsSlotStep ==
  ASSUME Tasks \subseteq {Shell}, SlotInv, SlotInv', [Next]_vars
  PROVE  [D!Next]_(D!vars)
<1>0. /\ buf \in Buffers /\ buf' \in Buffers /\ Len(lens) \in Nat
      /\ lens \in Seq(Nat \ {0}) /\ TypeOK /\ TypeOK'
  <2>1. TypeOK' BY DEF SlotInv, PrintInv, StoreInv, TypeInv
  <2> QED BY <2>1, SlotTypes DEF TypeOK, Buffers
<1>1. ASSUME NEW a \in Dumpers, NEW len \in StreamLens, StartDump(a, len)
      PROVE  [D!Next]_(D!vars)
  BY <1>1, SlotStart, SlotSteps
<1>2. ASSUME NEW a \in Dumpers, DumpStep(a) PROVE [D!Next]_(D!vars)
  <2>1. /\ lens' = lens /\ PrintedOf(term', lens') = PrintedOf(term, lens)
        /\ Len(lens) \in 1..Len(lens)
    BY <1>2, SlotDumpStep
  <2>2. CASE buf'.crc32 = <<>> /\ buf.crc32 # StreamOf(lens, Len(lens))
    <3>1. SlotOf(buf', lens') = 0 BY <1>0, <2>2, NotAccepted DEF SlotOf
    <3>2. SlotOf(buf, lens) # Len(lens)
      <4>1. CASE AcceptedOf(buf)
        <5>1. PICK d \in 1..Len(lens) : buf.crc32 = StreamOf(lens, d) /\ SlotOf(buf, lens) = d
          BY <4>1, SlotHolds
        <5> QED BY <2>2, <5>1
      <4>2. CASE ~AcceptedOf(buf) BY <1>0, <2>1, <4>2 DEF SlotOf
      <4> QED BY <4>1, <4>2
    <3> QED BY <2>1, <3>1, <3>2, SlotSteps
  <2>3. CASE buf.crc32 = <<>> /\ buf'.crc32 = <<>>
    <3>1. SlotOf(buf', lens') = 0 /\ SlotOf(buf, lens) = 0
      BY <1>0, <2>3, NotAccepted DEF SlotOf
    <3> QED BY <2>1, <3>1, SlotSteps
  <2>4. CASE buf.crc32 = <<>> /\ buf'.crc32 = StreamOf(lens, Len(lens))
    <3>1. SlotOf(buf, lens) = 0 BY <1>0, <2>4, NotAccepted DEF SlotOf
    <3>2. SlotOf(buf', lens') \in {0, Len(lens)}
      <4>1. OriginIn(lens, StreamOf(lens, Len(lens))) = Len(lens) BY <1>0, <2>1, OriginOf
      <4> QED BY <2>1, <2>4, <4>1 DEF SlotOf
    <3> QED BY <2>1, <3>1, <3>2, SlotSteps
  <2> QED BY <1>2, <2>2, <2>3, <2>4, SlotDumpStep
<1>3. CASE StartPrint \/ PrintByte \/ Boot \/ UNCHANGED vars
  <2>1. buf' = buf /\ lens' = lens /\ term' = term
    BY <1>3 DEF StartPrint, PrintByte, Boot, vars, buf
  <2> QED BY <2>1, SlotSteps
<1>4. CASE EndPrint
  <2>1. /\ term' = out /\ lens' = lens /\ buf' = buf
        /\ pc[Shell] = "emit" /\ pc[Handler] = "idle" /\ ~(Len(out) < buf.data_size)
    BY <1>4, SlotTypes DEF EndPrint, MayRun, buf
  <2>2. /\ Accepted /\ Len(out) = buf.data_size /\ out \in Seq(Cell)
        /\ \A k \in 1..Len(out) : out[k] = buf.data[k - 1]
    BY <1>0, <2>1, LenProperties DEF SlotInv, PrintInv, Printing, TypeOK, Buffers
  <2>3. out = buf.crc32
    <3>1. out \in [1..Len(out) -> Cell] BY <2>2, LenProperties
    <3>2. out = Content(buf.data_size) BY <2>2, <3>1 DEF Content
    <3> QED BY <2>2, <3>2 DEF Accepted, crc32b
  <2>4. AcceptedOf(buf) BY <2>2, MappingIs
  <2>5. out # <<>> BY <1>0, <2>3, <2>4, NotAccepted
  <2>6. PrintedOf(term', lens') = SlotOf(buf, lens)
    BY <2>1, <2>3, <2>4, <2>5 DEF PrintedOf, SlotOf
  <2>7. SlotOf(buf, lens) # 0
    <3>1. PICK d \in 1..Len(lens) : buf.crc32 = StreamOf(lens, d) /\ SlotOf(buf, lens) = d
      BY <2>4, SlotHolds
    <3> QED BY <3>1
  <2> QED BY <2>1, <2>6, <2>7, SlotSteps
<1>5. CASE Reset
  <2>1. buf' = buf /\ lens' = lens /\ term' = <<>> BY <1>5 DEF Reset, Restart, buf
  <2>2. PrintedOf(term', lens') = 0 BY <2>1 DEF PrintedOf
  <2> QED BY <2>1, <2>2, SlotSteps
<1>6. CASE PowerLoss
  <2>1. lens' = lens /\ SlotOf(buf', lens') \in {SlotOf(buf, lens), 0}
    BY <1>0, <1>6, PowerLossKeepsOrLoses
  <2>2. PrintedOf(term', lens') = 0 BY <1>6 DEF PowerLoss, Restart, PrintedOf
  <2> QED BY <2>1, <2>2, SlotSteps
<1> QED BY <1>1, <1>2, <1>3, <1>4, <1>5, <1>6 DEF Next, Dumpers

\* When no thread but the shell dumps, the memory output implements the slot: a
\* dump is given up only for a newer one or for a loss of power, only the dump
\* begun last is ever kept, and what mcd_dump_memory prints is what is kept.
THEOREM SlotIsImplemented ==
  ASSUME Tasks \subseteq {Shell}
  PROVE  Spec => ImplementsDumpSlot
<1>1. Init => D!Init BY SlotInit
<1>2. Init => SlotInv BY SlotInvInit
<1>3. SlotInv /\ [Next]_vars => SlotInv' BY SlotInvStep
<1>4. SlotInv /\ SlotInv' /\ [Next]_vars => [D!Next]_(D!vars) BY StepIsSlotStep
<1> QED BY <1>1, <1>2, <1>3, <1>4, PTL DEF Spec, ImplementsDumpSlot, D!Spec
=============================================================================
