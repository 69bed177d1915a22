--------------------------- MODULE FileSaveProofs ---------------------------
(***************************************************************************)
(* Theorems about FileSave, for any sizes of core files and any number of  *)
(* dumps and saves.                                                        *)
(***************************************************************************)
EXTENDS FileSave, SequenceTheorems, TLAPS

\* The shell is between the checks of the buffer and the memset that clears it.
Saving == pc \in {"prepare", "write", "close", "clear"}

\* The file is open.
Writing == pc \in {"write", "close"}

\* A dump is being taken, and its bytes follow from its size.
DumpBegun == pc = "dumping" => Len(lens) > 0

\* What write() was asked for is in the buffer, and what is stored of it is in
\* the file.
WriteInBounds ==
  Writing => want = Len(buffer) /\ stored <= Len(files[name])

TypeInv == TypeOK /\ DumpBegun /\ WriteInBounds

-----------------------------------------------------------------------------
(* Core files. *)

\* The core file of a dump is a sequence of bytes.
LEMMA StreamType ==
  ASSUME lens \in Seq(StreamLens), NEW d \in 1..Len(lens)
  PROVE  /\ Stream(d) \in Seq(Byte) /\ Len(Stream(d)) = lens[d] /\ lens[d] \in Nat \ {0}
         /\ \A k \in 1..lens[d] : Stream(d)[k] = <<d, k - 1>>
<1>1. lens[d] \in Nat \ {0} BY ElementOfSeq, FileSaveAssumption
<1>2. \A k \in 1..lens[d] : <<d, k - 1>> \in Byte BY <1>1 DEF Byte
<1> QED BY <1>1, <1>2 DEF Stream

\* A dump that is begun leaves the core files of the others as they are.
LEMMA StreamsStay ==
  ASSUME lens \in Seq(StreamLens), NEW len \in StreamLens, lens' = Append(lens, len)
  PROVE  /\ lens' \in Seq(StreamLens) /\ Len(lens') = Len(lens) + 1
         /\ \A d \in 1..Len(lens) : Stream(d)' = Stream(d)
         /\ \A d : d = Len(lens) + 1 => Stream(d)' = [k \in 1..len |-> <<d, k - 1>>]
<1>1. /\ lens' \in Seq(StreamLens) /\ Len(lens') = Len(lens) + 1
      /\ \A d \in 1..Len(lens) : lens'[d] = lens[d]
      /\ lens'[Len(lens) + 1] = len
  BY AppendProperties
<1> QED BY <1>1 DEF Stream

-----------------------------------------------------------------------------
(* Types. *)

LEMMA TypeInit == Init => TypeInv
BY FileSaveAssumption DEF Init, TypeInv, TypeOK, DumpBegun, WriteInBounds, Writing

\* The name of a file is a number.
LEMMA NameType ==
  ASSUME TypeInv, NEW n \in 0..MaxSaves, create_coredump_filename(n)
  PROVE  n \in Nat /\ clock' \in Nat /\ counter' \in Nat
<1>1. CASE HasClock
  <2>1. PICK gap \in MinGap..1 : clock' = clock + gap BY <1>1 DEF create_coredump_filename
  <2> QED BY <1>1, <2>1, FileSaveAssumption
          DEF create_coredump_filename, TypeInv, TypeOK
<1>2. CASE ~HasClock
  BY <1>2, FileSaveAssumption DEF create_coredump_filename, TypeInv, TypeOK
<1> QED BY <1>1, <1>2

LEMMA TypeStep == TypeInv /\ [Next]_vars => TypeInv'
<1> SUFFICES ASSUME TypeInv, [Next]_vars PROVE TypeInv'
  OBVIOUS
<1> USE DEF TypeInv, TypeOK, DumpBegun, WriteInBounds, Writing
<1>1. ASSUME NEW len \in StreamLens, BeginDump(len) PROVE TypeInv'
  BY <1>1, StreamsStay DEF BeginDump
<1>2. ASSUME NEW len \in StreamLens, Fault(len) PROVE TypeInv'
  <2>1. lens' \in Seq(StreamLens) /\ Len(lens') = Len(lens) + 1
    BY <1>2, StreamsStay DEF Fault
  <2>2. len \in Nat BY FileSaveAssumption
  <2>3. \A k \in 1..len : <<Len(lens) + 1, k - 1>> \in Byte BY <2>2 DEF Byte
  <2>4. buffer' \in Seq(Byte) BY <1>2, <2>2, <2>3 DEF Fault
  <2> QED BY <1>2, <2>1, <2>4 DEF Fault
<1>3. CASE FinishDump
  BY <1>3, StreamType DEF FinishDump
<1>4. CASE StartSave
  BY <1>4 DEF StartSave
<1>5. ASSUME NEW n \in 0..MaxSaves, OpenFile(n) PROVE TypeInv'
  <2>1. n \in Nat /\ clock' \in Nat /\ counter' \in Nat BY <1>5, NameType DEF OpenFile
  <2>2. /\ DOMAIN files' = DOMAIN files \cup {n}
        /\ \A m \in DOMAIN files' : files'[m] \in Seq(Byte)
    BY <1>5 DEF OpenFile
  <2>3. Len(buffer) \in Nat /\ Len(files'[n]) \in Nat BY <2>2
  <2> QED BY <1>5, <2>1, <2>2, <2>3 DEF OpenFile
<1>6. ASSUME NEW n \in 0..MaxSaves, PrepareFails(n) PROVE TypeInv'
  <2>1. CASE UNCHANGED <<clock, counter, name>> BY <1>6, <2>1 DEF PrepareFails
  <2>2. CASE create_coredump_filename(n) /\ name' = n
    BY <1>6, <2>2, NameType DEF PrepareFails
  <2> QED BY <1>6, <2>1, <2>2 DEF PrepareFails
<1>7. CASE StoreByte
  <2> DEFINE old == files[name]
             len == IF stored < Len(old) THEN Len(old) ELSE stored + 1
             new == [k \in 1..len |-> IF k = stored + 1 THEN buffer[k] ELSE old[k]]
  <2>1. name \in DOMAIN files /\ old \in Seq(Byte) BY <1>7 DEF StoreByte
  <2>2. len \in Nat /\ stored + 1 \in 1..Len(buffer) /\ stored + 1 <= len
    BY <1>7, <2>1 DEF StoreByte
  <2>3. \A k \in 1..len : k # stored + 1 => k \in 1..Len(old)
    BY <1>7, <2>1, <2>2 DEF StoreByte
  <2>4. \A k \in 1..len : new[k] \in Byte BY <2>1, <2>2, <2>3, ElementOfSeq
  <2>5. new \in Seq(Byte) /\ Len(new) = len
    <3>1. new \in [1..len -> Byte] BY <2>4
    <3> HIDE DEF new, len
    <3> QED BY <2>2, <3>1
  <2>6. DOMAIN files' = DOMAIN files /\ files'[name] = new
        /\ \A n \in DOMAIN files : n # name => files'[n] = files[n]
    BY <1>7, <2>1 DEF StoreByte
  <2> QED BY <1>7, <2>1, <2>2, <2>5, <2>6 DEF StoreByte
<1>8. CASE WriteReturns
  BY <1>8 DEF WriteReturns
<1>9. CASE WriteFails
  BY <1>9 DEF WriteFails
<1>10. CASE ClearBuffer
  BY <1>10 DEF ClearBuffer
<1>11. CASE Reset
  BY <1>11 DEF Reset, Restart
<1>12. CASE PowerLoss
  BY <1>12, LenProperties DEF PowerLoss, Restart
<1>13. CASE WriteByte
  BY <1>13 DEF WriteByte
<1>14. CASE CloseFile
  BY <1>14 DEF CloseFile
<1>15. CASE UNCHANGED vars
  BY <1>15 DEF vars
<1> HIDE DEF TypeInv, TypeOK, DumpBegun, WriteInBounds, Writing
<1> QED BY <1>1, <1>2, <1>3, <1>4, <1>5, <1>6, <1>7, <1>8, <1>9, <1>10, <1>11, <1>12,
           <1>13, <1>14, <1>15 DEF Next, SaveStep

\* Every variable has its type: in particular write() reads no byte behind the
\* dump in the buffer, and the command writes only to a file that it has opened
\* (mcd_dump_filesystem).
THEOREM FilesTyped == Spec => []TypeOK
<1>1. TypeInv => TypeOK BY DEF TypeInv
<1> QED BY <1>1, TypeInit, TypeStep, PTL DEF Spec

-----------------------------------------------------------------------------
(* What is in the files, when every save gets a name of its own. *)

\* Saves are at least a second apart, and the clock that names them is not lost.
NewNames == HasClock /\ MinGap = 1

\* What the buffer holds is the dump finished last.
BufferIsLatest == buffer # <<>> => latest # 0 /\ buffer = Stream(latest)

\* The command goes on only with a buffer that has passed its checks.
SavesValidBuffer == Saving => buffer # <<>>

\* No file has a name that is still to come.
NamesArePast == \A n \in DOMAIN files : n <= clock

\* The file that is written is as long as what was stored, and holds that.
WritesNewFile ==
  Writing => /\ Len(files[name]) = stored
             /\ \A k \in 1..stored : files[name][k] = buffer[k]

FilesInv ==
  /\ TypeInv /\ BufferIsLatest /\ SavesValidBuffer /\ NamesArePast /\ WritesNewFile
  /\ FileHoldsOneDump

\* The file that is written is not one that was reported before.
WritesUnreported == Writing => \A r \in reported : r.name # name

\* A file is closed without an error when write() has taken the whole dump.
ClosesWholeFile == pc = "close" => done = want

\* A file that was reported, whose buffer is about to be cleared, is complete.
ClearsSavedDump == pc = "clear" => name \in DOMAIN files /\ files[name] = buffer

SaveInv ==
  /\ FilesInv /\ WritesUnreported /\ ClosesWholeFile /\ ClearsSavedDump
  /\ ReportedIsSaved /\ LatestIsKept

\* Names come from the clock, and each is later than the one before.
LEMMA NameIsNew ==
  ASSUME NewNames, FilesInv, NEW n \in 0..MaxSaves, create_coredump_filename(n)
  PROVE  n = clock + 1 /\ clock' = clock + 1 /\ n \notin DOMAIN files
<1>1. PICK gap \in MinGap..1 : clock' = clock + gap BY DEF create_coredump_filename, NewNames
<1>2. gap = 1 BY <1>1 DEF NewNames
<1>3. n = clock + 1 /\ clock' = clock + 1
  BY <1>1, <1>2 DEF create_coredump_filename, NewNames
<1> QED BY <1>3 DEF FilesInv, TypeInv, TypeOK, NamesArePast

\* What a buffer holds stays the dump finished last when neither it nor the core
\* files change.
LEMMA BufferStays ==
  ASSUME BufferIsLatest, UNCHANGED <<buffer, lens, latest>>
  PROVE  BufferIsLatest'
BY DEF BufferIsLatest, Stream

\* A file of one dump is one when more dumps are begun.
LEMMA FilesStay ==
  ASSUME FileHoldsOneDump, lens \in Seq(StreamLens), files' = files,
         lens' = lens \/ \E len \in StreamLens : lens' = Append(lens, len)
  PROVE  FileHoldsOneDump'
<1>1. \A d \in 1..Len(lens) : d \in 1..Len(lens') BY StreamsStay, LenProperties
<1> QED BY <1>1 DEF FileHoldsOneDump

LEMMA FilesInit == Init => FilesInv
<1> SUFFICES ASSUME Init PROVE FilesInv OBVIOUS
<1>1. TypeInv BY TypeInit
<1> QED BY <1>1 DEF Init, FilesInv, BufferIsLatest, SavesValidBuffer, Saving, NamesArePast,
                    WritesNewFile, Writing, FileHoldsOneDump

\* The file that is opened is a new, empty one; the dump in the buffer is the one
\* it will hold.
LEMMA OpenKeepsFiles ==
  ASSUME NewNames, FilesInv, TypeInv', NEW n \in 0..MaxSaves, OpenFile(n)
  PROVE  FilesInv'
<1>1. n = clock + 1 /\ clock' = clock + 1 /\ n \notin DOMAIN files BY NameIsNew DEF OpenFile
<1>2. /\ DOMAIN files' = DOMAIN files \cup {n} /\ files'[n] = <<>>
      /\ \A m \in DOMAIN files : files'[m] = files[m]
  BY <1>1 DEF OpenFile
<1>3. BufferIsLatest' BY BufferStays DEF OpenFile, FilesInv
<1>4. SavesValidBuffer' BY DEF OpenFile, FilesInv, SavesValidBuffer, Saving
<1>5. NamesArePast'
  <2>1. \A m \in DOMAIN files : m \in Nat /\ m <= clock + 1
    <3>1. clock \in Nat /\ DOMAIN files \subseteq Nat BY DEF FilesInv, TypeInv, TypeOK
    <3>2. \A m \in DOMAIN files : m <= clock BY DEF FilesInv, NamesArePast
    <3> QED BY <3>1, <3>2
  <2>2. n <= clock + 1 BY <1>1 DEF FilesInv, TypeInv, TypeOK
  <2> QED BY <1>1, <1>2, <2>1, <2>2 DEF NamesArePast
<1>6. WritesNewFile' BY <1>2 DEF OpenFile, WritesNewFile, Writing
<1>7. FileHoldsOneDump'
  <2>1. lens' = lens /\ buffer # <<>> /\ latest \in 1..Len(lens)
    BY DEF OpenFile, FilesInv, SavesValidBuffer, Saving, BufferIsLatest, TypeInv, TypeOK
  <2>2. \A m \in DOMAIN files : \E d \in 1..Len(lens) :
          \A k \in 1..Len(files'[m]) : files'[m][k] = <<d, k - 1>>
    BY <1>2 DEF FilesInv, FileHoldsOneDump
  <2>3. \A k \in 1..Len(files'[n]) : files'[n][k] = <<latest, k - 1>> BY <1>2
  <2>4. \A m \in DOMAIN files' : \E d \in 1..Len(lens) :
          \A k \in 1..Len(files'[m]) : files'[m][k] = <<d, k - 1>>
    BY <1>2, <2>1, <2>2, <2>3
  <2> QED BY <2>1, <2>4 DEF FileHoldsOneDump
<1> QED BY <1>3, <1>4, <1>5, <1>6, <1>7 DEF FilesInv

\* The byte that is stored is the next one of the file.
LEMMA StoreAppends ==
  ASSUME FilesInv, StoreByte
  PROVE  /\ DOMAIN files' = DOMAIN files /\ name \in DOMAIN files
         /\ \A n \in DOMAIN files : n # name => files'[n] = files[n]
         /\ Len(files'[name]) = stored + 1
         /\ \A k \in 1..stored + 1 : files'[name][k] = buffer[k]
<1> DEFINE old == files[name]
           len == IF stored < Len(old) THEN Len(old) ELSE stored + 1
           new == [k \in 1..len |-> IF k = stored + 1 THEN buffer[k] ELSE old[k]]
<1>1. name \in DOMAIN files /\ old \in Seq(Byte) /\ stored \in Nat
  BY DEF StoreByte, FilesInv, TypeInv, TypeOK
<1>2. Len(old) = stored /\ \A k \in 1..stored : old[k] = buffer[k]
  BY DEF StoreByte, FilesInv, WritesNewFile, Writing
<1>3. len = stored + 1 BY <1>1, <1>2
<1>4. \A k \in 1..stored + 1 : new[k] = buffer[k] BY <1>1, <1>2, <1>3
<1>5. DOMAIN files' = DOMAIN files /\ files'[name] = new
      /\ \A n \in DOMAIN files : n # name => files'[n] = files[n]
  BY <1>1 DEF StoreByte
<1>6. Len(new) = stored + 1 BY <1>1, <1>3
<1> HIDE DEF new
<1> QED BY <1>1, <1>4, <1>5, <1>6

LEMMA StoreKeepsFiles ==
  ASSUME FilesInv, TypeInv', StoreByte
  PROVE  FilesInv'
<1>1. BufferIsLatest' BY BufferStays DEF StoreByte, FilesInv
<1>2. SavesValidBuffer' BY DEF StoreByte, FilesInv, SavesValidBuffer, Saving
<1>3. NamesArePast' BY StoreAppends DEF StoreByte, FilesInv, NamesArePast
<1>4. WritesNewFile' BY StoreAppends DEF StoreByte, WritesNewFile
<1>5. FileHoldsOneDump'
  <2>1. /\ stored \in Nat /\ stored + 1 <= Len(buffer) /\ lens \in Seq(StreamLens)
        /\ latest \in 1..Len(lens) /\ buffer = Stream(latest) /\ lens' = lens
    BY DEF StoreByte, FilesInv, SavesValidBuffer, Saving, BufferIsLatest, TypeInv, TypeOK,
           WriteInBounds, Writing
  <2>2. \A k \in 1..stored + 1 : buffer[k] = <<latest, k - 1>>
    <3>1. Len(buffer) = lens[latest] /\ lens[latest] \in Nat BY <2>1, StreamType
    <3> QED BY <2>1, <3>1, StreamType
  <2>3. \A k \in 1..Len(files'[name]) : files'[name][k] = <<latest, k - 1>>
    BY <2>2, StoreAppends
  <2>4. \A n \in DOMAIN files : n # name => \E d \in 1..Len(lens) :
          \A k \in 1..Len(files'[n]) : files'[n][k] = <<d, k - 1>>
    BY StoreAppends, ZenonT(60) DEF FilesInv, FileHoldsOneDump
  <2>5. \A n \in DOMAIN files' : \E d \in 1..Len(lens) :
          \A k \in 1..Len(files'[n]) : files'[n][k] = <<d, k - 1>>
    BY <2>1, <2>3, <2>4, StoreAppends
  <2> QED BY <2>1, <2>5 DEF FileHoldsOneDump
<1> QED BY <1>1, <1>2, <1>3, <1>4, <1>5 DEF FilesInv

\* A step that takes a dump.
DumpStep ==
  \/ \E len \in StreamLens : BeginDump(len) \/ Fault(len)
  \/ FinishDump

LEMMA DumpKeepsFiles ==
  ASSUME FilesInv, TypeInv', DumpStep
  PROVE  FilesInv' /\ pc' \notin {"prepare", "write", "close", "clear"}
<1>1. /\ lens \in Seq(StreamLens) /\ UNCHANGED <<files, clock>>
      /\ lens' = lens \/ \E len \in StreamLens : lens' = Append(lens, len)
  BY DEF DumpStep, BeginDump, Fault, FinishDump, FilesInv, TypeInv, TypeOK
<1>2. pc' \in {"dumping", "idle", "halted"} BY DEF DumpStep, BeginDump, Fault, FinishDump
<1>3. BufferIsLatest'
  <2>1. ASSUME NEW len \in StreamLens, BeginDump(len) PROVE BufferIsLatest'
    BY <2>1 DEF BeginDump, BufferIsLatest
  <2>2. ASSUME NEW len \in StreamLens, Fault(len) PROVE BufferIsLatest'
    <3>1. lens' = Append(lens, len) /\ latest' = Len(lens) + 1
          /\ buffer' = [k \in 1..len |-> <<Len(lens) + 1, k - 1>>]
      BY <2>2 DEF Fault
    <3>2. lens'[latest'] = len BY <1>1, <3>1, AppendProperties
    <3>3. buffer' = [k \in 1..lens'[latest'] |-> <<latest', k - 1>>] BY <3>1, <3>2
    <3>4. latest' # 0 BY <1>1, <3>1, LenProperties
    <3> QED BY <3>3, <3>4 DEF BufferIsLatest, Stream
  <2>3. CASE FinishDump
    <3>1. lens' = lens /\ latest' = Len(lens) /\ buffer' = Stream(Len(lens)) /\ Len(lens) > 0
      BY <2>3 DEF FinishDump, FilesInv, TypeInv, DumpBegun
    <3> QED BY <3>1 DEF BufferIsLatest, Stream
  <2> QED BY <2>1, <2>2, <2>3 DEF DumpStep
<1>4. SavesValidBuffer' BY <1>2 DEF SavesValidBuffer, Saving
<1>5. NamesArePast' BY <1>1 DEF FilesInv, NamesArePast
<1>6. WritesNewFile' BY <1>2 DEF WritesNewFile, Writing
<1>7. FileHoldsOneDump' BY <1>1, FilesStay DEF FilesInv
<1> QED BY <1>2, <1>3, <1>4, <1>5, <1>6, <1>7 DEF FilesInv

LEMMA FilesStep == NewNames /\ FilesInv /\ [Next]_vars => FilesInv'
<1> SUFFICES ASSUME NewNames, FilesInv, [Next]_vars PROVE FilesInv' OBVIOUS
<1>1. TypeInv' BY TypeStep DEF FilesInv
<1>2. CASE DumpStep BY <1>1, <1>2, DumpKeepsFiles
<1>3. ASSUME NEW n \in 0..MaxSaves, OpenFile(n) PROVE FilesInv'
  BY <1>1, <1>3, OpenKeepsFiles
<1>4. CASE StoreByte BY <1>1, <1>4, StoreKeepsFiles
\* The other steps neither store a byte nor name a file.
<1>5. ASSUME UNCHANGED <<lens, files>>, clock' \in Nat, clock <= clock',
             ~Writing' \/ (Writing /\ UNCHANGED <<name, stored, buffer>>),
             BufferIsLatest', SavesValidBuffer'
      PROVE  FilesInv'
  <2>1. NamesArePast'
    <3>1. \A n \in DOMAIN files : n \in Nat /\ clock \in Nat /\ n <= clock
      BY DEF FilesInv, TypeInv, TypeOK, NamesArePast
    <3> QED BY <1>5, <3>1 DEF NamesArePast
  <2>2. WritesNewFile' BY <1>5 DEF FilesInv, WritesNewFile
  <2>3. FileHoldsOneDump' BY <1>5, FilesStay DEF FilesInv, TypeInv, TypeOK
  <2> QED BY <1>1, <1>5, <2>1, <2>2, <2>3 DEF FilesInv
<1>6. clock \in Nat BY DEF FilesInv, TypeInv, TypeOK
<1> USE DEF SavesValidBuffer, Saving, Writing
<1>7. CASE StartSave
  <2>1. BufferIsLatest' BY <1>7, BufferStays DEF StartSave, FilesInv
  <2> QED BY <1>5, <1>6, <1>7, <2>1 DEF StartSave
<1>8. ASSUME NEW n \in 0..MaxSaves, PrepareFails(n) PROVE FilesInv'
  <2>1. clock' \in Nat /\ clock <= clock'
    BY <1>6, <1>8, NameIsNew DEF PrepareFails
  <2>2. BufferIsLatest' BY <1>8, BufferStays DEF PrepareFails, FilesInv
  <2> QED BY <1>5, <1>8, <2>1, <2>2 DEF PrepareFails
<1>9. CASE WriteByte
  <2>1. BufferIsLatest' BY <1>9, BufferStays DEF WriteByte, FilesInv
  <2> QED BY <1>5, <1>6, <1>9, <2>1 DEF WriteByte, FilesInv
<1>10. CASE WriteReturns
  <2>1. BufferIsLatest' BY <1>10, BufferStays DEF WriteReturns, FilesInv
  <2> QED BY <1>5, <1>6, <1>10, <2>1 DEF WriteReturns, FilesInv
<1>11. CASE WriteFails
  <2>1. BufferIsLatest' BY <1>11, BufferStays DEF WriteFails, FilesInv
  <2> QED BY <1>5, <1>6, <1>11, <2>1 DEF WriteFails
<1>12. CASE CloseFile
  <2>1. BufferIsLatest' BY <1>12, BufferStays DEF CloseFile, FilesInv
  <2> QED BY <1>5, <1>6, <1>12, <2>1 DEF CloseFile, FilesInv
<1>13. CASE ClearBuffer
  BY <1>5, <1>6, <1>13 DEF ClearBuffer, BufferIsLatest
<1>14. CASE Reset
  <2>1. BufferIsLatest' BY <1>14, BufferStays DEF Reset, Restart, FilesInv
  <2> QED BY <1>5, <1>6, <1>14, <2>1 DEF Reset, Restart
<1>15. CASE PowerLoss
  BY <1>5, <1>6, <1>15 DEF PowerLoss, Restart, BufferIsLatest
<1>16. CASE UNCHANGED vars
  <2>1. BufferIsLatest' BY <1>16, BufferStays DEF vars, FilesInv
  <2> QED BY <1>5, <1>6, <1>16, <2>1 DEF vars, FilesInv
<1> QED BY <1>2, <1>3, <1>4, <1>7, <1>8, <1>9, <1>10, <1>11, <1>12, <1>13, <1>14, <1>15,
           <1>16 DEF Next, SaveStep, DumpStep

\* When names are new no file is a mixture of two core files, whatever write()
\* and close() return, whoever preempts the command and wherever it is reset: nothing but a
\* name that comes again can mix two dumps (create_coredump_filename,
\* prepare_coredump_filesystem, write_coredump_data).
THEOREM FilesAreNotMixed == ASSUME NewNames PROVE Spec => []FileHoldsOneDump
<1>1. Init => FilesInv BY FilesInit
<1>2. FilesInv /\ [Next]_vars => FilesInv' BY FilesStep
<1>3. FilesInv => FileHoldsOneDump BY DEF FilesInv
<1> QED BY <1>1, <1>2, <1>3, PTL DEF Spec

-----------------------------------------------------------------------------
(* What a success that is reported stands for. *)

\* Files that do not change: neither is what they were reported to hold lost, nor
\* a dump that is in one of them.
LEMMA SavedStay ==
  ASSUME ReportedIsSaved, reported' = reported,
         \A n \in DOMAIN files :
            n \in DOMAIN files' /\ (files'[n] = files[n] \/ \A r \in reported : r.name # n)
  PROVE  ReportedIsSaved'
BY DEF ReportedIsSaved

LEMMA LatestStays ==
  ASSUME LatestIsKept, UNCHANGED <<buffer, lens, latest>>,
         \A n \in DOMAIN files : n \in DOMAIN files' /\ files'[n] = files[n]
  PROVE  LatestIsKept'
BY DEF LatestIsKept, Stream

\* A dump that is in the buffer is kept.
LEMMA BufferKeepsLatest ==
  ASSUME BufferIsLatest', buffer' # <<>>
  PROVE  LatestIsKept'
BY DEF BufferIsLatest, LatestIsKept

LEMMA SaveInit == Init => SaveInv
BY FilesInit DEF Init, SaveInv, WritesUnreported, ClosesWholeFile, ClearsSavedDump, Writing,
                 ReportedIsSaved, LatestIsKept

LEMMA SaveInvStep ==
  ASSUME NewNames, ~ShortWrites, ~CloseErrors, SaveInv, [Next]_vars
  PROVE  SaveInv'
<1>1. FilesInv /\ FilesInv' BY FilesStep DEF SaveInv
<1> USE DEF WritesUnreported, ClosesWholeFile, ClearsSavedDump, Writing
<1>2. CASE DumpStep
  <2>1. pc' \notin {"write", "close", "clear"} /\ UNCHANGED <<files, reported>>
    BY <1>1, <1>2, DumpKeepsFiles DEF FilesInv, DumpStep, BeginDump, Fault, FinishDump
  <2>2. latest' = 0 \/ buffer' # <<>>
    <3>1. ASSUME NEW len \in StreamLens, Fault(len) PROVE buffer' # <<>>
      <4>1. len \in Nat \ {0} BY FileSaveAssumption
      <4>2. buffer' = [k \in 1..len |-> <<Len(lens) + 1, k - 1>>] BY <3>1 DEF Fault
      <4>3. Len(buffer') = len BY <4>1, <4>2
      <4> QED BY <4>1, <4>3
    <3>2. CASE FinishDump
      <4>1. Len(lens) \in 1..Len(lens) /\ lens \in Seq(StreamLens)
        BY <1>1, <3>2, LenProperties DEF FinishDump, FilesInv, TypeInv, TypeOK, DumpBegun
      <4>2. Len(Stream(Len(lens))) # 0 BY <4>1, StreamType
      <4> QED BY <3>2, <4>2 DEF FinishDump
    <3> QED BY <1>2, <3>1, <3>2 DEF DumpStep, BeginDump
  <2>3. LatestIsKept' BY <1>1, <2>2, BufferKeepsLatest DEF FilesInv, LatestIsKept
  <2>4. ReportedIsSaved' BY <2>1, SavedStay DEF SaveInv
  <2> QED BY <1>1, <2>1, <2>3, <2>4 DEF SaveInv
<1>3. ASSUME NEW n \in 0..MaxSaves, OpenFile(n) PROVE SaveInv'
  <2>1. n \notin DOMAIN files BY <1>1, <1>3, NameIsNew DEF OpenFile
  <2>2. \A m \in DOMAIN files : m \in DOMAIN files' /\ files'[m] = files[m]
    BY <1>3 DEF OpenFile
  <2>3. ReportedIsSaved' /\ LatestIsKept'
    BY <1>3, <2>2, SavedStay, LatestStays DEF SaveInv, OpenFile
  <2>4. WritesUnreported' BY <1>3, <2>1 DEF SaveInv, OpenFile, ReportedIsSaved
  <2> QED BY <1>1, <1>3, <2>3, <2>4 DEF SaveInv, OpenFile
<1>4. CASE StoreByte
  <2>1. LatestIsKept'
    BY <1>1, <1>4, BufferKeepsLatest DEF FilesInv, StoreByte, SavesValidBuffer, Saving
  <2>2. ReportedIsSaved'
    BY <1>1, <1>4, StoreAppends, SavedStay DEF SaveInv, StoreByte
  <2> QED BY <1>1, <1>4, <2>1, <2>2 DEF SaveInv, StoreByte
<1>5. CASE CloseFile
  <2>1. name \in DOMAIN files /\ files[name] \in Seq(Byte) /\ buffer \in Seq(Byte)
    BY <1>1, <1>5 DEF CloseFile, FilesInv, TypeInv, TypeOK
  <2>2. stored = want BY <1>5 DEF CloseFile, SaveInv
  <2>3. Len(files[name]) = Len(buffer) /\ \A k \in 1..Len(buffer) : files[name][k] = buffer[k]
    BY <1>1, <1>5, <2>2 DEF CloseFile, FilesInv, TypeInv, WriteInBounds, WritesNewFile
  <2>4. files[name] = buffer BY <2>1, <2>3, SeqEqual
  <2>5. ReportedIsSaved' BY <1>5, <2>1, <2>4 DEF SaveInv, CloseFile, ReportedIsSaved
  <2>6. LatestIsKept' BY <1>5, LatestStays DEF SaveInv, CloseFile
  <2> QED BY <1>1, <1>5, <2>1, <2>4, <2>5, <2>6 DEF SaveInv, CloseFile
<1>6. CASE ClearBuffer
  <2>1. LatestIsKept'
    <3>1. buffer = Stream(latest) /\ name \in DOMAIN files /\ files[name] = buffer
      BY <1>1, <1>6 DEF ClearBuffer, SaveInv, FilesInv, BufferIsLatest, SavesValidBuffer, Saving
    <3> QED BY <1>6, <3>1 DEF ClearBuffer, LatestIsKept, Stream
  <2>2. ReportedIsSaved' BY <1>6, SavedStay DEF SaveInv, ClearBuffer
  <2> QED BY <1>1, <1>6, <2>1, <2>2 DEF SaveInv, ClearBuffer
<1>7. CASE PowerLoss
  <2>1. LatestIsKept' BY <1>7 DEF PowerLoss, LatestIsKept
  <2>2. ReportedIsSaved' BY <1>7, SavedStay DEF SaveInv, PowerLoss, Restart
  <2> QED BY <1>1, <1>7, <2>1, <2>2 DEF SaveInv, PowerLoss, Restart
\* The other steps leave the files and the buffer alone.
<1>8. ASSUME UNCHANGED <<buffer, lens, latest, files, reported>>,
             \/ pc' \notin {"write", "close", "clear"}
             \/ pc' = "close" /\ done' = want' /\ pc = "write" /\ name' = name
             \/ pc = "write" /\ UNCHANGED <<pc, name>>
             \/ UNCHANGED <<pc, name, done, want>>
      PROVE  SaveInv'
  <2>1. ReportedIsSaved' /\ LatestIsKept' BY <1>8, SavedStay, LatestStays DEF SaveInv
  <2> QED BY <1>1, <1>8, <2>1 DEF SaveInv
<1>9. CASE StartSave BY <1>8, <1>9 DEF StartSave
<1>10. ASSUME NEW n \in 0..MaxSaves, PrepareFails(n) PROVE SaveInv'
  BY <1>8, <1>10 DEF PrepareFails
<1>11. CASE WriteByte BY <1>8, <1>11 DEF WriteByte
<1>12. CASE WriteReturns BY <1>8, <1>12 DEF WriteReturns
<1>13. CASE WriteFails BY <1>8, <1>13 DEF WriteFails
<1>14. CASE Reset BY <1>8, <1>14 DEF Reset, Restart
<1>15. CASE UNCHANGED vars BY <1>8, <1>15 DEF vars
<1> QED BY <1>2, <1>3, <1>4, <1>5, <1>6, <1>7, <1>9, <1>10, <1>11, <1>12, <1>13, <1>14,
           <1>15 DEF Next, SaveStep, DumpStep

\* When names are new, write() takes all or fails and close() does not fail, what
\* is reported as saved is the dump, and stays it over faults, resets, losses of
\* power and later saves (mcd_dump_filesystem).
THEOREM SuccessIsTrue ==
  ASSUME NewNames, ~ShortWrites, ~CloseErrors
  PROVE  Spec => []ReportedIsSaved
<1>1. Init => SaveInv BY SaveInit
<1>2. SaveInv /\ [Next]_vars => SaveInv' BY SaveInvStep
<1>3. SaveInv => ReportedIsSaved BY DEF SaveInv
<1> QED BY <1>1, <1>2, <1>3, PTL DEF Spec

\* Under the same assumptions the dump finished last is never lost but by a loss
\* of power while it is only in memory: the memset after a save comes when the file
\* is complete on the medium, and the error paths of stat(), open() and write(), a
\* fault and a reset leave it in the buffer (mcd_dump_filesystem).
THEOREM LatestIsNotLost ==
  ASSUME NewNames, ~ShortWrites, ~CloseErrors
  PROVE  Spec => []LatestIsKept
<1>1. Init => SaveInv BY SaveInit
<1>2. SaveInv /\ [Next]_vars => SaveInv' BY SaveInvStep
<1>3. SaveInv => LatestIsKept BY DEF SaveInv
<1> QED BY <1>1, <1>2, <1>3, PTL DEF Spec
=============================================================================
