------------------------------ MODULE FileSave ------------------------------
(***************************************************************************)
(* The shell command mcd_dump_filesystem (src/faultdump.c): it checks the  *)
(* dump in coredump_memory_buffer, writes it to a new file and clears the  *)
(* buffer.  The hard fault handler may preempt it and store a dump of its  *)
(* own, and a reset or a loss of power may come at any point.              *)
(*                                                                         *)
(* A dump is stored in the buffer as MemoryStore describes: here its data  *)
(* appear at once, and a valid buffer passes its checksum.  Bytes are      *)
(* abstracted to their origin: <<d, p>> is byte p of the core file of dump *)
(* d.  A file name is abstracted to the number it is made of.              *)
(*                                                                         *)
(* The filesystem may cache what write() takes: the bytes reach the medium *)
(* in their order, some of them perhaps only when close() is called, and   *)
(* a fault or a reset loses the rest.  Reading a file reads the medium.    *)
(*                                                                         *)
(* A definition NAME_Fault is a mutated form of NAME.  Nothing uses it: it *)
(* stands for a bug the properties below have to notice.                   *)
(***************************************************************************)
EXTENDS Integers, Sequences

CONSTANTS
  StreamLens,  \* sizes of core files, none larger than the buffer
  HasClock,    \* does gettimeofday succeed?
  MinGap,      \* seconds that pass at least between two saves (0 or 1)
  ShortWrites, \* may write() return less than it was asked to write?
  CloseErrors, \* may close() fail to put cached bytes on the medium?
  MaxDumps,    \* bound: dumps taken in a behaviour
  MaxSaves     \* bound: files opened in a behaviour

ASSUME FileSaveAssumption ==
  /\ StreamLens \subseteq Nat \ {0} /\ MaxDumps \in Nat /\ MaxSaves \in Nat
  /\ HasClock \in BOOLEAN /\ MinGap \in {0, 1}
  /\ ShortWrites \in BOOLEAN /\ CloseErrors \in BOOLEAN

VARIABLES
  buffer,   \* bytes of a valid buffer; <<>> when it is not valid
  lens,     \* lens[d] = size of the core file of dump d
  latest,   \* the dump finished last, 0 once a newer one was begun or power was lost
  files,    \* files[n] = content, on the medium, of the file with number n
  clock,    \* seconds, kept over a reset
  counter,  \* file_counter, a static of create_coredump_filename
  pc,       \* where the shell is
  name,     \* coredump_filename
  want,     \* bytes write() was asked for
  done,     \* bytes it has taken
  stored,   \* those of them that are on the medium
  saves,    \* files opened so far
  reported  \* [name, data] of every "Coredump saved successfully"

vars == <<buffer, lens, latest, files, clock, counter,
          pc, name, want, done, stored, saves, reported>>

\* The core file of dump d.
Stream(d) == [k \in 1..lens[d] |-> <<d, k - 1>>]

Byte == Nat \X Nat

TypeOK ==
  /\ buffer \in Seq(Byte) /\ lens \in Seq(StreamLens) /\ latest \in 0..Len(lens)
  /\ DOMAIN files \subseteq Nat /\ \A n \in DOMAIN files : files[n] \in Seq(Byte)
  /\ clock \in Nat /\ counter \in Nat
  /\ pc \in {"idle", "dumping", "prepare", "write", "close", "clear", "halted"}
  /\ name \in Nat /\ (pc \in {"write", "close"} => name \in DOMAIN files)
  /\ want \in Nat /\ done \in 0..want /\ stored \in 0..done /\ saves \in Nat
  /\ reported \subseteq [name : Nat, data : Seq(Byte)]

-----------------------------------------------------------------------------
(* Dumps. *)

\* mcd_faultdump(MCD_OUTPUT_MEMORY) in the shell: the buffer is cleared ...
BeginDump(len) ==
  /\ pc = "idle" /\ Len(lens) < MaxDumps
  /\ lens' = Append(lens, len) /\ buffer' = <<>> /\ latest' = 0
  /\ pc' = "dumping"
  /\ UNCHANGED <<files, clock, counter, name, want, done, stored, saves, reported>>

\* ... and filled.
FinishDump ==
  /\ pc = "dumping"
  /\ buffer' = Stream(Len(lens)) /\ latest' = Len(lens)
  /\ pc' = "idle"
  /\ UNCHANGED <<lens, files, clock, counter, name, want, done, stored, saves, reported>>

\* A hard fault: nothing else runs until the handler has stored its dump, and
\* nothing runs after that.
Fault(len) ==
  /\ pc # "halted" /\ Len(lens) < MaxDumps
  /\ lens' = Append(lens, len)
  /\ buffer' = [k \in 1..len |-> <<Len(lens) + 1, k - 1>>] /\ latest' = Len(lens) + 1
  /\ pc' = "halted"
  /\ UNCHANGED <<files, clock, counter, name, want, done, stored, saves, reported>>

-----------------------------------------------------------------------------
(* mcd_dump_filesystem. *)

\* The buffer is cleared before the file is prepared.
StartSave_Fault ==
  /\ pc = "idle" /\ buffer # <<>> /\ saves < MaxSaves
  /\ buffer' = <<>>
  /\ pc' = "prepare"
  /\ UNCHANGED <<lens, latest, files, clock, counter, name,
                 want, done, stored, saves, reported>>

\* The check and the checksum; a buffer that fails them ends the command.
StartSave ==
  /\ pc = "idle" /\ buffer # <<>> /\ saves < MaxSaves
  /\ pc' = "prepare"
  /\ UNCHANGED <<buffer, lens, latest, files, clock, counter, name,
                 want, done, stored, saves, reported>>

\* The counter is not advanced.
create_coredump_filename_Fault(n) ==
  /\ HasClock => \E gap \in MinGap..1 : clock' = clock + gap
  /\ ~HasClock => UNCHANGED clock
  /\ n = 1 /\ UNCHANGED counter

\* A time stamp, in seconds, or the next value of a counter.
create_coredump_filename(n) ==
  IF HasClock
  THEN /\ \E gap \in MinGap..1 : clock' = clock + gap
       /\ n = clock' /\ UNCHANGED counter
  ELSE counter' = counter + 1 /\ n = counter' /\ UNCHANGED clock

\* A file is written through a descriptor no name leads to.
OpenFile_Fault(n) ==
  /\ pc = "prepare" /\ create_coredump_filename(n) /\ name' = n
  /\ pc' = "write" /\ want' = Len(buffer) /\ done' = 0 /\ stored' = 0
  /\ saves' = saves + 1
  /\ UNCHANGED <<buffer, lens, latest, files, reported>>

\* prepare_coredump_filesystem: an existing file is opened as it is.
OpenFile(n) ==
  /\ pc = "prepare" /\ create_coredump_filename(n) /\ name' = n
  /\ files' = [m \in DOMAIN files \cup {n} |-> IF m \in DOMAIN files THEN files[m] ELSE <<>>]
  /\ pc' = "write" /\ want' = Len(buffer) /\ done' = 0 /\ stored' = 0
  /\ saves' = saves + 1
  /\ UNCHANGED <<buffer, lens, latest, reported>>

\* The directory is missing, or the file cannot be created.
PrepareFails(n) ==
  /\ pc = "prepare"
  /\ \/ UNCHANGED <<clock, counter, name>>
     \/ create_coredump_filename(n) /\ name' = n
  /\ saves' = saves + 1 /\ pc' = "idle"
  /\ UNCHANGED <<buffer, lens, latest, files, want, done, stored, reported>>

\* write() takes its next byte.
WriteByte ==
  /\ pc = "write" /\ done < want
  /\ done' = done + 1
  /\ UNCHANGED <<buffer, lens, latest, files, clock, counter, pc, name,
                 want, stored, saves, reported>>

\* The filesystem stores the next of the bytes it was given.
StoreByte ==
  /\ pc \in {"write", "close"} /\ stored < done
  /\ files' = [files EXCEPT ![name] =
                 [k \in 1..(IF stored < Len(@) THEN Len(@) ELSE stored + 1) |->
                    IF k = stored + 1 THEN buffer[k] ELSE @[k]]]
  /\ stored' = stored + 1
  /\ UNCHANGED <<buffer, lens, latest, clock, counter, pc, name,
                 want, done, saves, reported>>

\* write() returns a length, which is not compared with what was asked for.
WriteReturns ==
  /\ pc = "write" /\ (done = want \/ ShortWrites)
  /\ pc' = "close"
  /\ UNCHANGED <<buffer, lens, latest, files, clock, counter, name,
                 want, done, stored, saves, reported>>

\* The result of write() is not looked at.
WriteFails_Fault ==
  /\ pc = "write"
  /\ pc' = "close"
  /\ UNCHANGED <<buffer, lens, latest, files, clock, counter, name,
                 want, done, stored, saves, reported>>

\* write() returns an error: the file is closed as it is.
WriteFails ==
  /\ pc = "write"
  /\ pc' = "idle"
  /\ UNCHANGED <<buffer, lens, latest, files, clock, counter, name,
                 want, done, stored, saves, reported>>

\* close() returns, with all on the medium or with an error: its result is not
\* looked at, the success is reported.
CloseFile ==
  /\ pc = "close" /\ (stored = done \/ CloseErrors)
  /\ reported' = reported \cup {[name |-> name, data |-> buffer]}
  /\ pc' = "clear"
  /\ UNCHANGED <<buffer, lens, latest, files, clock, counter, name,
                 want, done, stored, saves>>

\* The memset after a save.
ClearBuffer ==
  /\ pc = "clear"
  /\ buffer' = <<>>
  /\ pc' = "idle"
  /\ UNCHANGED <<lens, latest, files, clock, counter, name,
                 want, done, stored, saves, reported>>

-----------------------------------------------------------------------------
(* Reset and loss of power: statics start again, files stay. *)

Restart ==
  /\ pc' = "idle" /\ counter' = 0 /\ name' = 0 /\ want' = 0 /\ done' = 0
  /\ stored' = 0
  /\ UNCHANGED <<lens, files, clock, saves, reported>>

Reset == Restart /\ UNCHANGED <<buffer, latest>>

PowerLoss == Restart /\ buffer' = <<>> /\ latest' = 0

-----------------------------------------------------------------------------
Init ==
  /\ buffer = <<>> /\ lens = <<>> /\ latest = 0
  /\ files = [n \in {} |-> <<>>] /\ clock = 0 /\ counter = 0
  /\ pc = "idle" /\ name = 0 /\ want = 0 /\ done = 0 /\ stored = 0
  /\ saves = 0 /\ reported = {}

SaveStep ==
  \/ StartSave
  \/ \E n \in 0..MaxSaves : OpenFile(n) \/ PrepareFails(n)
  \/ WriteByte \/ StoreByte \/ WriteReturns \/ WriteFails \/ CloseFile \/ ClearBuffer

Next ==
  \/ \E len \in StreamLens : BeginDump(len) \/ Fault(len)
  \/ FinishDump \/ SaveStep
  \/ Reset \/ PowerLoss

Spec == Init /\ [][Next]_vars

-----------------------------------------------------------------------------
(* Properties. *)

\* A file that was reported as saved holds the dump that was to be saved, and
\* goes on holding it.
ReportedIsSaved == \A r \in reported : r.name \in DOMAIN files /\ files[r.name] = r.data

\* When the command reports success, the file it created is the core file, with
\* nothing missing and nothing behind it.
SavedFileIsDump == pc = "clear" => files[name] = buffer

\* Every byte of a file stems from one dump, each at its place: no file is a
\* mixture of two core files.
FileHoldsOneDump ==
  \A n \in DOMAIN files : \E d \in 1..Len(lens) :
    \A k \in 1..Len(files[n]) : files[n][k] = <<d, k - 1>>

\* The dump finished last is in the buffer or complete in a file, after an error
\* of stat(), open() or write(), a fault or a reset at any point of its saving.
LatestIsKept ==
  latest # 0 => \/ buffer = Stream(latest)
                \/ \E n \in DOMAIN files : files[n] = Stream(latest)
=============================================================================
