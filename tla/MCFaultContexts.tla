-------------------------- MODULE MCFaultContexts --------------------------
(***************************************************************************)
(* Model checking instance of FaultContexts: a shell of low and a worker   *)
(* of high priority, and the calls they make.                              *)
(***************************************************************************)
EXTENDS FaultContexts

CONSTANTS shell, worker

System(ofShell, ofWorker, dumps) ==
  [prio |-> [a \in {shell, worker} |-> IF a = shell THEN 0 ELSE 1],
   calls |-> [a \in {shell, worker} |-> IF a = shell THEN ofShell ELSE ofWorker],
   dumps |-> dumps]

\* At most one thread dumps to memory, and no other one returns to it from a dump.
MCKeepingSystems ==
  {System({"memory", "print"}, {"assert"}, 3),
   System({"memory", "serial", "print"}, {"assert"}, 2),
   System({"serial", "assert"}, {"serial", "assert"}, 2),
   System({"print"}, {"memory"}, 2)}

\* A thread returns from a memory dump to one that was dumping over the serial
\* port.
MCRedirectedSystems == {System({"serial", "assert"}, {"memory"}, 3)}

MCSystems == MCKeepingSystems \cup MCRedirectedSystems

\* A thread returns from a serial dump to one that was dumping to memory.
MCSharedSystems == {System({"memory"}, {"serial"}, 2)}

ASSUME SystemsKeepFunction ==
  /\ \A s \in MCSystems : StoresAlone(s)
  /\ \A s \in MCKeepingSystems : KeepsFunction(s)
  /\ \A s \in MCSharedSystems \cup MCRedirectedSystems : ~KeepsFunction(s)

MCThreads == {shell, worker}

\* One that fits the buffer, with room behind it, and one that does not.
MCStreamLens == {2, 4}

\* mcd_crc32b is CRC-32, on "123456789" with its published checksum 0xCBF43926,
\* and on short messages.
Digits == [k \in 1..9 |-> {b \in 0..7 : ((48 + k) \div (2^b)) % 2 = 1}]
Messages == UNION {[1..n -> {{}, {0}, {7}, {1, 4}, 0..7}] : n \in 0..3}
ASSUME CrcIsCrc32 ==
  /\ mcd_crc32b(Digits, Bits32) =
       {1, 2, 5, 8, 11, 12, 13, 18, 20, 21, 22, 23, 24, 25, 27, 30, 31}
  /\ \A m \in Messages \cup {Digits} : mcd_crc32b(m, Bits32) = CRC32(m)
=============================================================================
