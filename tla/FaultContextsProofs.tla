------------------------ MODULE FaultContextsProofs ------------------------
(***************************************************************************)
(* Theorems about FaultContexts, for any threads, priorities and calls,    *)
(* any sizes and any number of dumps.                                      *)
(***************************************************************************)
EXTENDS FaultContexts, MemoryStoreProofs, Crc32Proofs, FiniteSetTheorems

PcValues == {"idle", "clear", "zero", "gen", "magic", "size", "crc", "halted", "emit"}
AtValues == {"none", "clear", "func", "irq", "gen", "spin"}

\* An actor between the first and the last step of a dump, or in what follows it
\* for ever.  A shell that prints is not.
InDump(a) == at[a] # "none" \/ pc[a] \notin {"idle", "emit"}

\* The function a dumps with, and whether it has passed it to mcd_init and may
\* still use it.
Func(a) == IF pc[a] = "idle" THEN "serial" ELSE "memory"
HasFunc(a) == at[a] \in {"irq", "gen"} \/ pc[a] \in {"magic", "size", "crc"}

\* b does not let a run.
Outranks(b, a) ==
  /\ b # a
  /\ \/ b = Handler
     \/ a \in Threads /\ b \in Threads /\ sys.prio[b] > sys.prio[a]

FCTypes ==
  /\ sys \in Systems
  /\ pc \in [Actors -> PcValues] /\ at \in [Actors -> AtValues]
  /\ call \in [Actors -> Calls \cup {"none"}]

\* How the places of an actor in the two modules go together.
Places(a) ==
  /\ pc[a] \in {"clear", "zero"} => at[a] = "clear"
  /\ pc[a] = "gen" => at[a] \in {"clear", "func", "gen"}
  /\ pc[a] \in {"magic", "size", "crc", "halted", "emit"} => at[a] = "none"
  /\ a = Handler => pc[a] # "emit" /\ (at[a] # "none" => pc[a] # "idle")

\* The call a thread makes is one of its system's, and says how it dumps.
Called(a) ==
  a \in Threads /\ InDump(a) =>
    /\ call[a] \in sys.calls[a] \ {"print"} /\ Output(call[a]) = Func(a)
    /\ at[a] = "spin" => call[a] = "assert"
    /\ pc[a] # "halted"

\* Who has passed its function finds it in m_ctx, or waits for somebody else.
FuncKept(a) ==
  HasFunc(a) => \/ writeout_func = Func(a)
                \/ \E b \in Actors : Outranks(b, a) /\ InDump(b)

FuncInv ==
  /\ FCTypes
  /\ \A a \in Actors : Places(a) /\ Called(a) /\ FuncKept(a)

\* The system that runs keeps the functions, and one thread at most dumps to memory.
Keeps == KeepsFunction(sys)
Alone == StoresAlone(sys)

-----------------------------------------------------------------------------
(* Ranks. *)

\* The priorities of the system that runs differ.
Differ == \A a, b \in Threads : a # b => sys.prio[a] # sys.prio[b]

LEMMA OutranksOnce ==
  ASSUME FCTypes, NEW a \in Actors, NEW b \in Actors, Outranks(a, b)
  PROVE  ~Outranks(b, a)
<1>1. sys.prio \in [Threads -> Nat] BY SystemsAssumption DEF FCTypes
<1>2. Handler \notin Threads BY MemoryAssumption DEF Threads
<1> QED BY <1>1, <1>2 DEF Outranks

\* An actor that can run outranks every other one that is busy, where priorities differ.
LEMMA RunnerIsAlone ==
  ASSUME Differ, FCTypes, NEW a \in Actors, CanRun(a),
         NEW b \in Actors, b # a, Busy(b), b = Handler /\ at[b] # "none" => pc[b] # "idle"
  PROVE  Outranks(a, b)
<1>1. sys.prio \in [Threads -> Nat] BY SystemsAssumption DEF FCTypes
<1>2. CASE a = Handler BY <1>2 DEF Outranks
<1>3. CASE a # Handler
  <2>1. pc[Handler] = "idle" /\ a \in Threads BY <1>3 DEF CanRun, MayRun, Actors, Threads
  <2>2. b # Handler BY <2>1 DEF Busy
  <2>3. b \in Threads BY <2>2 DEF Actors, Threads
  <2>4. sys.prio[a] # sys.prio[b] BY <2>1, <2>3 DEF Differ, FCTypes
  <2>5. ~(sys.prio[b] > sys.prio[a]) BY <2>1, <2>3 DEF CanRun
  <2> QED BY <1>1, <2>1, <2>3, <2>4, <2>5 DEF Outranks
<1> QED BY <1>2, <1>3

LEMMA RunnerIsFirst ==
  ASSUME Keeps, FCTypes, NEW a \in Actors, CanRun(a),
         NEW b \in Actors, b # a, Places(b), Busy(b)
  PROVE  Outranks(a, b)
<1>1. Differ BY DEF Keeps, KeepsFunction, Differ
<1>2. b = Handler /\ at[b] # "none" => pc[b] # "idle" BY DEF Places
<1> QED BY <1>1, <1>2, RunnerIsAlone

\* So an actor that can run and has passed its function finds it in m_ctx.
LEMMA RunnerHasFunc ==
  ASSUME Keeps, FuncInv, NEW a \in Actors, CanRun(a), HasFunc(a)
  PROVE  writeout_func = Func(a)
<1>1. ASSUME NEW b \in Actors, Outranks(b, a), InDump(b) PROVE FALSE
  <2>1. b # a /\ Busy(b) BY <1>1 DEF Outranks, InDump, Busy
  <2>2. Outranks(a, b) BY <2>1, RunnerIsFirst DEF FuncInv
  <2> QED BY <1>1, <2>2, OutranksOnce DEF FuncInv
<1> QED BY <1>1 DEF FuncInv, FuncKept

\* In particular no serial dump finds the function of a memory dump there.
LEMMA NoSerialStored ==
  ASSUME Keeps, FuncInv, NEW a \in Actors
  PROVE  ~StoreSerial(a)
<1> SUFFICES ASSUME StoreSerial(a) PROVE FALSE OBVIOUS
<1>1. CanRun(a) /\ HasFunc(a) /\ pc[a] = "idle" /\ writeout_func = "memory"
  BY DEF StoreSerial, HasFunc
<1>2. writeout_func = Func(a) BY <1>1, RunnerHasFunc
<1> QED BY <1>1, <1>2 DEF Func

-----------------------------------------------------------------------------
(* One step of one actor. *)

\* Only a moves.
OnlyMoves(a) ==
  /\ sys' = sys
  /\ \A b \in Actors : b # a => at'[b] = at[b] /\ pc'[b] = pc[b] /\ call'[b] = call[b]

\* Whoever is not the one that moves keeps its places, and its rank.
LEMMA OthersStay ==
  ASSUME NEW a \in Actors, OnlyMoves(a), NEW b \in Actors, b # a
  PROVE  /\ InDump(b)' = InDump(b) /\ HasFunc(b)' = HasFunc(b) /\ Func(b)' = Func(b)
         /\ Places(b)' = Places(b) /\ Called(b)' = Called(b)
BY DEF OnlyMoves, InDump, HasFunc, Func, Places, Called

LEMMA RanksStay ==
  ASSUME NEW c, OnlyMoves(c), NEW a, NEW b
  PROVE  Outranks(b, a)' = Outranks(b, a)
BY DEF OnlyMoves, Outranks

\* A step that leaves the write-out function alone and ends no dump.
LEMMA FuncLeftAlone ==
  ASSUME FuncInv, NEW a \in Actors, OnlyMoves(a), writeout_func' = writeout_func,
         InDump(a) => InDump(a)',
         HasFunc(a)' => HasFunc(a) /\ Func(a)' = Func(a)
  PROVE  \A c \in Actors : FuncKept(c)'
<1> SUFFICES ASSUME NEW c \in Actors, HasFunc(c)'
             PROVE  \/ (writeout_func = Func(c))'
                    \/ (\E b \in Actors : Outranks(b, c) /\ InDump(b))'
  BY DEF FuncKept
<1>1. HasFunc(c) /\ Func(c)' = Func(c) BY OthersStay
<1>2. ASSUME NEW b \in Actors, Outranks(b, c), InDump(b)
      PROVE  Outranks(b, c)' /\ InDump(b)'
  BY <1>2, OthersStay, RanksStay
<1> QED BY <1>1, <1>2 DEF FuncInv, FuncKept

\* A step of an actor that can run and stores the function it dumps with, or
\* clears it before: everyone else waits for it.
LEMMA FuncStored ==
  ASSUME Keeps, FuncInv, NEW a \in Actors, CanRun(a), OnlyMoves(a),
         InDump(a)', HasFunc(a)' => writeout_func' = Func(a)'
  PROVE  \A c \in Actors : FuncKept(c)'
<1> SUFFICES ASSUME NEW c \in Actors, c # a, HasFunc(c)'
             PROVE  (\E b \in Actors : Outranks(b, c) /\ InDump(b))'
  BY DEF FuncKept
<1>1. HasFunc(c) BY OthersStay
<1>2. Busy(c) BY <1>1 DEF HasFunc, Busy
<1>3. Outranks(a, c) BY <1>2, RunnerIsFirst DEF FuncInv
<1>4. Outranks(a, c)' BY <1>3, RanksStay
<1> QED BY <1>4

\* The last step of a dump of a thread, which is no assertion: the function of
\* the dumps below it is its own.
LEMMA DumpReturns ==
  ASSUME Keeps, FuncInv, NEW a \in Threads, CanRun(a), OnlyMoves(a),
         writeout_func' = writeout_func, HasFunc(a), ~HasFunc(a)', call[a] # "assert"
  PROVE  \A c \in Actors : FuncKept(c)'
<1> SUFFICES ASSUME NEW c \in Actors, c # a, HasFunc(c)'
             PROVE  (writeout_func = Func(c))'
  BY DEF FuncKept
<1>0. a \in Actors BY DEF Threads, Actors
<1>1. HasFunc(c) /\ Func(c)' = Func(c) BY <1>0, OthersStay
<1>2. InDump(a) /\ InDump(c) /\ Busy(c) BY <1>1 DEF HasFunc, InDump, Busy
<1>3. Outranks(a, c) BY <1>0, <1>2, RunnerIsFirst DEF FuncInv
<1>4. a # Handler BY MemoryAssumption DEF Threads
<1>5. c \in Threads /\ sys.prio[a] > sys.prio[c] BY <1>3, <1>4 DEF Outranks
<1>6. /\ call[a] \in sys.calls[a] \ {"print", "assert"} /\ Output(call[a]) = Func(a)
      /\ call[c] \in sys.calls[c] \ {"print"} /\ Output(call[c]) = Func(c)
  BY <1>0, <1>2, <1>5 DEF FuncInv, Called
<1>7. Output(call[c]) = Output(call[a])
  BY <1>5, <1>6 DEF Keeps, KeepsFunction, FuncInv, FCTypes
<1>8. writeout_func = Func(a) BY <1>0, RunnerHasFunc
<1> QED BY <1>1, <1>6, <1>7, <1>8

LEMMA StepKeepsInv ==
  ASSUME FuncInv, NEW a \in Actors, OnlyMoves(a), FCTypes', Places(a)', Called(a)',
         \A c \in Actors : FuncKept(c)'
  PROVE  FuncInv'
<1>1. \A b \in Actors : b # a => Places(b)' /\ Called(b)' BY OthersStay DEF FuncInv
<1> QED BY <1>1 DEF FuncInv

-----------------------------------------------------------------------------
(* The steps of a serial dump. *)

LEMMA StartSerialStep ==
  ASSUME FuncInv, NEW a \in Threads, NEW len \in StreamLens, StartSerial(a, len)
  PROVE  FuncInv'
<1>0. a \in Actors /\ a # Handler BY MemoryAssumption DEF Threads, Actors
<1>1. PICK c \in {"serial", "assert"} : Begins(a, c) BY DEF StartSerial
<1>2. /\ pc[a] = "idle" /\ at[a] = "none" /\ c \in sys.calls[a]
      /\ call' = [call EXCEPT ![a] = c] /\ at' = [at EXCEPT ![a] = "clear"]
      /\ pc' = pc /\ sys' = sys /\ writeout_func' = writeout_func
  BY <1>1 DEF Begins, Busy, StartSerial
<1>3. OnlyMoves(a) BY <1>0, <1>2 DEF OnlyMoves, FuncInv, FCTypes
<1>4. FCTypes' BY <1>0, <1>2 DEF FuncInv, FCTypes, AtValues, Calls
<1>5. call'[a] = c /\ at'[a] = "clear" BY <1>0, <1>2 DEF FuncInv, FCTypes
<1>6. Places(a)' /\ Called(a)'
  BY <1>0, <1>2, <1>5 DEF Places, Called, InDump, Output, Func
<1>7. ~HasFunc(a)' /\ InDump(a)' BY <1>2, <1>5 DEF HasFunc, InDump
<1>8. \A d \in Actors : FuncKept(d)' BY <1>0, <1>2, <1>3, <1>7, FuncLeftAlone
<1> QED BY <1>0, <1>3, <1>4, <1>6, <1>8, StepKeepsInv

LEMMA InitStep ==
  ASSUME Keeps, FuncInv, NEW a \in Actors, InitClear(a) \/ InitFunc(a)
  PROVE  FuncInv'
<1>1. /\ CanRun(a) /\ pc' = pc /\ call' = call /\ sys' = sys
      /\ at[a] \in {"clear", "func"} /\ at'[a] # "none"
      /\ \E to \in AtValues : at' = [at EXCEPT ![a] = to]
  BY DEF InitClear, InitFunc, Goes, vars, AtValues, FuncInv, FCTypes
<1>2. OnlyMoves(a) BY <1>1 DEF OnlyMoves, FuncInv, FCTypes
<1>3. FCTypes' BY <1>1 DEF FuncInv, FCTypes
<1>4. Places(a) /\ Called(a) /\ pc[a] \in PcValues BY DEF FuncInv, FCTypes
<1>5. CASE InitClear(a)
  <2>1. at'[a] = "func" /\ at[a] = "clear" /\ pc[a] \in {"idle", "gen"}
    BY <1>5 DEF InitClear, Goes, FuncInv, FCTypes
  <2>2. Places(a)' /\ Called(a)'
    BY <1>1, <1>4, <2>1 DEF Places, Called, InDump, Func
  <2>3. ~HasFunc(a)' /\ InDump(a)' BY <1>1, <2>1 DEF HasFunc, InDump
  <2>4. \A c \in Actors : FuncKept(c)' BY <1>1, <1>2, <2>3, FuncStored
  <2> QED BY <1>2, <1>3, <2>2, <2>4, StepKeepsInv
<1>6. CASE InitFunc(a)
  <2>1. /\ at[a] = "func" /\ at'[a] = (IF pc[a] = "gen" THEN "gen" ELSE "irq")
        /\ writeout_func' = IF pc[a] = "gen" THEN "memory" ELSE "serial"
    BY <1>6 DEF InitFunc, Goes, FuncInv, FCTypes
  <2>2. pc[a] \in {"idle", "gen"} BY <1>4, <2>1 DEF Places, PcValues
  <2>3. Places(a)' /\ Called(a)'
    BY <1>1, <1>4, <2>1, <2>2 DEF Places, Called, InDump, Func
  <2>4. writeout_func' = Func(a)' /\ InDump(a)' BY <1>1, <2>1, <2>2 DEF Func, InDump
  <2>5. \A c \in Actors : FuncKept(c)' BY <1>1, <1>2, <2>4, FuncStored
  <2> QED BY <1>2, <1>3, <2>3, <2>5, StepKeepsInv
<1> QED BY <1>5, <1>6

LEMMA SerialStep ==
  ASSUME Keeps, FuncInv, NEW a \in Actors,
         DisableIrq(a) \/ WriteSerial(a) \/ EndSerial(a)
  PROVE  FuncInv'
<1>1. /\ CanRun(a) /\ pc' = pc /\ call' = call /\ sys' = sys
      /\ writeout_func' = writeout_func
      /\ at[a] \in {"irq", "gen"}
      /\ \E to \in AtValues : at' = [at EXCEPT ![a] = to]
  BY DEF DisableIrq, WriteSerial, EndSerial, Goes, vars, AtValues, FuncInv, FCTypes
<1>2. OnlyMoves(a) BY <1>1 DEF OnlyMoves, FuncInv, FCTypes
<1>3. FCTypes' BY <1>1 DEF FuncInv, FCTypes
<1>4. Places(a) /\ Called(a) /\ HasFunc(a) /\ InDump(a)
  BY <1>1 DEF FuncInv, HasFunc, InDump
<1>5. CASE DisableIrq(a) \/ WriteSerial(a)
  <2>1. at'[a] = "gen" BY <1>5 DEF DisableIrq, WriteSerial, Goes, FuncInv, FCTypes
  <2>2. pc[a] \in {"idle", "gen"} BY <1>1, <1>4 DEF Places, PcValues, FuncInv, FCTypes
  <2>3. Places(a)' /\ Called(a)'
    BY <1>1, <1>4, <2>1, <2>2 DEF Places, Called, InDump, Func
  <2>4. InDump(a)' /\ Func(a)' = Func(a) BY <1>1, <2>1 DEF InDump, Func
  <2>5. \A c \in Actors : FuncKept(c)' BY <1>1, <1>2, <1>4, <2>4, FuncLeftAlone
  <2> QED BY <1>2, <1>3, <2>3, <2>5, StepKeepsInv
<1>6. CASE EndSerial(a)
  <2>1. pc[a] = "idle" /\ at[a] = "gen"
        /\ at'[a] = (IF call[a] = "assert" THEN "spin" ELSE "none")
    BY <1>6 DEF EndSerial, Goes, FuncInv, FCTypes
  <2>2. a \in Threads BY <1>4, <2>1 DEF Places, Actors, Threads
  <2>3. Places(a)' /\ Called(a)'
    BY <1>1, <1>4, <2>1, <2>2 DEF Places, Called, InDump, Func
  <2>4. ~HasFunc(a)' BY <1>1, <2>1 DEF HasFunc
  <2>5. CASE call[a] = "assert"
    <3>1. InDump(a)' BY <2>1, <2>5 DEF InDump
    <3>2. \A c \in Actors : FuncKept(c)' BY <1>1, <1>2, <2>4, <3>1, FuncLeftAlone
    <3> QED BY <1>2, <1>3, <2>3, <3>2, StepKeepsInv
  <2>6. CASE call[a] # "assert"
    <3>1. \A c \in Actors : FuncKept(c)' BY <1>1, <1>2, <1>4, <2>2, <2>4, <2>6, DumpReturns
    <3> QED BY <1>2, <1>3, <2>3, <3>1, StepKeepsInv
  <2> QED BY <2>5, <2>6
<1> QED BY <1>5, <1>6

-----------------------------------------------------------------------------
(* The steps of a memory dump. *)

LEMMA StartMemoryStep ==
  ASSUME FuncInv, NEW a \in Threads \cup {Handler}, NEW len \in StreamLens, StartMemory(a, len)
  PROVE  FuncInv'
<1>0. a \in Actors BY DEF Threads, Actors
<1>1. /\ pc[a] = "idle" /\ at[a] = "none" /\ (a \in Threads => "memory" \in sys.calls[a])
      /\ call' = [call EXCEPT ![a] = "memory"] /\ at' = [at EXCEPT ![a] = "clear"]
      /\ pc' = [pc EXCEPT ![a] = "clear"] /\ sys' = sys /\ writeout_func' = writeout_func
  BY DEF StartMemory, StartDump, Begins, Busy
<1>2. OnlyMoves(a) BY <1>0, <1>1 DEF OnlyMoves, FuncInv, FCTypes
<1>3. FCTypes' BY <1>0, <1>1 DEF FuncInv, FCTypes, AtValues, PcValues, Calls
<1>4. call'[a] = "memory" /\ at'[a] = "clear" /\ pc'[a] = "clear"
  BY <1>0, <1>1 DEF FuncInv, FCTypes
<1>5. Places(a)' /\ Called(a)' BY <1>1, <1>4 DEF Places, Called, InDump, Output, Func
<1>6. ~HasFunc(a)' /\ InDump(a)' BY <1>4 DEF HasFunc, InDump
<1>7. \A c \in Actors : FuncKept(c)' BY <1>0, <1>1, <1>2, <1>6, FuncLeftAlone
<1> QED BY <1>0, <1>2, <1>3, <1>5, <1>7, StepKeepsInv

\* Where the steps of MemoryStore take a; only the two that finish a dump take it
\* to what Return says.
LEMMA MemoryPlaces ==
  ASSUME FCTypes, NEW a \in Actors, MemoryStep(a)
  PROVE  /\ CanRun(a) /\ call' = call /\ sys' = sys /\ writeout_func' = writeout_func
         /\ pc' = [pc EXCEPT ![a] = pc'[a]] /\ at' = [at EXCEPT ![a] = at'[a]]
         /\ at'[a] = IF pc[a] = "gen" /\ pc'[a] # "gen" THEN "none" ELSE at[a]
         /\ \/ pc[a] = "clear" /\ pc'[a] = "zero"
            \/ pc[a] = "zero" /\ pc'[a] = "gen"
            \/ pc[a] = "gen" /\ at[a] = "gen" /\ pc'[a] \in {"gen", "magic", Return(a)}
            \/ pc[a] = "magic" /\ pc'[a] = "size"
            \/ pc[a] = "size" /\ pc'[a] = "crc"
            \/ pc[a] = "crc" /\ pc'[a] = Return(a)
<1>0. pc \in [Actors -> PcValues] /\ at \in [Actors -> AtValues] BY DEF FCTypes
<1>1. /\ CanRun(a) /\ call' = call /\ sys' = sys /\ writeout_func' = writeout_func
      /\ at' = IF pc[a] = "gen" /\ pc'[a] # "gen" THEN [at EXCEPT ![a] = "none"] ELSE at
  BY DEF MemoryStep
<1>2. at'[a] = (IF pc[a] = "gen" /\ pc'[a] # "gen" THEN "none" ELSE at[a])
      /\ at' = [at EXCEPT ![a] = at'[a]]
  BY <1>0, <1>1
<1>3. CASE ClearHeader(a) BY <1>0, <1>1, <1>2, <1>3 DEF ClearHeader
<1>4. CASE ClearData(a) BY <1>0, <1>1, <1>2, <1>4 DEF ClearData
<1>5. CASE at[a] = "gen" /\ \E n \in 1..Cap+1 : WriteChunk(a, n)
  BY <1>0, <1>1, <1>2, <1>5 DEF WriteChunk, PassChunk
<1>6. CASE at[a] = "gen" /\ EndOfStream(a) BY <1>0, <1>1, <1>2, <1>6 DEF EndOfStream
<1>7. CASE SetMagic(a) BY <1>0, <1>1, <1>2, <1>7 DEF SetMagic
<1>8. CASE SetSize(a) BY <1>0, <1>1, <1>2, <1>8 DEF SetSize
<1>9. CASE SetCrc(a) BY <1>0, <1>1, <1>2, <1>9 DEF SetCrc
<1> QED BY <1>3, <1>4, <1>5, <1>6, <1>7, <1>8, <1>9 DEF MemoryStep

LEMMA MemoryStepKeeps ==
  ASSUME Keeps, FuncInv, NEW a \in Actors, MemoryStep(a)
  PROVE  FuncInv'
<1>0. Places(a) /\ Called(a) /\ FCTypes BY DEF FuncInv
<1>1. /\ CanRun(a) /\ call' = call /\ sys' = sys /\ writeout_func' = writeout_func
      /\ pc' = [pc EXCEPT ![a] = pc'[a]] /\ at' = [at EXCEPT ![a] = at'[a]]
      /\ at'[a] = IF pc[a] = "gen" /\ pc'[a] # "gen" THEN "none" ELSE at[a]
  BY <1>0, MemoryPlaces
<1>2. OnlyMoves(a) BY <1>0, <1>1 DEF OnlyMoves, FCTypes
<1>3. pc'[a] \in PcValues /\ at'[a] \in AtValues
  BY <1>0, <1>1, MemoryPlaces DEF PcValues, AtValues, Return, FCTypes
<1>4. FCTypes' BY <1>0, <1>1, <1>3 DEF FCTypes
<1>5. CASE \/ pc[a] \in {"clear", "zero", "magic", "size"}
           \/ pc[a] = "gen" /\ pc'[a] \in {"gen", "magic"}
  <2>1. \/ pc[a] = "clear" /\ pc'[a] = "zero"
        \/ pc[a] = "zero" /\ pc'[a] = "gen"
        \/ pc[a] = "gen" /\ at[a] = "gen" /\ pc'[a] \in {"gen", "magic"}
        \/ pc[a] = "magic" /\ pc'[a] = "size"
        \/ pc[a] = "size" /\ pc'[a] = "crc"
    BY <1>0, <1>5, MemoryPlaces DEF Return
  <2>2. Places(a)' BY <1>0, <1>1, <2>1 DEF Places
  <2>3. InDump(a) /\ InDump(a)' /\ Func(a)' = Func(a) BY <2>1 DEF InDump, Func
  <2>4. Called(a)' BY <1>0, <1>1, <2>1, <2>3 DEF Called
  <2>5. HasFunc(a)' => HasFunc(a) BY <1>0, <1>1, <2>1 DEF HasFunc, Places
  <2>6. \A c \in Actors : FuncKept(c)' BY <1>1, <1>2, <2>3, <2>5, FuncLeftAlone
  <2> QED BY <1>2, <1>4, <2>2, <2>4, <2>6, StepKeepsInv
<1>6. CASE pc'[a] = Return(a) /\ ((pc[a] = "gen" /\ at[a] = "gen") \/ pc[a] = "crc")
  <2>1. at'[a] = "none" /\ HasFunc(a) /\ ~HasFunc(a)'
    BY <1>0, <1>1, <1>6 DEF Return, Places, HasFunc
  <2>2. Places(a)' BY <1>6, <2>1 DEF Places, Return
  <2>3. CASE a = Handler
    <3>1. InDump(a)' /\ a \notin Threads
      BY <1>6, <2>3, MemoryAssumption DEF InDump, Return, Threads
    <3>2. Called(a)' BY <3>1 DEF Called
    <3>3. \A c \in Actors : FuncKept(c)' BY <1>1, <1>2, <2>1, <3>1, FuncLeftAlone
    <3> QED BY <1>2, <1>4, <2>2, <3>2, <3>3, StepKeepsInv
  <2>4. CASE a # Handler
    <3>1. a \in Threads BY <2>4 DEF Actors, Threads
    <3>2. pc'[a] = "idle" /\ ~InDump(a)' BY <1>6, <2>1, <2>4 DEF Return, InDump
    <3>3. Called(a)' BY <3>2 DEF Called
    <3>4. Output(call[a]) = "memory" BY <1>0, <1>6, <3>1 DEF Called, InDump, Func
    <3>5. call[a] # "assert" BY <3>4 DEF Output
    <3>6. \A c \in Actors : FuncKept(c)' BY <1>1, <1>2, <2>1, <3>1, <3>5, DumpReturns
    <3> QED BY <1>2, <1>4, <2>2, <3>3, <3>6, StepKeepsInv
  <2> QED BY <2>3, <2>4
<1> QED BY <1>0, <1>5, <1>6, MemoryPlaces

-----------------------------------------------------------------------------
(* The shell, and the system as a whole. *)

LEMMA ShowStep ==
  ASSUME FuncInv, StartShow \/ ShowByte \/ EndShow
  PROVE  FuncInv'
<1>0. Shell \in Actors /\ Shell # Handler BY MemoryAssumption DEF Actors
<1>1. /\ at' = at /\ sys' = sys /\ writeout_func' = writeout_func
      /\ \E c \in Calls : call' \in {call, [call EXCEPT ![Shell] = c]}
      /\ at[Shell] = "none" /\ pc[Shell] \in {"idle", "emit"}
      /\ \E p \in {"idle", "emit"} : pc' = [pc EXCEPT ![Shell] = p]
  <2>1. pc \in [Actors -> PcValues] /\ Places(Shell) BY <1>0 DEF FuncInv, FCTypes
  <2>2. CASE StartShow BY <1>0, <2>1, <2>2 DEF StartShow, StartPrint, Begins, Busy, Calls
  <2>3. CASE ShowByte
    <3>1. pc' = pc /\ pc[Shell] = "emit" /\ call' = call BY <2>3 DEF ShowByte, PrintByte
    <3>2. pc' = [pc EXCEPT ![Shell] = "emit"] BY <1>0, <2>1, <3>1
    <3> QED BY <2>1, <2>3, <3>1, <3>2 DEF ShowByte, Places, Calls
  <2>4. CASE EndShow BY <1>0, <2>1, <2>4 DEF EndShow, EndPrint, Places, Calls
  <2> QED BY <2>2, <2>3, <2>4
<1>2. OnlyMoves(Shell) BY <1>0, <1>1 DEF OnlyMoves, FuncInv, FCTypes
<1>3. FCTypes' BY <1>0, <1>1 DEF FuncInv, FCTypes, PcValues
<1>4. pc'[Shell] \in {"idle", "emit"} /\ at'[Shell] = "none"
  BY <1>0, <1>1 DEF FuncInv, FCTypes
<1>5. ~InDump(Shell) /\ ~InDump(Shell)' /\ ~HasFunc(Shell)'
  BY <1>1, <1>4 DEF InDump, HasFunc
<1>6. Places(Shell)' /\ Called(Shell)' BY <1>0, <1>4, <1>5 DEF Places, Called
<1>7. \A c \in Actors : FuncKept(c)' BY <1>0, <1>1, <1>2, <1>5, FuncLeftAlone
<1> QED BY <1>0, <1>2, <1>3, <1>6, <1>7, StepKeepsInv

LEMMA FuncInvAtRest ==
  ASSUME sys \in Systems, pc = [a \in Actors |-> "idle"],
         at = [a \in Actors |-> "none"], call = [a \in Actors |-> "none"]
  PROVE  FuncInv
<1>1. FCTypes BY DEF FCTypes, PcValues, AtValues
<1>2. ASSUME NEW a \in Actors PROVE Places(a) /\ Called(a) /\ FuncKept(a)
  BY <1>2 DEF Places, Called, FuncKept, HasFunc, InDump
<1> QED BY <1>1, <1>2 DEF FuncInv

LEMMA FuncInvInit == FCInit => FuncInv
BY FuncInvAtRest DEF FCInit, Init

LEMMA FuncInvStep == Keeps /\ FuncInv /\ [FCNext]_allVars => FuncInv'
<1> SUFFICES ASSUME Keeps, FuncInv, [FCNext]_allVars PROVE FuncInv' OBVIOUS
<1>1. CASE \E a \in Threads, len \in StreamLens : StartSerial(a, len)
  BY <1>1, StartSerialStep
<1>2. CASE \E a \in Threads \cup {Handler}, len \in StreamLens : StartMemory(a, len)
  BY <1>2, StartMemoryStep
<1>3. ASSUME NEW a \in Actors, Proceeds(a) PROVE FuncInv'
  BY <1>3, InitStep, SerialStep, NoSerialStored, MemoryStepKeeps, ShowStep DEF Proceeds
<1>4. CASE StartShow BY <1>4, ShowStep
<1>5. CASE (Boot /\ UNCHANGED fcVars) \/ UNCHANGED allVars
  <2>1. pc' = pc /\ at' = at /\ call' = call /\ sys' = sys /\ writeout_func' = writeout_func
    BY <1>5 DEF Boot, fcVars, allVars, vars
  <2> QED BY <2>1 DEF FuncInv, FCTypes, Places, Called, FuncKept, HasFunc, Func, InDump,
                      Outranks
<1>6. CASE Again
  <2>1. /\ pc' = [a \in Actors |-> "idle"] /\ at' = [a \in Actors |-> "none"]
        /\ call' = [a \in Actors |-> "none"] /\ sys' \in Systems
    BY <1>6 DEF Again, Reset, Restart, FuncInv, FCTypes
  <2>2. FCTypes' BY <2>1 DEF FCTypes, PcValues, AtValues
  <2>3. ASSUME NEW a \in Actors PROVE Places(a)' /\ Called(a)' /\ FuncKept(a)'
    BY <2>1, <2>3 DEF Places, Called, FuncKept, HasFunc, InDump
  <2> QED BY <2>2, <2>3 DEF FuncInv
<1> QED BY <1>1, <1>2, <1>3, <1>4, <1>5, <1>6 DEF FCNext

\* Which system runs is decided once.
LEMMA SystemStays ==
  [FCNext]_allVars => (Keeps' <=> Keeps) /\ (Alone' <=> Alone) /\ (Differ' <=> Differ)
<1> SUFFICES ASSUME [FCNext]_allVars PROVE sys' = sys BY DEF Keeps, Alone, Differ
<1>1. CASE FCNext
  BY <1>1 DEF FCNext, Proceeds, StartSerial, StartMemory, StartShow, ShowByte, EndShow,
              InitClear, InitFunc, DisableIrq, WriteSerial, StoreSerial, EndSerial,
              MemoryStep, Again, fcVars
<1>2. CASE UNCHANGED allVars BY <1>2 DEF allVars, fcVars
<1> QED BY <1>1, <1>2

\* In any system whose threads have different priorities, and where whatever can
\* interrupt a dump and return has the same output, every actor that is about to
\* write finds the function it passed to mcd_init in m_ctx (coredump.c:192).
THEOREM EveryoneKeepsFunction == FCSpec => []OwnWriteout
<1>1. (Keeps => FuncInv) => OwnWriteout
  <2> SUFFICES ASSUME Keeps, FuncInv, NEW a \in Actors, CanRun(a), at[a] = "gen"
               PROVE  writeout_func = IF pc[a] = "gen" THEN "memory" ELSE "serial"
    BY DEF OwnWriteout, Keeps
  <2>1. HasFunc(a) /\ Places(a) /\ pc[a] \in PcValues BY DEF HasFunc, FuncInv, FCTypes
  <2>2. pc[a] \in {"idle", "gen"} BY <2>1 DEF Places, PcValues
  <2>3. writeout_func = Func(a) BY <2>1, RunnerHasFunc
  <2> QED BY <2>2, <2>3 DEF Func
<1> QED BY <1>1, FuncInvInit, FuncInvStep, SystemStays, PTL DEF FCSpec

-----------------------------------------------------------------------------
(* A function, if not its own. *)

\* Who is about to write has a function, unless somebody who does not let it run
\* is between the two stores of mcd_init.
SetInv ==
  /\ FCTypes
  /\ at[Handler] # "none" => pc[Handler] # "idle"
  /\ \A a \in Actors : at[a] \in {"irq", "gen"} =>
       writeout_func # "none" \/ \E b \in Actors : Outranks(b, a) /\ at[b] = "func"

\* A step of a that gives its places and its call a value leaves those of others alone.
LEMMA OneMoves ==
  ASSUME FCTypes, NEW a \in Actors, sys' = sys,
         NEW p \in PcValues, NEW q \in AtValues, NEW c \in Calls \cup {"none"},
         pc' = [pc EXCEPT ![a] = p], at' = [at EXCEPT ![a] = q], call' = [call EXCEPT ![a] = c]
  PROVE  FCTypes' /\ OnlyMoves(a) /\ pc'[a] = p /\ at'[a] = q
<1>1. FCTypes' BY DEF FCTypes
<1>2. OnlyMoves(a) BY DEF FCTypes, OnlyMoves
<1> QED BY <1>1, <1>2 DEF FCTypes

\* An actor clears the function only when it goes between the stores, and leaves from
\* there only by storing one; until then whoever it found about to write waits.
LEMMA StepKeepsSet ==
  ASSUME Differ, SetInv, NEW a \in Actors, CanRun(a), FCTypes', OnlyMoves(a),
         a = Handler /\ at'[a] # "none" => pc'[a] # "idle",
         \/ writeout_func' # "none"
         \/ at'[a] = "func"
         \/ /\ writeout_func' = writeout_func
            /\ at[a] # "func" /\ (at'[a] \in {"irq", "gen"} => at[a] \in {"irq", "gen"})
  PROVE  SetInv'
<1>1. (at[Handler] # "none" => pc[Handler] # "idle")'
  BY DEF OnlyMoves, SetInv, Actors
<1>2. ASSUME NEW c \in Actors, (at[c] \in {"irq", "gen"})', ~(writeout_func # "none")'
      PROVE  (\E b \in Actors : Outranks(b, c) /\ at[b] = "func")'
  <2>1. CASE at'[a] = "func"
    <3>1. c # a /\ Busy(c) BY <1>2, <2>1 DEF OnlyMoves, Busy
    <3>2. Outranks(a, c) BY <3>1, RunnerIsAlone DEF SetInv
    <3> QED BY <2>1, <3>2, RanksStay
  <2>2. CASE at'[a] # "func"
    <3>1. at[a] # "func" /\ writeout_func = "none" BY <1>2, <2>2
    <3>2. at[c] \in {"irq", "gen"} BY <1>2, <2>2 DEF OnlyMoves
    <3>3. PICK b \in Actors : Outranks(b, c) /\ at[b] = "func" BY <3>1, <3>2 DEF SetInv
    <3>4. at'[b] = "func" BY <3>1, <3>3 DEF OnlyMoves
    <3> QED BY <3>3, <3>4, RanksStay
  <2> QED BY <2>1, <2>2
<1> QED BY <1>1, <1>2 DEF SetInv

\* The calls begin, and mcd_init stores and clears the function.
LEMMA BeginKeepsSet ==
  ASSUME Differ, SetInv, NEW a \in Actors,
         \/ a \in Threads /\ \E len \in StreamLens : StartSerial(a, len)
         \/ \E len \in StreamLens : StartMemory(a, len)
         \/ a = Shell /\ StartShow
  PROVE  SetInv'
<1>1. FCTypes BY DEF SetInv
<1>2. PICK c \in Calls : Begins(a, c)
  BY DEF StartSerial, StartMemory, StartShow, Calls
<1>3. CanRun(a) /\ ~Busy(a) /\ call' = [call EXCEPT ![a] = c] BY <1>2 DEF Begins
<1>4. at[a] = "none" /\ pc[a] = "idle" BY <1>3 DEF Busy
<1>5. CASE a \in Threads /\ \E len \in StreamLens : StartSerial(a, len)
  <2>1. a # Handler BY <1>5, MemoryAssumption DEF Threads
  <2>2. /\ sys' = sys /\ writeout_func' = writeout_func /\ pc' = [pc EXCEPT ![a] = "idle"]
        /\ at' = [at EXCEPT ![a] = "clear"]
    BY <1>1, <1>4, <1>5 DEF StartSerial, FCTypes
  <2>3. FCTypes' /\ OnlyMoves(a) /\ at'[a] = "clear"
    BY <1>1, <1>3, <2>2, OneMoves DEF PcValues, AtValues
  <2> QED BY <1>3, <1>4, <2>1, <2>2, <2>3, StepKeepsSet
<1>6. CASE \E len \in StreamLens : StartMemory(a, len)
  <2>1. /\ sys' = sys /\ writeout_func' = writeout_func /\ pc' = [pc EXCEPT ![a] = "clear"]
        /\ at' = [at EXCEPT ![a] = "clear"]
    BY <1>6 DEF StartMemory, StartDump
  <2>2. FCTypes' /\ OnlyMoves(a) /\ at'[a] = "clear" /\ pc'[a] = "clear"
    BY <1>1, <1>3, <2>1, OneMoves DEF PcValues, AtValues
  <2> QED BY <1>3, <1>4, <2>1, <2>2, StepKeepsSet
<1>7. CASE a = Shell /\ StartShow
  <2>1. /\ sys' = sys /\ writeout_func' = writeout_func /\ pc' = [pc EXCEPT ![a] = "emit"]
        /\ at' = [at EXCEPT ![a] = "none"]
    BY <1>1, <1>4, <1>7 DEF StartShow, StartPrint, FCTypes
  <2>2. FCTypes' /\ OnlyMoves(a) /\ at'[a] = "none"
    BY <1>1, <1>3, <2>1, OneMoves DEF PcValues, AtValues
  <2> QED BY <1>3, <1>4, <2>1, <2>2, StepKeepsSet
<1> QED BY <1>5, <1>6, <1>7

LEMMA SerialKeepsSet ==
  ASSUME Differ, SetInv, NEW a \in Actors,
         \/ InitClear(a) \/ InitFunc(a) \/ DisableIrq(a)
         \/ WriteSerial(a) \/ StoreSerial(a) \/ EndSerial(a)
  PROVE  SetInv'
<1>1. /\ FCTypes /\ CanRun(a) /\ sys' = sys /\ at[a] # "none"
      /\ pc' = [pc EXCEPT ![a] = pc[a]] /\ call' = [call EXCEPT ![a] = call[a]]
      /\ pc[a] \in PcValues /\ call[a] \in Calls \cup {"none"}
  BY DEF InitClear, InitFunc, DisableIrq, WriteSerial, StoreSerial, EndSerial, Goes, vars,
         PassChunk, SetInv, FCTypes
<1>2. a = Handler => pc[a] # "idle" BY <1>1 DEF SetInv
<1>3. PICK q \in AtValues : at' = [at EXCEPT ![a] = q]
  BY DEF InitClear, InitFunc, DisableIrq, WriteSerial, StoreSerial, EndSerial, Goes,
         AtValues, SetInv, FCTypes
<1>4. FCTypes' /\ OnlyMoves(a) /\ pc'[a] = pc[a] /\ at'[a] = q BY <1>1, <1>3, OneMoves
<1>5. \/ writeout_func' # "none"
      \/ at'[a] = "func"
      \/ writeout_func' = writeout_func /\ at[a] \in {"irq", "gen"}
  BY <1>1 DEF InitClear, InitFunc, DisableIrq, WriteSerial, StoreSerial, EndSerial, Goes,
              SetInv, FCTypes
<1> QED BY <1>1, <1>2, <1>4, <1>5, StepKeepsSet

LEMMA MemoryKeepsSet ==
  ASSUME Differ, SetInv, NEW a \in Actors,
         MemoryStep(a) \/ (a = Shell /\ (ShowByte \/ EndShow))
  PROVE  SetInv'
<1>1. FCTypes BY DEF SetInv
<1>2. CASE MemoryStep(a)
  <2> DEFINE p == pc'[a]
             q == at'[a]
  <2>1. /\ CanRun(a) /\ sys' = sys /\ writeout_func' = writeout_func
        /\ pc' = [pc EXCEPT ![a] = p] /\ at' = [at EXCEPT ![a] = q]
        /\ q \in {at[a], "none"} /\ p \in PcValues
        /\ (a = Handler => p # "idle") /\ q \in AtValues
    BY <1>1, <1>2, MemoryPlaces DEF PcValues, AtValues, Return, FCTypes
  <2>2. call' = [call EXCEPT ![a] = call[a]] /\ call[a] \in Calls \cup {"none"}
    BY <1>1, <1>2, MemoryPlaces DEF FCTypes
  <2>3. at[a] = "func" => q = "func" BY <1>1, <1>2, MemoryPlaces
  <2> HIDE DEF p, q
  <2>4. FCTypes' /\ OnlyMoves(a) /\ pc'[a] = p /\ at'[a] = q BY <1>1, <2>1, <2>2, OneMoves
  <2>5. CASE q = "func" BY <2>1, <2>4, <2>5, StepKeepsSet
  <2>6. CASE q # "func" BY <2>1, <2>3, <2>4, <2>6, StepKeepsSet
  <2> QED BY <2>5, <2>6
<1>3. CASE a = Shell /\ (ShowByte \/ EndShow)
  <2>1. /\ CanRun(a) /\ sys' = sys /\ writeout_func' = writeout_func /\ a # Handler
        /\ at' = [at EXCEPT ![a] = at[a]] /\ at[a] \in AtValues
        /\ call' = [call EXCEPT ![a] = call[a]] /\ call[a] \in Calls \cup {"none"}
    BY <1>1, <1>3, MemoryAssumption DEF ShowByte, EndShow, FCTypes
  <2>2. PICK p \in PcValues : pc' = [pc EXCEPT ![a] = p]
    BY <1>1, <1>3 DEF ShowByte, EndShow, PrintByte, EndPrint, FCTypes, PcValues
  <2>3. FCTypes' /\ OnlyMoves(a) /\ at'[a] = at[a] BY <1>1, <2>1, <2>2, OneMoves
  <2>4. CASE at[a] = "func" BY <2>1, <2>3, <2>4, StepKeepsSet
  <2>5. CASE at[a] # "func" BY <2>1, <2>3, <2>5, StepKeepsSet
  <2> QED BY <2>4, <2>5
<1> QED BY <1>2, <1>3

LEMMA SetInvStep == Differ /\ SetInv /\ [FCNext]_allVars => SetInv'
<1> SUFFICES ASSUME Differ, SetInv, [FCNext]_allVars PROVE SetInv' OBVIOUS
<1>1. Threads \cup {Handler} = Actors BY DEF Threads, Actors
<1>2. CASE \E a \in Threads, len \in StreamLens : StartSerial(a, len)
  BY <1>1, <1>2, BeginKeepsSet
<1>3. CASE \E a \in Threads \cup {Handler}, len \in StreamLens : StartMemory(a, len)
  BY <1>1, <1>3, BeginKeepsSet
<1>4. ASSUME NEW a \in Actors, Proceeds(a) PROVE SetInv'
  BY <1>4, SerialKeepsSet, MemoryKeepsSet DEF Proceeds
<1>5. CASE StartShow BY <1>1, <1>5, BeginKeepsSet DEF Threads
<1>6. CASE (Boot /\ UNCHANGED fcVars) \/ UNCHANGED allVars
  <2>1. pc' = pc /\ at' = at /\ call' = call /\ sys' = sys /\ writeout_func' = writeout_func
    BY <1>6 DEF Boot, fcVars, allVars, vars
  <2> QED BY <2>1 DEF SetInv, FCTypes, Outranks
<1>7. CASE Again
  <2>1. /\ pc' = [a \in Actors |-> "idle"] /\ at' = [a \in Actors |-> "none"]
        /\ call' = [a \in Actors |-> "none"] /\ sys' \in Systems
    BY <1>7 DEF Again, Reset, Restart, SetInv, FCTypes
  <2>2. FCTypes' BY <2>1 DEF FCTypes, PcValues, AtValues
  <2> QED BY <2>1, <2>2 DEF SetInv, Actors
<1> QED BY <1>2, <1>3, <1>4, <1>5, <1>6, <1>7 DEF FCNext

\* In any system whose threads have different priorities, whatever they dump to, who is
\* about to write has a write-out function to call, its own or another's: where threads
\* take turns, it may find the one mcd_init has just cleared (coredump.c:192, :225).
THEOREM FunctionStaysSet == FCSpec => [](Differ => FunctionIsSet)
<1>1. FCInit => SetInv
  <2>1. FCInit => \A a \in Actors : at[a] = "none" BY DEF FCInit
  <2> QED BY <2>1, FuncInvInit DEF FuncInv, SetInv, Actors
<1>2. Differ /\ SetInv => FunctionIsSet
  <2> SUFFICES ASSUME Differ, SetInv, NEW a \in Actors, CanRun(a), at[a] = "gen",
                      writeout_func = "none"
               PROVE  FALSE
    BY DEF FunctionIsSet
  <2>1. PICK b \in Actors : Outranks(b, a) /\ at[b] = "func" BY DEF SetInv
  <2>2. b # a /\ Busy(b) BY <2>1 DEF Outranks, Busy
  <2>3. Outranks(a, b) BY <2>2, RunnerIsAlone DEF SetInv
  <2> QED BY <2>1, <2>3, OutranksOnce DEF SetInv
<1> QED BY <1>1, <1>2, SetInvStep, SystemStays, PTL DEF FCSpec

-----------------------------------------------------------------------------
(* The terminal. *)

\* A serial dump, from mcd_init to the end marker.
InSerial(a) == pc[a] = "idle" /\ at[a] \in {"clear", "func", "irq", "gen"}

\* While a serial dump writes, the terminal has what it has written, whether or
\* not a fault handler adds its lines.
SerialInv(a) ==
  InSerial(a) =>
    /\ dump[a] \in 1..Len(lens) /\ pos[a] <= lens[dump[a]]
    /\ at[a] # "gen" => pos[a] = 0
    /\ at[a] = "gen" => rec.open /\ rec.bytes = [k \in 1..pos[a] |-> <<dump[a], k - 1>>]

\* Interrupts are disabled by whoever writes a serial dump, and by nobody else.
IrqInv ==
  /\ irq = {a \in Actors : at[a] = "gen" /\ pc[a] = "idle"}
  /\ \A a, b \in irq : a = b

\* The shell prints, and what it has printed can still become a file.
OnScreen == pc[Shell] = "emit" /\ rec.open /\ ~rec.noise /\ irq = {}

\* Then it is the beginning of an accepted buffer, and nobody who could run before
\* the shell is in the middle of a memory dump.
ShownInv ==
  OnScreen =>
    /\ Accepted /\ Len(out) <= buf.data_size /\ rec.bytes = out
    /\ \A k \in 1..Len(out) : out[k] = buf.data[k - 1]
    /\ \A b \in Actors : Outranks(b, Shell) => pc[b] = "idle"

Records == [open : BOOLEAN, noise : BOOLEAN, bytes : Seq(Cell)]

TerminalTypes ==
  /\ writeout_func \in {"none", "memory", "serial"}
  /\ serial_crc32 \subseteq Bits32 /\ print_crc \subseteq Bits32
  /\ rec \in Records /\ \A f \in files : f \in Seq(Cell) \ {<<>>}

ScreenInv == IrqInv /\ TerminalTypes /\ (\A a \in Actors : SerialInv(a)) /\ ShownInv

TerminalInv == FuncInv /\ TypeInv /\ ScreenInv

-----------------------------------------------------------------------------
(* Facts about the definitions. *)

LEMMA AtMostOne ==
  ASSUME NEW S, \A a, b \in S : a = b
  PROVE  Cardinality(S) <= 1
<1>1. CASE S = {} BY <1>1, FS_EmptySet
<1>2. CASE S # {}
  <2>1. PICK a : a \in S BY <1>2
  <2>2. S = {a} BY <2>1
  <2> QED BY <2>2, FS_Singleton
<1> QED BY <1>1, <1>2

\* The invariant has the types of the module in it.
LEMMA TypesOfInv == TerminalInv => FCTypeOK
<1> SUFFICES ASSUME TerminalInv PROVE FCTypeOK OBVIOUS
<1>1. Cardinality(irq) <= 1 BY AtMostOne DEF TerminalInv, ScreenInv, IrqInv
<1>2. FCTypes /\ TerminalTypes BY DEF TerminalInv, ScreenInv, FuncInv
<1>3. rec.open \in BOOLEAN /\ rec.noise \in BOOLEAN /\ rec.bytes \in Seq(Cell)
  BY <1>2 DEF TerminalTypes, Records
<1> QED BY <1>1, <1>2, <1>3 DEF FCTypeOK, FCTypes, TerminalTypes, AtValues, TerminalInv, ScreenInv,
                                 IrqInv

\* Other text spoils a record and leaves its bytes.
LEMMA TextSpoils ==
  ASSUME NEW r \in Records
  PROVE  /\ Text(r) \in Records /\ Text(r).open = r.open /\ Text(r).bytes = r.bytes
         /\ Text(r).open => Text(r).noise
BY DEF Text, Records

LEMMA HexAppends ==
  ASSUME NEW r \in Records, NEW cell \in Cell
  PROVE  /\ Hex(r, cell) \in Records
         /\ Hex(r, cell).open = r.open /\ Hex(r, cell).noise = r.noise
         /\ r.open => Hex(r, cell).bytes = Append(r.bytes, cell)
<1>1. Append(r.bytes, cell) \in Seq(Cell) BY AppendProperties DEF Records
<1> QED BY <1>1 DEF Hex, Records

LEMMA NewRecords ==
  /\ Start \in Records /\ Start.open /\ Start.bytes = <<>>
  /\ Closed \in Records /\ ~Closed.open
<1>1. <<>> \in Seq(Cell) BY EmptySeq
<1> QED BY <1>1 DEF Start, Closed, Records

\* The list of dumps is as before, or has one more.
Grows == lens' = lens \/ \E len \in StreamLens : lens' = Append(lens, len)

LEMMA StreamsRemain ==
  ASSUME TypeOK, Grows, NEW d \in 1..Len(lens)
  PROVE  d \in 1..Len(lens') /\ lens'[d] = lens[d] /\ Stream(d)' = Stream(d)
<1>1. d \in 1..Len(lens') /\ lens'[d] = lens[d]
  <2>1. CASE lens' = lens BY <2>1
  <2>2. ASSUME NEW len \in StreamLens, lens' = Append(lens, len)
        PROVE  d \in 1..Len(lens') /\ lens'[d] = lens[d]
    <3>1. Len(lens) \in Nat BY DEF TypeOK
    <3>2. Len(lens') = Len(lens) + 1 /\ lens'[d] = lens[d]
      BY <2>2, AppendProperties DEF TypeOK
    <3> QED BY <3>1, <3>2
  <2> QED BY <2>1, <2>2 DEF Grows
<1> QED BY <1>1 DEF Stream

\* An actor that runs is alone with disabled interrupts, or they are enabled.
LEMMA RunnerIrq ==
  ASSUME TerminalInv, NEW a \in Actors, CanRun(a), ~(at[a] = "gen" /\ pc[a] = "idle"), a # Handler
  PROVE  irq = {}
<1>1. a \in Threads BY DEF Actors, Threads
<1>2. irq \subseteq {a} BY <1>1 DEF CanRun
<1>3. a \notin irq BY DEF TerminalInv, ScreenInv, IrqInv
<1> QED BY <1>2, <1>3

\* Where interrupts are enabled, nobody writes a serial dump.
LEMMA NobodyWrites ==
  ASSUME IrqInv, irq = {}, NEW b \in Actors, InSerial(b)
  PROVE  at[b] # "gen"
BY DEF IrqInv, InSerial

-----------------------------------------------------------------------------
(* What a step leaves alone. *)

\* The serial dump of b, when b does not move and the record is only spoilt.
LEMMA SerialStays ==
  ASSUME TypeOK, rec \in Records, Grows, NEW b \in Actors, SerialInv(b),
         at'[b] = at[b], pc'[b] = pc[b], dump'[b] = dump[b], pos'[b] = pos[b],
         rec' \in {rec, Text(rec)} \/ (InSerial(b) => at[b] # "gen")
  PROVE  SerialInv(b)'
<1> SUFFICES ASSUME InSerial(b)' PROVE SerialInv(b)' BY DEF SerialInv
<1>1. InSerial(b) BY DEF InSerial
<1>2. /\ dump[b] \in 1..Len(lens) /\ pos[b] <= lens[dump[b]] /\ (at[b] # "gen" => pos[b] = 0)
      /\ at[b] = "gen" => rec.open /\ rec.bytes = [k \in 1..pos[b] |-> <<dump[b], k - 1>>]
  BY <1>1 DEF SerialInv
<1>3. dump[b] \in 1..Len(lens') /\ lens'[dump[b]] = lens[dump[b]] BY <1>2, StreamsRemain
<1>4. at[b] = "gen" => rec'.open = rec.open /\ rec'.bytes = rec.bytes BY <1>1, TextSpoils
<1> QED BY <1>2, <1>3, <1>4 DEF SerialInv

\* What is shown, when nothing but the list of dumps and the record changes.
LEMMA ShownStays ==
  ASSUME ShownInv, rec \in Records, sys' = sys, buf' = buf, out' = out, pc' = pc,
         irq' = irq, rec' \in {rec, Text(rec)}
  PROVE  ShownInv'
<1> SUFFICES ASSUME OnScreen' PROVE ShownInv' BY DEF ShownInv
<1>1. rec' = rec BY TextSpoils DEF OnScreen
<1>2. OnScreen BY <1>1 DEF OnScreen
<1> QED BY <1>1, <1>2
        DEF ShownInv, Accepted, mcd_check_memory_coredump, crc32b, Content, Outranks

\* Whether interrupts are disabled, when a does not begin or end to write.
LEMMA IrqStays ==
  ASSUME IrqInv, irq' = irq, NEW a \in Actors, OnlyMoves(a),
         at'[a] = "gen" /\ pc'[a] = "idle" <=> at[a] = "gen" /\ pc[a] = "idle"
  PROVE  IrqInv'
<1>1. \A b \in Actors : at'[b] = "gen" /\ pc'[b] = "idle" <=> at[b] = "gen" /\ pc[b] = "idle"
  BY DEF OnlyMoves
<1> QED BY <1>1 DEF IrqInv

\* What the invariant says of an actor that runs.
LEMMA RunnerFacts ==
  ASSUME TerminalInv, NEW a \in Actors
  PROVE  /\ TypeOK /\ rec \in Records /\ IrqInv /\ ShownInv /\ TerminalTypes
         /\ (\A b \in Actors : SerialInv(b)) /\ Places(a)
         /\ pc \in [Actors -> PcValues] /\ at \in [Actors -> AtValues]
         /\ dump \in [Actors -> 0..Len(lens)] /\ pos \in [Actors -> Nat]
         /\ Handler \notin Threads /\ Handler \in Actors
         /\ Shell \in Threads /\ Shell \in Actors /\ Threads \subseteq Actors
BY MemoryAssumption DEF TerminalInv, ScreenInv, TerminalTypes, FuncInv, FCTypes, TypeInv,
                        TypeOK, Threads, Actors

-----------------------------------------------------------------------------
(* The steps of a serial dump. *)

LEMMA StartSerialOnScreen ==
  ASSUME TerminalInv, NEW a \in Threads, NEW len \in StreamLens, StartSerial(a, len)
  PROVE  ScreenInv'
<1>0. a \in Actors BY DEF Threads, Actors
<1>1. /\ TypeOK /\ rec \in Records /\ IrqInv /\ ShownInv /\ TerminalTypes
      /\ (\A b \in Actors : SerialInv(b))
      /\ at \in [Actors -> AtValues]
      /\ dump \in [Actors -> 0..Len(lens)] /\ pos \in [Actors -> Nat]
  BY <1>0, RunnerFacts
<1>2. /\ pc[a] = "idle" /\ at[a] = "none" /\ at' = [at EXCEPT ![a] = "clear"]
      /\ rec' \in {rec, Text(rec)} /\ lens' = Append(lens, len)
      /\ dump' = [dump EXCEPT ![a] = Len(lens) + 1] /\ pos' = [pos EXCEPT ![a] = 0]
      /\ \E c \in Calls : call' = [call EXCEPT ![a] = c]
      /\ UNCHANGED <<buf, pc, out, sys, writeout_func, irq, serial_crc32, print_crc, files>>
  BY DEF StartSerial, Begins, Busy, buf, Calls
<1>3. OnlyMoves(a) BY <1>0, <1>2 DEF OnlyMoves, TerminalInv, FuncInv, FCTypes
<1>4. IrqInv' BY <1>0, <1>1, <1>2, <1>3, IrqStays
<1>5. TerminalTypes' BY <1>1, <1>2, TextSpoils DEF TerminalTypes
<1>6. SerialInv(a)'
  <2>1. Len(lens') = Len(lens) + 1 /\ lens'[Len(lens) + 1] = len /\ Len(lens) \in Nat
    BY <1>1, <1>2, AppendProperties DEF TypeOK
  <2>2. len \in Nat BY MemoryAssumption
  <2>3. dump'[a] = Len(lens) + 1 /\ pos'[a] = 0 /\ at'[a] = "clear" BY <1>0, <1>1, <1>2
  <2> QED BY <2>1, <2>2, <2>3 DEF SerialInv
<1>7. ASSUME NEW b \in Actors, b # a PROVE SerialInv(b)'
  <2>1. Grows BY <1>2 DEF Grows
  <2>2. at'[b] = at[b] /\ pc'[b] = pc[b] /\ dump'[b] = dump[b] /\ pos'[b] = pos[b]
    BY <1>1, <1>2, <1>7
  <2> QED BY <1>1, <1>2, <2>1, <2>2, SerialStays
<1>8. ShownInv' BY <1>1, <1>2, ShownStays
<1> QED BY <1>4, <1>5, <1>6, <1>7, <1>8 DEF ScreenInv

LEMMA InitOnScreen ==
  ASSUME TerminalInv, NEW a \in Actors, InitClear(a) \/ InitFunc(a)
  PROVE  ScreenInv'
<1>1. /\ TypeOK /\ rec \in Records /\ IrqInv /\ ShownInv /\ TerminalTypes
      /\ (\A b \in Actors : SerialInv(b)) /\ at \in [Actors -> AtValues] /\ Places(a)
      /\ pc \in [Actors -> PcValues]
  BY RunnerFacts
<1>2. /\ UNCHANGED <<buf, pc, out, lens, dump, pos, sys, call, irq, serial_crc32, print_crc,
                     rec, files>>
      /\ writeout_func' \in {"none", "memory", "serial"}
      /\ at[a] \in {"clear", "func"} /\ \E to \in AtValues : at' = [at EXCEPT ![a] = to]
      /\ at'[a] \in {"func", "irq"} \/ (at'[a] = "gen" /\ pc[a] = "gen")
  BY <1>1 DEF InitClear, InitFunc, Goes, vars, buf, AtValues
<1>3. OnlyMoves(a) BY <1>1, <1>2 DEF OnlyMoves
<1>4. IrqInv' BY <1>1, <1>2, <1>3, IrqStays
<1>5. TerminalTypes' BY <1>1, <1>2 DEF TerminalTypes
<1>6. SerialInv(a)' BY <1>1, <1>2 DEF SerialInv, InSerial
<1>7. ASSUME NEW b \in Actors, b # a PROVE SerialInv(b)'
  <2>1. Grows BY <1>2 DEF Grows
  <2>2. at'[b] = at[b] /\ pc'[b] = pc[b] /\ dump'[b] = dump[b] /\ pos'[b] = pos[b]
    BY <1>1, <1>2, <1>7
  <2> QED BY <1>1, <1>2, <2>1, <2>2, SerialStays
<1>8. ShownInv' BY <1>1, <1>2, ShownStays
<1> QED BY <1>4, <1>5, <1>6, <1>7, <1>8 DEF ScreenInv

LEMMA DisableIrqOnScreen ==
  ASSUME TerminalInv, NEW a \in Actors, DisableIrq(a)
  PROVE  ScreenInv'
<1>1. /\ TypeOK /\ rec \in Records /\ IrqInv /\ TerminalTypes
      /\ (\A b \in Actors : SerialInv(b)) /\ at \in [Actors -> AtValues] /\ Places(a)
      /\ pc \in [Actors -> PcValues]
  BY RunnerFacts
<1>2. /\ CanRun(a) /\ at[a] = "irq" /\ at' = [at EXCEPT ![a] = "gen"]
      /\ irq' = {a} /\ serial_crc32' = Bits32 /\ rec' = Start
      /\ UNCHANGED <<buf, pc, lens, dump, pos, sys, writeout_func, print_crc, files>>
  BY DEF DisableIrq, Goes, vars, buf
<1>3. pc[a] = "idle" /\ a # Handler BY <1>1, <1>2 DEF Places, PcValues
<1>4. irq = {} BY <1>2, <1>3, RunnerIrq
<1>5. IrqInv' BY <1>1, <1>2, <1>3, <1>4 DEF IrqInv
<1>6. TerminalTypes' BY <1>1, <1>2, NewRecords DEF TerminalTypes
<1>7. SerialInv(a)'
  <2>1. /\ dump[a] \in 1..Len(lens) /\ pos[a] <= lens[dump[a]] /\ pos[a] = 0
    BY <1>1, <1>2, <1>3 DEF SerialInv, InSerial
  <2>2. [k \in 1..0 |-> <<dump[a], k - 1>>] = <<>> OBVIOUS
  <2>3. rec'.open /\ rec'.bytes = [k \in 1..pos'[a] |-> <<dump'[a], k - 1>>]
    BY <1>2, <2>1, <2>2, NewRecords
  <2>4. dump'[a] \in 1..Len(lens') /\ pos'[a] <= lens'[dump'[a]] /\ at'[a] = "gen"
    BY <1>1, <1>2, <2>1
  <2> QED BY <2>3, <2>4 DEF SerialInv
<1>8. ASSUME NEW b \in Actors, b # a PROVE SerialInv(b)'
  <2>1. Grows BY <1>2 DEF Grows
  <2>2. at'[b] = at[b] /\ pc'[b] = pc[b] /\ dump'[b] = dump[b] /\ pos'[b] = pos[b]
    BY <1>1, <1>2, <1>8
  <2>3. InSerial(b) => at[b] # "gen" BY <1>1, <1>4, NobodyWrites
  <2> QED BY <1>1, <2>1, <2>2, <2>3, SerialStays
<1>9. ShownInv' BY <1>2 DEF ShownInv, OnScreen
<1> QED BY <1>5, <1>6, <1>7, <1>8, <1>9 DEF ScreenInv

\* Only the actor that disabled interrupts writes to the terminal.
LEMMA WriterIsSerial ==
  ASSUME Keeps, TerminalInv, NEW a \in Actors, WriteSerial(a)
  PROVE  pc[a] = "idle" /\ a # Handler /\ irq = {a}
<1>1. HasFunc(a) /\ CanRun(a) /\ at[a] = "gen" /\ writeout_func = "serial"
  BY DEF WriteSerial, HasFunc
<1>2. writeout_func = Func(a) BY <1>1, RunnerHasFunc DEF TerminalInv
<1>3. pc[a] = "idle" /\ a # Handler BY <1>1, <1>2, RunnerFacts DEF Func, Places
<1>4. a \in irq BY <1>1, <1>3 DEF TerminalInv, ScreenInv, IrqInv
<1> QED BY <1>3, <1>4 DEF TerminalInv, ScreenInv, IrqInv

LEMMA WriteSerialOnScreen ==
  ASSUME Keeps, TerminalInv, NEW a \in Actors, WriteSerial(a)
  PROVE  ScreenInv'
<1>1. /\ TypeOK /\ rec \in Records /\ IrqInv /\ TerminalTypes
      /\ (\A b \in Actors : SerialInv(b)) /\ pos \in [Actors -> Nat]
  BY RunnerFacts
<1> DEFINE cell == <<dump[a], pos[a]>>
<1>2. /\ at[a] = "gen" /\ pos[a] < lens[dump[a]]
      /\ serial_crc32' = Not(mcd_crc32b(<<Byte(cell)>>, serial_crc32))
      /\ rec' = Hex(rec, cell) /\ pos' = [pos EXCEPT ![a] = @ + 1]
      /\ UNCHANGED <<buf, pc, lens, dump, sys, at, call, irq, writeout_func, print_crc, files>>
  BY DEF WriteSerial, corefile_serial_write, buf
<1>3. pc[a] = "idle" /\ irq = {a} BY WriterIsSerial
<1>4. OnlyMoves(a) BY <1>2 DEF OnlyMoves
<1>5. IrqInv' BY <1>1, <1>2, <1>4, IrqStays
<1>6. /\ dump[a] \in 1..Len(lens) /\ rec.open /\ rec.bytes = [k \in 1..pos[a] |-> <<dump[a], k - 1>>]
  BY <1>1, <1>2, <1>3 DEF SerialInv, InSerial
<1>7. cell \in Cell
  <2>1. dump[a] \in Nat /\ pos[a] \in Nat BY <1>1, <1>6 DEF TypeOK
  <2> QED BY <2>1 DEF Cell
<1>8. TerminalTypes'
  <2>1. serial_crc32' \subseteq Bits32 BY <1>2 DEF Not
  <2>2. rec' \in Records BY <1>1, <1>2, <1>7, HexAppends
  <2> QED BY <1>1, <1>2, <2>1, <2>2 DEF TerminalTypes
<1>9. SerialInv(a)'
  <2>1. rec'.open /\ rec'.bytes = Append(rec.bytes, cell) BY <1>1, <1>2, <1>6, <1>7, HexAppends
  <2>2. pos[a] \in Nat /\ pos'[a] = pos[a] + 1 BY <1>1, <1>2
  <2>3. rec'.bytes = [k \in 1..pos[a] + 1 |-> <<dump[a], k - 1>>]
    <3>1. Append([k \in 1..pos[a] |-> <<dump[a], k - 1>>], <<dump[a], pos[a]>>)
            = [k \in 1..pos[a] + 1 |-> <<dump[a], k - 1>>]
      BY <2>2
    <3> QED BY <1>6, <2>1, <3>1
  <2>4. lens[dump[a]] \in Nat BY <1>1, <1>6, LensType
  <2>5. pos'[a] <= lens[dump[a]] BY <1>2, <2>2, <2>4
  <2> QED BY <1>2, <1>6, <2>1, <2>2, <2>3, <2>5 DEF SerialInv
<1>10. ASSUME NEW b \in Actors, b # a PROVE SerialInv(b)'
  <2>1. Grows BY <1>2 DEF Grows
  <2>2. at'[b] = at[b] /\ pc'[b] = pc[b] /\ dump'[b] = dump[b] /\ pos'[b] = pos[b]
    BY <1>1, <1>2, <1>10
  <2>3. InSerial(b) => at[b] # "gen" BY <1>1, <1>3, <1>10 DEF IrqInv, InSerial
  <2> QED BY <1>1, <2>1, <2>2, <2>3, SerialStays
<1>11. ShownInv' BY <1>2, <1>3 DEF ShownInv, OnScreen
<1> QED BY <1>5, <1>8, <1>9, <1>10, <1>11 DEF ScreenInv

\* The file that is saved at the end of a serial dump is its core file.
LEMMA SerialFile ==
  ASSUME TerminalInv, NEW a \in Actors, EndSerial(a)
  PROVE  /\ pc[a] = "idle" /\ a # Handler /\ irq = {a}
         /\ dump[a] \in 1..Len(lens) /\ rec.bytes = Stream(dump[a])
         /\ rec.bytes \in Seq(Cell) \ {<<>>}
<1>1. TypeOK /\ rec \in Records /\ IrqInv /\ SerialInv(a) /\ Places(a) BY RunnerFacts
<1>2. pc[a] = "idle" /\ at[a] = "gen" /\ pos[a] = lens[dump[a]]
  BY DEF EndSerial, Goes, LastSerial
<1>3. a # Handler BY <1>1, <1>2 DEF Places
<1>4. irq = {a} BY <1>1, <1>2 DEF IrqInv
<1>5. dump[a] \in 1..Len(lens) /\ rec.bytes = Stream(dump[a])
  BY <1>1, <1>2 DEF SerialInv, InSerial, Stream
<1>6. rec.bytes # <<>>
  <2>1. lens[dump[a]] \in Nat \ {0} BY <1>1, <1>5, LensType
  <2>2. DOMAIN rec.bytes = 1..lens[dump[a]] BY <1>5 DEF Stream
  <2>3. 1 \in DOMAIN rec.bytes BY <2>1, <2>2
  <2>4. DOMAIN <<>> = {} OBVIOUS
  <2> QED BY <2>3, <2>4
<1> QED BY <1>1, <1>2, <1>3, <1>4, <1>5, <1>6 DEF Records

LEMMA EndSerialOnScreen ==
  ASSUME TerminalInv, NEW a \in Actors, EndSerial(a)
  PROVE  ScreenInv'
<1>1. /\ TypeOK /\ rec \in Records /\ IrqInv /\ TerminalTypes
      /\ (\A b \in Actors : SerialInv(b)) /\ at \in [Actors -> AtValues]
  BY RunnerFacts
<1>2. /\ at[a] = "gen" /\ at' = [at EXCEPT ![a] = at'[a]] /\ at'[a] \in {"spin", "none"}
      /\ serial_crc32' = Not(serial_crc32) /\ rec' = Closed
      /\ files' \in {files, files \cup {rec.bytes}} /\ irq' = {}
      /\ UNCHANGED <<buf, pc, lens, dump, pos, sys, call, writeout_func, print_crc>>
  BY <1>1 DEF EndSerial, End, Goes, vars, buf
<1>3. irq = {a} /\ rec.bytes \in Seq(Cell) \ {<<>>} BY SerialFile
<1>4. IrqInv'
  <2>1. ASSUME NEW b \in Actors PROVE ~(at'[b] = "gen" /\ pc'[b] = "idle")
    BY <1>1, <1>2, <1>3 DEF IrqInv
  <2> QED BY <1>2, <2>1 DEF IrqInv
<1>5. TerminalTypes'
  <2>1. serial_crc32' \subseteq Bits32 BY <1>2 DEF Not
  <2> QED BY <1>1, <1>2, <1>3, <2>1, NewRecords DEF TerminalTypes
<1>6. SerialInv(a)' BY <1>2 DEF SerialInv, InSerial
<1>7. ASSUME NEW b \in Actors, b # a PROVE SerialInv(b)'
  <2>1. Grows BY <1>2 DEF Grows
  <2>2. at'[b] = at[b] /\ pc'[b] = pc[b] /\ dump'[b] = dump[b] /\ pos'[b] = pos[b]
    BY <1>1, <1>2, <1>7
  <2>3. InSerial(b) => at[b] # "gen" BY <1>1, <1>3, <1>7 DEF IrqInv, InSerial
  <2> QED BY <1>1, <2>1, <2>2, <2>3, SerialStays
<1>8. ShownInv' BY <1>2, NewRecords DEF ShownInv, OnScreen
<1> QED BY <1>4, <1>5, <1>6, <1>7, <1>8 DEF ScreenInv

-----------------------------------------------------------------------------
(* The steps of a memory dump. *)

LEMMA StartMemoryOnScreen ==
  ASSUME TerminalInv, NEW a \in Actors, NEW len \in StreamLens, StartMemory(a, len)
  PROVE  ScreenInv'
<1>1. /\ TypeOK /\ rec \in Records /\ IrqInv /\ TerminalTypes
      /\ (\A b \in Actors : SerialInv(b)) /\ at \in [Actors -> AtValues]
      /\ pc \in [Actors -> PcValues]
      /\ dump \in [Actors -> 0..Len(lens)] /\ pos \in [Actors -> Nat]
  BY RunnerFacts
<1>2. /\ pc[a] = "idle" /\ at[a] = "none" /\ at' = [at EXCEPT ![a] = "clear"]
      /\ pc' = [pc EXCEPT ![a] = "clear"]
      /\ rec' = Text(rec) /\ lens' = Append(lens, len)
      /\ dump' = [dump EXCEPT ![a] = Len(lens) + 1] /\ pos' = [pos EXCEPT ![a] = 0]
      /\ call' = [call EXCEPT ![a] = "memory"]
      /\ UNCHANGED <<buf, out, sys, writeout_func, irq, serial_crc32, print_crc, files>>
  BY DEF StartMemory, StartDump, Begins, Busy, buf
<1>3. OnlyMoves(a) BY <1>1, <1>2 DEF OnlyMoves, TerminalInv, FuncInv, FCTypes
<1>4. IrqInv' BY <1>1, <1>2, <1>3, IrqStays
<1>5. TerminalTypes' BY <1>1, <1>2, TextSpoils DEF TerminalTypes
<1>6. SerialInv(a)' BY <1>1, <1>2 DEF SerialInv, InSerial
<1>7. ASSUME NEW b \in Actors, b # a PROVE SerialInv(b)'
  <2>1. Grows BY <1>2 DEF Grows
  <2>2. at'[b] = at[b] /\ pc'[b] = pc[b] /\ dump'[b] = dump[b] /\ pos'[b] = pos[b]
    BY <1>1, <1>2, <1>7
  <2> QED BY <1>1, <1>2, <2>1, <2>2, SerialStays
<1>8. ShownInv' BY <1>1, <1>2, TextSpoils DEF ShownInv, OnScreen
<1> QED BY <1>4, <1>5, <1>6, <1>7, <1>8 DEF ScreenInv

\* What a step of a memory dump leaves to the rest of the system.
LEMMA MemoryStepLeaves ==
  ASSUME TerminalInv, NEW a \in Actors, MemoryStep(a)
  PROVE  /\ CanRun(a) /\ pc[a] \notin {"idle", "halted", "emit"} /\ pc'[a] # "emit"
         /\ pc'[a] = "idle" => at'[a] = "none"
         /\ OnlyMoves(a) /\ rec' \in {rec, Text(rec)}
         /\ \A b \in Actors : b # a => pos'[b] = pos[b]
         /\ UNCHANGED <<lens, dump, out, term, mode, sys, call, irq, writeout_func,
                        serial_crc32, print_crc, files>>
<1>1. FCTypes /\ Places(a) /\ pos \in [Actors -> Nat]
  BY RunnerFacts DEF TerminalInv, FuncInv
<1>2. /\ rec' \in {rec, Text(rec)} /\ (\A b \in Actors : b # a => pos'[b] = pos[b])
      /\ UNCHANGED <<lens, dump, out, term, mode, sys, call, irq, writeout_func,
                     serial_crc32, print_crc, files>>
  BY <1>1 DEF MemoryStep, ClearHeader, ClearData, WriteChunk, PassChunk, EndOfStream, SetMagic,
              SetSize,
              SetCrc
<1>3. /\ pc' = [pc EXCEPT ![a] = pc'[a]] /\ at' = [at EXCEPT ![a] = at'[a]]
      /\ at'[a] = IF pc[a] = "gen" /\ pc'[a] # "gen" THEN "none" ELSE at[a]
      /\ CanRun(a)
  BY <1>1, MemoryPlaces
<1>4. OnlyMoves(a) BY <1>1, <1>2, <1>3 DEF OnlyMoves, FCTypes
<1>5. pc[a] \notin {"idle", "halted", "emit"} /\ pc'[a] # "emit" BY <1>1, MemoryPlaces DEF Return
<1>6. pc'[a] = "idle" => pc[a] \in {"gen", "crc"} BY <1>1, MemoryPlaces DEF Return
<1>7. pc'[a] = "idle" => at'[a] = "none" BY <1>1, <1>3, <1>6 DEF Places
<1> QED BY <1>2, <1>3, <1>4, <1>5, <1>7

LEMMA MemoryStepOnScreen ==
  ASSUME Keeps, TerminalInv, NEW a \in Actors, MemoryStep(a)
  PROVE  ScreenInv'
<1>1. /\ TypeOK /\ rec \in Records /\ IrqInv /\ ShownInv /\ TerminalTypes
      /\ (\A b \in Actors : SerialInv(b)) /\ Shell \in Actors /\ Handler # Shell
  BY RunnerFacts, MemoryAssumption
<1>2. /\ CanRun(a) /\ pc[a] \notin {"idle", "halted", "emit"} /\ pc'[a] # "emit"
      /\ pc'[a] = "idle" => at'[a] = "none"
      /\ OnlyMoves(a) /\ rec' \in {rec, Text(rec)}
      /\ \A b \in Actors : b # a => pos'[b] = pos[b]
      /\ UNCHANGED <<lens, dump, out, sys, irq, writeout_func, serial_crc32, print_crc, files>>
  BY MemoryStepLeaves
<1>3. IrqInv' BY <1>1, <1>2, IrqStays
<1>4. TerminalTypes' BY <1>1, <1>2, TextSpoils DEF TerminalTypes
<1>5. SerialInv(a)' BY <1>2 DEF SerialInv, InSerial
<1>6. ASSUME NEW b \in Actors, b # a PROVE SerialInv(b)'
  <2>1. Grows BY <1>2 DEF Grows
  <2>2. at'[b] = at[b] /\ pc'[b] = pc[b] /\ dump'[b] = dump[b] /\ pos'[b] = pos[b]
    BY <1>2, <1>6 DEF OnlyMoves
  <2> QED BY <1>1, <1>2, <2>1, <2>2, SerialStays
<1>7. ~OnScreen'
  <2> SUFFICES ASSUME OnScreen' PROVE FALSE OBVIOUS
  <2>1. rec' = rec BY <1>1, <1>2, TextSpoils DEF OnScreen
  <2>2. a # Shell BY <1>2 DEF OnScreen
  <2>3. pc[Shell] = "emit" /\ OnScreen BY <1>1, <1>2, <2>1, <2>2 DEF OnScreen, OnlyMoves
  <2>4. Busy(Shell) BY <2>3 DEF Busy
  <2>5. Outranks(a, Shell)
    BY <1>1, <1>2, <2>2, <2>4, RunnerIsFirst DEF TerminalInv, FuncInv
  <2>6. pc[a] = "idle" BY <1>1, <2>3, <2>5 DEF ShownInv
  <2> QED BY <1>2, <2>6
<1>8. ShownInv' BY <1>7 DEF ShownInv
<1> QED BY <1>3, <1>4, <1>5, <1>6, <1>8 DEF ScreenInv

-----------------------------------------------------------------------------
(* The shell prints. *)

LEMMA ShellFacts == Shell \in Actors /\ Shell \in Threads /\ Shell # Handler /\ Cap \in Nat
BY MemoryAssumption DEF Actors, Threads

LEMMA StartShowOnScreen == ASSUME TerminalInv, StartShow PROVE ScreenInv'
<1>1. /\ TypeOK /\ rec \in Records /\ IrqInv /\ TerminalTypes
      /\ (\A b \in Actors : SerialInv(b)) /\ pc \in [Actors -> PcValues]
      /\ Shell \in Actors /\ Shell # Handler /\ Shell \in Threads
  BY ShellFacts, RunnerFacts
<1>2. /\ CanRun(Shell) /\ pc[Shell] = "idle" /\ at[Shell] = "none" /\ pc[Handler] = "idle"
      /\ Accepted /\ pc' = [pc EXCEPT ![Shell] = "emit"] /\ out' = <<>>
      /\ print_crc' = Bits32 /\ rec' = Start
      /\ call' = [call EXCEPT ![Shell] = "print"]
      /\ UNCHANGED <<buf, lens, dump, pos, sys, at, irq, writeout_func, serial_crc32, files>>
  BY <1>1 DEF StartShow, StartPrint, Begins, Busy, MayRun, buf
<1>3. OnlyMoves(Shell) BY <1>1, <1>2 DEF OnlyMoves, TerminalInv, FuncInv, FCTypes
<1>4. IrqInv' BY <1>1, <1>2, <1>3, IrqStays
<1>5. TerminalTypes' BY <1>1, <1>2, NewRecords DEF TerminalTypes
<1>6. SerialInv(Shell)' BY <1>1, <1>2 DEF SerialInv, InSerial
<1>7. irq = {} BY <1>1, <1>2, RunnerIrq
<1>8. ASSUME NEW b \in Actors, b # Shell PROVE SerialInv(b)'
  <2>1. Grows BY <1>2 DEF Grows
  <2>2. at'[b] = at[b] /\ pc'[b] = pc[b] /\ dump'[b] = dump[b] /\ pos'[b] = pos[b]
    BY <1>1, <1>2, <1>8
  <2>3. InSerial(b) => at[b] # "gen" BY <1>1, <1>7, NobodyWrites
  <2> QED BY <1>1, <2>1, <2>2, <2>3, SerialStays
<1>9. ShownInv'
  <2>1. Accepted' BY <1>2 DEF Accepted, mcd_check_memory_coredump, crc32b, Content
  <2>2. Len(out') = 0 /\ rec'.bytes = out' BY <1>2, NewRecords
  <2>3. buf'.data_size \in Nat BY <1>1, <1>2 DEF TypeOK
  <2>4. ASSUME NEW b \in Actors, Outranks(b, Shell)' PROVE pc'[b] = "idle"
    <3>1. Outranks(b, Shell) /\ b # Shell BY <1>3, <2>4, RanksStay DEF Outranks
    <3>2. pc[b] = "idle" BY <1>1, <1>2, <3>1 DEF Outranks, CanRun, Busy
    <3> QED BY <1>1, <1>2, <3>1, <3>2
  <2> QED BY <2>1, <2>2, <2>3, <2>4 DEF ShownInv
<1> QED BY <1>4, <1>5, <1>6, <1>8, <1>9 DEF ScreenInv

LEMMA ShowByteOnScreen == ASSUME TerminalInv, ShowByte PROVE ScreenInv'
<1> DEFINE cell == buf.data[Len(out)]
<1>1. /\ TypeOK /\ rec \in Records /\ IrqInv /\ TerminalTypes /\ ShownInv
      /\ (\A b \in Actors : SerialInv(b)) /\ Shell \in Actors /\ Shell # Handler
      /\ buf.data_size \in Nat /\ out \in Seq(Cell) /\ Cap \in Nat
  BY ShellFacts, RunnerFacts DEF TypeOK
<1>2. /\ CanRun(Shell) /\ pc[Shell] = "emit" /\ Len(out) < buf.data_size
      /\ out' = Append(out, cell) /\ print_crc' = Not(mcd_crc32b(<<Byte(cell)>>, print_crc))
      /\ rec' = Hex(rec, cell)
      /\ UNCHANGED <<buf, pc, lens, dump, pos, sys, at, call, irq, writeout_func,
                     serial_crc32, files>>
  BY DEF ShowByte, PrintByte, buf
<1>3. OnlyMoves(Shell) BY <1>2 DEF OnlyMoves
<1>4. IrqInv' BY <1>1, <1>2, <1>3, IrqStays
<1>5. Len(out) \in 0..Cap-1 /\ cell \in Cell
  <2>1. Len(out) \in 0..Cap-1
    BY <1>1, <1>2 DEF TerminalInv, TypeInv, PrintsWithinBuffer
  <2> QED BY <1>1, <2>1 DEF TypeOK
<1> HIDE DEF cell
<1>6. TerminalTypes'
  <2>1. print_crc' \subseteq Bits32 BY <1>2 DEF Not
  <2>2. rec' \in Records BY <1>1, <1>2, <1>5, HexAppends
  <2> QED BY <1>1, <1>2, <2>1, <2>2 DEF TerminalTypes
<1>7. irq = {} BY <1>1, <1>2, RunnerIrq
<1>8. ASSUME NEW b \in Actors PROVE SerialInv(b)'
  <2>1. Grows BY <1>2 DEF Grows
  <2>2. at'[b] = at[b] /\ pc'[b] = pc[b] /\ dump'[b] = dump[b] /\ pos'[b] = pos[b] BY <1>2
  <2>3. InSerial(b) => at[b] # "gen" BY <1>1, <1>7, NobodyWrites
  <2> QED BY <1>1, <2>1, <2>2, <2>3, SerialStays
<1>9. ASSUME OnScreen' PROVE ShownInv'
  <2>1. rec'.open = rec.open /\ rec'.noise = rec.noise
        /\ (rec.open => rec'.bytes = Append(rec.bytes, cell))
    BY <1>1, <1>2, <1>5, HexAppends
  <2>2. OnScreen BY <1>2, <1>9, <2>1 DEF OnScreen
  <2>3. /\ Accepted /\ Len(out) <= buf.data_size /\ rec.bytes = out
        /\ \A k \in 1..Len(out) : out[k] = buf.data[k - 1]
        /\ \A b \in Actors : Outranks(b, Shell) => pc[b] = "idle"
    BY <1>1, <2>2 DEF ShownInv
  <2>4. Accepted' BY <1>2, <2>3 DEF Accepted, mcd_check_memory_coredump, crc32b, Content
  <2>5. rec'.bytes = out' BY <1>2, <2>1, <2>2, <2>3 DEF OnScreen
  <2>6. /\ Len(out') = Len(out) + 1 /\ out'[Len(out) + 1] = cell
        /\ \A k \in 1..Len(out) : out'[k] = out[k]
    BY <1>1, <1>2, <1>5, AppendProperties
  <2>7. Len(out') <= buf'.data_size BY <1>1, <1>2, <1>5, <2>6
  <2>8. \A k \in 1..Len(out') : out'[k] = buf'.data[k - 1]
    <3>1. ASSUME NEW k \in 1..Len(out') PROVE out'[k] = buf.data[k - 1]
      <4>1. CASE k = Len(out) + 1 BY <1>5, <2>6, <4>1 DEF cell
      <4>2. CASE k # Len(out) + 1
        <5>1. k \in 1..Len(out) BY <1>5, <2>6, <4>2
        <5> QED BY <2>3, <2>6, <5>1
      <4> QED BY <4>1, <4>2
    <3> QED BY <1>2, <3>1
  <2>9. \A b \in Actors : Outranks(b, Shell)' => pc'[b] = "idle"
    BY <1>2, <1>3, <2>3, RanksStay
  <2> QED BY <2>4, <2>5, <2>7, <2>8, <2>9 DEF ShownInv
<1>10. ShownInv' BY <1>9 DEF ShownInv
<1> QED BY <1>4, <1>6, <1>8, <1>10 DEF ScreenInv

\* The file that is saved when the shell has printed is what the buffer holds.
LEMMA ShownFile ==
  ASSUME TerminalInv, EndShow, rec.open, ~rec.noise
  PROVE  /\ Accepted /\ rec.bytes = Content(buf.data_size)
         /\ rec.bytes \in Seq(Cell) \ {<<>>}
<1>1. /\ TypeOK /\ ShownInv /\ Shell \in Actors /\ Shell # Handler
      /\ buf.data_size \in Nat /\ out \in Seq(Cell) /\ Cap \in Nat
  BY ShellFacts, RunnerFacts DEF TypeOK
<1>2. CanRun(Shell) /\ pc[Shell] = "emit" /\ ~(Len(out) < buf.data_size)
  BY DEF EndShow, EndPrint
<1>3. irq = {} BY <1>1, <1>2, RunnerIrq
<1>4. OnScreen BY <1>2, <1>3 DEF OnScreen
<1>5. /\ Accepted /\ Len(out) <= buf.data_size /\ rec.bytes = out
      /\ \A k \in 1..Len(out) : out[k] = buf.data[k - 1]
  BY <1>1, <1>4 DEF ShownInv
<1>6. Len(out) = buf.data_size BY <1>1, <1>2, <1>5, LenProperties
<1>7. out = Content(buf.data_size)
  <2>1. out \in [1..Len(out) -> Cell] BY <1>1, LenProperties
  <2> QED BY <1>5, <1>6, <2>1 DEF Content
<1>8. Len(out) > 0 BY <1>5, <1>6 DEF Accepted, mcd_check_memory_coredump
<1>9. out # <<>> BY <1>8
<1> QED BY <1>1, <1>5, <1>7, <1>9

LEMMA EndShowOnScreen == ASSUME TerminalInv, EndShow PROVE ScreenInv'
<1>1. /\ TypeOK /\ rec \in Records /\ IrqInv /\ TerminalTypes
      /\ (\A b \in Actors : SerialInv(b)) /\ pc \in [Actors -> PcValues]
      /\ Shell \in Actors /\ Shell # Handler /\ Places(Shell)
  BY ShellFacts, RunnerFacts
<1>2. /\ CanRun(Shell) /\ pc[Shell] = "emit" /\ pc' = [pc EXCEPT ![Shell] = "idle"]
      /\ print_crc' = Not(print_crc) /\ rec' = Closed
      /\ files' = files \/ (rec.open /\ ~rec.noise /\ files' = files \cup {rec.bytes})
      /\ UNCHANGED <<buf, lens, dump, pos, sys, at, call, irq, writeout_func, serial_crc32>>
  BY DEF EndShow, EndPrint, End, buf
<1>3. OnlyMoves(Shell) BY <1>1, <1>2 DEF OnlyMoves
<1>4. at[Shell] = "none" BY <1>1, <1>2 DEF Places
<1>5. IrqInv' BY <1>1, <1>2, <1>3, <1>4, IrqStays
<1>6. TerminalTypes'
  <2>1. print_crc' \subseteq Bits32 BY <1>2 DEF Not
  <2>2. \A f \in files' : f \in Seq(Cell) \ {<<>>} BY <1>1, <1>2, ShownFile DEF TerminalTypes
  <2> QED BY <1>1, <1>2, <2>1, <2>2, NewRecords DEF TerminalTypes
<1>7. irq = {} BY <1>1, <1>2, RunnerIrq
<1>8. SerialInv(Shell)' BY <1>2, <1>4 DEF SerialInv, InSerial
<1>9. ASSUME NEW b \in Actors, b # Shell PROVE SerialInv(b)'
  <2>1. Grows BY <1>2 DEF Grows
  <2>2. at'[b] = at[b] /\ pc'[b] = pc[b] /\ dump'[b] = dump[b] /\ pos'[b] = pos[b]
    BY <1>1, <1>2, <1>9
  <2>3. InSerial(b) => at[b] # "gen" BY <1>1, <1>7, NobodyWrites
  <2> QED BY <1>1, <2>1, <2>2, <2>3, SerialStays
<1>10. ShownInv' BY <1>2, NewRecords DEF ShownInv, OnScreen
<1> QED BY <1>5, <1>6, <1>8, <1>9, <1>10 DEF ScreenInv

-----------------------------------------------------------------------------
(* The system as a whole. *)

\* Every step keeps the types of MemoryStore.
LEMMA StoreTypesStay == Keeps /\ TerminalInv /\ [FCNext]_allVars => TypeInv'
<1> SUFFICES ASSUME Keeps, TerminalInv, [FCNext]_allVars PROVE TypeInv' OBVIOUS
<1>0. TypeInv /\ TypeOK /\ Threads \cup {Handler} \subseteq Actors
  BY RunnerFacts, MemoryAssumption DEF TerminalInv, TypeInv, Threads, Actors
<1>1. ASSUME NEW a \in Threads, NEW len \in StreamLens, StartSerial(a, len) PROVE TypeInv'
  <2>1. /\ lens' = Append(lens, len) /\ pos' = [pos EXCEPT ![a] = 0]
        /\ dump' = [dump EXCEPT ![a] = Len(lens) + 1]
        /\ UNCHANGED <<coredump_memory_buffer, memory_write_ctx, mode, pc, out, term>>
    BY <1>1 DEF StartSerial
  <2>2. lens' \in Seq(StreamLens) /\ Len(lens') = Len(lens) + 1 /\ Len(lens) \in Nat
    BY <1>0, <2>1, AppendProperties DEF TypeOK
  <2>3. dump' \in [Actors -> 0..Len(lens')] /\ pos' \in [Actors -> Nat]
    BY <1>0, <2>1, <2>2 DEF TypeOK
  <2> QED BY <1>0, <2>1, <2>2, <2>3 DEF TypeInv, TypeOK, PrintsWithinBuffer, buf, ctx
<1>2. ASSUME NEW a \in Threads \cup {Handler}, NEW len \in StreamLens, StartMemory(a, len)
      PROVE  TypeInv'
  BY <1>0, <1>2, StartKeepsTypes DEF StartMemory
<1>3. ASSUME NEW a \in Actors, Proceeds(a) PROVE TypeInv'
  <2>1. CASE vars' = vars BY <1>0, <2>1, TypeStep
  <2>2. CASE WriteSerial(a)
    <3>1. pos' \in [Actors -> Nat] BY <1>0, <2>2 DEF WriteSerial, TypeOK
    <3> QED BY <1>0, <2>2, <3>1
            DEF WriteSerial, TypeInv, TypeOK, PrintsWithinBuffer, buf, ctx
  <2>3. CASE MemoryStep(a)
    <3>1. DumpStep(a) BY <2>3 DEF MemoryStep, DumpStep
    <3> QED BY <1>0, <3>1, DumpStepKeepsTypes
  <2>4. CASE ShowByte \/ EndShow
    <3>1. Next BY <2>4 DEF ShowByte, EndShow, Next
    <3> QED BY <1>0, <3>1, TypeStep
  <2>5. InitClear(a) \/ InitFunc(a) \/ DisableIrq(a) \/ EndSerial(a) => vars' = vars
    BY DEF InitClear, InitFunc, DisableIrq, EndSerial, vars
  <2>6. ~StoreSerial(a) BY <1>3, NoSerialStored DEF TerminalInv
  <2> QED BY <1>3, <2>1, <2>2, <2>3, <2>4, <2>5, <2>6 DEF Proceeds
<1>4. CASE StartShow \/ (Boot /\ UNCHANGED fcVars) \/ Again
  <2>1. Next BY <1>4 DEF StartShow, Again, Next
  <2> QED BY <1>0, <2>1, TypeStep
<1>5. CASE UNCHANGED allVars
  <2>1. vars' = vars BY <1>5 DEF allVars
  <2> QED BY <1>0, <2>1, TypeStep
<1> QED BY <1>1, <1>2, <1>3, <1>4, <1>5 DEF FCNext

\* Every step keeps what is claimed of the terminal.
LEMMA ScreenStays == Keeps /\ TerminalInv /\ [FCNext]_allVars => ScreenInv'
<1> SUFFICES ASSUME Keeps, TerminalInv, [FCNext]_allVars PROVE ScreenInv' OBVIOUS
<1>0. /\ rec \in Records /\ ScreenInv /\ Threads \cup {Handler} \subseteq Actors
      /\ Shell \in Actors
  BY ShellFacts, RunnerFacts, MemoryAssumption DEF TerminalInv, Threads, Actors
<1>1. ASSUME NEW a \in Actors, Proceeds(a) PROVE ScreenInv'
  <2>1. ~StoreSerial(a) BY <1>1, NoSerialStored DEF TerminalInv
  <2> QED BY <1>1, <2>1, InitOnScreen, DisableIrqOnScreen, WriteSerialOnScreen,
             EndSerialOnScreen, MemoryStepOnScreen, ShowByteOnScreen, EndShowOnScreen
          DEF Proceeds
<1>2. ASSUME (Boot /\ UNCHANGED fcVars) \/ UNCHANGED allVars PROVE ScreenInv'
  <2>1. UNCHANGED <<buf, pc, lens, dump, pos, out, sys, at, irq, writeout_func, serial_crc32,
                    print_crc, rec, files>>
    BY <1>2 DEF Boot, fcVars, allVars, vars, buf
  <2>2. IrqInv' /\ TerminalTypes'
    BY <1>0, <2>1 DEF ScreenInv, IrqInv, TerminalTypes
  <2>3. ASSUME NEW b \in Actors PROVE SerialInv(b)'
    BY <1>0, <2>1 DEF ScreenInv, SerialInv, InSerial
  <2>4. ShownInv' BY <1>0, <2>1, ShownStays DEF ScreenInv
  <2> QED BY <2>2, <2>3, <2>4 DEF ScreenInv
<1>3. ASSUME Again PROVE ScreenInv'
  <2>1. /\ pc' = [a \in Actors |-> "idle"] /\ at' = [a \in Actors |-> "none"] /\ irq' = {}
        /\ writeout_func' = "none" /\ serial_crc32' = {} /\ print_crc' = {}
        /\ rec' = Text(rec) /\ files' = files
    BY <1>3 DEF Again, Reset, Restart
  <2>2. IrqInv' BY <2>1 DEF IrqInv
  <2>3. TerminalTypes' BY <1>0, <2>1, TextSpoils DEF ScreenInv, TerminalTypes
  <2>4. ASSUME NEW b \in Actors PROVE SerialInv(b)' BY <2>1, <2>4 DEF SerialInv, InSerial
  <2>5. pc'[Shell] = "idle" BY <1>0, <2>1
  <2>6. ShownInv' BY <2>5 DEF ShownInv, OnScreen
  <2> QED BY <2>2, <2>3, <2>4, <2>6 DEF ScreenInv
<1> QED BY <1>0, <1>1, <1>2, <1>3, StartSerialOnScreen, StartMemoryOnScreen, StartShowOnScreen
        DEF FCNext

LEMMA TerminalInvInit == FCInit => TerminalInv
<1> SUFFICES ASSUME FCInit PROVE TerminalInv OBVIOUS
<1>1. /\ pc = [a \in Actors |-> "idle"] /\ at = [a \in Actors |-> "none"] /\ irq = {}
      /\ writeout_func = "none" /\ serial_crc32 = {} /\ print_crc = {}
      /\ rec = Closed /\ files = {} /\ Init
  BY DEF FCInit, Init
<1>2. FuncInv /\ TypeInv BY <1>1, FuncInvInit, TypeInit
<1>3. IrqInv BY <1>1 DEF IrqInv
<1>4. TerminalTypes BY <1>1, NewRecords DEF TerminalTypes
<1>5. ASSUME NEW b \in Actors PROVE SerialInv(b) BY <1>1, <1>5 DEF SerialInv, InSerial
<1>6. ShownInv BY <1>1, NewRecords DEF ShownInv, OnScreen
<1> QED BY <1>2, <1>3, <1>4, <1>5, <1>6 DEF TerminalInv, ScreenInv

LEMMA TerminalInvStep == Keeps /\ TerminalInv /\ [FCNext]_allVars => TerminalInv'
BY FuncInvStep, StoreTypesStay, ScreenStays DEF TerminalInv

\* In any system whose threads keep each other's function, interrupts are disabled
\* by whoever writes a serial dump and by nobody else (irq_save of mcd_faultdump_ex).
THEOREM CallersTyped == FCSpec => [](Keeps => FCTypeOK)
BY TypesOfInv, TerminalInvInit, TerminalInvStep, SystemStays, PTL DEF FCSpec

-----------------------------------------------------------------------------
(* The buffer, where one thread at most dumps to memory. *)

StoringInv == GenuineCrc /\ \A a \in Actors : InCharge(a) => Progress(a)

CompleteInv == TerminalInv /\ StoringInv /\ FilesAreComplete

\* A thread in the middle of a memory dump is one whose calls have it.
LEMMA DumperCalls ==
  ASSUME FuncInv, NEW a \in Threads, Dumping(a)
  PROVE  "memory" \in sys.calls[a]
<1>1. InDump(a) /\ Func(a) = "memory" BY DEF Dumping, InDump, Func
<1>2. call[a] \in sys.calls[a] /\ Output(call[a]) = "memory"
  BY <1>1 DEF FuncInv, Called, Threads, Actors
<1> QED BY <1>2 DEF Output

\* What a has written of its memory dump, when another actor moves.
LEMMA ProgressStays ==
  ASSUME TypeOK, Grows, NEW a \in Actors, Progress(a),
         pc'[a] = pc[a], dump'[a] = dump[a], pos'[a] = pos[a],
         buf'.data = buf.data, ctx' = ctx
  PROVE  Progress(a)'
<1> SUFFICES ASSUME Dumping(a)' PROVE Progress(a)' BY DEF Progress
<1>1. Dumping(a) BY DEF Dumping
<1>2. dump[a] \in 1..Len(lens') /\ lens'[dump[a]] = lens[dump[a]]
  BY <1>1, StreamsRemain DEF Progress
<1> QED BY <1>1, <1>2 DEF Progress, HoldsStream

\* The checksum in the buffer, when it is left alone.
LEMMA CrcRemains ==
  ASSUME TypeOK, Grows, GenuineCrc, buf'.crc32 = buf.crc32
  PROVE  GenuineCrc'
<1>1. CASE buf.crc32 \in {<<>>, Garbage} BY <1>1 DEF GenuineCrc
<1>2. CASE \E d \in 1..Len(lens) : buf.crc32 = Stream(d)
  <2>1. PICK d \in 1..Len(lens) : buf.crc32 = Stream(d) BY <1>2
  <2>2. d \in 1..Len(lens') /\ Stream(d)' = Stream(d) BY StreamsRemain
  <2>3. Stream(d)' \in {Stream(e) : e \in 1..Len(lens)}' BY <2>2 DEF Stream
  <2> QED BY <2>1, <2>2, <2>3 DEF GenuineCrc
<1> QED BY <1>1, <1>2 DEF GenuineCrc

\* A step that writes nothing to the buffer: nobody who dumps to memory moves.
LEMMA StoringStays ==
  ASSUME TerminalInv, StoringInv, Grows, buf' = buf, ctx' = ctx,
         pc'[Handler] = pc[Handler],
         \A a \in Actors : \/ pc'[a] = pc[a] /\ dump'[a] = dump[a] /\ pos'[a] = pos[a]
                           \/ pc'[a] \in {"idle", "emit"}
  PROVE  StoringInv'
<1>1. TypeOK BY DEF TerminalInv, TypeInv
<1>2. GenuineCrc' BY <1>1, CrcRemains DEF StoringInv
<1>3. ASSUME NEW a \in Actors, InCharge(a)' PROVE Progress(a)'
  <2>1. Progress(a) BY <1>3 DEF InCharge, StoringInv
  <2>2. CASE pc'[a] \in {"idle", "emit"} BY <2>2, NotDumpingNext
  <2>3. CASE pc'[a] = pc[a] /\ dump'[a] = dump[a] /\ pos'[a] = pos[a]
    BY <1>1, <2>1, <2>3, ProgressStays
  <2> QED BY <2>2, <2>3
<1> QED BY <1>2, <1>3 DEF StoringInv

\* A step of a memory dump: nobody else is in the middle of one, or a fault
\* has stopped it for good.
LEMMA StoringSteps ==
  ASSUME Alone, TerminalInv, StoringInv, NEW a \in Actors, OnlyMoves(a),
         (\E len \in StreamLens : StartDump(a, len)) \/ DumpStep(a),
         a \in Threads => "memory" \in sys.calls[a]
  PROVE  StoringInv'
<1>1. TypeInv /\ TypeOK /\ FuncInv BY DEF TerminalInv, TypeInv
<1>2. MayRun(a) /\ (a = Handler => pc'[a] # "idle") BY <1>1, OnlyOwnPc
<1>3. Progress(a) BY <1>2 DEF StoringInv, InCharge, MayRun
<1>4. GenuineCrc' BY <1>1, <1>3, StepKeepsCrc DEF StoringInv
<1>5. Progress(a)' BY <1>1, <1>3, OwnStepKeepsProgress
<1>6. ASSUME NEW b \in Actors, b # a, InCharge(b)' PROVE Progress(b)'
  <2>1. a # Handler
    <3> SUFFICES ASSUME a = Handler PROVE FALSE OBVIOUS
    <3>1. b # Handler BY <1>6
    <3> QED BY <1>2, <1>6, <3>1 DEF InCharge
  <2>2. a \in Threads BY <2>1 DEF Actors, Threads
  <2>3. pc'[b] = pc[b] BY <1>6 DEF OnlyMoves
  <2>4. ~Dumping(b)
    <3> SUFFICES ASSUME Dumping(b) PROVE FALSE OBVIOUS
    <3>1. b # Handler BY <1>2, <2>1 DEF Dumping, MayRun
    <3>2. b \in Threads BY <3>1 DEF Actors, Threads
    <3>3. "memory" \in sys.calls[b] BY <1>1, <3>2, DumperCalls
    <3>4. sys \in Systems BY <1>1 DEF FuncInv, FCTypes
    <3> QED BY <1>6, <2>2, <3>2, <3>3, <3>4 DEF Alone, StoresAlone
  <2> QED BY <2>3, <2>4 DEF Progress, Dumping
<1> QED BY <1>4, <1>5, <1>6 DEF StoringInv

\* The list of dumps is never shortened.
LEMMA LensGrow == [FCNext]_allVars => Grows
<1> SUFFICES ASSUME [FCNext]_allVars PROVE Grows OBVIOUS
<1>1. ASSUME NEW a \in Threads, NEW len \in StreamLens, StartSerial(a, len) PROVE Grows
  BY <1>1 DEF StartSerial, Grows
<1>2. ASSUME NEW a \in Threads \cup {Handler}, NEW len \in StreamLens, StartMemory(a, len)
      PROVE  Grows
  BY <1>2 DEF StartMemory, StartDump, Grows
<1>3. ASSUME NEW a \in Actors, Proceeds(a) PROVE lens' = lens
  BY <1>3 DEF Proceeds, InitClear, InitFunc, DisableIrq, WriteSerial, StoreSerial, EndSerial,
              MemoryStep, ShowByte, EndShow, PrintByte, EndPrint, ClearHeader, ClearData,
              WriteChunk, PassChunk, EndOfStream, SetMagic, SetSize, SetCrc, vars
<1>4. CASE StartShow \/ (Boot /\ UNCHANGED fcVars) \/ Again \/ UNCHANGED allVars
  BY <1>4 DEF StartShow, StartPrint, Boot, Again, Reset, Restart, allVars, vars, Grows
<1> QED BY <1>1, <1>2, <1>3, <1>4 DEF FCNext, Grows

\* Every step keeps what is claimed of the buffer.
LEMMA StoringInvStep ==
  Keeps /\ Alone /\ TerminalInv /\ StoringInv /\ [FCNext]_allVars => StoringInv'
<1> SUFFICES ASSUME Keeps, Alone, TerminalInv, StoringInv, [FCNext]_allVars
             PROVE  StoringInv'
  OBVIOUS
<1>0. /\ Grows /\ Threads \cup {Handler} \subseteq Actors /\ Handler \in Actors
      /\ Shell \in Actors /\ Shell # Handler /\ Handler \notin Threads
      /\ FuncInv /\ FCTypes /\ TypeOK /\ pc \in [Actors -> PcValues]
      /\ dump \in [Actors -> 0..Len(lens)] /\ pos \in [Actors -> Nat]
  BY LensGrow, ShellFacts, RunnerFacts, MemoryAssumption
     DEF TerminalInv, FuncInv, Threads, Actors
<1>1. ASSUME NEW a \in Threads, NEW len \in StreamLens, StartSerial(a, len) PROVE StoringInv'
  <2>1. /\ pc[a] = "idle" /\ pc' = pc /\ buf' = buf /\ ctx' = ctx
        /\ dump' = [dump EXCEPT ![a] = Len(lens) + 1] /\ pos' = [pos EXCEPT ![a] = 0]
    BY <1>1 DEF StartSerial, Begins, Busy, buf, ctx
  <2>2. ASSUME NEW b \in Actors
        PROVE  \/ pc'[b] = pc[b] /\ dump'[b] = dump[b] /\ pos'[b] = pos[b]
               \/ pc'[b] \in {"idle", "emit"}
    <3>1. CASE b = a BY <2>1, <3>1
    <3>2. CASE b # a BY <1>0, <2>1, <3>2
    <3> QED BY <3>1, <3>2
  <2> QED BY <1>0, <2>1, <2>2, StoringStays
<1>2. ASSUME NEW a \in Threads \cup {Handler}, NEW len \in StreamLens, StartMemory(a, len)
      PROVE  StoringInv'
  <2>1. /\ StartDump(a, len) /\ sys' = sys /\ pc' = [pc EXCEPT ![a] = "clear"]
        /\ at' = [at EXCEPT ![a] = "clear"] /\ call' = [call EXCEPT ![a] = "memory"]
        /\ a \in Threads => "memory" \in sys.calls[a]
    BY <1>2 DEF StartMemory, StartDump, Begins
  <2>2. OnlyMoves(a) BY <1>0, <2>1 DEF OnlyMoves, FCTypes
  <2> QED BY <1>0, <2>1, <2>2, StoringSteps
<1>3. ASSUME NEW a \in Actors, MemoryStep(a) PROVE StoringInv'
  <2>1. DumpStep(a) BY <1>3 DEF MemoryStep, DumpStep
  <2>2. OnlyMoves(a) BY <1>3, MemoryStepLeaves
  <2>3. Dumping(a) BY <1>3 DEF MemoryStep, ClearHeader, ClearData, WriteChunk, EndOfStream,
                               SetMagic, SetSize, SetCrc, Dumping
  <2>4. a \in Threads => "memory" \in sys.calls[a] BY <1>0, <2>3, DumperCalls
  <2> QED BY <2>1, <2>2, <2>4, StoringSteps
<1>4. ASSUME NEW a \in Actors, WriteSerial(a) PROVE StoringInv'
  <2>1. pc[a] = "idle" BY <1>4, WriterIsSerial
  <2>2. /\ pc' = pc /\ buf' = buf /\ ctx' = ctx /\ dump' = dump
        /\ pos' = [pos EXCEPT ![a] = @ + 1]
    BY <1>4 DEF WriteSerial, buf, ctx
  <2>3. ASSUME NEW b \in Actors
        PROVE  \/ pc'[b] = pc[b] /\ dump'[b] = dump[b] /\ pos'[b] = pos[b]
               \/ pc'[b] \in {"idle", "emit"}
    <3>1. CASE b = a BY <2>1, <2>2, <3>1
    <3>2. CASE b # a BY <1>0, <2>2, <3>2
    <3> QED BY <3>1, <3>2
  <2> QED BY <1>0, <2>2, <2>3, StoringStays
<1>5. CASE \/ \E a \in Actors : InitClear(a) \/ InitFunc(a) \/ DisableIrq(a) \/ EndSerial(a)
           \/ (Boot /\ UNCHANGED fcVars) \/ UNCHANGED allVars
  <2>1. buf' = buf /\ ctx' = ctx /\ UNCHANGED <<pc, dump, pos>>
    BY <1>5 DEF InitClear, InitFunc, DisableIrq, EndSerial, Boot, allVars, vars, buf, ctx
  <2> QED BY <1>0, <2>1, StoringStays
<1>6. CASE StartShow \/ ShowByte \/ EndShow
  <2>1. /\ buf' = buf /\ ctx' = ctx /\ dump' = dump /\ pos' = pos
        /\ \E p \in {"idle", "emit"} : pc' = pc \/ pc' = [pc EXCEPT ![Shell] = p]
    BY <1>6 DEF StartShow, ShowByte, EndShow, StartPrint, PrintByte, EndPrint, buf, ctx
  <2> QED BY <1>0, <2>1, StoringStays
<1>7. CASE Again
  <2>1. /\ pc' = [a \in Actors |-> "idle"] /\ buf' = buf
    BY <1>7 DEF Again, Reset, Restart, buf
  <2>2. GenuineCrc' BY <1>0, <2>1, CrcRemains DEF StoringInv
  <2>3. ASSUME NEW a \in Actors PROVE Progress(a)' BY <2>1, <2>3, NotDumpingNext
  <2> QED BY <2>2, <2>3 DEF StoringInv
<1>8. \A a \in Actors : ~StoreSerial(a) BY <1>0, NoSerialStored
<1> QED BY <1>1, <1>2, <1>3, <1>4, <1>5, <1>6, <1>7, <1>8 DEF FCNext, Proceeds

\* A checksum that matches is that of a complete core file.
LEMMA StoringAccepted == TerminalInv /\ StoringInv => AcceptedIsComplete
<1> SUFFICES ASSUME TerminalInv, StoringInv PROVE AcceptedIsComplete OBVIOUS
<1>1. StoreInv BY DEF TerminalInv, StoringInv, StoreInv, Dumpers, Actors
<1> QED BY <1>1, InvAccepted

\* A file that is saved is the core file of a serial dump, or what the shell has
\* printed of an accepted buffer.
LEMMA FilesStay ==
  Keeps /\ TerminalInv /\ AcceptedIsComplete /\ FilesAreComplete /\ [FCNext]_allVars
    => FilesAreComplete'
<1> SUFFICES ASSUME Keeps, TerminalInv, AcceptedIsComplete, FilesAreComplete, [FCNext]_allVars,
                    NEW f \in files'
             PROVE  \E d \in 1..Len(lens') : f = Stream(d)'
  BY DEF FilesAreComplete, Stream
<1>0. TypeOK /\ Grows BY LensGrow DEF TerminalInv, TypeInv
<1>1. f \in files \/ \E d \in 1..Len(lens) : f = Stream(d)
  <2>1. ASSUME NEW a \in Actors, EndSerial(a)
        PROVE  f \in files \/ \E d \in 1..Len(lens) : f = Stream(d)
    <3>1. files' \in {files, files \cup {rec.bytes}} BY <2>1 DEF EndSerial, End
    <3> QED BY <2>1, <3>1, SerialFile
  <2>2. CASE EndShow
    <3>1. files' = files \/ (rec.open /\ ~rec.noise /\ files' = files \cup {rec.bytes})
      BY <2>2 DEF EndShow, End
    <3>2. CASE files' = files BY <3>2
    <3>3. CASE rec.open /\ ~rec.noise /\ files' = files \cup {rec.bytes}
      <4>1. Accepted /\ rec.bytes = Content(buf.data_size) BY <2>2, <3>3, ShownFile
      <4>2. \E d \in 1..Len(lens) : rec.bytes = Stream(d) BY <4>1 DEF AcceptedIsComplete
      <4> QED BY <3>3, <4>2
    <3> QED BY <3>1, <3>2, <3>3
  <2>3. ASSUME NEW a \in Actors, Proceeds(a), ~EndSerial(a), ~EndShow PROVE files' = files
    BY <2>3 DEF Proceeds, InitClear, InitFunc, DisableIrq, WriteSerial, StoreSerial, MemoryStep,
                ShowByte
  <2>4. ASSUME \/ \E a \in Threads, len \in StreamLens : StartSerial(a, len)
               \/ \E a \in Threads \cup {Handler}, len \in StreamLens : StartMemory(a, len)
               \/ StartShow \/ (Boot /\ UNCHANGED fcVars) \/ Again \/ UNCHANGED allVars
        PROVE  files' = files
    BY <2>4 DEF StartSerial, StartMemory, StartShow, Again, fcVars, allVars
  <2> QED BY <2>1, <2>2, <2>3, <2>4 DEF FCNext
<1>2. PICK d \in 1..Len(lens) : f = Stream(d) BY <1>1 DEF FilesAreComplete, Keeps
<1>3. d \in 1..Len(lens') /\ Stream(d)' = Stream(d) BY <1>0, StreamsRemain
<1> QED BY <1>2, <1>3

LEMMA CompleteInvInit == FCInit => CompleteInv
<1> SUFFICES ASSUME FCInit PROVE CompleteInv OBVIOUS
<1>1. TerminalInv BY TerminalInvInit
<1>2. Init /\ files = {} BY DEF FCInit
<1>3. GenuineCrc BY <1>2, StoreInvInit DEF StoreInv
<1>4. ASSUME NEW a \in Actors PROVE Progress(a) BY <1>2, <1>4, NotDumping DEF Init
<1> QED BY <1>1, <1>2, <1>3, <1>4 DEF CompleteInv, StoringInv, FilesAreComplete

LEMMA CompleteInvStep ==
  Keeps /\ Alone /\ CompleteInv /\ [FCNext]_allVars => CompleteInv'
BY TerminalInvStep, StoringInvStep, StoringAccepted, FilesStay DEF CompleteInv

\* Where one thread at most dumps to memory and all keep each other's function, a
\* buffer that mcd_dump_memory accepts holds one complete core file, whoever
\* dumps over the serial port, fails an assertion or faults meanwhile.
THEOREM BufferIsComplete == FCSpec => [](Keeps /\ Alone => AcceptedIsComplete)
<1>1. CompleteInv => AcceptedIsComplete BY StoringAccepted DEF CompleteInv
<1> QED BY <1>1, CompleteInvInit, CompleteInvStep, SystemStays, PTL DEF FCSpec

\* In such systems every file a user saves from the terminal is one complete core
\* file: what other threads, assertions and faults print between two markers
\* spoils a file and never mixes two.
THEOREM SavedFilesAreComplete == FCSpec => [](Alone => FilesAreComplete)
<1>1. CompleteInv => FilesAreComplete BY DEF CompleteInv
<1>2. ~Keeps => FilesAreComplete BY DEF Keeps, FilesAreComplete
<1> QED BY <1>1, <1>2, CompleteInvInit, CompleteInvStep, SystemStays, PTL DEF FCSpec

-----------------------------------------------------------------------------
(* The dump of the fault handler. *)

HandlerInv == TerminalInv /\ FaultInv

\* Every step keeps what is claimed of the handler's dump: nobody runs beside it.
LEMMA HandlerInvStep == Keeps /\ HandlerInv /\ [FCNext]_allVars => HandlerInv'
<1> SUFFICES ASSUME Keeps, HandlerInv, [FCNext]_allVars PROVE HandlerInv' OBVIOUS
<1>0. /\ TerminalInv /\ TerminalInv' /\ TypeInv /\ TypeInv' /\ FaultInv
      /\ Handler \in Actors /\ Shell # Handler /\ Handler \notin Threads
      /\ pc \in [Actors -> PcValues]
  BY TerminalInvStep, ShellFacts, RunnerFacts DEF HandlerInv, TerminalInv
<1>1. ASSUME pc'[Handler] = "idle" PROVE HandlerInv'
  BY <1>0, <1>1, NotDumpingNext DEF HandlerInv, FaultInv, HandlerHeader, FaultDumpIsStored
<1>2. ASSUME (\E len \in StreamLens : StartDump(Handler, len)) \/ DumpStep(Handler)
      PROVE  HandlerInv'
  <2>1. Progress(Handler)' BY <1>0, <1>2, OwnStepKeepsProgress DEF FaultInv
  <2> QED BY <1>0, <1>2, <2>1, HandlerStep DEF HandlerInv, FaultInv
<1>3. ASSUME vars' = vars PROVE HandlerInv'
  <2>1. FaultInv' BY <1>0, <1>3, FaultInvStep
  <2> QED BY <1>0, <2>1 DEF HandlerInv
<1>4. ASSUME NEW a \in Threads, NEW len \in StreamLens, StartSerial(a, len) PROVE HandlerInv'
  <2>1. pc'[Handler] = "idle"
    BY <1>0, <1>4 DEF StartSerial, Begins, CanRun, MayRun
  <2> QED BY <1>1, <2>1
<1>5. ASSUME NEW a \in Threads \cup {Handler}, NEW len \in StreamLens, StartMemory(a, len)
      PROVE  HandlerInv'
  <2>1. CASE a = Handler BY <1>2, <1>5, <2>1 DEF StartMemory
  <2>2. CASE a # Handler
    <3>1. pc'[Handler] = "idle"
      BY <1>0, <1>5, <2>2 DEF StartMemory, StartDump, MayRun
    <3> QED BY <1>1, <3>1
  <2> QED BY <2>1, <2>2
<1>6. ASSUME NEW a \in Actors, MemoryStep(a) PROVE HandlerInv'
  <2>1. CASE a = Handler BY <1>2, <1>6, <2>1 DEF MemoryStep, DumpStep
  <2>2. CASE a # Handler
    <3>1. pc'[Handler] = pc[Handler] BY <1>0, <1>6, <2>2, MemoryStepLeaves DEF OnlyMoves
    <3>2. pc[Handler] = "idle" BY <1>6, <2>2 DEF MemoryStep, CanRun, MayRun
    <3> QED BY <1>1, <3>1, <3>2
  <2> QED BY <2>1, <2>2
<1>7. ASSUME NEW a \in Actors, WriteSerial(a) PROVE HandlerInv'
  <2>1. a # Handler BY <1>0, <1>7, WriterIsSerial
  <2>2. pc'[Handler] = "idle" BY <1>7, <2>1 DEF WriteSerial, CanRun, MayRun
  <2> QED BY <1>1, <2>2
<1>8. CASE StartShow \/ ShowByte \/ EndShow
  <2>1. pc'[Handler] = "idle"
    BY <1>0, <1>8 DEF StartShow, ShowByte, EndShow, StartPrint, PrintByte, EndPrint, MayRun
  <2> QED BY <1>1, <2>1
<1>9. CASE Again
  <2>1. pc'[Handler] = "idle" BY <1>0, <1>9 DEF Again, Reset, Restart
  <2> QED BY <1>1, <2>1
<1>10. CASE Boot /\ UNCHANGED fcVars
  <2>1. FaultInv' BY <1>0, <1>10, FaultInvStep DEF Next
  <2> QED BY <1>0, <2>1 DEF HandlerInv
<1>11. CASE \/ \E a \in Actors : InitClear(a) \/ InitFunc(a) \/ DisableIrq(a) \/ EndSerial(a)
            \/ UNCHANGED allVars
  BY <1>3, <1>11 DEF InitClear, InitFunc, DisableIrq, EndSerial, allVars, vars
<1>12. \A a \in Actors : ~StoreSerial(a) BY <1>0, NoSerialStored DEF TerminalInv
<1> QED BY <1>4, <1>5, <1>6, <1>7, <1>8, <1>9, <1>10, <1>11, <1>12 DEF FCNext, Proceeds

\* Whatever threads were doing when the fault came, and whatever function m_ctx
\* had, a fault handler that is done has stored its own dump if it fits.
THEOREM HandlerStoresItsDump == FCSpec => [](Keeps => FaultDumpIsStored)
<1>1. FCInit => HandlerInv BY TerminalInvInit, FaultInvInit DEF HandlerInv, FCInit
<1>2. HandlerInv => FaultDumpIsStored BY DEF HandlerInv, FaultInv
<1> QED BY <1>1, <1>2, HandlerInvStep, SystemStays, PTL DEF FCSpec

-----------------------------------------------------------------------------
(* The dump of an assertion. *)

\* The bytes that went over the serial port.
Sent(bytes) == [k \in DOMAIN bytes |-> Byte(bytes[k])]

\* While a serial dump writes, and unless a fault has ended it, nothing else is on
\* the terminal and the checksum is that of the bytes so far, not yet inverted.
CountedInv ==
  irq # {} /\ pc[Handler] = "idle" =>
    ~rec.noise /\ serial_crc32 = AfterBytes(Sent(rec.bytes), Bits32)[Len(rec.bytes)]

SpinInv ==
  \A a \in Actors : at[a] = "spin" => dump[a] \in 1..Len(lens) /\ Stream(dump[a]) \in files

AssertInv == TerminalInv /\ CountedInv /\ SpinInv

LEMMA ByteType == \A cell : Byte(cell) \in Bytes
<1> SUFFICES ASSUME NEW cell PROVE Byte(cell) \subseteq 0..7 BY DEF Bytes
<1>1. \A S : {b \in 0..2 : b \in S} \subseteq 0..7 OBVIOUS
<1>2. \A S : S \subseteq 0..2 => {3 + b : b \in S} \subseteq 0..7 OBVIOUS
<1> QED BY <1>1, <1>2 DEF Byte

\* A cell more on the terminal is a byte more in the message.
LEMMA SentMore ==
  ASSUME NEW bytes \in Seq(Cell), NEW cell \in Cell
  PROVE  /\ Sent(bytes) \in Seq(Bytes) /\ Len(Sent(bytes)) = Len(bytes)
         /\ Sent(Append(bytes, cell)) = Append(Sent(bytes), Byte(cell))
<1> DEFINE n == Len(bytes)
           more == Append(bytes, cell)
<1>1. n \in Nat /\ DOMAIN bytes = 1..n BY LenProperties
<1>2. DOMAIN more = 1..n+1 /\ more[n + 1] = cell /\ \A k \in 1..n : more[k] = bytes[k]
  BY AppendProperties
<1> HIDE DEF n, more
<1>3. Sent(bytes) \in [1..n -> Bytes] BY <1>1, ByteType DEF Sent
<1>4. Sent(bytes) \in Seq(Bytes) /\ Len(Sent(bytes)) = n BY <1>1, <1>3, SeqDef, LenProperties
<1>5. Append(Sent(bytes), Byte(cell))
        = [k \in 1..n+1 |-> IF k = n + 1 THEN Byte(cell) ELSE Sent(bytes)[k]]
  <2> DEFINE sent == Sent(bytes)
             byte == Byte(cell)
  <2>1. sent \in Seq(Bytes) /\ byte \in Bytes /\ Len(sent) = n BY <1>4, ByteType
  <2> HIDE DEF sent, byte
  <2>2. DOMAIN sent = 1..n BY <1>4, <2>1, LenProperties
  <2>3. /\ Append(sent, byte) \in Seq(Bytes) /\ Len(Append(sent, byte)) = n + 1
        /\ Append(sent, byte)[n + 1] = byte
        /\ \A k \in 1..n : Append(sent, byte)[k] = sent[k]
    BY <2>1, AppendProperties
  <2>4. Append(sent, byte) \in [1..n+1 -> Bytes] BY <2>3, LenProperties
  <2>5. \A k \in 1..n+1 : k = n + 1 \/ k \in 1..n BY <1>1
  <2> QED BY <2>3, <2>4, <2>5 DEF sent, byte
<1>6. \A k \in 1..n+1 : Sent(more)[k] = IF k = n + 1 THEN Byte(cell) ELSE Sent(bytes)[k]
  <2> SUFFICES ASSUME NEW k \in 1..n+1
               PROVE  Byte(more[k]) = IF k = n + 1 THEN Byte(cell) ELSE Sent(bytes)[k]
    BY <1>2 DEF Sent
  <2>1. CASE k = n + 1 BY <1>2, <2>1
  <2>2. CASE k # n + 1
    <3>1. k \in 1..n BY <1>1, <2>2
    <3> QED BY <1>1, <1>2, <2>2, <3>1 DEF Sent
  <2> QED BY <2>1, <2>2
<1>7. Sent(more) = [k \in 1..n+1 |-> IF k = n + 1 THEN Byte(cell) ELSE Sent(bytes)[k]]
  BY <1>2, <1>6 DEF Sent
<1> QED BY <1>4, <1>5, <1>7 DEF n, more

\* Inverting the checksum of a byte again is what the function does between bytes.
LEMMA ByteByByte ==
  ASSUME NEW crc \in Words, NEW byte \in Bytes
  PROVE  byte \in Words /\ Not(mcd_crc32b(<<byte>>, crc)) = CrcByte(crc, byte)
<1>1. byte \in Words BY DEF Bytes, Words, Bits32
<1>2. <<byte>> \in Seq(Words) /\ Len(<<byte>>) = 1 /\ <<byte>>[1] = byte BY <1>1
<1>3. 1 \in 1..1 /\ 1 - 1 = 0 OBVIOUS
<1>4. AfterBytes(<<byte>>, crc)[1] = CrcByte(crc, byte)
  <2>1. /\ AfterBytes(<<byte>>, crc)[0] = crc
        /\ \A k \in 1..Len(<<byte>>) :
             AfterBytes(<<byte>>, crc)[k] = CrcByte(AfterBytes(<<byte>>, crc)[k - 1], <<byte>>[k])
    BY <1>2, BytesRun
  <2> QED BY <1>2, <1>3, <2>1
<1>5. CrcByte(crc, byte) \in Words BY <1>1, CrcByteType
<1>6. \A w \in Words : Not(Not(w)) = w BY DEF Not, Words
<1> QED BY <1>1, <1>2, <1>4, <1>5, <1>6 DEF mcd_crc32b

\* The checksum of the dump, byte by byte.
LEMMA CountedMore ==
  ASSUME NEW bytes \in Seq(Cell), NEW cell \in Cell,
         NEW crc, crc = AfterBytes(Sent(bytes), Bits32)[Len(bytes)]
  PROVE  Not(mcd_crc32b(<<Byte(cell)>>, crc))
           = AfterBytes(Sent(Append(bytes, cell)), Bits32)[Len(Append(bytes, cell))]
<1> DEFINE sent == Sent(bytes)
           byte == Byte(cell)
<1>1. sent \in Seq(Bytes) /\ Len(sent) = Len(bytes) /\ Len(bytes) \in Nat
  BY SentMore, LenProperties
<1>2. Sent(Append(bytes, cell)) = Append(sent, byte) /\ Len(Append(bytes, cell)) = Len(bytes) + 1
  BY SentMore, AppendProperties
<1>3. byte \in Bytes /\ Bits32 \in Words BY ByteType DEF Words
<1> HIDE DEF sent, byte
<1>4. sent \in Seq(Words)
  <2>1. Bytes \subseteq Words BY DEF Bytes, Words, Bits32
  <2> QED BY <1>1, <2>1
<1>5. crc \in Words
  <2>1. \A k \in 0..Len(sent) : AfterBytes(sent, Bits32)[k] \in Words
    BY <1>3, <1>4, BytesRun
  <2>2. crc = AfterBytes(sent, Bits32)[Len(sent)] BY <1>1 DEF sent
  <2> QED BY <1>1, <2>1, <2>2
<1>6. Not(mcd_crc32b(<<byte>>, crc)) = CrcByte(crc, byte) /\ byte \in Words
  BY <1>3, <1>5, ByteByByte
<1>7. AfterBytes(Append(sent, byte), Bits32)[Len(sent) + 1]
        = CrcByte(AfterBytes(sent, Bits32)[Len(sent)], byte)
  BY <1>3, <1>4, <1>6, OneMoreByte
<1> QED BY <1>1, <1>2, <1>6, <1>7 DEF sent, byte

\* A thread that runs without having disabled interrupts runs with them enabled.
LEMMA CountedIfEnabled ==
  ASSUME TerminalInv, NEW a \in Actors, a # Handler, CanRun(a), irq' = irq,
         ~(at[a] = "gen" /\ pc[a] = "idle")
  PROVE  CountedInv'
<1>1. irq = {} BY RunnerIrq
<1> QED BY <1>1 DEF CountedInv

LEMMA CountedInvStep ==
  Keeps /\ TerminalInv /\ CountedInv /\ [FCNext]_allVars => CountedInv'
<1> SUFFICES ASSUME Keeps, TerminalInv, CountedInv, [FCNext]_allVars PROVE CountedInv'
  OBVIOUS
<1>0. /\ TypeOK /\ rec \in Records /\ IrqInv /\ pc \in [Actors -> PcValues]
      /\ at \in [Actors -> AtValues] /\ Places(Handler)
      /\ Handler \in Actors /\ Shell \in Actors /\ Shell # Handler
      /\ Threads \subseteq Actors /\ Handler \notin Threads
  BY ShellFacts, RunnerFacts
<1>1. ASSUME NEW a \in Threads, NEW len \in StreamLens, StartSerial(a, len) PROVE CountedInv'
  <2>1. CanRun(a) /\ at[a] = "none" /\ irq' = irq BY <1>1 DEF StartSerial, Begins, Busy
  <2> QED BY <1>0, <2>1, CountedIfEnabled
<1>2. ASSUME NEW a \in Threads \cup {Handler}, NEW len \in StreamLens, StartMemory(a, len)
      PROVE  CountedInv'
  <2>1. CanRun(a) /\ at[a] = "none" /\ irq' = irq /\ pc' = [pc EXCEPT ![a] = "clear"]
    BY <1>2 DEF StartMemory, StartDump, Begins, Busy
  <2>2. CASE a = Handler BY <1>0, <2>1, <2>2 DEF CountedInv
  <2>3. CASE a # Handler BY <1>0, <2>1, <2>3, CountedIfEnabled
  <2> QED BY <2>2, <2>3
<1>3. ASSUME NEW a \in Actors, InitClear(a) \/ InitFunc(a) PROVE CountedInv'
  <2>1. CanRun(a) /\ at[a] \in {"clear", "func"} /\ irq' = irq /\ pc' = pc
    BY <1>3 DEF InitClear, InitFunc, Goes, vars
  <2>2. CASE a = Handler
    <3>1. pc'[Handler] # "idle" BY <1>0, <2>1, <2>2 DEF Places
    <3> QED BY <3>1 DEF CountedInv
  <2>3. CASE a # Handler BY <2>1, <2>3, CountedIfEnabled
  <2> QED BY <2>2, <2>3
<1>4. ASSUME NEW a \in Actors, DisableIrq(a) PROVE CountedInv'
  <2>1. rec'.noise = FALSE /\ rec'.bytes = <<>> /\ serial_crc32' = Bits32
    BY <1>4 DEF DisableIrq, Start
  <2>2. Sent(<<>>) = <<>> BY DEF Sent
  <2>3. <<>> \in Seq(Words) /\ Bits32 \in Words BY EmptySeq DEF Words
  <2>4. AfterBytes(<<>>, Bits32)[0] = Bits32 BY <2>3, BytesRun
  <2> QED BY <2>1, <2>2, <2>4 DEF CountedInv
<1>5. ASSUME NEW a \in Actors, WriteSerial(a) PROVE CountedInv'
  <2> DEFINE cell == <<dump[a], pos[a]>>
  <2>1. pc[a] = "idle" /\ a # Handler /\ irq = {a} BY <1>5, WriterIsSerial
  <2>2. /\ CanRun(a) /\ at[a] = "gen" /\ pc' = pc
        /\ serial_crc32' = Not(mcd_crc32b(<<Byte(cell)>>, serial_crc32))
        /\ rec' = Hex(rec, cell)
    BY <1>5 DEF WriteSerial, corefile_serial_write
  <2>3. pc[Handler] = "idle" BY <2>1, <2>2 DEF CanRun, MayRun
  <2>4. /\ dump[a] \in 1..Len(lens) /\ pos[a] \in Nat /\ rec.open
    BY <2>1, <2>2, RunnerFacts DEF SerialInv, InSerial
  <2>5. cell \in Cell BY <1>0, <2>4 DEF Cell, TypeOK
  <2>6. ~rec.noise /\ serial_crc32 = AfterBytes(Sent(rec.bytes), Bits32)[Len(rec.bytes)]
    BY <2>1, <2>3 DEF CountedInv
  <2> HIDE DEF cell
  <2>7. rec'.noise = rec.noise /\ rec'.bytes = Append(rec.bytes, cell)
    BY <1>0, <2>2, <2>4, <2>5, HexAppends
  <2>8. rec.bytes \in Seq(Cell) BY <1>0 DEF Records
  <2>9. serial_crc32' = AfterBytes(Sent(rec'.bytes), Bits32)[Len(rec'.bytes)]
    BY <2>2, <2>5, <2>6, <2>7, <2>8, CountedMore
  <2> QED BY <2>6, <2>7, <2>9 DEF CountedInv
<1>6. ASSUME NEW a \in Actors, MemoryStep(a) PROVE CountedInv'
  <2>1. /\ CanRun(a) /\ pc[a] # "idle" /\ irq' = irq BY <1>6, MemoryStepLeaves
  <2>2. CASE a = Handler
    <3>1. DumpStep(a) BY <1>6 DEF MemoryStep, DumpStep
    <3>2. pc'[Handler] # "idle" BY <1>0, <2>2, <3>1, OnlyOwnPc
    <3> QED BY <3>2 DEF CountedInv
  <2>3. CASE a # Handler BY <2>1, <2>3, CountedIfEnabled
  <2> QED BY <2>2, <2>3
<1>7. CASE StartShow \/ ShowByte \/ EndShow
  <2>1. CanRun(Shell) /\ (at[Shell] = "none" \/ pc[Shell] = "emit") /\ irq' = irq
    BY <1>7 DEF StartShow, ShowByte, EndShow, StartPrint, PrintByte, EndPrint, Begins, Busy
  <2> QED BY <1>0, <2>1, CountedIfEnabled
<1>8. CASE (\E a \in Actors : EndSerial(a)) \/ Again
  BY <1>8 DEF EndSerial, Again, CountedInv
<1>9. CASE (Boot /\ UNCHANGED fcVars) \/ UNCHANGED allVars
  <2>1. UNCHANGED <<irq, pc, rec, serial_crc32>> BY <1>9 DEF Boot, fcVars, allVars, vars
  <2> QED BY <2>1 DEF CountedInv
<1>10. \A a \in Actors : ~StoreSerial(a) BY NoSerialStored DEF TerminalInv
<1> QED BY <1>1, <1>2, <1>3, <1>4, <1>5, <1>6, <1>7, <1>8, <1>9, <1>10 DEF FCNext, Proceeds

\* What has been saved stays saved, and an assertion that spins does nothing more.
LEMMA SpinStays ==
  ASSUME TypeOK, SpinInv, Grows, files \subseteq files',
         \A a \in Actors : at'[a] = "spin" => at[a] = "spin" /\ dump'[a] = dump[a]
  PROVE  SpinInv'
<1> SUFFICES ASSUME NEW a \in Actors, at'[a] = "spin"
             PROVE  /\ dump'[a] \in 1..Len(lens')
                    /\ [k \in 1..lens'[dump'[a]] |-> <<dump'[a], k - 1>>] \in files'
  BY DEF SpinInv, Stream
<1>1. dump'[a] = dump[a] /\ dump[a] \in 1..Len(lens) /\ Stream(dump[a]) \in files
  BY DEF SpinInv
<1>2. dump[a] \in 1..Len(lens') /\ lens'[dump[a]] = lens[dump[a]] BY <1>1, StreamsRemain
<1> QED BY <1>1, <1>2 DEF Stream

\* The text of a serial dump that ends can be saved: its checksum is the one of the
\* bytes on the terminal, however the source computes it.
LEMMA EndMatches ==
  ASSUME TerminalInv, CountedInv, NEW a \in Actors, EndSerial(a)
  PROVE  files' = files \cup {Stream(dump[a])} /\ dump[a] \in 1..Len(lens)
<1>1. /\ pc[a] = "idle" /\ a # Handler /\ irq = {a}
      /\ dump[a] \in 1..Len(lens) /\ rec.bytes = Stream(dump[a])
      /\ rec.bytes \in Seq(Cell) \ {<<>>}
  BY SerialFile
<1>2. CanRun(a) /\ at[a] = "gen" /\ serial_crc32' = Not(serial_crc32) /\ End(serial_crc32')
  BY DEF EndSerial, Goes
<1>3. pc[Handler] = "idle" BY <1>1, <1>2 DEF CanRun, MayRun
<1>4. ~rec.noise /\ serial_crc32 = AfterBytes(Sent(rec.bytes), Bits32)[Len(rec.bytes)]
  BY <1>1, <1>3 DEF CountedInv
<1>5. rec.open BY <1>1, <1>2, RunnerFacts DEF SerialInv, InSerial
<1>6. Sent(rec.bytes) \in Seq(Bytes) /\ Len(Sent(rec.bytes)) = Len(rec.bytes)
  <2>1. Blank \in Cell BY DEF Cell
  <2> QED BY <1>1, <2>1, SentMore
<1>7. serial_crc32' = mcd_crc32b(Sent(rec.bytes), Bits32) BY <1>2, <1>4, <1>6 DEF mcd_crc32b
<1>8. CRC32(Sent(rec.bytes)) = serial_crc32' BY <1>6, <1>7, CrcIsCorrect
<1> QED BY <1>1, <1>2, <1>4, <1>5, <1>8 DEF End, Sent

LEMMA SpinInvStep ==
  Keeps /\ TerminalInv /\ CountedInv /\ SpinInv /\ [FCNext]_allVars => SpinInv'
<1> SUFFICES ASSUME Keeps, TerminalInv, CountedInv, SpinInv, [FCNext]_allVars
             PROVE  SpinInv'
  OBVIOUS
<1>0. /\ TypeOK /\ Grows /\ at \in [Actors -> AtValues]
      /\ dump \in [Actors -> 0..Len(lens)]
      /\ Threads \subseteq Actors /\ Handler \in Actors /\ Shell \in Actors
  BY LensGrow, ShellFacts, RunnerFacts
<1> DEFINE Stays == \A a \in Actors : at'[a] = "spin" => at[a] = "spin" /\ dump'[a] = dump[a]
<1>1. ASSUME Stays, files \subseteq files' PROVE SpinInv' BY <1>0, <1>1, SpinStays
<1>2. CASE \/ \E a \in Threads, len \in StreamLens : StartSerial(a, len)
           \/ \E a \in Threads \cup {Handler}, len \in StreamLens : StartMemory(a, len)
  <2>1. PICK a \in Actors : /\ at' = [at EXCEPT ![a] = "clear"] /\ files' = files
                            /\ dump' = [dump EXCEPT ![a] = Len(lens) + 1]
    BY <1>0, <1>2 DEF StartSerial, StartMemory, StartDump
  <2>2. Stays BY <1>0, <2>1
  <2> QED BY <1>1, <2>1, <2>2
<1>3. ASSUME NEW a \in Actors, InitClear(a) \/ InitFunc(a) \/ DisableIrq(a) \/ WriteSerial(a)
      PROVE  SpinInv'
  <2>1. /\ dump' = dump /\ files' = files
        /\ at' = at \/ \E to \in {"func", "gen", "irq"} : at' = [at EXCEPT ![a] = to]
    BY <1>3 DEF InitClear, InitFunc, DisableIrq, WriteSerial, Goes, vars
  <2>2. Stays BY <1>0, <2>1
  <2> QED BY <1>1, <2>1, <2>2
<1>4. ASSUME NEW a \in Actors, MemoryStep(a) PROVE SpinInv'
  <2>1. files' = files /\ dump' = dump BY <1>4, MemoryStepLeaves
  <2>2. at' = at \/ at' = [at EXCEPT ![a] = "none"] BY <1>4 DEF MemoryStep
  <2>3. Stays BY <1>0, <2>1, <2>2
  <2> QED BY <1>1, <2>1, <2>3
<1>5. ASSUME NEW a \in Actors, EndSerial(a) PROVE SpinInv'
  <2>1. /\ dump' = dump /\ lens' = lens /\ \A b \in Actors : b # a => at'[b] = at[b]
    BY <1>0, <1>5 DEF EndSerial, Goes, vars
  <2>2. files' = files \cup {Stream(dump[a])} /\ dump[a] \in 1..Len(lens) BY <1>5, EndMatches
  <2>3. ASSUME NEW b \in Actors, at'[b] = "spin"
        PROVE  dump[b] \in 1..Len(lens) /\ Stream(dump[b]) \in files'
    <3>1. CASE b = a BY <2>2, <3>1
    <3>2. CASE b # a BY <2>1, <2>2, <2>3, <3>2 DEF SpinInv
    <3> QED BY <3>1, <3>2
  <2> QED BY <2>1, <2>3 DEF SpinInv, Stream
<1>6. CASE StartShow \/ ShowByte \/ EndShow \/ (Boot /\ UNCHANGED fcVars) \/ UNCHANGED allVars
  <2>1. at' = at /\ dump' = dump /\ files \subseteq files'
    BY <1>6 DEF StartShow, ShowByte, EndShow, StartPrint, PrintByte, EndPrint, End, Boot,
                fcVars, allVars, vars
  <2> QED BY <1>1, <2>1
<1>7. CASE Again BY <1>7 DEF Again, SpinInv
<1>8. \A a \in Actors : ~StoreSerial(a) BY NoSerialStored DEF TerminalInv
<1> QED BY <1>2, <1>3, <1>4, <1>5, <1>6, <1>7, <1>8 DEF FCNext, Proceeds

LEMMA AssertInvInit == FCInit => AssertInv
<1> SUFFICES ASSUME FCInit PROVE AssertInv OBVIOUS
<1>1. irq = {} /\ at = [a \in Actors |-> "none"] BY DEF FCInit
<1> QED BY <1>1, TerminalInvInit DEF AssertInv, CountedInv, SpinInv

LEMMA AssertInvStep == Keeps /\ AssertInv /\ [FCNext]_allVars => AssertInv'
BY TerminalInvStep, CountedInvStep, SpinInvStep DEF AssertInv

\* When an assertion spins, its core file has been shown: every byte of it, nothing
\* else between the markers, and a checksum that is its CRC-32, although the source
\* computes it one byte at a time and inverts it back and forth (rtt_assert_hook).
THEOREM AssertionsAreShown == FCSpec => []AssertionIsShown
<1>1. AssertInv => AssertionIsShown BY DEF AssertInv, SpinInv, AssertionIsShown, Threads, Actors
<1>2. ~Keeps => AssertionIsShown BY DEF Keeps, AssertionIsShown
<1> QED BY <1>1, <1>2, AssertInvInit, AssertInvStep, SystemStays, PTL DEF FCSpec
=============================================================================
