-------------------------- MODULE StackFrameProofs --------------------------
(***************************************************************************)
(* Theorems about StackFrame, for any place of the frame and any set of    *)
(* builds and contexts; what a collector gets right is stated for the      *)
(* contexts it is right about.                                             *)
(***************************************************************************)
EXTENDS StackFrame, SequenceTheorems, TLAPS

Registers == CoreRegset \cup FpRegset

\* What is saved above the header of a frame when s16-s31 are where the comments of
\* the collectors have them.
Saved(c) == Software \o When(c.active, FpHigh) \o Hardware \o When(c.active, FpLow)

-----------------------------------------------------------------------------
(* The parts of a frame. *)

LEMMA WordTypes ==
  /\ \A n \in Nat : R(n) \in StackWord /\ S(n) \in StackWord
  /\ FPSCR \in StackWord /\ Skipped \in StackWord /\ Zero \in StackWord
  /\ \A b \in BOOLEAN : ExcReturn(b) \in StackWord /\ Flag(b) \in StackWord
BY DEF StackWord, R, S, FPSCR, Skipped, Zero, ExcReturn, Flag

LEMMA PartTypes ==
  /\ Software \in Seq(StackWord) /\ Len(Software) = 8
  /\ FpHigh \in Seq(StackWord) /\ Len(FpHigh) = 16
  /\ Hardware \in Seq(StackWord) /\ Len(Hardware) = 8
  /\ FpLow \in Seq(StackWord) /\ Len(FpLow) = 18
<1>1. Software \in Seq(StackWord) /\ Len(Software) = 8
  <2>1. \A k \in 1..8 : R(k + 3) \in StackWord BY WordTypes
  <2> QED BY <2>1 DEF Software
<1>2. FpHigh \in Seq(StackWord) /\ Len(FpHigh) = 16
  <2>1. \A k \in 1..16 : S(k + 15) \in StackWord BY WordTypes
  <2> QED BY <2>1 DEF FpHigh
<1>3. Hardware \in Seq(StackWord) /\ Len(Hardware) = 8
  <2>1. /\ \A n \in 0..12 : R(n) \in StackWord
        /\ <<"lr", 0>> \in StackWord /\ <<"pc", 0>> \in StackWord /\ <<"xpsr", 0>> \in StackWord
    BY WordTypes, SMTT(30) DEF StackWord
  <2> QED BY <2>1 DEF Hardware
<1>4. FpLow \in Seq(StackWord) /\ Len(FpLow) = 18
  <2> DEFINE low == [k \in 1..16 |-> S(k - 1)]
             end == <<FPSCR, Skipped>>
  <2>1. \A k \in 1..16 : S(k - 1) \in StackWord BY WordTypes
  <2>2. low \in Seq(StackWord) /\ Len(low) = 16 BY <2>1
  <2>3. end \in Seq(StackWord) /\ Len(end) = 2 BY WordTypes
  <2> HIDE DEF low, end
  <2>4. low \o end \in Seq(StackWord) /\ Len(low \o end) = Len(low) + Len(end)
    BY <2>2, <2>3, ConcatProperties
  <2>5. FpLow = low \o end BY DEF FpLow, low, end
  <2> QED BY <2>2, <2>3, <2>4, <2>5
<1> QED BY <1>1, <1>2, <1>3, <1>4

\* Two parts, one after the other.
LEMMA Joined ==
  ASSUME NEW s \in Seq(StackWord), NEW t \in Seq(StackWord)
  PROVE  /\ s \o t \in Seq(StackWord) /\ Len(s \o t) = Len(s) + Len(t)
         /\ \A i \in 1..Len(s) : (s \o t)[i] = s[i]
         /\ \A i \in 1..Len(t) : (s \o t)[Len(s) + i] = t[i]
<1>1. Len(s) \in Nat /\ Len(t) \in Nat BY LenProperties
<1>2. /\ s \o t \in Seq(StackWord) /\ Len(s \o t) = Len(s) + Len(t)
      /\ \A i \in 1..Len(s) + Len(t) : (s \o t)[i] = IF i <= Len(s) THEN s[i] ELSE t[i - Len(s)]
  BY ConcatProperties
<1> QED BY <1>1, <1>2

\* A part that may be missing.
LEMMA WhenType ==
  ASSUME NEW b \in BOOLEAN, NEW s \in Seq(StackWord)
  PROVE  /\ When(b, s) \in Seq(StackWord)
         /\ Len(When(b, s)) = IF b THEN Len(s) ELSE 0
         /\ b => When(b, s) = s
         /\ ~b => When(b, s) = <<>>
BY EmptySeq DEF When

\* What lies below r4-r11, one to five words.
LEMMA BelowType ==
  ASSUME NEW c \in CaseType
  PROVE  /\ Below(c) \in Seq(StackWord)
         /\ Len(Below(c)) = (IF c.kind = "fault" THEN 1 ELSE 0) +
                            (IF c.arch = "armv8m" THEN 4 ELSE IF c.fpu THEN 1 ELSE 0)
<1> DEFINE exc == When(c.kind = "fault", <<ExcReturn(c.active)>>)
           flag == When(c.fpu, <<Flag(c.active)>>)
           tz == <<<<"tz", 0>>, <<"lr", 1>>, <<"psplim", 0>>, <<"control", 0>>>>
<1>1. c.active \in BOOLEAN /\ c.fpu \in BOOLEAN /\ c.arch \in {"armv7m", "armv8m"}
  BY DEF CaseType
<1>2. exc \in Seq(StackWord) /\ Len(exc) = IF c.kind = "fault" THEN 1 ELSE 0
  <2>1. <<ExcReturn(c.active)>> \in Seq(StackWord) /\ Len(<<ExcReturn(c.active)>>) = 1
    <3>1. ExcReturn(c.active) \in StackWord BY <1>1, WordTypes
    <3> QED BY <3>1
  <2> QED BY <2>1, WhenType
<1>3. flag \in Seq(StackWord) /\ Len(flag) = IF c.fpu THEN 1 ELSE 0
  <2>1. <<Flag(c.active)>> \in Seq(StackWord) /\ Len(<<Flag(c.active)>>) = 1
    <3>1. Flag(c.active) \in StackWord BY <1>1, WordTypes
    <3> QED BY <3>1
  <2> QED BY <1>1, <2>1, WhenType
<1>4. tz \in Seq(StackWord) /\ Len(tz) = 4
  <2>1. /\ <<"tz", 0>> \in StackWord /\ <<"lr", 1>> \in StackWord
        /\ <<"psplim", 0>> \in StackWord /\ <<"control", 0>> \in StackWord
    BY DEF StackWord
  <2> QED BY <2>1
<1>5. Below(c) = exc \o (IF c.arch = "armv7m" THEN flag ELSE tz) BY DEF Below
<1> HIDE DEF exc, flag, tz
<1>6. CASE c.arch = "armv7m"
  <2>1. exc \o flag \in Seq(StackWord) /\ Len(exc \o flag) = Len(exc) + Len(flag)
    BY <1>2, <1>3, ConcatProperties
  <2> QED BY <1>2, <1>3, <1>5, <1>6, <2>1
<1>7. CASE c.arch = "armv8m"
  <2>1. exc \o tz \in Seq(StackWord) /\ Len(exc \o tz) = Len(exc) + Len(tz)
    BY <1>2, <1>4, ConcatProperties
  <2> QED BY <1>2, <1>4, <1>5, <1>7, <2>1
<1> QED BY <1>1, <1>6, <1>7

\* The size of a frame.
LEMMA FrameType ==
  ASSUME NEW c \in CaseType
  PROVE  /\ Frame(c) \in Seq(StackWord)
         /\ Len(Frame(c)) = Len(Below(c)) + (IF c.below THEN 16 ELSE 0) + 8 +
                            (IF c.active /\ ~c.below THEN 16 ELSE 0) + 8 +
                            (IF c.active THEN 18 ELSE 0)
<1> DEFINE w1 == When(c.below, FpHigh)
           w3 == When(c.active /\ ~c.below, FpHigh)
           w5 == When(c.active, FpLow)
           p1 == Below(c) \o w1
           p2 == p1 \o Software
           p3 == p2 \o w3
           p4 == p3 \o Hardware
           p5 == p4 \o w5
<1>1. c.active \in BOOLEAN /\ c.below \in BOOLEAN BY DEF CaseType
<1>2. /\ w1 \in Seq(StackWord) /\ Len(w1) = IF c.below THEN 16 ELSE 0
      /\ w3 \in Seq(StackWord) /\ Len(w3) = IF c.active /\ ~c.below THEN 16 ELSE 0
      /\ w5 \in Seq(StackWord) /\ Len(w5) = IF c.active THEN 18 ELSE 0
  BY <1>1, PartTypes, WhenType
<1>3. Frame(c) = p5 BY DEF Frame
<1> HIDE DEF w1, w3, w5
<1>4. p1 \in Seq(StackWord) /\ Len(p1) = Len(Below(c)) + Len(w1)
  BY <1>2, BelowType, ConcatProperties
<1> HIDE DEF p1
<1>5. p2 \in Seq(StackWord) /\ Len(p2) = Len(p1) + Len(Software)
  BY <1>4, PartTypes, ConcatProperties
<1> HIDE DEF p2
<1>6. p3 \in Seq(StackWord) /\ Len(p3) = Len(p2) + Len(w3) BY <1>2, <1>5, ConcatProperties
<1> HIDE DEF p3
<1>7. p4 \in Seq(StackWord) /\ Len(p4) = Len(p3) + Len(Hardware)
  BY <1>6, PartTypes, ConcatProperties
<1> HIDE DEF p4
<1>8. p5 \in Seq(StackWord) /\ Len(p5) = Len(p4) + Len(w5) BY <1>2, <1>7, ConcatProperties
<1> HIDE DEF p5
<1>9. Len(Below(c)) \in Nat BY BelowType, LenProperties
<1> QED BY <1>2, <1>3, <1>4, <1>5, <1>6, <1>7, <1>8, <1>9, PartTypes

-----------------------------------------------------------------------------
(* Types. *)

\* Whatever is read is a word, inside the frame or around it.
LEMMA WordType ==
  ASSUME case \in Cases, NEW p \in Nat
  PROVE  Word(p) \in StackWord
<1>1. case \in CaseType /\ Base \in Nat BY CasesAssumption
<1>2. Frame(case) \in Seq(StackWord) /\ Len(Frame(case)) \in Nat
  BY <1>1, FrameType, LenProperties
<1>3. CASE p \in Base..(Base + Len(Frame(case)) - 1)
  <2>1. p - Base + 1 \in 1..Len(Frame(case)) BY <1>1, <1>2, <1>3
  <2> QED BY <1>2, <1>3, <2>1, ElementOfSeq DEF Word
<1>4. CASE p \notin Base..(Base + Len(Frame(case)) - 1)
  BY <1>4 DEF Word, StackWord
<1> QED BY <1>3, <1>4

\* The hooks do not go back below the frame by more than the 16 words that are
\* stack too.
LEMMA StackTopType ==
  ASSUME NEW c \in Cases
  PROVE  StackTop(c) \in Nat
<1>1. /\ c \in CaseType /\ Base \in Nat /\ Base >= 16
      /\ c.active \in BOOLEAN /\ c.below \in BOOLEAN
  BY CasesAssumption DEF CaseType
<1>2. Len(Hardware) = 8 /\ Len(When(c.active, FpLow)) = IF c.active THEN 18 ELSE 0
  BY <1>1, PartTypes, WhenType
<1>3. Len(Below(c)) \in Nat BY <1>1, BelowType, LenProperties
<1>4. Len(Frame(c)) - (IF c.active THEN 18 ELSE 0) >= 16 /\ Len(Frame(c)) \in Nat
  <2>1. Len(Frame(c)) = Len(Below(c)) + (IF c.below THEN 16 ELSE 0) + 8 +
                        (IF c.active /\ ~c.below THEN 16 ELSE 0) + 8 +
                        (IF c.active THEN 18 ELSE 0)
    BY <1>1, FrameType
  <2> HIDE DEF Below, Frame
  <2>2. CASE c.active /\ c.below BY <1>3, <2>1, <2>2
  <2>3. CASE c.active /\ ~c.below BY <1>3, <2>1, <2>3
  <2>4. CASE ~c.active /\ c.below BY <1>3, <2>1, <2>4
  <2>5. CASE ~c.active /\ ~c.below BY <1>3, <2>1, <2>5
  <2> QED BY <1>1, <2>2, <2>3, <2>4, <2>5
<1>5. Context(c) \in Nat /\ Context(c) >= 16 BY <1>1, <1>2, <1>4 DEF Context
<1> HIDE DEF Context
<1> QED BY <1>1, <1>5 DEF StackTop, armv7m_hard_fault_exception_hook,
                          armv8m_hard_fault_exception_hook

LEMMA TypeInit == Init => TypeOK
<1> SUFFICES ASSUME Init PROVE TypeOK OBVIOUS
<1>1. current_ptr \in Nat BY StackTopType DEF Init
<1>2. DOMAIN regset = Registers /\ \A r \in DOMAIN regset : regset[r] \in StackWord
  BY WordTypes DEF Init, Registers
<1>3. fpu_flag \in BOOLEAN BY DEF Init
<1> QED BY <1>1, <1>2, <1>3 DEF Init, TypeOK, Registers

LEMMA TypeStep == TypeOK /\ [Next]_vars => TypeOK'
<1> SUFFICES ASSUME TypeOK, [Next]_vars PROVE TypeOK' OBVIOUS
<1>1. CASE ReadFlag
  <2>1. TakenForFlag(Word(current_ptr)) \subseteq BOOLEAN BY DEF TakenForFlag
  <2> QED BY <1>1, <2>1 DEF TypeOK, ReadFlag
<1>2. CASE ReadFirstWord
  <2>1. TakenForFpu(Word(current_ptr)) \subseteq BOOLEAN BY DEF TakenForFpu
  <2>2. PICK exception \in TakenForExcReturn(Word(current_ptr)) :
          IF exception
          THEN fpu_flag' \in TakenForFpu(Word(current_ptr)) /\ current_ptr' = current_ptr + 1 + 4
          ELSE fpu_flag' = FALSE /\ current_ptr' = current_ptr + 4
    BY <1>2 DEF ReadFirstWord
  <2>3. CASE exception
    <3>1. fpu_flag' \in TakenForFpu(Word(current_ptr)) /\ current_ptr' = current_ptr + 1 + 4
      BY <2>2, <2>3
    <3>2. current_ptr' \in Nat BY <3>1 DEF TypeOK
    <3>3. fpu_flag' \in BOOLEAN BY <2>1, <3>1, Zenon
    <3> QED BY <1>2, <3>2, <3>3 DEF TypeOK, ReadFirstWord
  <2>4. CASE ~exception
    <3>1. fpu_flag' = FALSE /\ current_ptr' = current_ptr + 4 BY <2>2, <2>4
    <3>2. current_ptr' \in Nat BY <3>1 DEF TypeOK
    <3>3. fpu_flag' \in BOOLEAN BY <3>1, Zenon
    <3> QED BY <1>2, <3>2, <3>3 DEF TypeOK, ReadFirstWord
  <2> QED BY <2>3, <2>4
<1>3. CASE CopyWord
  <2>1. Word(current_ptr) \in StackWord BY WordType DEF TypeOK
  <2>2. DOMAIN regset' = Registers /\ \A r \in DOMAIN regset' : regset'[r] \in StackWord
    BY <1>3, <2>1 DEF TypeOK, CopyWord, Registers
  <2> QED BY <1>3, <2>2 DEF TypeOK, CopyWord, Registers
<1>4. CASE SetSp BY <1>4 DEF TypeOK, SetSp
<1>5. CASE UNCHANGED vars BY <1>5 DEF TypeOK, vars
<1> QED BY <1>1, <1>2, <1>3, <1>4, <1>5 DEF Next

\* Every variable has its type, whatever the collector takes a word for: no
\* register is added to the two sets, and the pointer stays on the stack.
THEOREM CollectorTyped == Spec => []TypeOK
BY TypeInit, TypeStep, PTL DEF Spec

-----------------------------------------------------------------------------
(* What is saved is what is read. *)

\* The frames of the contexts the collectors are right about are the header and
\* the words in the order of the destinations.
LEMMA FrameIsSaved ==
  ASSUME NEW c \in Cases, Collectable(c)
  PROVE  /\ Frame(c) = Below(c) \o Saved(c)
         /\ Saved(c) \in Seq(StackWord) /\ Len(Saved(c)) = IF c.active THEN 50 ELSE 16
         /\ Below(c) \in Seq(StackWord)
         /\ Len(Frame(c)) = Len(Below(c)) + Len(Saved(c))
<1> DEFINE b == Below(c)
           w3 == When(c.active, FpHigh)
           w5 == When(c.active, FpLow)
<1>1. c \in CaseType /\ c.active \in BOOLEAN /\ ~c.below
  BY CasesAssumption DEF CaseType, Collectable
<1>2. /\ b \in Seq(StackWord)
      /\ w3 \in Seq(StackWord) /\ Len(w3) = IF c.active THEN 16 ELSE 0
      /\ w5 \in Seq(StackWord) /\ Len(w5) = IF c.active THEN 18 ELSE 0
  BY <1>1, BelowType, PartTypes, WhenType
<1>3. Frame(c) = (((b \o <<>>) \o Software) \o w3) \o Hardware \o w5
  BY <1>1 DEF Frame, When
<1>4. Saved(c) = ((Software \o w3) \o Hardware) \o w5 BY DEF Saved
<1> HIDE DEF b, w3, w5
<1>5. b \o <<>> = b BY <1>2, ConcatEmptySeq
<1> DEFINE s1 == Software \o w3
           s2 == s1 \o Hardware
<1>6. s1 \in Seq(StackWord) /\ Len(s1) = Len(Software) + Len(w3)
  BY <1>2, PartTypes, ConcatProperties
<1>7. (b \o Software) \o w3 = b \o (Software \o w3)
  <2>1. Software \in Seq(StackWord) BY PartTypes
  <2>2. b \in Seq(StackWord) /\ w3 \in Seq(StackWord) BY <1>2
  <2> QED BY <2>1, <2>2, ConcatAssociative
<1> HIDE DEF s1
<1>8. s2 \in Seq(StackWord) /\ Len(s2) = Len(s1) + Len(Hardware)
  BY <1>6, PartTypes, ConcatProperties
<1>9. (b \o s1) \o Hardware = b \o (s1 \o Hardware)
  <2>1. Hardware \in Seq(StackWord) BY PartTypes
  <2>2. b \in Seq(StackWord) /\ s1 \in Seq(StackWord) BY <1>2, <1>6
  <2> QED BY <2>1, <2>2, ConcatAssociative, SMTT(30)
<1> HIDE DEF s2
<1>10. s2 \o w5 \in Seq(StackWord) /\ Len(s2 \o w5) = Len(s2) + Len(w5)
  BY <1>2, <1>8, ConcatProperties
<1>11. (b \o s2) \o w5 = b \o (s2 \o w5) BY <1>2, <1>8, ConcatAssociative, SMTT(30)
<1>12. Saved(c) = s2 \o w5 BY <1>4 DEF s1, s2
<1>13. Frame(c) = b \o (s2 \o w5)
  <2>1. (b \o Software) \o w3 = b \o s1 BY <1>7 DEF s1
  <2>2. (b \o s1) \o Hardware = b \o s2 BY <1>9 DEF s2
  <2> QED BY <1>3, <1>5, <1>11, <2>1, <2>2
<1>14. Len(Saved(c)) = IF c.active THEN 50 ELSE 16
  BY <1>1, <1>2, <1>6, <1>8, <1>10, <1>12, PartTypes
<1>15. Len(b \o (s2 \o w5)) = Len(b) + Len(s2 \o w5) BY <1>2, <1>10, ConcatProperties
<1> QED BY <1>2, <1>10, <1>12, <1>13, <1>14, <1>15 DEF b

\* Where the registers are among them.
LEMMA SavedAt ==
  ASSUME NEW c \in Cases, Collectable(c)
  PROVE  LET a == IF c.active THEN 16 ELSE 0
         IN  /\ \A j \in 1..8 : Saved(c)[j] = Software[j]
             /\ \A j \in 1..8 : Saved(c)[8 + a + j] = Hardware[j]
             /\ c.active => \A j \in 1..16 : Saved(c)[8 + j] = FpHigh[j]
             /\ c.active => \A j \in 1..18 : Saved(c)[32 + j] = FpLow[j]
<1> DEFINE a == IF c.active THEN 16 ELSE 0
           w3 == When(c.active, FpHigh)
           w5 == When(c.active, FpLow)
           s1 == Software \o w3
           s2 == s1 \o Hardware
           s3 == s2 \o w5
<1>1. c.active \in BOOLEAN BY CasesAssumption DEF CaseType
<1>2. /\ w3 \in Seq(StackWord) /\ Len(w3) = a /\ (c.active => w3 = FpHigh)
      /\ w5 \in Seq(StackWord) /\ Len(w5) = (IF c.active THEN 18 ELSE 0)
      /\ (c.active => w5 = FpLow)
  BY <1>1, PartTypes, WhenType
<1>3. Saved(c) = s3 BY DEF Saved
<1>4. a \in Nat /\ (c.active => a = 16) OBVIOUS
<1> HIDE DEF w3, w5, a
<1>5. /\ s1 \in Seq(StackWord) /\ Len(s1) = 8 + a
      /\ \A i \in 1..8 : s1[i] = Software[i]
      /\ \A i \in 1..a : s1[8 + i] = w3[i]
  <2>1. /\ s1 \in Seq(StackWord) /\ Len(s1) = Len(Software) + Len(w3)
        /\ \A i \in 1..Len(Software) : s1[i] = Software[i]
        /\ \A i \in 1..Len(w3) : s1[Len(Software) + i] = w3[i]
    BY <1>2, PartTypes, Joined
  <2> HIDE DEF s1
  <2> QED BY <1>2, <1>4, <2>1, PartTypes
<1> HIDE DEF s1
<1>6. /\ s2 \in Seq(StackWord) /\ Len(s2) = 16 + a
      /\ \A i \in 1..8 + a : s2[i] = s1[i]
      /\ \A i \in 1..8 : s2[8 + a + i] = Hardware[i]
  <2>1. /\ s2 \in Seq(StackWord) /\ Len(s2) = Len(s1) + Len(Hardware)
        /\ \A i \in 1..Len(s1) : s2[i] = s1[i]
        /\ \A i \in 1..Len(Hardware) : s2[Len(s1) + i] = Hardware[i]
    BY <1>5, PartTypes, Joined, ZenonT(60)
  <2> HIDE DEF s2
  <2> QED BY <1>4, <1>5, <2>1, PartTypes
<1> HIDE DEF s2
<1>7. /\ \A i \in 1..16 + a : s3[i] = s2[i]
      /\ c.active => \A i \in 1..18 : s3[32 + i] = w5[i]
  <2>1. /\ s3 \in Seq(StackWord) /\ Len(s3) = Len(s2) + Len(w5)
        /\ \A i \in 1..Len(s2) : s3[i] = s2[i]
        /\ \A i \in 1..Len(w5) : s3[Len(s2) + i] = w5[i]
    BY <1>2, <1>6, Joined
  <2> HIDE DEF s3
  <2>2. \A i \in 1..16 + a : s3[i] = s2[i] BY <1>6, <2>1
  <2>3. c.active => Len(s2) = 32 /\ Len(w5) = 18 BY <1>2, <1>4, <1>6
  <2> QED BY <2>1, <2>2, <2>3
<1> HIDE DEF s3
<1>8. \A j \in 1..8 : s3[j] = Software[j] BY <1>4, <1>5, <1>6, <1>7, SMTT(30)
<1>9. \A j \in 1..8 : s3[8 + a + j] = Hardware[j] BY <1>4, <1>6, <1>7, SMTT(30)
<1>10. c.active => \A j \in 1..16 : s3[8 + j] = FpHigh[j] BY <1>2, <1>4, <1>5, <1>6, <1>7
<1>11. c.active => \A j \in 1..18 : s3[32 + j] = FpLow[j] BY <1>2, <1>7
<1> QED BY <1>3, <1>8, <1>9, <1>10, <1>11 DEF a

\* What stands at the place of the flag, and at the beginning of an armv8m header.
LEMMA BelowAt ==
  ASSUME NEW c \in CaseType
  PROVE  /\ c.arch = "armv7m" /\ c.fpu => Below(c)[Len(Below(c))] = Flag(c.active)
         /\ c.arch = "armv8m" =>
              Below(c)[1] = IF c.kind = "fault" THEN ExcReturn(c.active) ELSE <<"tz", 0>>
<1> DEFINE exc == When(c.kind = "fault", <<ExcReturn(c.active)>>)
           flag == <<Flag(c.active)>>
           tz == <<<<"tz", 0>>, <<"lr", 1>>, <<"psplim", 0>>, <<"control", 0>>>>
<1>1. /\ c.active \in BOOLEAN /\ c.fpu \in BOOLEAN /\ (c.kind = "fault") \in BOOLEAN
  BY DEF CaseType
<1>2. /\ exc \in Seq(StackWord) /\ Len(exc) = IF c.kind = "fault" THEN 1 ELSE 0
      /\ c.kind = "fault" => exc[1] = ExcReturn(c.active)
  <2>1. ExcReturn(c.active) \in StackWord BY <1>1, WordTypes
  <2>2. <<ExcReturn(c.active)>> \in Seq(StackWord) /\ Len(<<ExcReturn(c.active)>>) = 1
    BY <2>1
  <2>3. exc \in Seq(StackWord) /\ Len(exc) = IF c.kind = "fault" THEN 1 ELSE 0
    BY <2>2, WhenType
  <2>4. c.kind = "fault" => exc = <<ExcReturn(c.active)>> BY DEF When
  <2> QED BY <2>3, <2>4
<1>3. flag \in Seq(StackWord) /\ Len(flag) = 1 /\ flag[1] = Flag(c.active)
  <2>1. Flag(c.active) \in StackWord BY <1>1, WordTypes
  <2> QED BY <2>1
<1>4. tz \in Seq(StackWord) /\ Len(tz) = 4 /\ tz[1] = <<"tz", 0>>
  <2>1. /\ <<"tz", 0>> \in StackWord /\ <<"lr", 1>> \in StackWord
        /\ <<"psplim", 0>> \in StackWord /\ <<"control", 0>> \in StackWord
    BY DEF StackWord
  <2> QED BY <2>1
<1>5. c.arch = "armv7m" /\ c.fpu => Below(c) = exc \o flag BY DEF Below, When
<1>6. c.arch = "armv8m" => Below(c) = exc \o tz BY DEF Below
<1> HIDE DEF exc, flag, tz
<1>7. /\ Len(exc \o flag) = Len(exc) + Len(flag)
      /\ \A i \in 1..Len(flag) : (exc \o flag)[Len(exc) + i] = flag[i]
  BY <1>2, <1>3, Joined
<1>8. /\ \A i \in 1..Len(exc) : (exc \o tz)[i] = exc[i]
      /\ \A i \in 1..Len(tz) : (exc \o tz)[Len(exc) + i] = tz[i]
  BY <1>2, <1>4, Joined
<1>9. (exc \o flag)[Len(exc \o flag)] = Flag(c.active) BY <1>2, <1>3, <1>7
<1>10. (exc \o tz)[1] = IF c.kind = "fault" THEN ExcReturn(c.active) ELSE <<"tz", 0>>
  <2>1. CASE c.kind = "fault" BY <1>2, <1>8, <2>1
  <2>2. CASE c.kind # "fault" BY <1>2, <1>4, <1>8, <2>2, SMTT(30)
  <2> QED BY <2>1, <2>2
<1> QED BY <1>5, <1>6, <1>9, <1>10

\* What the collector reads in the frame.
LEMMA ReadWord ==
  ASSUME case \in Cases, Collectable(case)
  PROVE  /\ \A j \in 1..Len(Below(case)) : Word(Base + j - 1) = Below(case)[j]
         /\ \A j \in 1..Len(Saved(case)) :
              Word(Base + Len(Below(case)) + j - 1) = Saved(case)[j]
<1> DEFINE b == Below(case)
           s == Saved(case)
<1>1. Base \in Nat BY CasesAssumption
<1>2. /\ Frame(case) = b \o s /\ b \in Seq(StackWord) /\ s \in Seq(StackWord)
      /\ Len(Frame(case)) = Len(b) + Len(s)
  BY FrameIsSaved
<1> HIDE DEF b, s
<1>3. Len(b) \in Nat /\ Len(s) \in Nat BY <1>2, LenProperties
<1>4. /\ \A j \in 1..Len(b) : Frame(case)[j] = b[j]
      /\ \A j \in 1..Len(s) : Frame(case)[Len(b) + j] = s[j]
  BY <1>2, Joined
<1>5. \A k \in 1..Len(b) + Len(s) : Word(Base + k - 1) = Frame(case)[k]
  BY <1>1, <1>2, <1>3 DEF Word
<1>6. \A j \in 1..Len(b) : Word(Base + j - 1) = b[j] BY <1>3, <1>4, <1>5
<1>7. \A j \in 1..Len(s) : Word(Base + Len(b) + j - 1) = s[j]
  <2> TAKE j \in 1..Len(s)
  <2>1. Len(b) + j \in 1..Len(b) + Len(s) BY <1>3
  <2>2. Base + (Len(b) + j) - 1 = Base + Len(b) + j - 1 BY <1>1, <1>3
  <2> QED BY <1>4, <1>5, <2>1, <2>2
<1> QED BY <1>6, <1>7 DEF b, s

-----------------------------------------------------------------------------
(* Collecting. *)

AllCollectable == \A c \in Cases : Collectable(c)

\* Before the header is read nothing is collected.
HeaderInv ==
  pc = "header" => /\ current_ptr = StackTop(case) /\ next = 1 /\ fpu_flag = FALSE
                   /\ \A r \in Registers : regset[r] = Zero

\* After it the next word is the one saved for the next destination, and the
\* registers that have been one are restored.
WordsInv ==
  pc # "header" =>
    /\ fpu_flag = case.active
    /\ next \in 1..Len(Saved(case)) + 1
    /\ current_ptr = Base + Len(Below(case)) + next - 1
    /\ \A r \in Registers :
         regset[r] = IF \E j \in 1..next - 1 : Saved(case)[j] = r THEN r ELSE Zero
    /\ pc = "done" => next = Len(Saved(case)) + 1

CollectInv == TypeOK /\ HeaderInv /\ WordsInv

\* The order of the destinations is that of the frame.
LEMMA OrderIsSaved ==
  ASSUME case \in Cases, fpu_flag = case.active
  PROVE  Order = Saved(case)
<1>1. case.active \in BOOLEAN /\ case.fpu \in BOOLEAN /\ (case.active => case.fpu)
  BY CasesAssumption DEF CaseType
<1>2. (case.fpu /\ fpu_flag) = case.active BY <1>1, Zenon
<1> QED BY <1>2 DEF Order, Saved

LEMMA CollectInit == Init => CollectInv
BY TypeInit DEF Init, CollectInv, HeaderInv, WordsInv, Registers

\* The flag word of a build with an FPU; without one there is no FPU context.
LEMMA FlagIsRead ==
  ASSUME AllCollectable, CollectInv, ReadFlag
  PROVE  fpu_flag' = case.active /\ current_ptr' = Base + Len(Below(case))
<1>1. /\ case \in Cases /\ Collectable(case) /\ case.arch = "armv7m"
      /\ case \in CaseType /\ Base \in Nat
  BY CasesAssumption DEF AllCollectable, CollectInv, TypeOK, ReadFlag
<1>2. current_ptr = StackTop(case) /\ fpu_flag = FALSE
  BY DEF CollectInv, HeaderInv, ReadFlag
<1>3. /\ case.active \in BOOLEAN /\ case.fpu \in BOOLEAN /\ (case.active => case.fpu)
      /\ case.kind \in {"thread", "fault"}
  BY <1>1, CasesAssumption DEF CaseType
<1>4. Len(Below(case)) = (IF case.kind = "fault" THEN 1 ELSE 0) + (IF case.fpu THEN 1 ELSE 0)
  BY <1>1, BelowType
<1>5. CASE ~case.fpu
  <2>1. case.kind = "thread" /\ ~case.active BY <1>1, <1>3, <1>5 DEF Collectable
  <2>2. Len(Below(case)) = 0 /\ current_ptr = Base BY <1>2, <1>4, <1>5, <2>1 DEF StackTop
  <2>3. current_ptr' = current_ptr /\ fpu_flag' = FALSE BY <1>1, <1>2, <1>5 DEF ReadFlag
  <2>4. fpu_flag' = case.active BY <1>3, <2>1, <2>3, Zenon
  <2> QED BY <1>1, <2>2, <2>3, <2>4
<1>6. CASE case.fpu
  <2>1. Len(Below(case)) \in 1..2 /\ current_ptr = Base + Len(Below(case)) - 1
    <3>1. CASE case.kind = "thread" BY <1>1, <1>2, <1>4, <1>6, <3>1 DEF StackTop
    <3>2. CASE case.kind = "fault"
      <4>1. ~case.active BY <1>1, <3>2 DEF Collectable
      <4>2. Len(Frame(case)) = 18
        <5>1. Len(Below(case)) = 2 BY <1>4, <1>6, <3>2
        <5>2. Len(Saved(case)) = 16 BY <1>1, <4>1, FrameIsSaved
        <5>3. Len(Frame(case)) = Len(Below(case)) + Len(Saved(case)) BY <1>1, FrameIsSaved
        <5> QED BY <5>1, <5>2, <5>3
      <4>3. Len(Hardware) = 8 /\ Len(When(case.active, FpLow)) = 0
        BY <1>3, <4>1, PartTypes, WhenType
      <4>4. current_ptr = Base + 18 - 8 - 0 - 8 - 1
        BY <1>1, <1>2, <3>2, <4>2, <4>3
           DEF StackTop, armv7m_hard_fault_exception_hook, Context
      <4> QED BY <1>1, <1>4, <1>6, <3>2, <4>4
    <3> QED BY <1>3, <3>1, <3>2
  <2>2. Word(current_ptr) = Flag(case.active)
    <3>1. Word(current_ptr) = Below(case)[Len(Below(case))]
      BY <1>1, <2>1, ReadWord, SMTT(30)
    <3> QED BY <1>1, <1>6, <3>1, BelowAt
  <2>3. fpu_flag' = case.active
    <3>1. fpu_flag' \in TakenForFlag(Flag(case.active)) BY <1>6, <2>2 DEF ReadFlag
    <3>2. fpu_flag' = (Flag(case.active)[2] = 1) BY <3>1 DEF TakenForFlag, Flag
    <3>3. CASE case.active
      <4>1. fpu_flag' = TRUE BY <3>2, <3>3 DEF Flag
      <4> QED BY <1>3, <3>3, <4>1
    <3>4. CASE ~case.active
      <4>1. Flag(case.active)[2] = 0 BY <3>4 DEF Flag
      <4>2. (Flag(case.active)[2] = 1) = FALSE BY <4>1
      <4> QED BY <1>3, <3>2, <3>4, <4>2, Zenon
    <3> QED BY <3>3, <3>4
  <2>4. current_ptr' = current_ptr + 1 BY <1>6 DEF ReadFlag
  <2> QED BY <1>1, <2>1, <2>3, <2>4
<1> QED BY <1>3, <1>5, <1>6

\* The first word tells an exception from a thread; both are without FPU context.
LEMMA FirstWordIsRead ==
  ASSUME AllCollectable, CollectInv, ReadFirstWord
  PROVE  fpu_flag' = case.active /\ current_ptr' = Base + Len(Below(case))
<1>1. /\ case \in Cases /\ Collectable(case) /\ case.arch = "armv8m"
      /\ case \in CaseType /\ Base \in Nat
  BY CasesAssumption DEF AllCollectable, CollectInv, TypeOK, ReadFirstWord
<1>2. current_ptr = StackTop(case) /\ fpu_flag = FALSE
  BY DEF CollectInv, HeaderInv, ReadFirstWord
<1>3. case.active = FALSE /\ case.kind \in {"thread", "fault"}
  BY <1>1 DEF CaseType, Collectable
<1>4. Len(Below(case)) = (IF case.kind = "fault" THEN 1 ELSE 0) + 4 BY <1>1, BelowType
<1>5. current_ptr = Base
  <2>1. CASE case.kind = "thread" BY <1>2, <2>1 DEF StackTop
  <2>2. CASE case.kind = "fault"
    <3>1. Len(Below(case)) = 5 BY <1>4, <2>2
    <3>2. Len(Saved(case)) = 16 BY <1>1, <1>3, FrameIsSaved
    <3>3. Len(Frame(case)) = Len(Below(case)) + Len(Saved(case)) BY <1>1, FrameIsSaved
    <3>4. Len(Hardware) = 8 /\ Len(When(case.active, FpLow)) = 0
      BY <1>3, PartTypes, WhenType
    <3>5. current_ptr = Base + (5 + 16) - 8 - 0 - 8 - 4 - 1
      BY <1>1, <1>2, <2>2, <3>1, <3>2, <3>3, <3>4
         DEF StackTop, armv8m_hard_fault_exception_hook, Context
    <3> QED BY <1>1, <3>5
  <2> QED BY <1>3, <2>1, <2>2
<1>6. Word(current_ptr) = IF case.kind = "fault" THEN <<"exc_return", 1>> ELSE <<"tz", 0>>
  <2>1. Word(Base + 1 - 1) = Below(case)[1] BY <1>1, <1>3, <1>4, ReadWord
  <2>2. Base + 1 - 1 = current_ptr BY <1>1, <1>5
  <2>3. Below(case)[1] = IF case.kind = "fault" THEN <<"exc_return", 1>> ELSE <<"tz", 0>>
    BY <1>1, <1>3, BelowAt DEF ExcReturn
  <2> QED BY <2>1, <2>2, <2>3
<1>7. PICK exception \in TakenForExcReturn(Word(current_ptr)) :
        IF exception
        THEN fpu_flag' \in TakenForFpu(Word(current_ptr)) /\ current_ptr' = current_ptr + 1 + 4
        ELSE fpu_flag' = FALSE /\ current_ptr' = current_ptr + 4
  BY DEF ReadFirstWord
<1>8. CASE case.kind = "fault"
  <2>1. Word(current_ptr) = <<"exc_return", 1>> BY <1>6, <1>8
  <2>2. exception
    <3>1. Word(current_ptr)[1] = "exc_return" BY <2>1
    <3>2. exception \in {Word(current_ptr)[1] = "exc_return"}
      BY <1>7, <3>1 DEF TakenForExcReturn, Known
    <3> QED BY <3>1, <3>2, Zenon
  <2>3. fpu_flag' \in TakenForFpu(<<"exc_return", 1>>) /\ current_ptr' = current_ptr + 1 + 4
    BY <1>7, <2>1, <2>2
  <2>4. fpu_flag' = FALSE
    <3>1. <<"exc_return", 1>>[1] = "exc_return" /\ <<"exc_return", 1>>[2] # 0 OBVIOUS
    <3>2. fpu_flag' \in {<<"exc_return", 1>>[2] = 0} BY <2>3, <3>1, Zenon DEF TakenForFpu
    <3> QED BY <3>1, <3>2, Zenon
  <2>5. Len(Below(case)) = 5 BY <1>4, <1>8
  <2>6. current_ptr' = Base + Len(Below(case)) BY <1>1, <1>5, <2>3, <2>5
  <2> QED BY <1>3, <2>4, <2>6
<1>9. CASE case.kind = "thread"
  <2>1. Word(current_ptr) = <<"tz", 0>> BY <1>6, <1>9
  <2>2. ~exception
    <3>1. Word(current_ptr)[1] = "tz" /\ "tz" # "exc_return" BY <2>1
    <3>2. exception \in {Word(current_ptr)[1] = "exc_return"}
      BY <1>7, <3>1, Zenon DEF TakenForExcReturn, Known
    <3> QED BY <3>1, <3>2, Zenon
  <2>3. fpu_flag' = FALSE /\ current_ptr' = current_ptr + 4 BY <1>7, <2>2
  <2>4. Len(Below(case)) = 4 BY <1>4, <1>9
  <2>5. current_ptr' = Base + Len(Below(case)) BY <1>1, <1>5, <2>3, <2>4
  <2> QED BY <1>3, <2>3, <2>5
<1> QED BY <1>3, <1>8, <1>9

LEMMA CollectStep ==
  ASSUME AllCollectable, CollectInv, [Next]_vars
  PROVE  CollectInv'
<1>1. TypeOK' BY TypeStep DEF CollectInv
<1>2. case \in Cases /\ Collectable(case) /\ Base \in Nat
  BY CasesAssumption DEF CollectInv, TypeOK, AllCollectable
<1>3. /\ Len(Saved(case)) \in Nat /\ Len(Below(case)) \in Nat
      /\ Saved(case) \in Seq(StackWord)
  BY <1>2, FrameIsSaved, LenProperties
<1>4. ASSUME pc = "header", pc' = "words", UNCHANGED <<case, next, regset>>,
             fpu_flag' = case.active, current_ptr' = Base + Len(Below(case))
      PROVE  CollectInv'
  <2>1. next = 1 /\ \A r \in Registers : regset[r] = Zero
    BY <1>4 DEF CollectInv, HeaderInv
  <2>2. Base + Len(Below(case)) = Base + Len(Below(case)) + 1 - 1 BY <1>2, <1>3
  <2>3. 1 \in 1..Len(Saved(case)) + 1 /\ 1..1 - 1 = {} BY <1>3
  <2>4. WordsInv' BY <1>4, <2>1, <2>2, <2>3 DEF WordsInv
  <2> QED BY <1>1, <1>4, <2>4 DEF CollectInv, HeaderInv
<1>5. CASE ReadFlag BY <1>4, <1>5, FlagIsRead DEF ReadFlag
<1>6. CASE ReadFirstWord BY <1>4, <1>6, FirstWordIsRead DEF ReadFirstWord
<1>7. CASE CopyWord
  <2>1. /\ pc = "words" /\ fpu_flag = case.active /\ next \in Nat \ {0}
        /\ current_ptr = Base + Len(Below(case)) + next - 1
        /\ \A r \in Registers :
             regset[r] = IF \E j \in 1..next - 1 : Saved(case)[j] = r THEN r ELSE Zero
    BY <1>7 DEF CopyWord, CollectInv, WordsInv, TypeOK
  <2>2. Order = Saved(case) BY <1>2, <2>1, OrderIsSaved
  <2> DEFINE w == Saved(case)[next]
  <2>3. next \in 1..Len(Saved(case)) BY <1>3, <1>7, <2>1, <2>2 DEF CopyWord
  <2>4. Word(current_ptr) = w BY <1>2, <2>1, <2>3, ReadWord
  <2>5. regset' = IF w = Skipped THEN regset ELSE [regset EXCEPT ![w] = w]
    BY <1>7, <2>2, <2>4 DEF CopyWord
  <2>6. Skipped \notin Registers BY DEF Skipped, Registers, CoreRegset, FpRegset, R, S, FPSCR
  <2>7. DOMAIN regset = Registers BY DEF CollectInv, TypeOK, Registers
  <2>8. \A r \in Registers : regset'[r] = IF r = w THEN r ELSE regset[r]
    BY <2>5, <2>6, <2>7
  <2>9. /\ next' = next + 1 /\ current_ptr' = current_ptr + 1
        /\ UNCHANGED <<case, pc, fpu_flag>>
    BY <1>7 DEF CopyWord
  <2>10. \A j : j \in 1..next' - 1 <=> (j \in 1..next - 1 \/ j = next)
    BY <2>1, <2>9
  <2>11. \A r \in Registers :
           regset'[r] = IF \E j \in 1..next' - 1 : Saved(case)[j] = r THEN r ELSE Zero
    BY <2>1, <2>8, <2>10
  <2>12. next' \in 1..Len(Saved(case)) + 1 BY <1>3, <2>3, <2>9
  <2>13. current_ptr' = Base + Len(Below(case)) + next' - 1 BY <1>2, <1>3, <2>1, <2>9
  <2>14. WordsInv' BY <2>1, <2>9, <2>11, <2>12, <2>13 DEF WordsInv
  <2> QED BY <1>1, <2>1, <2>9, <2>14 DEF CollectInv, HeaderInv
<1>8. CASE SetSp
  <2>1. pc = "words" /\ fpu_flag = case.active /\ next \in 1..Len(Saved(case)) + 1
    BY <1>8 DEF SetSp, CollectInv, WordsInv
  <2>2. Order = Saved(case) BY <1>2, <2>1, OrderIsSaved
  <2>3. next = Len(Saved(case)) + 1 BY <1>3, <1>8, <2>1, <2>2 DEF SetSp
  <2>4. WordsInv' BY <1>8, <2>1, <2>3 DEF CollectInv, WordsInv, SetSp
  <2> QED BY <1>1, <1>8, <2>4 DEF CollectInv, HeaderInv, SetSp
<1>9. CASE UNCHANGED vars BY <1>1, <1>9 DEF CollectInv, HeaderInv, WordsInv, vars
<1> QED BY <1>5, <1>6, <1>7, <1>8, <1>9 DEF Next

-----------------------------------------------------------------------------
(* What has been collected. *)

\* Words by their place in the parts.
LEMMA PartsAt ==
  /\ \A n \in 4..11 : Software[n - 3] = R(n)
  /\ \A n \in 0..3 : Hardware[n + 1] = R(n)
  /\ Hardware[5] = R(12) /\ Hardware[6] = <<"lr", 0>>
  /\ Hardware[7] = <<"pc", 0>> /\ Hardware[8] = <<"xpsr", 0>>
  /\ \A n \in 16..31 : FpHigh[n - 15] = S(n)
  /\ \A n \in 0..15 : FpLow[n + 1] = S(n)
  /\ FpLow[17] = FPSCR
<1>1. \A n \in 4..11 : Software[n - 3] = R(n)
  <2> TAKE n \in 4..11
  <2>1. n - 3 \in 1..8 /\ (n - 3) + 3 = n OBVIOUS
  <2> QED BY <2>1 DEF Software
<1>2. /\ \A n \in 0..3 : Hardware[n + 1] = R(n)
      /\ Hardware[5] = R(12) /\ Hardware[6] = <<"lr", 0>>
      /\ Hardware[7] = <<"pc", 0>> /\ Hardware[8] = <<"xpsr", 0>>
  <2>1. \A n \in 0..3 : n = 0 \/ n = 1 \/ n = 2 \/ n = 3 OBVIOUS
  <2> QED BY <2>1 DEF Hardware
<1>3. \A n \in 16..31 : FpHigh[n - 15] = S(n)
  <2> TAKE n \in 16..31
  <2>1. n - 15 \in 1..16 /\ (n - 15) + 15 = n OBVIOUS
  <2> QED BY <2>1 DEF FpHigh
<1>4. (\A n \in 0..15 : FpLow[n + 1] = S(n)) /\ FpLow[17] = FPSCR
  <2> DEFINE low == [k \in 1..16 |-> S(k - 1)]
             end == <<FPSCR, Skipped>>
  <2>1. \A k \in 1..16 : S(k - 1) \in StackWord BY WordTypes
  <2>2. low \in Seq(StackWord) /\ Len(low) = 16 BY <2>1
  <2>3. end \in Seq(StackWord) /\ Len(end) = 2 /\ end[1] = FPSCR BY WordTypes
  <2>4. \A n \in 0..15 : low[n + 1] = S(n)
    <3> TAKE n \in 0..15
    <3>1. n + 1 \in 1..16 /\ (n + 1) - 1 = n OBVIOUS
    <3> QED BY <3>1
  <2>5. FpLow = low \o end BY DEF FpLow
  <2> HIDE DEF low, end
  <2>6. /\ \A i \in 1..Len(low) : (low \o end)[i] = low[i]
        /\ \A i \in 1..Len(end) : (low \o end)[Len(low) + i] = end[i]
    BY <2>2, <2>3, Joined
  <2>7. \A n \in 0..15 : FpLow[n + 1] = S(n)
    <3>1. \A n \in 0..15 : n + 1 \in 1..Len(low) BY <2>2
    <3> QED BY <2>4, <2>5, <2>6, <3>1
  <2>8. FpLow[17] = FPSCR
    <3>1. Len(low) + 1 = 17 /\ 1 \in 1..Len(end) BY <2>2, <2>3
    <3> QED BY <2>3, <2>5, <2>6, <3>1
  <2> QED BY <2>7, <2>8
<1> QED BY <1>1, <1>2, <1>3, <1>4

\* All core registers are saved, and those of the FPU if there is FPU context.
LEMMA SavedRegisters ==
  ASSUME NEW c \in Cases, Collectable(c)
  PROVE  /\ \A r \in CoreRegset : \E j \in 1..Len(Saved(c)) : Saved(c)[j] = r
         /\ c.active => \A r \in FpRegset : \E j \in 1..Len(Saved(c)) : Saved(c)[j] = r
         /\ ~c.active => \A r \in FpRegset : \A j \in 1..Len(Saved(c)) : Saved(c)[j] # r
<1> DEFINE a == IF c.active THEN 16 ELSE 0
           s == Saved(c)
<1>1. /\ \A j \in 1..8 : s[j] = Software[j]
      /\ \A j \in 1..8 : s[8 + a + j] = Hardware[j]
      /\ c.active => \A j \in 1..16 : s[8 + j] = FpHigh[j]
      /\ c.active => \A j \in 1..18 : s[32 + j] = FpLow[j]
  BY SavedAt
<1>2. Len(s) = IF c.active THEN 50 ELSE 16 BY FrameIsSaved
<1> HIDE DEF s
<1>3. \A r \in CoreRegset : \E j \in 1..Len(s) : s[j] = r
  <2>1. \A n \in 4..11 : n - 3 \in 1..Len(s) /\ s[n - 3] = R(n) BY <1>1, <1>2, PartsAt
  <2>2. \A j \in 1..8 : 8 + a + j \in 1..Len(s) BY <1>2
  <2>3. \A j \in 1..8 : \E i \in 1..Len(s) : s[i] = Hardware[j] BY <1>1, <2>2
  <2>4. \A n \in 0..3 : \E i \in 1..Len(s) : s[i] = R(n)
    <3>1. \A n \in 0..3 : n + 1 \in 1..8 /\ Hardware[n + 1] = R(n) BY PartsAt
    <3> QED BY <2>3, <3>1
  <2>5. \A n \in 0..12 : n \in 4..11 \/ n \in 0..3 \/ n = 12 OBVIOUS
  <2>6. /\ \E i \in 1..Len(s) : s[i] = Hardware[5]
        /\ \E i \in 1..Len(s) : s[i] = Hardware[6]
        /\ \E i \in 1..Len(s) : s[i] = Hardware[7]
        /\ \E i \in 1..Len(s) : s[i] = Hardware[8]
    <3>1. 5 \in 1..8 /\ 6 \in 1..8 /\ 7 \in 1..8 /\ 8 \in 1..8 OBVIOUS
    <3> QED BY <2>3, <3>1, Zenon
  <2>7. \A n \in 0..12 : \E i \in 1..Len(s) : s[i] = R(n)
    <3>1. \E i \in 1..Len(s) : s[i] = R(12) BY <2>6, PartsAt
    <3> QED BY <2>1, <2>4, <2>5, <3>1
  <2>8. ASSUME NEW r \in {<<"lr", 0>>, <<"pc", 0>>, <<"xpsr", 0>>}
        PROVE  \E i \in 1..Len(s) : s[i] = r
    BY <2>6, PartsAt
  <2> QED BY <2>7, <2>8 DEF CoreRegset
<1>4. c.active => \A r \in FpRegset : \E j \in 1..Len(s) : s[j] = r
  <2> SUFFICES ASSUME c.active PROVE \A r \in FpRegset : \E j \in 1..Len(s) : s[j] = r
    OBVIOUS
  <2>1. \A n \in 16..31 : n - 15 \in 1..16 /\ 8 + (n - 15) \in 1..Len(s) BY <1>2
  <2>2. \A n \in 16..31 : s[8 + (n - 15)] = S(n) BY <1>1, <2>1, PartsAt
  <2>3. \A j \in 1..18 : 32 + j \in 1..Len(s) /\ s[32 + j] = FpLow[j] BY <1>1, <1>2
  <2>4. \A n \in 0..15 : n + 1 \in 1..18 OBVIOUS
  <2>5. \A n \in 0..15 : \E i \in 1..Len(s) : s[i] = S(n) BY <2>3, <2>4, PartsAt, ZenonT(60)
  <2>6. \E i \in 1..Len(s) : s[i] = FPSCR
    <3>1. 17 \in 1..18 /\ FpLow[17] = FPSCR BY PartsAt
    <3> QED BY <2>3, <3>1
  <2>7. \A n \in 0..31 : n \in 0..15 \/ n \in 16..31 OBVIOUS
  <2> QED BY <2>1, <2>2, <2>5, <2>6, <2>7 DEF FpRegset
<1>5. ~c.active => \A r \in FpRegset : \A j \in 1..Len(s) : s[j] # r
  <2> SUFFICES ASSUME ~c.active, NEW r \in FpRegset, NEW j \in 1..Len(s) PROVE s[j] # r
    OBVIOUS
  <2>1. j \in 1..8 \/ j - 8 \in 1..8 BY <1>2
  <2>2. r[1] \in {"s", "fpscr"} BY DEF FpRegset, S, FPSCR
  <2>3. CASE j \in 1..8
    <3>1. s[j] = R(j + 3) BY <1>1, <2>3 DEF Software
    <3>2. R(j + 3)[1] = "r" BY DEF R
    <3> QED BY <2>2, <3>1, <3>2
  <2>4. CASE j - 8 \in 1..8
    <3>1. s[j] = Hardware[j - 8]
      <4>1. 8 + 0 + (j - 8) = j BY <1>2
      <4> QED BY <1>1, <2>4, <4>1
    <3>2. \A k \in 1..8 : Hardware[k][1] \in {"r", "lr", "pc", "xpsr"}
      <4>1. \A k \in 1..8 : \/ k = 1 \/ k = 2 \/ k = 3 \/ k = 4
                            \/ k = 5 \/ k = 6 \/ k = 7 \/ k = 8
        OBVIOUS
      <4> QED BY <4>1 DEF Hardware, R
    <3>3. s[j][1] \in {"r", "lr", "pc", "xpsr"} BY <2>4, <3>1, <3>2
    <3> QED BY <2>2, <3>3
  <2> QED BY <2>1, <2>3, <2>4
<1> QED BY <1>3, <1>4, <1>5 DEF s

LEMMA CollectedIsRestored ==
  ASSUME AllCollectable, CollectInv
  PROVE  RegistersRestored /\ SpIsBeforeContext /\ ReadsWithinFrame
<1>1. case \in Cases /\ Collectable(case) /\ case \in CaseType /\ Base \in Nat
  BY CasesAssumption DEF CollectInv, TypeOK, AllCollectable
<1>2. /\ Saved(case) \in Seq(StackWord) /\ Below(case) \in Seq(StackWord)
      /\ Len(Frame(case)) = Len(Below(case)) + Len(Saved(case))
      /\ Len(Saved(case)) = IF case.active THEN 50 ELSE 16
  BY <1>1, FrameIsSaved
<1>3. Len(Saved(case)) \in Nat /\ Len(Below(case)) \in Nat BY <1>2, LenProperties
<1>4. RegistersRestored
  <2> SUFFICES ASSUME pc = "done"
               PROVE  /\ \A r \in CoreRegset : regset[r] = r
                      /\ \A r \in FpRegset : regset[r] = IF case.active THEN r ELSE Zero
    BY DEF RegistersRestored
  <2>1. 1..next - 1 = 1..Len(Saved(case)) BY <1>3 DEF CollectInv, WordsInv
  <2>2. \A r \in Registers :
          regset[r] = IF \E j \in 1..Len(Saved(case)) : Saved(case)[j] = r THEN r ELSE Zero
    BY <2>1 DEF CollectInv, WordsInv
  <2> QED BY <1>1, <2>2, SavedRegisters DEF Registers
<1>5. SpIsBeforeContext
  <2> SUFFICES ASSUME pc = "done" PROVE current_ptr = Base + Len(Frame(case))
    BY DEF SpIsBeforeContext
  <2>1. /\ current_ptr = Base + Len(Below(case)) + next - 1
        /\ next = Len(Saved(case)) + 1
    BY DEF CollectInv, WordsInv
  <2>2. current_ptr = Base + (Len(Below(case)) + Len(Saved(case))) BY <1>1, <1>3, <2>1
  <2> QED BY <1>2, <2>2
<1>6. ReadsWithinFrame
  <2>1. CASE pc # "header"
    <3>1. current_ptr = Base + Len(Below(case)) + next - 1 /\ next \in 1..Len(Saved(case)) + 1
      BY <2>1 DEF CollectInv, WordsInv
    <3> QED BY <1>1, <1>2, <1>3, <3>1 DEF ReadsWithinFrame
  <2>2. CASE pc = "header"
    <3>1. current_ptr = StackTop(case) BY <2>2 DEF CollectInv, HeaderInv
    <3>2. /\ case.active \in BOOLEAN /\ Len(Hardware) = 8
          /\ Len(When(case.active, FpLow)) = IF case.active THEN 18 ELSE 0
      BY <1>1, PartTypes, WhenType DEF CaseType
    <3>3. Context(case) <= Base + Len(Frame(case)) /\ Context(case) \in Int
      BY <1>1, <1>2, <1>3, <3>2 DEF Context
    <3> HIDE DEF Context
    <3> QED BY <1>1, <1>2, <1>3, <3>1, <3>3
            DEF ReadsWithinFrame, StackTop, armv7m_hard_fault_exception_hook,
                armv8m_hard_fault_exception_hook
  <2> QED BY <2>1, <2>2
<1> QED BY <1>4, <1>5, <1>6

\* The collectors restore every register of the contexts they are right about, and
\* zero in the FPU registers of a context that has none, wherever the frame is
\* (collect_registers_armv7m, collect_registers_armv8m).
THEOREM RegistersAreRestored == ASSUME AllCollectable PROVE Spec => []RegistersRestored
<1>1. Init => CollectInv BY CollectInit
<1>2. CollectInv /\ [Next]_vars => CollectInv' BY CollectStep
<1>3. CollectInv => RegistersRestored BY CollectedIsRestored
<1> QED BY <1>1, <1>2, <1>3, PTL DEF Spec

\* The stack pointer they leave is the one before the context was saved.
THEOREM SpIsRestored == ASSUME AllCollectable PROVE Spec => []SpIsBeforeContext
<1>1. Init => CollectInv BY CollectInit
<1>2. CollectInv /\ [Next]_vars => CollectInv' BY CollectStep
<1>3. CollectInv => SpIsBeforeContext BY CollectedIsRestored
<1> QED BY <1>1, <1>2, <1>3, PTL DEF Spec

\* They read nothing behind the context.
THEOREM NothingBehindIsRead == ASSUME AllCollectable PROVE Spec => []ReadsWithinFrame
<1>1. Init => CollectInv BY CollectInit
<1>2. CollectInv /\ [Next]_vars => CollectInv' BY CollectStep
<1>3. CollectInv => ReadsWithinFrame BY CollectedIsRestored
<1> QED BY <1>1, <1>2, <1>3, PTL DEF Spec
=============================================================================
