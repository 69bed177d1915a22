----------------------------- MODULE Induction -----------------------------
(***************************************************************************)
(* Induction over a range of numbers, stated of a set, and what a loop     *)
(* computes: a function on 0..n whose value at 0 is given and whose value  *)
(* at k follows from the one at k - 1.  The checksum and the size of a     *)
(* core file are such loops.                                               *)
(***************************************************************************)
EXTENDS Integers, TLAPS, WellFoundedInduction

\* A set with 0 and the successors of its numbers up to n has all of 0..n: there
\* is no smallest number that it has not.
LEMMA RangeInduction ==
  ASSUME NEW n \in Nat, NEW S, 0 \in S, \A k \in 1..n : k - 1 \in S => k \in S
  PROVE  \A k \in 0..n : k \in S
<1> DEFINE Missing == {k \in 0..n : k \notin S}
           Less == {ss \in Nat \X Nat : ss[1] < ss[2]}
<1> SUFFICES ASSUME Missing # {} PROVE FALSE OBVIOUS
<1>1. IsWellFoundedOn(Less, Nat) BY NatLessThanWellFounded DEF OpToRel
<1>2. PICK k \in Missing : \A j \in Missing : ~(<<j, k>> \in Less)
  <2>1. Missing \subseteq Nat OBVIOUS
  <2> HIDE DEF Missing, Less
  <2> QED BY <1>1, <2>1, WFMin
<1>3. k \in 1..n /\ k \notin S OBVIOUS
<1>4. k - 1 \in Missing BY <1>3
<1>5. <<k - 1, k>> \in Less BY <1>3
<1> QED BY <1>2, <1>4, <1>5

-----------------------------------------------------------------------------
(* f runs the loop whose body is step, n times, from init. *)

Runs(f, init, step, n) == f[0] = init /\ \A k \in 1..n : f[k] = step[k][f[k - 1]]

\* Its values are in the set the body stays in.
LEMMA LoopTyped ==
  ASSUME NEW n \in Nat, NEW S, NEW init \in S, NEW step,
         \A k \in 1..n, v \in S : step[k][v] \in S,
         NEW f, Runs(f, init, step, n)
  PROVE  \A k \in 0..n : f[k] \in S
<1> DEFINE T == {k \in 0..n : f[k] \in S}
<1>1. 0 \in T BY DEF Runs
<1>2. \A k \in 1..n : k - 1 \in T => k \in T BY DEF Runs
<1>3. \A k \in 0..n : k \in T
  <2> HIDE DEF T
  <2> QED BY <1>1, <1>2, RangeInduction
<1> QED BY <1>3

\* Two runs agree as far as both go.
LEMMA LoopUnique ==
  ASSUME NEW n \in Nat, NEW init, NEW step, NEW f, NEW g,
         Runs(f, init, step, n), Runs(g, init, step, n)
  PROVE  \A k \in 0..n : f[k] = g[k]
<1> DEFINE T == {k \in 0..n : f[k] = g[k]}
<1>1. 0 \in T BY DEF Runs
<1>2. \A k \in 1..n : k - 1 \in T => k \in T BY DEF Runs
<1>3. \A k \in 0..n : k \in T
  <2> HIDE DEF T
  <2> QED BY <1>1, <1>2, RangeInduction
<1> QED BY <1>3

\* Every loop has a run.
LEMMA LoopExists ==
  ASSUME NEW n \in Nat, NEW S, NEW init \in S, NEW step,
         \A k \in 1..n, v \in S : step[k][v] \in S
  PROVE  \E f \in [0..n -> S] : Runs(f, init, step, n)
<1> DEFINE T == {k \in 0..n : \E f \in [0..k -> S] : Runs(f, init, step, k)}
<1>1. 0 \in T
  <2>1. [j \in 0..0 |-> init] \in [0..0 -> S] /\ Runs([j \in 0..0 |-> init], init, step, 0)
    BY DEF Runs
  <2> QED BY <2>1
<1>2. ASSUME NEW k \in 1..n, k - 1 \in T PROVE k \in T
  <2>1. PICK f \in [0..k-1 -> S] : Runs(f, init, step, k - 1) BY <1>2
  <2> DEFINE g == [j \in 0..k |-> IF j < k THEN f[j] ELSE step[k][f[k - 1]]]
  <2>2. k - 1 \in 0..k-1 /\ f[k - 1] \in S BY <1>2
  <2>3. g \in [0..k -> S]
    <3>1. \A j \in 0..k : j < k => j \in 0..k-1 OBVIOUS
    <3> QED BY <2>2, <3>1
  <2>4. Runs(g, init, step, k)
    <3>1. g[0] = init BY <2>1 DEF Runs
    <3>2. ASSUME NEW j \in 1..k PROVE g[j] = step[j][g[j - 1]]
      <4>1. j - 1 \in 0..k /\ g[j - 1] = f[j - 1] OBVIOUS
      <4>2. CASE j = k BY <4>1, <4>2
      <4>3. CASE j < k
        <5>1. j \in 1..k-1 /\ j \in 0..k BY <4>3
        <5> QED BY <2>1, <4>1, <4>3, <5>1 DEF Runs
      <4> QED BY <4>2, <4>3
    <3> QED BY <3>1, <3>2 DEF Runs
  <2> HIDE DEF g
  <2> QED BY <2>3, <2>4
<1>3. \A k \in 0..n : k \in T
  <2> HIDE DEF T
  <2> QED BY <1>1, <1>2, RangeInduction
<1> QED BY <1>3
=============================================================================
