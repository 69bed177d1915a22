------------------------- MODULE ThreadNotesProofs -------------------------
(***************************************************************************)
(* Theorems about ThreadNotes, for any set of builds and contexts, any     *)
(* number of threads and dumps; what the notes show is stated for the      *)
(* contexts the collectors are right about.                                *)
(***************************************************************************)
EXTENDS ThreadNotes, StackFrameProofs

\* The union with what may be in it.
UnionType == [Cells -> CellType]

-----------------------------------------------------------------------------
(* Stores. *)

LEMMA CellsAre == Cells = 0..139 /\ Desc = 20 /\ Desc + MCD_PRSTATUS_REG_OFFSET = 92
BY DEF Cells, Desc, MCOREDUMP_FPREGSET_SIZE, MCD_PRSTATUS_REG_OFFSET

\* s is u with the values stored from cell h on, each in two cells.
StoredAt(u, h, values, s) ==
  /\ s \in UnionType
  /\ \A c \in Cells :
       s[c] = IF c \in h..(h + 2 * Len(values) - 1) THEN values[(c - h) \div 2 + 1] ELSE u[c]

\* Every value goes to the two cells it belongs in, and no other cell changes.
LEMMA StoreAt ==
  ASSUME NEW u \in UnionType, NEW h \in Nat, NEW values \in Seq(CellType),
         h + 2 * Len(values) <= 140, NEW byte, byte = 2 * h
  PROVE  StoredAt(u, h, values, Store(u, byte, values))
<1> DEFINE n == Len(values)
           hit == (byte \div 2)..((byte + 4 * Len(values)) \div 2 - 1)
           s == Store(u, byte, values)
<1>1. n \in Nat BY LenProperties
<1>2. hit = h..(h + 2 * n - 1)
  <2>1. (byte + 4 * n) \div 2 - 1 = h + 2 * n - 1 /\ byte \div 2 = h BY <1>1
  <2> QED BY <2>1
<1>3. Cells = 0..139 /\ DOMAIN u = Cells BY CellsAre DEF UnionType
<1>4. DOMAIN u \cup hit = Cells
  <2>1. h + 2 * n - 1 <= 139 BY <1>1
  <2>2. \A c \in hit : c \in 0..139 BY <1>1, <1>2, <2>1
  <2> QED BY <1>3, <2>2
<1>5. \A c \in hit : /\ (2 * c - byte) \div 4 + 1 = (c - h) \div 2 + 1
                     /\ (c - h) \div 2 + 1 \in 1..n
  <2> TAKE c \in hit
  <2>1. c \in Int /\ h <= c /\ c <= h + 2 * n - 1 BY <1>1, <1>2
  <2>2. (2 * c - byte) \div 4 = (c - h) \div 2 BY <1>1, <2>1
  <2>3. (c - h) \div 2 >= 0 /\ (c - h) \div 2 <= n - 1 BY <1>1, <2>1
  <2> QED BY <1>1, <2>1, <2>2, <2>3
<1>6. s = [c \in Cells |-> IF c \in hit THEN values[(2 * c - byte) \div 4 + 1] ELSE u[c]]
  BY <1>4 DEF Store
<1> HIDE DEF n, hit, s
<1>7. \A c \in Cells : s[c] = IF c \in hit THEN values[(c - h) \div 2 + 1] ELSE u[c]
  BY <1>5, <1>6
<1>8. \A c \in Cells : s[c] \in CellType
  <2> TAKE c \in Cells
  <2>1. CASE c \in hit
    <3>1. (c - h) \div 2 + 1 \in 1..Len(values) BY <1>5, <2>1 DEF n
    <3> QED BY <1>7, <2>1, <3>1, ElementOfSeq
  <2>2. CASE c \notin hit BY <1>7, <2>2 DEF UnionType
  <2> QED BY <2>1, <2>2
<1>9. s \in UnionType BY <1>6, <1>8 DEF UnionType
<1> QED BY <1>2, <1>7, <1>9 DEF n, s, StoredAt

\* Cells that stem from no context.
LEMMA PlainTypes ==
  /\ \A n \in Nat : /\ Plain("elf header", n) \in CellType
                    /\ Plain("program header", n) \in CellType
                    /\ Plain("note base", n) \in CellType
                    /\ Plain("CORE", n) \in CellType
                    /\ Plain("LINUX", n) \in CellType
                    /\ Plain("task", n) \in CellType
  /\ \A name, n : Plain(name, n).of = 0
  /\ Nought \in CellType /\ Nought.of = 0
BY DEF Plain, Nought, CellType, StackWord

\* s is u with the cells from f to l cleared.
ClearedAt(u, f, l, s) ==
  s \in UnionType /\ \A c \in Cells : s[c] = IF c \in f..l THEN Nought ELSE u[c]

LEMMA ClearAt ==
  ASSUME NEW u \in UnionType, NEW f \in Nat, NEW l \in 0..139, NEW byte, byte = 2 * f,
         NEW size \in Nat, size % 4 = 0, l = f + size \div 2 - 1
  PROVE  ClearedAt(u, f, l, Clear(u, byte, size))
<1> DEFINE n == size \div 4
           zeros == [k \in 1..n |-> Nought]
           s == Store(u, byte, zeros)
<1>1. n \in Nat /\ l = f + 2 * n - 1 OBVIOUS
<1>2. Nought \in CellType BY PlainTypes
<1>3. Clear(u, byte, size) = s BY DEF Clear
<1> HIDE DEF n
<1>4. zeros \in Seq(CellType) /\ Len(zeros) = n BY <1>1, <1>2
<1>5. \A k \in 1..n : zeros[k] = Nought OBVIOUS
<1> HIDE DEF zeros
<1>6. f + 2 * Len(zeros) <= 140 BY <1>1, <1>4
<1>7. StoredAt(u, f, zeros, s) BY <1>4, <1>6, StoreAt
<1> HIDE DEF s
<1>8. ASSUME NEW c \in f..l PROVE (c - f) \div 2 + 1 \in 1..n
  <2>1. c \in Int /\ f <= c /\ c <= f + 2 * n - 1 BY <1>1, <1>8
  <2>2. (c - f) \div 2 >= 0 /\ (c - f) \div 2 <= n - 1 BY <1>1, <2>1
  <2> QED BY <1>1, <2>1, <2>2
<1>9. /\ s \in UnionType
      /\ \A c \in Cells : s[c] = IF c \in f..l THEN zeros[(c - f) \div 2 + 1] ELSE u[c]
  BY <1>1, <1>4, <1>7 DEF StoredAt
<1> QED BY <1>3, <1>5, <1>8, <1>9 DEF ClearedAt

\* The headers of a file are nobody's, and end before the signal of a prstatus.
LEMMA HeadersAt ==
  ASSUME NEW u \in UnionType
  PROVE  LET t == fill_program_header(fill_core_file_header(u))
         IN  /\ t \in UnionType
             /\ \A c \in Cells : t[c].of = 0 \/ (c >= 26 /\ t[c] = u[c])
<1> DEFINE set == (0..3) \cup (8..11) \cup {14} \cup (20..22)
           cleared == Clear(u, 0, 52)
           e == fill_core_file_header(u)
           word(n) == Plain("program header", n)
           words == [n \in 1..8 |-> word(n)]
           t == Store(e, 0, words)
<1>1. Cells = 0..139 BY CellsAre
<1>2. ClearedAt(u, 0, 25, cleared)
  <2>1. 52 % 4 = 0 /\ 25 = 0 + 52 \div 2 - 1 /\ 0 = 2 * 0 OBVIOUS
  <2> QED BY <2>1, ClearAt
<1> HIDE DEF cleared
<1>3. e = [c \in Cells |-> IF c \in set THEN Plain("elf header", c) ELSE cleared[c]]
  BY DEF fill_core_file_header, cleared, UnionType
<1>4. \A c \in Cells : e[c] \in CellType /\ (e[c].of = 0 \/ (c >= 26 /\ e[c] = u[c]))
  <2> TAKE c \in Cells
  <2>1. CASE c \in set
    <3>1. e[c] = Plain("elf header", c) BY <1>3, <2>1
    <3>2. c \in Nat BY <1>1
    <3> QED BY <3>1, <3>2, PlainTypes
  <2>2. CASE c \notin set
    <3>1. e[c] = cleared[c] BY <1>3, <2>2
    <3>2. e[c] \in CellType BY <1>2, <3>1 DEF ClearedAt, UnionType
    <3>3. CASE c \in 0..25
      <4>1. e[c] = Nought BY <1>2, <3>1, <3>3 DEF ClearedAt
      <4> QED BY <4>1, PlainTypes
    <3>4. CASE c \notin 0..25
      <4>1. e[c] = u[c] /\ c >= 26 BY <1>1, <1>2, <3>1, <3>4 DEF ClearedAt
      <4> QED BY <3>2, <4>1
    <3> QED BY <3>3, <3>4
  <2> QED BY <2>1, <2>2
<1>5. e \in UnionType BY <1>3, <1>4 DEF UnionType
<1> HIDE DEF e
<1>6. words \in Seq(CellType) /\ Len(words) = 8
  <2>1. ASSUME NEW n \in 1..8 PROVE word(n) \in CellType
    <3>1. n \in Nat OBVIOUS
    <3> QED BY <3>1, PlainTypes
  <2> HIDE DEF word
  <2> QED BY <2>1
<1>7. \A n \in 1..8 : words[n].of = 0 BY PlainTypes
<1> HIDE DEF words
<1>8. StoredAt(e, 0, words, t)
  <2>1. 0 + 2 * Len(words) <= 140 /\ 0 = 2 * 0 BY <1>6
  <2> QED BY <1>5, <1>6, <2>1, StoreAt
<1> HIDE DEF t
<1>9. t \in UnionType BY <1>8 DEF StoredAt
<1>10. \A c \in Cells : t[c].of = 0 \/ (c >= 26 /\ t[c] = u[c])
  <2> TAKE c \in Cells
  <2>1. 0 + 2 * Len(words) - 1 = 15 BY <1>6
  <2>2. CASE c \in 0..15
    <3>1. (c - 0) \div 2 + 1 \in 1..8 BY <2>2
    <3>2. t[c] = words[(c - 0) \div 2 + 1] BY <1>8, <2>1, <2>2 DEF StoredAt
    <3> QED BY <1>7, <3>1, <3>2
  <2>3. CASE c \notin 0..15
    <3>1. t[c] = e[c] BY <1>8, <2>1, <2>3 DEF StoredAt
    <3> QED BY <1>4, <3>1
  <2> QED BY <2>2, <2>3
<1> QED BY <1>9, <1>10 DEF fill_program_header, t, words, e, word

\* The header of a note and its name, which end at the descriptor or two bytes
\* before it.
LEMMA NoteBaseAt ==
  ASSUME NEW u \in UnionType, NEW nm, NEW namesz, NEW l,
         \/ nm = "CORE" /\ namesz = 5 /\ l = 8
         \/ nm = "LINUX" /\ namesz = 6 /\ l = 9
  PROVE  /\ fill_note_base(u, nm, namesz) \in UnionType
         /\ \A c \in Cells : IF c <= l THEN fill_note_base(u, nm, namesz)[c].of = 0
                             ELSE fill_note_base(u, nm, namesz)[c] = u[c]
<1> DEFINE word(n) == Plain("note base", n)
           words == [n \in 1..3 |-> word(n)]
           base == Store(u, 0, words)
           end == 12 + namesz + (namesz % 4)
           r == fill_note_base(u, nm, namesz)
<1>1. Cells = 0..139 BY CellsAre
<1>2. words \in Seq(CellType) /\ Len(words) = 3
  <2>1. ASSUME NEW n \in 1..3 PROVE word(n) \in CellType
    <3>1. n \in Nat OBVIOUS
    <3> QED BY <3>1, PlainTypes
  <2> HIDE DEF word
  <2> QED BY <2>1
<1>3. \A n \in 1..3 : words[n].of = 0 BY PlainTypes
<1> HIDE DEF words
<1>4. StoredAt(u, 0, words, base)
  <2>1. 0 + 2 * Len(words) <= 140 /\ 0 = 2 * 0 BY <1>2
  <2> QED BY <1>2, <2>1, StoreAt
<1> HIDE DEF base
<1>5. \A c \in Cells : IF c <= 5 THEN base[c].of = 0 ELSE base[c] = u[c]
  <2> TAKE c \in Cells
  <2>1. 0 + 2 * Len(words) - 1 = 5 BY <1>2
  <2>2. CASE c \in 0..5
    <3>1. (c - 0) \div 2 + 1 \in 1..3 BY <2>2
    <3>2. base[c] = words[(c - 0) \div 2 + 1] BY <1>4, <2>1, <2>2 DEF StoredAt
    <3> QED BY <1>3, <2>2, <3>1, <3>2
  <2>3. CASE c \notin 0..5
    <3>1. base[c] = u[c] BY <1>4, <2>1, <2>3 DEF StoredAt
    <3>2. ~(c <= 5) BY <1>1, <2>3
    <3> QED BY <3>1, <3>2
  <2> QED BY <2>2, <2>3
<1>6. l \in Nat /\ end = 2 * (l + 1) OBVIOUS
<1>7. r = [c \in Cells |-> IF 12 <= 2 * c /\ 2 * c < end THEN Plain(nm, c) ELSE base[c]]
  BY DEF fill_note_base, base, words, UnionType
<1>8. base \in UnionType BY <1>4 DEF StoredAt
<1>9. \A c \in Cells : Plain(nm, c) \in CellType /\ Plain(nm, c).of = 0
  <2> TAKE c \in Cells
  <2>1. c \in Nat BY <1>1
  <2>2. CASE nm = "CORE" BY <2>1, <2>2, PlainTypes
  <2>3. CASE nm = "LINUX" BY <2>1, <2>3, PlainTypes
  <2> QED BY <2>2, <2>3
<1> HIDE DEF r, end
<1>10. \A c \in Cells : r[c] \in CellType BY <1>7, <1>8, <1>9 DEF UnionType
<1>11. r \in UnionType BY <1>7, <1>10 DEF UnionType
<1>12. \A c \in Cells : IF c <= l THEN r[c].of = 0 ELSE r[c] = u[c]
  <2> TAKE c \in Cells
  <2>1. l >= 8 BY <1>6
  <2>2. CASE 6 <= c /\ c <= l
    <3>1. r[c] = Plain(nm, c) BY <1>1, <1>6, <1>7, <2>2
    <3> QED BY <1>9, <2>2, <3>1
  <2>3. CASE ~(6 <= c /\ c <= l)
    <3>1. r[c] = base[c] BY <1>1, <1>6, <1>7, <2>3
    <3> QED BY <1>1, <1>5, <1>6, <2>1, <2>3, <3>1
  <2> QED BY <2>2, <2>3
<1> QED BY <1>11, <1>12 DEF r

-----------------------------------------------------------------------------
(* The notes. *)

LEMMA CollectedType ==
  ASSUME NEW w, w \in StackWord \/ w \in {"sp"} \X Nat, NEW k \in Nat
  PROVE  Collected(w, k) \in CellType /\ Collected(w, k).of \in {0, k}
<1>1. CASE w = Zero BY <1>1, PlainTypes DEF Collected
<1>2. CASE w # Zero BY <1>2 DEF Collected, CellType
<1> QED BY <1>1, <1>2

\* The registers as they are stored.
LEMMA ValuesType ==
  ASSUME TypeOK, Current \in Nat
  PROVE  /\ CoreValues \in Seq(CellType) /\ Len(CoreValues) = 17
         /\ \A n \in 1..17 : CoreValues[n].of \in {0, Current}
         /\ FpValues \in Seq(CellType) /\ Len(FpValues) = 33
         /\ \A n \in 1..33 : FpValues[n].of \in {0, Current}
<1>1. \A r \in Registers : regset[r] \in StackWord BY DEF TypeOK, Registers
<1>2. /\ \A n \in 0..12 : R(n) \in Registers
      /\ <<"lr", 0>> \in Registers /\ <<"pc", 0>> \in Registers /\ <<"xpsr", 0>> \in Registers
      /\ \A n \in 0..31 : S(n) \in Registers
      /\ FPSCR \in Registers
  BY DEF Registers, CoreRegset, FpRegset
<1> DEFINE cw(n) == CASE n <= 13 -> regset[R(n - 1)]
                      [] n = 14 -> <<"sp", current_ptr>>
                      [] n = 15 -> regset[<<"lr", 0>>]
                      [] n = 16 -> regset[<<"pc", 0>>]
                      [] n = 17 -> regset[<<"xpsr", 0>>]
           fw(n) == regset[IF n = 33 THEN FPSCR ELSE S(n - 1)]
<1>3. ASSUME NEW n \in 1..17 PROVE cw(n) \in StackWord \/ cw(n) \in {"sp"} \X Nat
  <2>1. CASE n <= 13
    <3>1. n - 1 \in 0..12 BY <2>1
    <3>2. regset[R(n - 1)] \in StackWord BY <1>1, <1>2, <3>1
    <3>3. cw(n) = regset[R(n - 1)] BY <2>1
    <3> QED BY <3>2, <3>3
  <2>2. CASE n = 14
    <3>1. cw(n) = <<"sp", current_ptr>> BY <2>2
    <3>2. current_ptr \in Nat BY DEF TypeOK
    <3> QED BY <3>1, <3>2
  <2>3. CASE n = 15
    <3>1. cw(n) = regset[<<"lr", 0>>] BY <2>3
    <3> QED BY <1>1, <1>2, <3>1
  <2>4. CASE n = 16
    <3>1. cw(n) = regset[<<"pc", 0>>] BY <2>4
    <3> QED BY <1>1, <1>2, <3>1
  <2>5. CASE n = 17
    <3>1. cw(n) = regset[<<"xpsr", 0>>] BY <2>5
    <3> QED BY <1>1, <1>2, <3>1
  <2> QED BY <2>1, <2>2, <2>3, <2>4, <2>5
<1>4. ASSUME NEW n \in 1..33 PROVE fw(n) \in StackWord
  <2>1. CASE n = 33 BY <1>1, <1>2, <2>1
  <2>2. CASE n # 33
    <3>1. n - 1 \in 0..31 BY <2>2
    <3> QED BY <1>1, <1>2, <2>2, <3>1
  <2> QED BY <2>1, <2>2
<1>5. CoreValues = [n \in 1..17 |-> Collected(cw(n), Current)] BY DEF CoreValues
<1>6. FpValues = [n \in 1..33 |-> Collected(fw(n), Current)] BY DEF FpValues
<1> HIDE DEF cw, fw
<1>7. \A n \in 1..17 : /\ Collected(cw(n), Current) \in CellType
                       /\ Collected(cw(n), Current).of \in {0, Current}
  BY <1>3, CollectedType
<1>8. \A n \in 1..33 : /\ Collected(fw(n), Current) \in CellType
                       /\ Collected(fw(n), Current).of \in {0, Current}
  BY <1>4, CollectedType
<1>9. CoreValues \in Seq(CellType) /\ Len(CoreValues) = 17 BY <1>5, <1>7
<1>10. FpValues \in Seq(CellType) /\ Len(FpValues) = 33 BY <1>6, <1>8
<1> QED BY <1>5, <1>6, <1>7, <1>8, <1>9, <1>10

\* A prstatus note: the task, the registers, and what is not set is cleared; the
\* two bytes before the descriptor, and the union behind it, stay as they were.
LEMMA PrstatusAt ==
  ASSUME NEW u \in UnionType, TypeOK, Current \in Nat, task_id_counter \in Nat
  PROVE  LET p == fill_note_prstatus(u)
         IN  /\ p \in UnionType
             /\ \A c \in 0..8 : p[c].of = 0
             /\ p[9] = u[9]
             /\ p[22] = Plain("task", task_id_counter)
             /\ \A c \in 46..79 : p[c] = CoreValues[(c - 46) \div 2 + 1]
             /\ \A c \in 10..83 : p[c].of \in {0, Current}
             /\ \A c \in 84..139 : p[c] = u[c]
<1> DEFINE base == fill_note_base(u, "CORE", 5)
           cleared == Clear(base, 20, 148)
           id == Plain("task", task_id_counter)
           task == <<id>>
           tasked == Store(cleared, 44, task)
           v == CoreValues
           p == Store(tasked, 92, v)
<1>1. Cells = 0..139 /\ Desc = 20 /\ Desc + 24 = 44 /\ Desc + MCD_PRSTATUS_REG_OFFSET = 92
  BY CellsAre
<1>2. fill_note_prstatus(u) = p
  BY <1>1 DEF fill_note_prstatus, arm32_fill_note_prstatus_desc, MCOREDUMP_PRSTATUS_SIZE
<1>3. base \in UnionType /\ \A c \in Cells : IF c <= 8 THEN base[c].of = 0 ELSE base[c] = u[c]
  BY NoteBaseAt
<1>4. id \in CellType /\ id.of = 0 BY PlainTypes
<1> HIDE DEF base, id
<1>5. ClearedAt(base, 10, 83, cleared)
  <2>1. 148 % 4 = 0 /\ 83 = 10 + 148 \div 2 - 1 /\ 20 = 2 * 10 OBVIOUS
  <2> QED BY <1>3, <2>1, ClearAt
<1>6. task \in Seq(CellType) /\ Len(task) = 1 /\ task[1] = id BY <1>4
<1> HIDE DEF cleared, task
<1>7. StoredAt(cleared, 22, task, tasked)
  <2>1. cleared \in UnionType BY <1>5 DEF ClearedAt
  <2>2. 22 + 2 * Len(task) <= 140 /\ 44 = 2 * 22 BY <1>6
  <2> QED BY <1>6, <2>1, <2>2, StoreAt
<1>8. v \in Seq(CellType) /\ Len(v) = 17 /\ \A n \in 1..17 : v[n].of \in {0, Current}
  BY ValuesType
<1> HIDE DEF tasked, v
<1>9. StoredAt(tasked, 46, v, p)
  <2>1. tasked \in UnionType BY <1>7 DEF StoredAt
  <2>2. 46 + 2 * Len(v) <= 140 /\ 92 = 2 * 46 BY <1>8
  <2> QED BY <1>8, <2>1, <2>2, StoreAt, ZenonT(60)
<1> HIDE DEF p
<1>10. \A c \in 46..79 : p[c] = v[(c - 46) \div 2 + 1]
  <2> TAKE c \in 46..79
  <2>1. c \in Cells /\ c \in 46..46 + 2 * Len(v) - 1 BY <1>1, <1>8
  <2> QED BY <1>9, <2>1 DEF StoredAt
<1>11. \A c \in Cells : c \notin 46..79 => p[c] = tasked[c]
  <2>1. 46 + 2 * Len(v) - 1 = 79 BY <1>8
  <2> QED BY <1>9, <2>1 DEF StoredAt
<1>12. \A c \in 22..23 : tasked[c] = id
  <2> TAKE c \in 22..23
  <2>1. c \in Cells /\ c \in 22..22 + 2 * Len(task) - 1 /\ (c - 22) \div 2 + 1 = 1
    BY <1>1, <1>6
  <2>2. tasked[c] = task[(c - 22) \div 2 + 1] BY <1>7, <2>1 DEF StoredAt
  <2> QED BY <1>6, <2>1, <2>2
<1>13. \A c \in Cells : c \notin 22..23 => tasked[c] = cleared[c]
  <2>1. 22 + 2 * Len(task) - 1 = 23 BY <1>6
  <2> QED BY <1>7, <2>1 DEF StoredAt
<1>14. \A c \in Cells : cleared[c] = IF c \in 10..83 THEN Nought ELSE base[c]
  BY <1>5 DEF ClearedAt
<1>15. \A c \in Cells : c \notin 10..83 => p[c] = base[c]
  <2> SUFFICES ASSUME NEW c \in Cells, c \notin 10..83 PROVE p[c] = base[c] OBVIOUS
  <2>1. c \notin 46..79 /\ c \notin 22..23 OBVIOUS
  <2> QED BY <1>11, <1>13, <1>14, <2>1
<1>16. \A c \in 0..8 : p[c].of = 0
  <2> TAKE c \in 0..8
  <2>1. c \in Cells /\ c \notin 10..83 /\ c <= 8 BY <1>1
  <2> QED BY <1>3, <1>15, <2>1
<1>17. \A c \in Cells : c = 9 \/ c >= 84 => p[c] = u[c]
  <2> SUFFICES ASSUME NEW c \in Cells, c = 9 \/ c >= 84 PROVE p[c] = u[c] OBVIOUS
  <2>1. c \notin 10..83 /\ ~(c <= 8) BY <1>1
  <2> QED BY <1>3, <1>15, <2>1
<1>18. p[22] = id
  <2>1. 22 \in Cells /\ 22 \notin 46..79 /\ 22 \in 22..23 BY <1>1
  <2> QED BY <1>11, <1>12, <2>1
<1>19. \A c \in 10..83 : p[c].of \in {0, Current}
  <2> TAKE c \in 10..83
  <2>1. c \in Cells BY <1>1
  <2>2. CASE c \in 46..79
    <3>1. (c - 46) \div 2 + 1 \in 1..17 BY <2>2
    <3> QED BY <1>8, <1>10, <2>2, <3>1
  <2>3. CASE c \in 22..23
    <3>1. c \notin 46..79 BY <2>3
    <3> QED BY <1>4, <1>11, <1>12, <2>1, <2>3, <3>1
  <2>4. CASE c \notin 46..79 /\ c \notin 22..23
    <3>1. p[c] = Nought BY <1>11, <1>13, <1>14, <2>1, <2>4
    <3> QED BY <3>1, PlainTypes
  <2> QED BY <2>2, <2>3, <2>4
<1>20. p \in UnionType BY <1>9 DEF StoredAt
<1>21. p[9] = u[9] /\ \A c \in 84..139 : p[c] = u[c] BY <1>1, <1>17
<1> QED BY <1>2, <1>10, <1>16, <1>18, <1>19, <1>20, <1>21 DEF v, id

\* A VFP note: the registers, and fpscr once more behind them; what is between
\* stays as it was.
LEMMA VfpAt ==
  ASSUME NEW u \in UnionType, TypeOK, Current \in Nat
  PROVE  LET p == fill_note_vfp_regset(u)
         IN  /\ p \in UnionType
             /\ \A c \in 0..9 : p[c].of = 0
             /\ \A c \in 10..75 : p[c] = FpValues[(c - 10) \div 2 + 1]
             /\ \A c \in 138..139 : p[c] = FpValues[33]
             /\ \A c \in 10..75 \cup 138..139 : p[c].of \in {0, Current}
             /\ \A c \in 76..137 : p[c] = u[c]
<1> DEFINE base == fill_note_base(u, "LINUX", 6)
           v == FpValues
           regs == Store(base, 20, v)
           last == <<v[33]>>
           p == Store(regs, 276, last)
<1>1. Cells = 0..139 /\ Desc = 20 /\ Desc + 32 * 8 = 276 BY CellsAre
<1>2. fill_note_vfp_regset(u) = p
  BY <1>1 DEF fill_note_vfp_regset, arm32_fill_note_fpregset_desc
<1>3. base \in UnionType /\ \A c \in Cells : IF c <= 9 THEN base[c].of = 0 ELSE base[c] = u[c]
  BY NoteBaseAt
<1>4. v \in Seq(CellType) /\ Len(v) = 33 /\ \A n \in 1..33 : v[n].of \in {0, Current}
  BY ValuesType
<1> HIDE DEF base, v
<1>5. StoredAt(base, 10, v, regs)
  <2>1. 10 + 2 * Len(v) <= 140 /\ 20 = 2 * 10 BY <1>4
  <2>2. base \in UnionType /\ v \in Seq(CellType) BY <1>3, <1>4
  <2> QED BY <2>1, <2>2, StoreAt
<1>6. last \in Seq(CellType) /\ Len(last) = 1 /\ last[1] = v[33]
  <2>1. 33 \in 1..Len(v) BY <1>4
  <2>2. v[33] \in CellType BY <1>4, <2>1, ElementOfSeq
  <2> QED BY <2>2
<1> HIDE DEF regs, last
<1>7. StoredAt(regs, 138, last, p)
  <2>1. regs \in UnionType BY <1>5 DEF StoredAt
  <2>2. 138 + 2 * Len(last) <= 140 /\ 276 = 2 * 138 BY <1>6
  <2>3. last \in Seq(CellType) BY <1>6
  <2> QED BY <2>1, <2>2, <2>3, StoreAt
<1> HIDE DEF p
<1>8. \A c \in 138..139 : p[c] = v[33]
  <2> TAKE c \in 138..139
  <2>1. c \in Cells /\ c \in 138..138 + 2 * Len(last) - 1 /\ (c - 138) \div 2 + 1 = 1
    BY <1>1, <1>6
  <2>2. p[c] = last[(c - 138) \div 2 + 1] BY <1>7, <2>1 DEF StoredAt
  <2> QED BY <1>6, <2>1, <2>2
<1>9. \A c \in Cells : c \notin 138..139 => p[c] = regs[c]
  <2>1. 138 + 2 * Len(last) - 1 = 139 BY <1>6
  <2> QED BY <1>7, <2>1 DEF StoredAt
<1>10. \A c \in 10..75 : p[c] = v[(c - 10) \div 2 + 1]
  <2> TAKE c \in 10..75
  <2>1. c \in Cells /\ c \notin 138..139 BY <1>1
  <2>2. 10 + 2 * Len(v) - 1 = 75 BY <1>4
  <2> QED BY <1>5, <1>9, <2>1, <2>2 DEF StoredAt
<1>11. \A c \in Cells : c \notin 10..75 /\ c \notin 138..139 => p[c] = base[c]
  <2>1. 10 + 2 * Len(v) - 1 = 75 BY <1>4
  <2> QED BY <1>5, <1>9, <2>1 DEF StoredAt
<1>12. \A c \in 0..9 : p[c].of = 0
  <2> TAKE c \in 0..9
  <2>1. c \in Cells /\ c \notin 10..75 /\ c \notin 138..139 /\ c <= 9 BY <1>1
  <2> QED BY <1>3, <1>11, <2>1
<1>13. \A c \in 76..137 : p[c] = u[c]
  <2> TAKE c \in 76..137
  <2>1. c \in Cells /\ c \notin 10..75 /\ c \notin 138..139 /\ ~(c <= 9) BY <1>1
  <2> QED BY <1>3, <1>11, <2>1
<1>14. \A c \in 10..75 \cup 138..139 : p[c].of \in {0, Current}
  <2> TAKE c \in 10..75 \cup 138..139
  <2>1. CASE c \in 10..75
    <3>1. (c - 10) \div 2 + 1 \in 1..33 BY <2>1
    <3> QED BY <1>4, <1>10, <2>1, <3>1
  <2>2. CASE c \in 138..139
    <3>1. 33 \in 1..33 OBVIOUS
    <3> QED BY <1>4, <1>8, <2>2, <3>1
  <2> QED BY <2>1, <2>2
<1>15. p \in UnionType BY <1>7 DEF StoredAt
<1> QED BY <1>2, <1>8, <1>10, <1>12, <1>13, <1>14, <1>15 DEF v

-----------------------------------------------------------------------------
(* What is in the union, and in the notes. *)

\* Room for the note that is begun, and a note to go on with.
NotesInBounds ==
  /\ stage \in {"idle", "headers", "collect"} => Len(notes) < MaxNotes
  /\ stage \in {"vfp", "written"} => Len(notes) > 0

\* What no fill function of a note sets is nobody's; what the prstatus note of a
\* context leaves to its VFP note is its own.
UnionInv ==
  /\ tmp[9].of = 0 /\ \A c \in 84..137 : tmp[c].of = 0
  /\ stage = "vfp" => \A c \in 76..83 : tmp[c].of \in {0, Len(notes)}

NotesInv == TypeOK /\ NotesTypeOK /\ NotesInBounds /\ UnionInv /\ NoForeignRegisters

\* The length of a note.
LEMMA WrittenAt ==
  ASSUME NEW u \in UnionType
  PROVE  /\ Written(u, MCOREDUMP_PRSTATUS_SIZE) \in
              [0..((Desc + MCOREDUMP_PRSTATUS_SIZE) \div 2 - 1) -> CellType]
         /\ DOMAIN Written(u, MCOREDUMP_PRSTATUS_SIZE) = 0..83
         /\ \A c \in 0..83 : Written(u, MCOREDUMP_PRSTATUS_SIZE)[c] = u[c]
         /\ Written(u, MCOREDUMP_FPREGSET_SIZE) \in
              [0..((Desc + MCOREDUMP_FPREGSET_SIZE) \div 2 - 1) -> CellType]
         /\ DOMAIN Written(u, MCOREDUMP_FPREGSET_SIZE) = 0..139
         /\ \A c \in 0..139 : Written(u, MCOREDUMP_FPREGSET_SIZE)[c] = u[c]
<1>1. /\ (Desc + MCOREDUMP_PRSTATUS_SIZE) \div 2 - 1 = 83
      /\ (Desc + MCOREDUMP_FPREGSET_SIZE) \div 2 - 1 = 139
  BY DEF Desc, MCOREDUMP_PRSTATUS_SIZE, MCOREDUMP_FPREGSET_SIZE
<1>2. \A c \in 0..139 : u[c] \in CellType BY CellsAre DEF UnionType
<1>3. Written(u, MCOREDUMP_PRSTATUS_SIZE) = [c \in 0..83 |-> u[c]] BY <1>1 DEF Written
<1>4. Written(u, MCOREDUMP_FPREGSET_SIZE) = [c \in 0..139 |-> u[c]] BY <1>1 DEF Written
<1>5. \A c \in 0..83 : u[c] \in CellType
  <2> TAKE c \in 0..83
  <2>1. c \in 0..139 OBVIOUS
  <2> QED BY <1>2, <2>1
<1>6. /\ [c \in 0..83 |-> u[c]] \in [0..83 -> CellType]
      /\ DOMAIN [c \in 0..83 |-> u[c]] = 0..83
      /\ \A d \in 0..83 : [c \in 0..83 |-> u[c]][d] = u[d]
  BY <1>5
<1>7. /\ [c \in 0..139 |-> u[c]] \in [0..139 -> CellType]
      /\ DOMAIN [c \in 0..139 |-> u[c]] = 0..139
      /\ \A d \in 0..139 : [c \in 0..139 |-> u[c]][d] = u[d]
  BY <1>2
<1>8. /\ Written(u, MCOREDUMP_PRSTATUS_SIZE) \in [0..83 -> CellType]
      /\ DOMAIN Written(u, MCOREDUMP_PRSTATUS_SIZE) = 0..83
      /\ \A d \in 0..83 : Written(u, MCOREDUMP_PRSTATUS_SIZE)[d] = u[d]
  BY ONLY <1>3, <1>6
<1>9. /\ Written(u, MCOREDUMP_FPREGSET_SIZE) \in [0..139 -> CellType]
      /\ DOMAIN Written(u, MCOREDUMP_FPREGSET_SIZE) = 0..139
      /\ \A d \in 0..139 : Written(u, MCOREDUMP_FPREGSET_SIZE)[d] = u[d]
  BY ONLY <1>4, <1>7
<1> QED BY ONLY <1>1, <1>8, <1>9

LEMMA NotesInitInv == NotesInit => NotesInv
<1> SUFFICES ASSUME NotesInit PROVE NotesInv OBVIOUS
<1>1. TypeOK BY TypeInit DEF NotesInit
<1>2. Nought \in CellType /\ Nought.of = 0 BY PlainTypes
<1>3. tmp \in [Cells -> CellType] /\ \A c \in Cells : tmp[c].of = 0 BY <1>2 DEF NotesInit
<1>4. UnionInv BY <1>3, CellsAre DEF NotesInit, UnionInv
<1>5. NotesTypeOK BY <1>3, NotesAssumption DEF NotesInit, NotesTypeOK
<1>6. NotesInBounds BY NotesAssumption DEF NotesInit, NotesInBounds
<1>7. NoForeignRegisters BY DEF NotesInit, NoForeignRegisters
<1> QED BY <1>1, <1>4, <1>5, <1>6, <1>7 DEF NotesInv

\* The prstatus note of the next context.
LEMMA PrstatusStep ==
  ASSUME NotesInv, WritePrstatus
  PROVE  NotesInv'
<1> DEFINE k == Len(notes) + 1
           note == [context |-> case, prstatus |-> Written(tmp', MCOREDUMP_PRSTATUS_SIZE),
                    vfp |-> <<>>]
<1>1. /\ tmp \in UnionType /\ TypeOK /\ task_id_counter \in Nat /\ notes \in Seq(NoteType)
      /\ Len(notes) < MaxNotes /\ case \in Cases
  BY DEF NotesInv, NotesTypeOK, NotesInBounds, TypeOK, WritePrstatus, UnionType
<1>2. Current = k /\ k \in Nat /\ Len(notes) \in Nat
  BY <1>1, LenProperties DEF WritePrstatus, Current
<1> HIDE DEF k
<1>3. /\ tmp' \in UnionType
      /\ \A c \in 0..8 : tmp'[c].of = 0
      /\ tmp'[9] = tmp[9]
      /\ \A c \in 10..83 : tmp'[c].of \in {0, k}
      /\ \A c \in 84..139 : tmp'[c] = tmp[c]
  BY <1>1, <1>2, PrstatusAt DEF WritePrstatus
<1>4. note \in NoteType BY <1>1, <1>3, WrittenAt DEF NoteType
<1>5. notes' = Append(notes, note) BY DEF WritePrstatus
<1>6. /\ notes' \in Seq(NoteType) /\ Len(notes') = k
      /\ \A i \in 1..Len(notes) : notes'[i] = notes[i]
      /\ notes'[k] = note
  BY <1>1, <1>4, <1>5, AppendProperties DEF k
<1>7. TypeOK' BY <1>1, TypeStep DEF WritePrstatus
<1>8. NotesTypeOK'
  <2>1. task_id_counter' \in Nat BY <1>1 DEF WritePrstatus
  <2>2. Len(notes') <= MaxNotes BY <1>1, <1>2, <1>6, NotesAssumption DEF k
  <2> QED BY <1>3, <1>6, <2>1, <2>2 DEF WritePrstatus, NotesTypeOK, UnionType
<1>9. NotesInBounds' BY <1>2, <1>6 DEF WritePrstatus, NotesInBounds, k
<1>10. UnionInv'
  <2>1. tmp'[9].of = 0 BY <1>3 DEF NotesInv, UnionInv
  <2>2. ASSUME NEW c \in 84..137 PROVE tmp'[c].of = 0
    <3>1. c \in 84..139 OBVIOUS
    <3>2. tmp[c].of = 0 BY DEF NotesInv, UnionInv
    <3>3. tmp'[c] = tmp[c] BY <1>3, <3>1
    <3> QED BY <3>2, <3>3
  <2>3. ASSUME NEW c \in 76..83 PROVE tmp'[c].of \in {0, Len(notes')}
    <3>1. c \in 10..83 OBVIOUS
    <3> QED BY <1>3, <1>6, <3>1
  <2> QED BY <2>1, <2>2, <2>3 DEF UnionInv
<1>11. NoForeignRegisters'
  <2> SUFFICES ASSUME NEW i \in DOMAIN notes', NEW n \in {notes'[i].prstatus, notes'[i].vfp} \ {<<>>},
                      NEW c \in DOMAIN n
               PROVE  n[c].of \in {0, i}
    BY DEF NoForeignRegisters
  <2>1. i \in 1..k /\ (i = k \/ i \in 1..Len(notes)) BY <1>2, <1>6, LenProperties DEF k
  <2>2. CASE i \in 1..Len(notes)
    <3>1. notes'[i] = notes[i] /\ i \in DOMAIN notes BY <1>1, <1>6, <2>2, LenProperties
    <3> QED BY <3>1 DEF NotesInv, NoForeignRegisters
  <2>3. CASE i = k
    <3>1. n = Written(tmp', MCOREDUMP_PRSTATUS_SIZE) BY <1>6, <2>3
    <3>2. c \in 0..83 /\ n[c] = tmp'[c] BY <1>3, <3>1, WrittenAt, ZenonT(60)
    <3>3. tmp'[9].of = 0 BY <1>3 DEF NotesInv, UnionInv
    <3>4. c \in 0..8 \/ c = 9 \/ c \in 10..83 BY <3>2
    <3> QED BY <1>3, <2>3, <3>2, <3>3, <3>4, ZenonT(60)
  <2> QED BY <2>1, <2>2, <2>3
<1> QED BY <1>7, <1>8, <1>9, <1>10, <1>11 DEF NotesInv

\* The VFP note of the context whose prstatus note was written last.
LEMMA VfpStep ==
  ASSUME NotesInv, WriteVfp
  PROVE  NotesInv'
<1> DEFINE k == Len(notes)
           vfp == Written(tmp', MCOREDUMP_FPREGSET_SIZE)
           note == [notes[k] EXCEPT !.vfp = vfp]
<1>1. /\ tmp \in UnionType /\ TypeOK /\ task_id_counter \in Nat /\ notes \in Seq(NoteType)
      /\ Len(notes) > 0 /\ Len(notes) <= MaxNotes
  BY DEF NotesInv, NotesTypeOK, NotesInBounds, WriteVfp, UnionType
<1>2. Current = k /\ k \in Nat /\ k \in 1..Len(notes)
  <2>1. Len(notes) \in Nat BY <1>1, LenProperties
  <2> QED BY <1>1, <2>1 DEF WriteVfp, Current
<1>3. /\ tmp' \in UnionType
      /\ \A c \in 0..9 : tmp'[c].of = 0
      /\ \A c \in 10..75 \cup 138..139 : tmp'[c].of \in {0, k}
      /\ \A c \in 76..137 : tmp'[c] = tmp[c]
  BY <1>1, <1>2, VfpAt, ZenonT(60) DEF WriteVfp
<1>4. /\ notes[k] \in NoteType
      /\ vfp \in [0..((Desc + MCOREDUMP_FPREGSET_SIZE) \div 2 - 1) -> CellType]
  BY <1>1, <1>2, <1>3, WrittenAt, ElementOfSeq
<1>5. notes' = [notes EXCEPT ![k] = note] BY DEF WriteVfp
<1> HIDE DEF vfp
<1>6. note \in NoteType /\ note.vfp = vfp /\ note.prstatus = notes[k].prstatus
  BY <1>4 DEF NoteType
<1> HIDE DEF note
<1>7. /\ notes' \in Seq(NoteType) /\ Len(notes') = k
      /\ \A i \in 1..k : notes'[i] = IF i = k THEN note ELSE notes[i]
  BY <1>1, <1>2, <1>5, <1>6, ExceptSeq
<1> HIDE DEF k
<1>8. Len(notes) = k BY DEF k
<1>9. TypeOK' BY <1>1, TypeStep DEF WriteVfp
<1>10. NotesTypeOK'
  BY <1>1, <1>3, <1>7, <1>8 DEF WriteVfp, NotesTypeOK, UnionType
<1>11. NotesInBounds' BY <1>1, <1>7, <1>8 DEF WriteVfp, NotesInBounds
<1>12. UnionInv'
  <2>1. ASSUME NEW c \in 84..137 PROVE tmp'[c].of = 0
    <3>1. c \in 76..137 OBVIOUS
    <3>2. tmp[c].of = 0 BY DEF NotesInv, UnionInv
    <3> QED BY <1>3, <3>1, <3>2, SMTT(30)
  <2>2. tmp'[9].of = 0 BY <1>3
  <2> QED BY <2>1, <2>2 DEF UnionInv, WriteVfp
<1>13. NoForeignRegisters'
  <2> SUFFICES ASSUME NEW i \in DOMAIN notes', NEW n \in {notes'[i].prstatus, notes'[i].vfp} \ {<<>>},
                      NEW c \in DOMAIN n
               PROVE  n[c].of \in {0, i}
    BY DEF NoForeignRegisters
  <2>1. i \in 1..k /\ i \in DOMAIN notes BY <1>1, <1>7, <1>8, LenProperties
  <2>2. CASE n \in {notes[i].prstatus, notes[i].vfp}
    BY <2>1, <2>2 DEF NotesInv, NoForeignRegisters
  <2>3. CASE n = vfp /\ i = k
    <3>1. c \in 0..139 /\ n[c] = tmp'[c] BY <1>3, <2>3, WrittenAt, ZenonT(60) DEF vfp
    <3>2. CASE c \in 76..83
      <4>1. c \in 76..137 BY <3>2
      <4>2. tmp[c].of \in {0, k} BY <1>8, <3>2 DEF NotesInv, UnionInv, WriteVfp
      <4>3. n[c] = tmp[c] BY <1>3, <3>1, <4>1
      <4> QED BY <2>3, <4>2, <4>3
    <3>3. CASE c \in 84..137
      <4>1. c \in 76..137 BY <3>3
      <4>2. tmp[c].of = 0 BY <3>3 DEF NotesInv, UnionInv
      <4> QED BY <1>3, <3>1, <4>1, <4>2
    <3>4. CASE c \in 0..9 BY <1>3, <3>1, <3>4
    <3>5. CASE c \in 10..75 \cup 138..139 BY <1>3, <2>3, <3>1, <3>5
    <3> QED BY <3>1, <3>2, <3>3, <3>4, <3>5
  <2>4. n \in {notes[i].prstatus, notes[i].vfp} \/ (n = vfp /\ i = k)
    BY <1>6, <1>7, <2>1
  <2> QED BY <2>2, <2>3, <2>4
<1> QED BY <1>9, <1>10, <1>11, <1>12, <1>13 DEF NotesInv

\* The steps that write no note.
LEMMA OtherStep ==
  ASSUME NotesInv, StartDump \/ WriteHeaders \/ Collect \/ NextNote \/ UNCHANGED allVars
  PROVE  NotesInv'
<1>1. /\ tmp \in UnionType /\ TypeOK /\ notes \in Seq(NoteType) /\ Len(notes) \in Nat
      /\ Len(notes) <= MaxNotes
  BY LenProperties DEF NotesInv, NotesTypeOK, UnionType
<1>2. notes' = notes /\ task_id_counter' = task_id_counter
  BY DEF StartDump, WriteHeaders, Collect, NextNote, allVars, noteVars
<1>3. TypeOK'
  <2>1. CASE StartDump \/ WriteHeaders \/ Collect \/ UNCHANGED allVars
    <3>1. [Next]_vars BY <2>1 DEF StartDump, WriteHeaders, Collect, allVars
    <3> QED BY <1>1, <3>1, TypeStep
  <2>2. CASE NextNote
    <3> SUFFICES ASSUME NEW c \in Cases, NextContext(c) PROVE TypeOK'
      BY <2>2 DEF NextNote
    <3>1. StackTop(c) \in Nat BY StackTopType
    <3>2. /\ DOMAIN regset' = CoreRegset \cup FpRegset
          /\ \A r \in DOMAIN regset' : regset'[r] \in StackWord
      BY WordTypes DEF NextContext
    <3>3. /\ case' \in Cases /\ pc' \in {"header", "words", "done"}
          /\ current_ptr' \in Nat /\ next' \in Nat \ {0}
      BY <3>1 DEF NextContext
    <3>4. fpu_flag' \in BOOLEAN BY DEF NextContext
    <3> QED BY <3>2, <3>3, <3>4 DEF TypeOK
  <2> QED BY <2>1, <2>2
<1>4. /\ tmp' \in UnionType
      /\ tmp'[9].of = 0
      /\ \A c \in 84..137 : tmp'[c].of = 0
  <2> DEFINE zeros == [c \in Cells |-> Nought]
  <2>1. tmp[9].of = 0 /\ \A c \in 84..137 : tmp[c].of = 0 BY DEF NotesInv, UnionInv
  <2>2. CASE tmp' = tmp BY <1>1, <2>1, <2>2
  <2>3. CASE tmp' = zeros
    <3>1. tmp' \in UnionType BY <2>3, PlainTypes DEF UnionType
    <3>2. \A c \in Cells : tmp'[c].of = 0 BY <2>3, PlainTypes
    <3>3. 9 \in Cells /\ \A c \in 84..137 : c \in Cells BY CellsAre
    <3> QED BY <3>1, <3>2, <3>3
  <2>4. CASE WriteHeaders
    <3>1. tmp' \in UnionType /\ \A c \in Cells : tmp'[c].of = 0 \/ (c >= 26 /\ tmp'[c] = tmp[c])
      BY <1>1, <2>4, HeadersAt DEF WriteHeaders
    <3>2. 9 \in Cells /\ \A c \in 84..137 : c \in Cells BY CellsAre
    <3> QED BY <2>1, <3>1, <3>2
  <2>5. tmp' = tmp \/ tmp' = zeros \/ WriteHeaders
    BY DEF StartDump, Collect, NextNote, allVars, noteVars
  <2> HIDE DEF zeros
  <2> QED BY <2>2, <2>3, <2>4, <2>5
<1>5. stage' = "vfp" => stage = "vfp" /\ tmp' = tmp
  BY DEF StartDump, WriteHeaders, Collect, NextNote, allVars, noteVars
<1>6. UnionInv' BY <1>2, <1>4, <1>5 DEF NotesInv, UnionInv
<1>7. NotesInBounds'
  BY <1>2 DEF NotesInv, NotesInBounds, StartDump, WriteHeaders, Collect, NextNote, allVars, noteVars
<1>8. NotesTypeOK'
  <2>1. stage' \in {"idle", "headers", "collect", "vfp", "written"}
    BY DEF NotesInv, NotesTypeOK, StartDump, WriteHeaders, Collect, NextNote, allVars, noteVars
  <2> QED BY <1>2, <1>4, <2>1 DEF NotesInv, NotesTypeOK, UnionType
<1>9. NoForeignRegisters' BY <1>2 DEF NotesInv, NoForeignRegisters
<1> QED BY <1>3, <1>6, <1>7, <1>8, <1>9 DEF NotesInv

LEMMA NotesStep == NotesInv /\ [NotesNext]_allVars => NotesInv'
BY PrstatusStep, VfpStep, OtherStep DEF NotesNext

\* Nothing is stored beyond the end of the union, and every note has its length,
\* for any set of builds and contexts (the sizes and offsets of mcd_arm_define.h).
THEOREM NotesTyped == NotesSpec => []NotesTypeOK
<1>1. NotesInit => NotesInv BY NotesInitInv
<1>2. NotesInv /\ [NotesNext]_allVars => NotesInv' BY NotesStep
<1>3. NotesInv => NotesTypeOK BY DEF NotesInv
<1> QED BY <1>1, <1>2, <1>3, PTL DEF NotesSpec

\* A note holds nothing of another context, whatever the collector made of the
\* stack, for any number of threads and dumps (fill_one_threads_regset).
THEOREM NothingForeign == NotesSpec => []NoForeignRegisters
<1>1. NotesInit => NotesInv BY NotesInitInv
<1>2. NotesInv /\ [NotesNext]_allVars => NotesInv' BY NotesStep
<1>3. NotesInv => NoForeignRegisters BY DEF NotesInv
<1> QED BY <1>1, <1>2, <1>3, PTL DEF NotesSpec

-----------------------------------------------------------------------------
(* What the notes show. *)

\* Register n of a context in a prstatus note, and the FPU register r of context
\* k in a VFP note.
ShownReg(c, n) ==
  CASE n < 13 -> R(n)
    [] n = 13 -> <<"sp", Base + Len(Frame(c))>>
    [] n = 14 -> <<"lr", 0>>
    [] n = 15 -> <<"pc", 0>>
    [] n = 16 -> <<"xpsr", 0>>
ShownFp(c, r, k) == IF c.active THEN [what |-> r, of |-> k] ELSE Nought

\* The notes of context k: its registers and its identifier.
NoteShows(note, k) ==
  /\ \A n \in 0..16 : \A c \in 46 + 2 * n..47 + 2 * n :
       note.prstatus[c] = [what |-> ShownReg(note.context, n), of |-> k]
  /\ note.prstatus[22] = Plain("task", FirstTask + k - 1)
  /\ note.vfp # <<>> =>
       /\ \A n \in 0..31 : \A c \in 10 + 2 * n..11 + 2 * n :
            note.vfp[c] = ShownFp(note.context, S(n), k)
       /\ \A c \in 138..139 : note.vfp[c] = ShownFp(note.context, FPSCR, k)

\* The register sets hold the context whose notes are being written.
WritingInv ==
  /\ task_id_counter = FirstTask + Len(notes)
  /\ stage \in {"vfp", "written"} => pc = "done"
  /\ stage = "vfp" => notes[Len(notes)].context = case

ShowInv ==
  NotesInv /\ CollectInv /\ WritingInv /\ \A k \in DOMAIN notes : NoteShows(notes[k], k)

\* When a context has been collected, these are its values.
LEMMA ValuesAre ==
  ASSUME AllCollectable, CollectInv, pc = "done", Current \in Nat
  PROVE  /\ \A n \in 0..16 : CoreValues[n + 1] = [what |-> ShownReg(case, n), of |-> Current]
         /\ \A n \in 0..31 : FpValues[n + 1] = ShownFp(case, S(n), Current)
         /\ FpValues[33] = ShownFp(case, FPSCR, Current)
<1>1. /\ \A r \in CoreRegset : regset[r] = r
      /\ \A r \in FpRegset : regset[r] = IF case.active THEN r ELSE Zero
      /\ current_ptr = Base + Len(Frame(case))
  BY CollectedIsRestored DEF RegistersRestored, SpIsBeforeContext
<1>2. /\ \A n \in 0..12 : R(n) \in CoreRegset
      /\ <<"lr", 0>> \in CoreRegset /\ <<"pc", 0>> \in CoreRegset
      /\ <<"xpsr", 0>> \in CoreRegset
      /\ \A n \in 0..31 : S(n) \in FpRegset
      /\ FPSCR \in FpRegset
  BY DEF CoreRegset, FpRegset
<1>3. ASSUME NEW w, w[1] \in {"r", "sp", "lr", "pc", "xpsr", "s", "fpscr"}, NEW k
      PROVE  Collected(w, k) = [what |-> w, of |-> k]
  <2>1. w # Zero BY <1>3 DEF Zero
  <2> QED BY <2>1 DEF Collected
<1>4. ASSUME NEW n \in 0..16
      PROVE  CoreValues[n + 1] = [what |-> ShownReg(case, n), of |-> Current]
  <2>1. n + 1 \in 1..17 BY <1>4
  <2>2. CASE n < 13
    <3>1. n \in 0..12 /\ n + 1 <= 13 /\ n + 1 - 1 = n BY <1>4, <2>2
    <3>2. regset[R(n)] = R(n) BY <1>1, <1>2, <3>1
    <3>3. CoreValues[n + 1] = Collected(R(n), Current) BY <2>1, <3>1, <3>2 DEF CoreValues
    <3>4. R(n)[1] = "r" /\ ShownReg(case, n) = R(n) BY <2>2 DEF R, ShownReg
    <3> QED BY <1>3, <3>3, <3>4
  <2>3. CASE n = 13
    <3>1. CoreValues[n + 1] = Collected(<<"sp", current_ptr>>, Current)
      BY <2>1, <2>3 DEF CoreValues
    <3>2. ShownReg(case, n) = <<"sp", current_ptr>> BY <1>1, <2>3 DEF ShownReg
    <3> QED BY <1>3, <3>1, <3>2
  <2>4. CASE n = 14
    <3> DEFINE w == <<"lr", 0>>
    <3>1. CoreValues[15] = Collected(regset[w], Current) BY DEF CoreValues
    <3>2. regset[w] = w BY <1>1, <1>2
    <3>3. w[1] = "lr" OBVIOUS
    <3>4. ShownReg(case, n) = w BY <2>4 DEF ShownReg
    <3> HIDE DEF w
    <3>5. CoreValues[15] = [what |-> w, of |-> Current] BY <1>3, <3>1, <3>2, <3>3
    <3> QED BY <2>4, <3>4, <3>5
  <2>5. CASE n = 15
    <3> DEFINE w == <<"pc", 0>>
    <3>1. CoreValues[16] = Collected(regset[w], Current) BY DEF CoreValues
    <3>2. regset[w] = w BY <1>1, <1>2
    <3>3. w[1] = "pc" OBVIOUS
    <3>4. ShownReg(case, n) = w BY <2>5 DEF ShownReg
    <3> HIDE DEF w
    <3>5. CoreValues[16] = [what |-> w, of |-> Current] BY <1>3, <3>1, <3>2, <3>3
    <3> QED BY <2>5, <3>4, <3>5
  <2>6. CASE n = 16
    <3> DEFINE w == <<"xpsr", 0>>
    <3>1. CoreValues[17] = Collected(regset[w], Current) BY DEF CoreValues
    <3>2. regset[w] = w BY <1>1, <1>2
    <3>3. w[1] = "xpsr" OBVIOUS
    <3>4. ShownReg(case, n) = w BY <2>6 DEF ShownReg
    <3> HIDE DEF w
    <3>5. CoreValues[17] = [what |-> w, of |-> Current] BY <1>3, <3>1, <3>2, <3>3
    <3> QED BY <2>6, <3>4, <3>5
  <2> QED BY <2>2, <2>3, <2>4, <2>5, <2>6
<1>5. ASSUME NEW r \in FpRegset PROVE Collected(regset[r], Current) = ShownFp(case, r, Current)
  <2>1. CASE case.active
    <3>1. r[1] \in {"s", "fpscr"} BY DEF FpRegset, S, FPSCR
    <3>2. regset[r] = r BY <1>1, <2>1
    <3>3. Collected(r, Current) = [what |-> r, of |-> Current] BY <1>3, <3>1
    <3> QED BY <2>1, <3>2, <3>3 DEF ShownFp
  <2>2. CASE ~case.active
    <3>1. regset[r] = Zero BY <1>1, <2>2
    <3> QED BY <2>2, <3>1 DEF Collected, ShownFp
  <2> QED BY <2>1, <2>2
<1>6. ASSUME NEW n \in 0..31 PROVE FpValues[n + 1] = ShownFp(case, S(n), Current)
  <2>1. n + 1 \in 1..33 /\ n + 1 # 33 /\ n + 1 - 1 = n BY <1>6
  <2>2. FpValues[n + 1] = Collected(regset[S(n)], Current) BY <2>1 DEF FpValues
  <2> QED BY <1>2, <1>5, <2>2
<1>7. FpValues[33] = ShownFp(case, FPSCR, Current)
  <2>1. FpValues[33] = Collected(regset[FPSCR], Current) BY DEF FpValues
  <2> QED BY <1>2, <1>5, <2>1
<1> QED BY <1>4, <1>6, <1>7

LEMMA ShowInit == NotesInit => ShowInv
<1> SUFFICES ASSUME NotesInit PROVE ShowInv OBVIOUS
<1>1. NotesInv BY NotesInitInv
<1>2. CollectInv BY CollectInit DEF NotesInit
<1>3. WritingInv BY NotesAssumption DEF NotesInit, WritingInv
<1>4. \A k \in DOMAIN notes : NoteShows(notes[k], k) BY DEF NotesInit
<1> QED BY <1>1, <1>2, <1>3, <1>4 DEF ShowInv

LEMMA ShowPrstatus ==
  ASSUME AllCollectable, ShowInv, WritePrstatus
  PROVE  WritingInv' /\ \A k \in DOMAIN notes' : NoteShows(notes'[k], k)
<1> DEFINE k == Len(notes) + 1
           p == Written(tmp', MCOREDUMP_PRSTATUS_SIZE)
           note == [context |-> case, prstatus |-> p, vfp |-> <<>>]
<1>1. /\ tmp \in UnionType /\ TypeOK /\ task_id_counter \in Nat /\ notes \in Seq(NoteType)
      /\ task_id_counter = FirstTask + Len(notes) /\ Len(notes) \in Nat
  BY LenProperties DEF ShowInv, NotesInv, NotesTypeOK, WritingInv, UnionType
<1>2. Current = k /\ k \in Nat BY <1>1 DEF WritePrstatus, Current
<1>3. /\ tmp' \in UnionType
      /\ tmp'[22] = Plain("task", task_id_counter)
      /\ \A c \in 46..79 : tmp'[c] = CoreValues[(c - 46) \div 2 + 1]
  BY <1>1, <1>2, PrstatusAt DEF WritePrstatus
<1>4. \A n \in 0..16 : CoreValues[n + 1] = [what |-> ShownReg(case, n), of |-> k]
  BY <1>2, ValuesAre DEF ShowInv, WritePrstatus
<1>5. \A c \in 0..83 : p[c] = tmp'[c] BY <1>3, WrittenAt
<1> HIDE DEF p
<1>6. NoteShows(note, k)
  <2>1. ASSUME NEW n \in 0..16, NEW c \in 46 + 2 * n..47 + 2 * n
        PROVE  p[c] = [what |-> ShownReg(case, n), of |-> k]
    <3>1. c \in 0..83 /\ c \in 46..79 /\ (c - 46) \div 2 + 1 = n + 1 OBVIOUS
    <3>2. p[c] = CoreValues[n + 1] BY <1>3, <1>5, <3>1
    <3> QED BY <1>4, <3>2
  <2>2. p[22] = Plain("task", FirstTask + k - 1)
    <3>1. task_id_counter = FirstTask + k - 1 BY <1>1, NotesAssumption
    <3> QED BY <1>3, <1>5, <3>1
  <2> QED BY <2>1, <2>2 DEF NoteShows
<1>7. notes' = Append(notes, note) BY DEF WritePrstatus, p
<1>8. /\ notes' \in Seq(NoteType) /\ Len(notes') = k
      /\ \A i \in 1..Len(notes) : notes'[i] = notes[i]
      /\ notes'[k] = note /\ DOMAIN notes' = 1..k
  <2>1. note \in NoteType
    BY <1>1, <1>3, WrittenAt DEF NoteType, TypeOK, p
  <2>2. notes \in Seq(NoteType) BY <1>1
  <2> HIDE DEF note
  <2> QED BY <1>1, <1>7, <2>1, <2>2, AppendProperties, LenProperties
<1>9. note.context = case OBVIOUS
<1> HIDE DEF note
<1>10. ASSUME NEW i \in DOMAIN notes' PROVE NoteShows(notes'[i], i)
  <2>1. CASE i = k BY <1>6, <1>8, <2>1
  <2>2. CASE i \in 1..Len(notes)
    <3>1. i \in DOMAIN notes BY <1>1, <2>2, LenProperties
    <3> QED BY <1>8, <2>2, <3>1 DEF ShowInv
  <2> QED BY <1>1, <1>8, <2>1, <2>2
<1>11. WritingInv'
  <2>1. task_id_counter' = FirstTask + Len(notes')
    BY <1>1, <1>8, NotesAssumption DEF WritePrstatus
  <2>2. pc' = "done" /\ notes'[Len(notes')].context = case'
    BY <1>8, <1>9 DEF WritePrstatus, vars
  <2> QED BY <2>1, <2>2 DEF WritingInv
<1> QED BY <1>10, <1>11

LEMMA ShowVfp ==
  ASSUME AllCollectable, ShowInv, WriteVfp
  PROVE  WritingInv' /\ \A k \in DOMAIN notes' : NoteShows(notes'[k], k)
<1> DEFINE k == Len(notes)
           vfp == Written(tmp', MCOREDUMP_FPREGSET_SIZE)
           note == [notes[k] EXCEPT !.vfp = vfp]
<1>1. /\ tmp \in UnionType /\ TypeOK /\ notes \in Seq(NoteType) /\ Len(notes) \in Nat
      /\ Len(notes) > 0 /\ stage = "vfp" /\ pc = "done" /\ notes[k].context = case
  BY LenProperties
     DEF ShowInv, NotesInv, NotesTypeOK, NotesInBounds, WritingInv, WriteVfp, UnionType
<1>2. Current = k /\ k \in Nat /\ k \in 1..Len(notes) BY <1>1 DEF Current
<1>3. /\ tmp' \in UnionType
      /\ \A c \in 10..75 : tmp'[c] = FpValues[(c - 10) \div 2 + 1]
      /\ \A c \in 138..139 : tmp'[c] = FpValues[33]
  BY <1>1, <1>2, VfpAt, ZenonT(60) DEF WriteVfp
<1>4. /\ \A n \in 0..31 : FpValues[n + 1] = ShownFp(case, S(n), k)
      /\ FpValues[33] = ShownFp(case, FPSCR, k)
  BY <1>1, <1>2, ValuesAre DEF ShowInv
<1>5. \A c \in 0..139 : vfp[c] = tmp'[c] BY <1>3, WrittenAt
<1>6. /\ notes[k] \in NoteType
      /\ vfp \in [0..((Desc + MCOREDUMP_FPREGSET_SIZE) \div 2 - 1) -> CellType]
  BY <1>1, <1>2, <1>3, WrittenAt, ElementOfSeq
<1>7. notes' = [notes EXCEPT ![k] = note] BY DEF WriteVfp
<1> HIDE DEF vfp
<1>8. /\ note \in NoteType /\ note.vfp = vfp
      /\ note.prstatus = notes[k].prstatus /\ note.context = notes[k].context
  BY <1>6 DEF NoteType
<1> HIDE DEF note
<1>9. /\ notes' \in Seq(NoteType) /\ Len(notes') = k
      /\ \A i \in 1..k : notes'[i] = IF i = k THEN note ELSE notes[i]
      /\ DOMAIN notes' = 1..k
  BY <1>1, <1>2, <1>7, <1>8, ExceptSeq, LenProperties
<1>10. NoteShows(note, k)
  <2>1. NoteShows(notes[k], k) BY <1>1, <1>2, LenProperties DEF ShowInv
  <2>2. ASSUME NEW n \in 0..31, NEW c \in 10 + 2 * n..11 + 2 * n
        PROVE  vfp[c] = ShownFp(case, S(n), k)
    <3>1. c \in 0..139 /\ c \in 10..75 /\ (c - 10) \div 2 + 1 = n + 1 OBVIOUS
    <3>2. vfp[c] = FpValues[n + 1] BY <1>3, <1>5, <3>1
    <3> QED BY <1>4, <3>2
  <2>3. ASSUME NEW c \in 138..139 PROVE vfp[c] = ShownFp(case, FPSCR, k)
    <3>1. c \in 0..139 OBVIOUS
    <3> QED BY <1>3, <1>4, <1>5, <3>1
  <2> HIDE DEF k
  <2> QED BY <1>1, <1>8, <2>1, <2>2, <2>3 DEF NoteShows
<1>11. ASSUME NEW i \in DOMAIN notes' PROVE NoteShows(notes'[i], i)
  <2>1. CASE i = k
    <3>1. notes'[i] = note BY <1>2, <1>9, <2>1
    <3> QED BY <1>10, <2>1, <3>1
  <2>2. CASE i # k
    <3>1. i \in DOMAIN notes /\ notes'[i] = notes[i] BY <1>1, <1>9, <2>2, LenProperties
    <3> QED BY <3>1 DEF ShowInv
  <2> QED BY <2>1, <2>2
<1>12. WritingInv' BY <1>1, <1>9 DEF ShowInv, WritingInv, WriteVfp, vars
<1> QED BY <1>11, <1>12

LEMMA ShowOther ==
  ASSUME ShowInv, StartDump \/ WriteHeaders \/ Collect \/ NextNote \/ UNCHANGED allVars
  PROVE  WritingInv' /\ \A k \in DOMAIN notes' : NoteShows(notes'[k], k)
<1>1. notes' = notes /\ task_id_counter' = task_id_counter
  BY DEF StartDump, WriteHeaders, Collect, NextNote, allVars, noteVars
<1>2. stage' \in {"vfp", "written"} => stage' = stage /\ pc' = pc /\ case' = case
  BY DEF StartDump, WriteHeaders, Collect, NextNote, allVars, noteVars, vars
<1>3. WritingInv' BY <1>1, <1>2 DEF ShowInv, WritingInv
<1>4. \A k \in DOMAIN notes' : NoteShows(notes'[k], k) BY <1>1 DEF ShowInv
<1> QED BY <1>3, <1>4

LEMMA ShowStep == AllCollectable /\ ShowInv /\ [NotesNext]_allVars => ShowInv'
<1> SUFFICES ASSUME AllCollectable, ShowInv, [NotesNext]_allVars PROVE ShowInv' OBVIOUS
<1>1. NotesInv' BY NotesStep DEF ShowInv
<1>2. CollectInv'
  <2>1. CASE NextNote
    <3>1. PICK c \in Cases : NextContext(c) BY <2>1 DEF NextNote
    <3>2. TypeOK' BY <1>1 DEF NotesInv
    <3>3. pc' = "header" /\ current_ptr' = StackTop(case') /\ next' = 1 /\ fpu_flag' = FALSE
      BY <3>1 DEF NextContext
    <3>4. \A r \in Registers : regset'[r] = Zero BY <3>1 DEF NextContext, Registers
    <3>5. HeaderInv' BY <3>3, <3>4 DEF HeaderInv, StackTop
    <3> QED BY <3>2, <3>3, <3>5 DEF CollectInv, WordsInv
  <2>2. CASE ~NextNote
    <3>1. [Next]_vars
      BY <2>2 DEF NotesNext, StartDump, WriteHeaders, Collect, WritePrstatus, WriteVfp, allVars
    <3> QED BY <3>1, CollectStep DEF ShowInv
  <2> QED BY <2>1, <2>2
<1>3. WritingInv' /\ \A k \in DOMAIN notes' : NoteShows(notes'[k], k)
  BY ShowPrstatus, ShowVfp, ShowOther DEF NotesNext
<1> QED BY <1>1, <1>2, <1>3 DEF ShowInv

\* The offsets of a debugger are those of the note.
LEMMA ShowsContext ==
  ASSUME ShowInv
  PROVE  NotesShowContext
<1>1. /\ notes \in Seq(NoteType) /\ DOMAIN notes = 1..Len(notes) /\ Len(notes) \in Nat
      /\ FirstTask \in Nat /\ Desc = 20
  BY NotesAssumption, LenProperties, CellsAre DEF ShowInv, NotesInv, NotesTypeOK
<1> SUFFICES ASSUME NEW k \in DOMAIN notes
             PROVE  LET c == notes[k].context
                        Reg(n) == CASE n < 13 -> R(n)
                                    [] n = 13 -> <<"sp", Base + Len(Frame(c))>>
                                    [] n = 14 -> <<"lr", 0>>
                                    [] n = 15 -> <<"pc", 0>>
                                    [] n = 16 -> <<"xpsr", 0>>
                        Fp(r) == IF c.active THEN [what |-> r, of |-> k] ELSE Nought
                    IN  /\ \A n \in 0..16 :
                             Holds(notes[k].prstatus, 72 + 4 * n, [what |-> Reg(n), of |-> k])
                        /\ notes[k].vfp # <<>> =>
                             /\ \A n \in 0..31 : Holds(notes[k].vfp, 4 * n, Fp(S(n)))
                             /\ Holds(notes[k].vfp, 256, Fp(FPSCR))
                        /\ \A j \in 1..k-1 : notes[j].prstatus[(Desc + 24) \div 2] #
                                             notes[k].prstatus[(Desc + 24) \div 2]
  BY DEF NotesShowContext
<1>2. NoteShows(notes[k], k) BY DEF ShowInv
<1>3. ASSUME NEW n \in 0..16
      PROVE  Holds(notes[k].prstatus, 72 + 4 * n,
                   [what |-> ShownReg(notes[k].context, n), of |-> k])
  <2>1. /\ (20 + (72 + 4 * n)) \div 2 = 46 + 2 * n
        /\ 46 + 2 * n \in 46 + 2 * n..47 + 2 * n /\ 46 + 2 * n + 1 \in 46 + 2 * n..47 + 2 * n
    OBVIOUS
  <2> QED BY <1>1, <1>2, <2>1, ZenonT(60) DEF Holds, NoteShows
<1>4. ASSUME notes[k].vfp # <<>>, NEW n \in 0..31
      PROVE  Holds(notes[k].vfp, 4 * n, ShownFp(notes[k].context, S(n), k))
  <2>1. /\ (20 + 4 * n) \div 2 = 10 + 2 * n
        /\ 10 + 2 * n \in 10 + 2 * n..11 + 2 * n /\ 10 + 2 * n + 1 \in 10 + 2 * n..11 + 2 * n
    OBVIOUS
  <2>2. \A c \in 10 + 2 * n..11 + 2 * n :
          notes[k].vfp[c] = ShownFp(notes[k].context, S(n), k)
    BY <1>2, <1>4 DEF NoteShows
  <2>3. (Desc + 4 * n) \div 2 = 10 + 2 * n BY <1>1, <2>1
  <2>4. \A c \in {10 + 2 * n, 10 + 2 * n + 1} :
          notes[k].vfp[c] = ShownFp(notes[k].context, S(n), k)
    BY <2>1, <2>2
  <2> QED BY <2>3, <2>4 DEF Holds
<1>5. ASSUME notes[k].vfp # <<>>
      PROVE  Holds(notes[k].vfp, 256, ShownFp(notes[k].context, FPSCR, k))
  <2>1. (20 + 256) \div 2 = 138 /\ 138 \in 138..139 /\ 138 + 1 \in 138..139 OBVIOUS
  <2>2. \A c \in 138..139 : notes[k].vfp[c] = ShownFp(notes[k].context, FPSCR, k)
    BY <1>2, <1>5 DEF NoteShows
  <2>3. (Desc + 256) \div 2 = 138 BY <1>1, <2>1
  <2>4. \A c \in {138, 138 + 1} :
          notes[k].vfp[c] = ShownFp(notes[k].context, FPSCR, k)
    BY <2>1, <2>2
  <2> QED BY <2>3, <2>4 DEF Holds
<1>6. ASSUME NEW j \in 1..k - 1
      PROVE  notes[j].prstatus[(Desc + 24) \div 2] # notes[k].prstatus[(Desc + 24) \div 2]
  <2>1. (Desc + 24) \div 2 = 22 /\ j \in DOMAIN notes BY <1>1
  <2>2. NoteShows(notes[j], j) BY <2>1 DEF ShowInv
  <2>3. /\ notes[j].prstatus[22] = Plain("task", FirstTask + j - 1)
        /\ notes[k].prstatus[22] = Plain("task", FirstTask + k - 1)
    BY <1>2, <2>2 DEF NoteShows
  <2>4. FirstTask + j - 1 # FirstTask + k - 1 BY <1>1
  <2>5. \A a, b : a # b => Plain("task", a) # Plain("task", b) BY DEF Plain
  <2> QED BY <2>1, <2>3, <2>4, <2>5
<1> QED BY <1>3, <1>4, <1>5, <1>6 DEF ShownReg, ShownFp

\* What a debugger reads in the notes is what was saved for each context, for any
\* number of threads and dumps, and no two contexts share an identifier, if the
\* contexts are ones the collectors are right about (fill_one_threads_regset).
THEOREM ContextsAreShown == ASSUME AllCollectable PROVE NotesSpec => []NotesShowContext
<1>1. NotesInit => ShowInv BY ShowInit
<1>2. ShowInv /\ [NotesNext]_allVars => ShowInv' BY ShowStep
<1>3. ShowInv => NotesShowContext BY ShowsContext
<1> QED BY <1>1, <1>2, <1>3, PTL DEF NotesSpec

\* In a dump of several contexts too every register is restored from its word, and
\* nothing behind a frame is read: the collectors clear what the context before left.
THEOREM CollectorsAreRestarted ==
  ASSUME AllCollectable
  PROVE  NotesSpec => [](RegistersRestored /\ SpIsBeforeContext /\ ReadsWithinFrame)
<1>1. NotesInit => ShowInv BY ShowInit
<1>2. ShowInv /\ [NotesNext]_allVars => ShowInv' BY ShowStep
<1>3. ShowInv => RegistersRestored /\ SpIsBeforeContext /\ ReadsWithinFrame
  BY CollectedIsRestored DEF ShowInv
<1> QED BY <1>1, <1>2, <1>3, PTL DEF NotesSpec
=============================================================================
