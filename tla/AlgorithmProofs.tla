--------------------------- MODULE AlgorithmProofs ---------------------------
(***************************************************************************)
(* Proofs about the algorithms, for inputs of any length and any limits.   *)
(*                                                                         *)
(* Every loop is a recursive function in its module.  That there is such a *)
(* function follows from Iteration, for each loop in a lemma that ends in  *)
(* Steps; what it computes, by induction over a set of numbers, which      *)
(* contains every number by Induction, that is, by the least number that   *)
(* would be missing.                                                       *)
(***************************************************************************)
EXTENDS Algorithms, SequenceTheorems, FiniteSetTheorems, WellFoundedInduction, TLAPS

(* A set of numbers has a least element. *)
LEMMA LeastElement ==
    ASSUME NEW T, T \subseteq Nat, T # {}
    PROVE  \E m \in T : \A n \in T : m <= n
<1> DEFINE R == OpToRel(<, Nat)
<1>1. IsWellFoundedOn(R, Nat)
  BY NatLessThanWellFounded
<1> HIDE DEF R
<1>2. PICK m \in T : \A n \in T : ~ (<<n, m>> \in R)
  BY <1>1, WFMin
<1>3. \A a, b \in Nat : <<a, b>> \in R <=> a < b
  BY DEF R, OpToRel
<1>4. ASSUME NEW n \in T PROVE m <= n
  <2>1. m \in Nat /\ n \in Nat
    OBVIOUS
  <2>2. ~ (n < m)
    BY <1>2, <1>3, <2>1
  <2>3. QED
    BY <2>1, <2>2
<1>5. QED
  BY <1>4

(* A set that contains 0, and the successor of each of its numbers.        *)
LEMMA Induction ==
    ASSUME NEW T, 0 \in T, \A n \in Nat : n \in T => n + 1 \in T
    PROVE  Nat \subseteq T
<1>1. SUFFICES ASSUME Nat \ T # {} PROVE FALSE
  OBVIOUS
<1>2. PICK m \in Nat \ T : \A n \in Nat \ T : m <= n
  BY <1>1, LeastElement
<1>3. m - 1 \in Nat /\ m - 1 \notin Nat \ T
  BY <1>2
<1>4. QED
  BY <1>2, <1>3

(* f takes the steps one after the other, from start. *)
Steps(n, S) == [1..n -> [S -> S]]
Iterates(f, n, S, start, step) ==
    f \in [0..n -> S] /\ f[0] = start /\ \A k \in 1..n : f[k] = step[k][f[k - 1]]

(* Steps that stay in a set can be taken one after the other. *)
LEMMA Iteration ==
    ASSUME NEW n, n \in Nat, NEW S, NEW start, start \in S, NEW step, step \in Steps(n, S)
    PROVE  \E f : Iterates(f, n, S, start, step)
<1> USE DEF Steps, Iterates
<1> DEFINE Runs(f, m) == f \in [0..m -> S] /\ f[0] = start /\ \A k \in 1..m : f[k] = step[k][f[k - 1]]
           UpTo == {m \in Nat : m <= n => \E f : Runs(f, m)}
<1>1. 0 \in UpTo
  <2>1. Runs([k \in 0..0 |-> start], 0)
    OBVIOUS
  <2>2. QED
    BY <2>1
<1>2. ASSUME NEW m \in Nat, m \in UpTo PROVE m + 1 \in UpTo
  <2>1. SUFFICES ASSUME m + 1 <= n PROVE \E f : Runs(f, m + 1)
    OBVIOUS
  <2>2. PICK f : Runs(f, m)
    BY <1>2, <2>1
  <2>3. f[m] \in S /\ step[m + 1] \in [S -> S]
    BY <2>1, <2>2
  <2> DEFINE g == [k \in 0..(m + 1) |-> IF k <= m THEN f[k] ELSE step[m + 1][f[m]]]
  <2>4. g \in [0..(m + 1) -> S]
    BY <2>2, <2>3
  <2>5. \A k \in 0..m : g[k] = f[k]
    OBVIOUS
  <2>6. g[m + 1] = step[m + 1][f[m]]
    OBVIOUS
  <2> HIDE DEF g
  <2>7. g[0] = start
    BY <2>2, <2>5
  <2>8. ASSUME NEW k \in 1..(m + 1) PROVE g[k] = step[k][g[k - 1]]
    <3>1. CASE k = m + 1
      BY <2>5, <2>6, <3>1
    <3>2. CASE k # m + 1
      <4>1. k \in 1..m /\ k \in 0..m /\ k - 1 \in 0..m
        BY <3>2
      <4>2. QED
        BY <2>2, <2>5, <4>1
    <3>3. QED
      BY <3>1, <3>2
  <2>9. Runs(g, m + 1)
    BY <2>4, <2>7, <2>8
  <2>10. QED
    BY <2>9
<1> HIDE DEF UpTo
<1>3. n \in UpTo
  BY <1>1, <1>2, Induction
<1>4. QED
  BY <1>3 DEF UpTo

LEMMA BestUpToSteps ==
    ASSUME NEW cells, Len(cells) \in Nat
    PROVE  /\ BestUpTo(cells)[0] = 0
           /\ \A k \in 1..Len(cells) :
                 BestUpTo(cells)[k] = IF Better(cells, BestUpTo(cells)[k - 1], k) THEN k
                                      ELSE BestUpTo(cells)[k - 1]
<1> DEFINE n == Len(cells)
           S == 0..n
           Step(b, k) == IF Better(cells, b, k) THEN k ELSE b
           step == [k \in 1..n |-> [b \in S |-> Step(b, k)]]
           Is(best) == best = [k \in 0..n |-> IF k = 0 THEN 0 ELSE Step(best[k - 1], k)]
<1>1. step \in Steps(n, S) /\ 0 \in S /\ n \in Nat
  BY DEF Steps
<1>2. \A k \in 1..n : \A b \in S : step[k][b] = Step(b, k)
  OBVIOUS
<1>3. \A k \in 0..n : k = 0 \/ k \in 1..n
  OBVIOUS
<1>4. \E best : Is(best)
  <2> HIDE DEF step, S, n, Step
  <2>0. PICK f : Iterates(f, n, S, 0, step)
    BY <1>1, Iteration
  <2>1. f \in [0..n -> S] /\ f[0] = 0 /\ \A k \in 1..n : f[k] = step[k][f[k - 1]]
    BY <2>0 DEF Iterates
  <2>2. ASSUME NEW k \in 1..n PROVE f[k] = Step(f[k - 1], k)
    <3>1. k - 1 \in 0..n
      BY <1>1
    <3>2. QED
      BY <1>2, <2>1, <3>1
  <2>3. \A k \in 0..n : f[k] = IF k = 0 THEN 0 ELSE Step(f[k - 1], k)
    BY <1>3, <2>1, <2>2
  <2>4. f = [k \in 0..n |-> f[k]]
    BY <2>1
  <2>5. Is(f)
    BY <2>3, <2>4
  <2>6. QED
    BY <2>5
<1>5. Is(BestUpTo(cells))
  BY <1>4 DEF BestUpTo
<1>6. QED
  BY <1>5

(* The cell recommended is a completed one that no completed one beats, and *)
(* the first of equals; there is none exactly when no cell was completed.  *)
LEMMA BestIsRecommended ==
    ASSUME NEW Status, NEW cells \in Seq([status : Status, mean : Nat])
    PROVE  IsBest(cells)
<1> DEFINE Cell == [status : Status, mean : Nat]
<1>a. \A c \in Cell : c.mean \in Nat
  OBVIOUS
<1> HIDE DEF Cell
<1>b. \A i \in 1..Len(cells) : cells[i] \in Cell
  BY ElementOfSeq DEF Cell
<1> DEFINE n == Len(cells)
           best == BestUpTo(cells)
           Completed(k) == {i \in 1..k : cells[i].status = "completed"}
           Best(b, k) ==
              IF Completed(k) = {} THEN b = 0
              ELSE /\ b \in Completed(k)
                   /\ \A i \in Completed(k) : /\ cells[i].mean <= cells[b].mean
                                              /\ i < b => cells[i].mean < cells[b].mean
           Right == {k \in Nat : k <= n => Best(best[k], k)}
<1>0. n \in Nat /\ \A i \in 1..n : cells[i].mean \in Nat
  BY <1>a, <1>b, LenProperties DEF Cell
<1>1. best[0] = 0 /\ \A k \in 1..n : best[k] = IF Better(cells, best[k - 1], k) THEN k ELSE best[k - 1]
  BY <1>0, BestUpToSteps
<1>2. 0 \in Right
  BY <1>1
<1>3. ASSUME NEW k \in Nat, k \in Right PROVE k + 1 \in Right
  <2> DEFINE b == best[k]
  <2>1. SUFFICES ASSUME k + 1 <= n PROVE Best(best[k + 1], k + 1)
    <3> HIDE DEF best, Best
    <3>1. QED
      OBVIOUS
  <2>2. k + 1 \in 1..n /\ Best(b, k)
    BY <1>0, <1>3, <2>1
  <2>3. best[k + 1] = IF Better(cells, b, k + 1) THEN k + 1 ELSE b
    <3>1. (k + 1) - 1 = k
      OBVIOUS
    <3>2. QED
      BY <1>1, <2>2, <3>1
  <2> HIDE DEF best
  <2>4. \A i \in 1..(k + 1) : i \in 1..k \/ i = k + 1
    OBVIOUS
  <2>5. \A i \in 1..k : i \in 1..(k + 1) /\ i < k + 1
    OBVIOUS
  <2>6. CASE cells[k + 1].status # "completed"
    <3>1. Completed(k + 1) = Completed(k)
      BY <2>4, <2>5, <2>6
    <3>2. QED
      BY <2>2, <2>3, <2>6, <3>1 DEF Better
  <2>7. CASE cells[k + 1].status = "completed" /\ Completed(k) = {}
    <3>1. Completed(k + 1) = {k + 1}
      BY <2>4, <2>7
    <3>2. best[k + 1] = k + 1
      BY <2>2, <2>3, <2>7 DEF Better
    <3>3. QED
      BY <1>0, <2>2, <3>1, <3>2
  <2>8. CASE cells[k + 1].status = "completed" /\ Completed(k) # {}
    <3>1. Completed(k + 1) = Completed(k) \union {k + 1}
      BY <2>4, <2>5, <2>8
    <3>2. b \in 1..k /\ b # 0 /\ cells[b].mean \in Nat /\ cells[k + 1].mean \in Nat
      BY <1>0, <2>1, <2>2, <2>8
    <3>3. \A i \in Completed(k) : i \in 1..k /\ cells[i].mean \in Nat
      BY <1>0, <2>1
    <3> HIDE DEF Completed, b
    <3>4. CASE cells[k + 1].mean > cells[b].mean
      <4>1. best[k + 1] = k + 1
        BY <2>3, <2>8, <3>4 DEF Better
      <4>2. ASSUME NEW i \in Completed(k) PROVE cells[i].mean < cells[k + 1].mean
        <5>1. cells[i].mean \in Nat /\ cells[i].mean <= cells[b].mean
          BY <2>2, <2>8, <3>3
        <5>2. \A x, y, z \in Nat : x <= y /\ z > y => x < z
          OBVIOUS
        <5>3. QED
          BY <3>2, <3>4, <5>1, <5>2
      <4>3. ASSUME NEW i \in Completed(k + 1)
            PROVE  cells[i].mean <= cells[k + 1].mean /\ (i < k + 1 => cells[i].mean < cells[k + 1].mean)
        <5>1. CASE i = k + 1
          BY <3>2, <5>1
        <5>2. CASE i \in Completed(k)
          BY <3>2, <3>3, <4>2, <5>2
        <5>3. QED
          BY <3>1, <5>1, <5>2
      <4>4. QED
        BY <3>1, <4>1, <4>3
    <3>5. CASE ~ (cells[k + 1].mean > cells[b].mean)
      <4>1. best[k + 1] = b
        BY <2>3, <2>8, <3>2, <3>5 DEF Better
      <4>2. cells[k + 1].mean <= cells[b].mean /\ ~ (k + 1 < b)
        BY <3>2, <3>5
      <4>3. QED
        BY <2>2, <2>8, <3>1, <4>1, <4>2
    <3>6. QED
      BY <3>4, <3>5
  <2>9. QED
    BY <2>6, <2>7, <2>8
<1> HIDE DEF Right
<1>4. n \in Right
  BY <1>0, <1>2, <1>3, Induction
<1>5. Best(Recommended(cells), n) /\ DOMAIN cells = 1..n
  BY <1>0, <1>4 DEF Right, Recommended
<1>6. QED
  BY <1>5 DEF IsBest
(* How many of a set of numbers are among the first k. *)
Counted(P, k) == Cardinality(P \intersect (1..k))

LEMMA Counting ==
    ASSUME NEW P, NEW k \in Nat
    PROVE  /\ Counted(P, k) \in Nat /\ Counted(P, 0) = 0
           /\ Counted(P, k + 1) = Counted(P, k) + IF k + 1 \in P THEN 1 ELSE 0
<1>1. IsFiniteSet(1..k)
  BY FS_Interval
<1>2. IsFiniteSet(P \intersect (1..k)) /\ Cardinality(P \intersect (1..k)) \in Nat
  BY <1>1, FS_Subset, FS_CardinalityType
<1>3. Counted(P, 0) = 0
  <2>1. P \intersect (1..0) = {}
    OBVIOUS
  <2>2. QED
    BY <2>1, FS_EmptySet DEF Counted
<1>4. CASE k + 1 \in P
  <2>1. P \intersect (1..(k + 1)) = (P \intersect (1..k)) \union {k + 1}
    BY <1>4
  <2>2. k + 1 \notin P \intersect (1..k)
    OBVIOUS
  <2>3. QED
    BY <1>2, <1>3, <1>4, <2>1, <2>2, FS_AddElement DEF Counted
<1>5. CASE k + 1 \notin P
  <2>1. P \intersect (1..(k + 1)) = P \intersect (1..k)
    BY <1>5
  <2>2. QED
    BY <1>2, <1>3, <1>5, <2>1 DEF Counted
<1>6. QED
  BY <1>4, <1>5

LEMMA CountedLess ==
    ASSUME NEW P, NEW Q, NEW k \in Nat, P \subseteq Q
    PROVE  Counted(P, k) <= Counted(Q, k)
<1>1. IsFiniteSet(Q \intersect (1..k))
  <2>1. IsFiniteSet(1..k) /\ Q \intersect (1..k) \in SUBSET (1..k)
    BY FS_Interval
  <2>2. QED
    BY <2>1, FS_Subset
<1>2. P \intersect (1..k) \in SUBSET (Q \intersect (1..k))
  OBVIOUS
<1>3. QED
  BY <1>1, <1>2, FS_Subset DEF Counted

(* The loop over the lines of an answer. *)
Lines == [token : BOOLEAN, speed : Nat, stop : BOOLEAN]
Turns == [first : BOOLEAN, gaps : Nat, speed : Nat]

LEMMA HearType ==
    ASSUME NEW turn \in Turns, NEW line \in Lines
    PROVE  Hear(turn, line) \in Turns
BY DEF Hear, Turns, Lines, NoTimings

LEMMA HearSteps ==
    ASSUME NEW lines \in Seq(Lines)
    PROVE  /\ HearTurns(lines)[0] = [first |-> FALSE, gaps |-> 0, speed |-> NoTimings]
           /\ \A k \in 0..Len(lines) : HearTurns(lines)[k] \in Turns
           /\ \A k \in 1..Len(lines) : HearTurns(lines)[k] = Hear(HearTurns(lines)[k - 1], lines[k])
<1> DEFINE n == Len(lines)
           start == [first |-> FALSE, gaps |-> 0, speed |-> NoTimings]
           step == [k \in 1..n |-> [t \in Turns |-> Hear(t, lines[k])]]
           Is(turns) == turns = [k \in 0..n |-> IF k = 0 THEN start ELSE Hear(turns[k - 1], lines[k])]
<1>1. n \in Nat /\ \A k \in 1..n : lines[k] \in Lines
  BY ElementOfSeq, LenProperties
<1>2. start \in Turns
  BY DEF Turns, NoTimings
<1>3. step \in Steps(n, Turns)
  <2>1. \A k \in 1..n : \A t \in Turns : Hear(t, lines[k]) \in Turns
    BY <1>1, HearType
  <2>2. QED
    BY <2>1 DEF Steps
<1>4. \A k \in 1..n : \A t \in Turns : step[k][t] = Hear(t, lines[k])
  OBVIOUS
<1>5. \A k \in 0..n : k = 0 \/ k \in 1..n
  OBVIOUS
<1> HIDE DEF step, start, n
<1>6. PICK f : Iterates(f, n, Turns, start, step)
  BY <1>1, <1>2, <1>3, Iteration
<1>7. f \in [0..n -> Turns] /\ f[0] = start /\ \A k \in 1..n : f[k] = step[k][f[k - 1]]
  BY <1>6 DEF Iterates
<1>8. ASSUME NEW k \in 1..n PROVE f[k] = Hear(f[k - 1], lines[k])
  <2>1. k - 1 \in 0..n
    BY <1>1
  <2>2. QED
    BY <1>4, <1>7, <2>1
<1>9. \A k \in 0..n : f[k] = IF k = 0 THEN start ELSE Hear(f[k - 1], lines[k])
  BY <1>5, <1>7, <1>8
<1>10. f = [k \in 0..n |-> f[k]]
  BY <1>7
<1>11. Is(f)
  BY <1>9, <1>10
<1>12. Is(HearTurns(lines))
  BY <1>11 DEF HearTurns, start, n
<1> DEFINE turns == HearTurns(lines)
<1> HIDE DEF turns
<1>13. turns = [k \in 0..n |-> IF k = 0 THEN start ELSE Hear(turns[k - 1], lines[k])]
  BY <1>12 DEF turns
<1>14. turns[0] = start /\ \A k \in 1..n : turns[k] = Hear(turns[k - 1], lines[k])
  BY <1>1, <1>13
<1>15. \A k \in 0..n : turns[k] \in Turns
  <2> DEFINE T == {k \in Nat : k <= n => turns[k] \in Turns}
  <2>1. 0 \in T
    BY <1>2, <1>14
  <2>2. ASSUME NEW k \in Nat, k \in T PROVE k + 1 \in T
    <3>1. SUFFICES ASSUME k + 1 <= n PROVE turns[k + 1] \in Turns
      OBVIOUS
    <3>2. k + 1 \in 1..n /\ (k + 1) - 1 = k /\ turns[k] \in Turns
      BY <1>1, <2>2, <3>1
    <3>3. QED
      BY <1>1, <1>14, <3>2, HearType
  <2> HIDE DEF T
  <2>3. Nat \subseteq T
    BY <2>1, <2>2, Induction
  <2>4. QED
    BY <1>1, <2>3 DEF T
<1>16. QED
  BY <1>14, <1>15 DEF turns, start, n

(* The lines that are looked at are those that no line says stop before.   *)
LEMMA HeardLines ==
    ASSUME NEW lines \in Seq(Lines)
    PROVE  /\ Heard(lines) \in 0..Len(lines)
           /\ {k \in DOMAIN lines : \A j \in 1..(k - 1) : ~ lines[j].stop} = 1..Heard(lines)
<1> DEFINE n == Len(lines)
           m == Heard(lines)
           upTo == {k \in 1..n : \A j \in 1..(k - 1) : ~ lines[j].stop}
           I == {j \in 1..n : lines[j].stop}
<1>1. n \in Nat /\ DOMAIN lines = 1..n
  BY LenProperties
<1>2. SelectInSeq(lines, Stops) = IF I # {} THEN Min(I) ELSE 0
  BY DEF SelectInSeq, Stops
<1> HIDE DEF I, n
<1>3. CASE I = {}
  <2>1. m = n
    BY <1>2, <1>3 DEF Heard, n
  <2>2. upTo = 1..n
    BY <1>1, <1>3 DEF I
  <2>3. QED
    BY <1>1, <2>1, <2>2 DEF n
<1>4. CASE I # {}
  <2>1. I \subseteq 1..n
    BY DEF I
  <2>2. \E x \in I : \A y \in I : x <= y
    <3>1. I \subseteq Nat
      BY <1>1, <2>1
    <3>2. QED
      BY <1>4, <3>1, LeastElement
  <2>3. Min(I) \in I /\ \A y \in I : Min(I) <= y
    BY <2>2 DEF Min
  <2>4. Min(I) \in 1..n
    BY <2>1, <2>3
  <2>5. m = Min(I)
    BY <1>1, <1>2, <1>4, <2>4 DEF Heard
  <2>6. m \in 1..n /\ lines[m].stop /\ \A j \in 1..n : lines[j].stop => m <= j
    BY <2>3, <2>4, <2>5 DEF I
  <2> HIDE DEF m
  <2>7. ASSUME NEW k \in 1..n PROVE k \in upTo <=> k <= m
    <3>1. CASE k <= m
      <4>1. \A j \in 1..(k - 1) : j \in 1..n /\ ~ (m <= j)
        BY <1>1, <2>6, <3>1
      <4>2. QED
        BY <2>6, <3>1, <4>1
    <3>2. CASE ~ (k <= m)
      <4>1. m \in 1..(k - 1)
        BY <1>1, <2>6, <3>2
      <4>2. QED
        BY <2>6, <3>2, <4>1
    <3>3. QED
      BY <3>1, <3>2
  <2>8. upTo = 1..m
    <3>1. upTo \subseteq 1..n
      OBVIOUS
    <3>2. \A k \in 1..m : k \in 1..n
      BY <1>1, <2>6
    <3>3. \A k \in 1..n : k \in 1..m <=> k <= m
      BY <1>1, <2>6
    <3> HIDE DEF upTo
    <3>4. \A k \in 1..m : k \in upTo
      BY <2>7, <3>2, <3>3
    <3>5. \A k \in upTo : k \in 1..m
      BY <2>7, <3>1, <3>3
    <3>6. QED
      BY <3>4, <3>5
  <2>9. QED
    BY <1>1, <2>6, <2>8 DEF n, m
<1>5. QED
  BY <1>3, <1>4

(* What is known of an answer after k lines. *)
Tokens(lines) == {k \in 1..Len(lines) : lines[k].token}
Timed(lines) == {k \in 1..Len(lines) : lines[k].speed # NoTimings}
LastTimed(lines, k, j) ==
    j \in Timed(lines) /\ j <= k /\ \A i \in Timed(lines) : i <= k => i <= j
HeardSoFar(lines, k, turn) ==
    /\ turn.first <=> Counted(Tokens(lines), k) # 0
    /\ turn.gaps = IF Counted(Tokens(lines), k) = 0 THEN 0 ELSE Counted(Tokens(lines), k) - 1
    /\ \/ turn.speed = NoTimings /\ \A j \in Timed(lines) : ~ (j <= k)
       \/ \E j \in Timed(lines) : LastTimed(lines, k, j) /\ turn.speed = lines[j].speed

LEMMA HearsLine ==
    ASSUME NEW lines \in Seq(Lines), NEW k \in Nat, k + 1 <= Len(lines), NEW turn \in Turns,
           HeardSoFar(lines, k, turn)
    PROVE  HeardSoFar(lines, k + 1, Hear(turn, lines[k + 1]))
<1> DEFINE line == lines[k + 1]
           next == Hear(turn, line)
           c == Counted(Tokens(lines), k)
           d == Counted(Tokens(lines), k + 1)
<1>1. Len(lines) \in Nat /\ k + 1 \in 1..Len(lines) /\ line \in Lines
  <2>1. Len(lines) \in Nat
    BY LenProperties
  <2>2. k + 1 \in 1..Len(lines)
    BY <2>1
  <2>3. QED
    BY <2>1, <2>2, ElementOfSeq
<1>2. c \in Nat /\ d = c + IF line.token THEN 1 ELSE 0
  <2>1. k + 1 \in Tokens(lines) <=> line.token
    BY <1>1 DEF Tokens
  <2>2. QED
    BY <2>1, Counting
<1>3. /\ turn.first <=> c # 0
      /\ turn.gaps = IF c = 0 THEN 0 ELSE c - 1
  BY DEF HeardSoFar
<1>4. /\ turn.first \in BOOLEAN /\ line.token \in BOOLEAN /\ turn.gaps \in Nat
  BY <1>1 DEF Turns, Lines
<1>5. /\ next.first = (turn.first \/ line.token)
      /\ next.gaps = IF line.token /\ turn.first THEN turn.gaps + 1 ELSE turn.gaps
      /\ next.speed = IF line.speed = NoTimings THEN turn.speed ELSE line.speed
  BY DEF Hear
<1>6. line.speed # NoTimings <=> k + 1 \in Timed(lines)
  BY <1>1 DEF Timed
<1>7. \A j \in Timed(lines) : j \in Nat /\ (j <= k + 1 <=> j <= k \/ j = k + 1)
  BY <1>1 DEF Timed
<1> HIDE DEF c, d, line, next
<1>8. (next.first <=> d # 0) /\ next.gaps = IF d = 0 THEN 0 ELSE d - 1
  <2>1. CASE line.token
    <3>1. next.first /\ d = c + 1
      BY <1>2, <1>5, <2>1
    <3>2. next.gaps = IF c = 0 THEN 0 ELSE c
      BY <1>2, <1>3, <1>4, <1>5, <2>1
    <3>3. QED
      BY <1>2, <3>1, <3>2
  <2>2. CASE ~ line.token
    BY <1>2, <1>3, <1>4, <1>5, <2>2
  <2>3. QED
    BY <2>1, <2>2
<1>9. \/ next.speed = NoTimings /\ \A j \in Timed(lines) : ~ (j <= k + 1)
      \/ \E j \in Timed(lines) : LastTimed(lines, k + 1, j) /\ next.speed = lines[j].speed
  <2>1. CASE line.speed # NoTimings
    <3>1. LastTimed(lines, k + 1, k + 1)
      BY <1>6, <1>7, <2>1 DEF LastTimed
    <3>2. next.speed = lines[k + 1].speed
      BY <1>5, <2>1 DEF line
    <3>3. QED
      BY <1>6, <2>1, <3>1, <3>2
  <2>2. CASE line.speed = NoTimings
    <3>1. next.speed = turn.speed /\ \A j \in Timed(lines) : (j <= k + 1 <=> j <= k)
      BY <1>5, <1>6, <1>7, <2>2
    <3>2. \A j : LastTimed(lines, k, j) => LastTimed(lines, k + 1, j)
      BY <3>1 DEF LastTimed
    <3>3. \/ turn.speed = NoTimings /\ \A j \in Timed(lines) : ~ (j <= k)
          \/ \E j \in Timed(lines) : LastTimed(lines, k, j) /\ turn.speed = lines[j].speed
      BY DEF HeardSoFar
    <3>4. QED
      BY <3>1, <3>2, <3>3
  <2>3. QED
    BY <2>1, <2>2
<1>10. QED
  BY <1>8, <1>9 DEF HeardSoFar, next, d, line

LEMMA HearsAll ==
    ASSUME NEW lines \in Seq(Lines), NEW m \in 0..Len(lines)
    PROVE  HeardSoFar(lines, m, HearTurns(lines)[m])
<1> DEFINE turns == HearTurns(lines)
           T == {k \in Nat : k <= Len(lines) => HeardSoFar(lines, k, turns[k])}
<1>1. Len(lines) \in Nat
  BY LenProperties
<1>2. 0 \in T
  <2>1. Counted(Tokens(lines), 0) = 0
    BY Counting
  <2>2. \A j \in Timed(lines) : ~ (j <= 0)
    BY <1>1 DEF Timed
  <2>3. turns[0] = [first |-> FALSE, gaps |-> 0, speed |-> NoTimings]
    BY HearSteps
  <2>4. HeardSoFar(lines, 0, turns[0])
    BY <2>1, <2>2, <2>3 DEF HeardSoFar
  <2>5. QED
    BY <2>4
<1>3. ASSUME NEW k \in Nat, k \in T PROVE k + 1 \in T
  <2>1. SUFFICES ASSUME k + 1 <= Len(lines) PROVE HeardSoFar(lines, k + 1, turns[k + 1])
    OBVIOUS
  <2>2. k + 1 \in 1..Len(lines) /\ (k + 1) - 1 = k /\ k \in 0..Len(lines) /\ k <= Len(lines)
    BY <1>1, <2>1
  <2>3. turns[k] \in Turns /\ turns[k + 1] = Hear(turns[k], lines[k + 1])
    BY <2>2, HearSteps
  <2>4. HeardSoFar(lines, k, turns[k])
    BY <1>3, <2>2
  <2> HIDE DEF turns
  <2>5. QED
    BY <2>1, <2>3, <2>4, HearsLine
<1> HIDE DEF T
<1>4. m \in T /\ m <= Len(lines)
  BY <1>1, <1>2, <1>3, Induction
<1>5. QED
  BY <1>4 DEF T

LEMMA AnswersMeasured ==
    ASSUME NEW lines \in Seq(Lines)
    PROVE  Measured(lines)
<1> DEFINE m == Heard(lines)
           upTo == {k \in DOMAIN lines : \A j \in 1..(k - 1) : ~ lines[j].stop}
           tokens == {k \in upTo : lines[k].token}
           timed == {k \in upTo : lines[k].speed # NoTimings}
           turn == HearTurns(lines)[m]
<1>1. Len(lines) \in Nat
  BY LenProperties
<1>2. m \in 0..Len(lines) /\ upTo = 1..m
  BY HeardLines
<1>3. HeardSoFar(lines, m, turn)
  BY <1>2, HearsAll
<1> HIDE DEF m, upTo
<1>4. tokens = Tokens(lines) \intersect (1..m)
  BY <1>1, <1>2 DEF Tokens
<1>5. timed = {k \in Timed(lines) : k <= m}
  BY <1>1, <1>2 DEF Timed
<1> HIDE DEF tokens, timed, turn
<1>6. Sample(lines).gaps = turn.gaps /\ Sample(lines).speed = turn.speed
  BY DEF Sample, turn, m
<1>7. turn.gaps = IF Cardinality(tokens) = 0 THEN 0 ELSE Cardinality(tokens) - 1
  BY <1>3, <1>4 DEF HeardSoFar, Counted
<1>8. timed = {} => turn.speed = NoTimings
  BY <1>3, <1>5 DEF HeardSoFar, LastTimed
<1>9. timed # {} => turn.speed = lines[CHOOSE k \in timed : \A j \in timed : j <= k].speed
  <2>1. SUFFICES ASSUME timed # {}
                 PROVE  turn.speed = lines[CHOOSE k \in timed : \A j \in timed : j <= k].speed
    OBVIOUS
  <2>2. PICK j \in Timed(lines) : LastTimed(lines, m, j) /\ turn.speed = lines[j].speed
    BY <1>3, <1>5, <2>1 DEF HeardSoFar
  <2>3. j \in timed /\ \A i \in timed : i <= j
    BY <1>5, <2>2 DEF LastTimed
  <2> DEFINE last == CHOOSE k \in timed : \A i \in timed : i <= k
  <2>4. last \in timed /\ \A i \in timed : i <= last
    BY <2>3
  <2> HIDE DEF last
  <2>5. timed \subseteq Nat
    BY <1>5 DEF Timed
  <2>6. last = j
    BY <2>3, <2>4, <2>5
  <2>7. QED
    BY <2>2, <2>6 DEF last
<1>10. QED
  BY <1>6, <1>7, <1>8, <1>9 DEF Measured, upTo, tokens, timed

------------------------------------------------------------------------------
(* Percentiles. *)

Samples == [ok : BOOLEAN, gaps : Nat, speed : Nat]

LEMMA InsertType ==
    ASSUME NEW sorted \in Seq(Nat), NEW speed \in Nat
    PROVE  /\ Insert(sorted, speed) \in Seq(Nat) /\ Len(sorted) \in Nat
           /\ Len(Insert(sorted, speed)) = Len(sorted) + 1
<1> DEFINE n == Len(sorted)
           before == Cardinality({i \in DOMAIN sorted : sorted[i] <= speed})
           s == Insert(sorted, speed)
<1>1. n \in Nat /\ DOMAIN sorted = 1..n
  BY LenProperties
<1>2. \A i \in 1..n : sorted[i] \in Nat
  BY ElementOfSeq
<1> HIDE DEF n
<1>3. before \in 0..n
  <2>1. IsFiniteSet(1..n) /\ Cardinality(1..n) = n
    <3>1. IsFiniteSet(1..n) /\ Cardinality(1..n) = IF 1 > n THEN 0 ELSE n - 1 + 1
      BY <1>1, FS_Interval
    <3>2. QED
      BY <1>1, <3>1
  <2>2. {i \in DOMAIN sorted : sorted[i] <= speed} \in SUBSET (1..n)
    BY <1>1
  <2>3. before \in Nat /\ before <= n
    BY <2>1, <2>2, FS_Subset, FS_CardinalityType
  <2>4. QED
    BY <1>1, <2>3
<1>4. s = [i \in 1..(n + 1) |-> IF i <= before THEN sorted[i] ELSE IF i = before + 1 THEN speed ELSE sorted[i - 1]]
  BY DEF Insert, n
<1> HIDE DEF before, s
<1>5. \A i \in 1..(n + 1) : /\ i <= before => i \in 1..n
                            /\ ~ (i <= before) /\ i # before + 1 => i - 1 \in 1..n
  BY <1>1, <1>3
<1>6. s \in [1..(n + 1) -> Nat]
  BY <1>2, <1>4, <1>5
<1>7. s \in Seq(Nat)
  <2>1. n + 1 \in Nat
    BY <1>1
  <2>2. QED
    BY <1>6, <2>1, SeqDef
<1>8. Len(s) = n + 1
  BY <1>1, <1>6, <1>7, LenProperties
<1>9. QED
  BY <1>1, <1>7, <1>8 DEF s, n

LEMMA SortSteps ==
    ASSUME NEW samples \in Seq(Samples)
    PROVE  /\ SortedUpTo(samples)[0] = <<>>
           /\ \A k \in 0..Len(samples) : SortedUpTo(samples)[k] \in Seq(Nat)
           /\ \A k \in 1..Len(samples) :
                 SortedUpTo(samples)[k] =
                    IF samples[k].ok THEN Insert(SortedUpTo(samples)[k - 1], samples[k].speed)
                    ELSE SortedUpTo(samples)[k - 1]
<1> DEFINE n == Len(samples)
           S == Seq(Nat)
           Step(t, k) == IF samples[k].ok THEN Insert(t, samples[k].speed) ELSE t
           step == [k \in 1..n |-> [t \in S |-> Step(t, k)]]
           Is(sorted) == sorted = [k \in 0..n |-> IF k = 0 THEN <<>> ELSE Step(sorted[k - 1], k)]
<1>1. n \in Nat
  BY LenProperties
<1>2. <<>> \in S
  OBVIOUS
<1>3. \A k \in 1..n : \A t \in S : Step(t, k) \in S
  <2>1. ASSUME NEW k \in 1..n, NEW t \in S PROVE Step(t, k) \in S
    <3>1. samples[k] \in Samples
      BY ElementOfSeq
    <3>2. samples[k].speed \in Nat
      BY <3>1 DEF Samples
    <3>3. Insert(t, samples[k].speed) \in S
      BY <3>2, InsertType
    <3>4. QED
      BY <3>3
  <2>2. QED
    BY <2>1
<1>4. \A k \in 0..n : k = 0 \/ k \in 1..n
  OBVIOUS
<1> HIDE DEF n, S, Step
<1>5. step \in Steps(n, S) /\ \A k \in 1..n : \A t \in S : step[k][t] = Step(t, k)
  BY <1>3 DEF Steps
<1> HIDE DEF step
<1>6. PICK f : Iterates(f, n, S, <<>>, step)
  BY <1>1, <1>2, <1>5, Iteration
<1>7. f \in [0..n -> S] /\ f[0] = <<>> /\ \A k \in 1..n : f[k] = step[k][f[k - 1]]
  BY <1>6 DEF Iterates
<1>8. ASSUME NEW k \in 1..n PROVE f[k] = Step(f[k - 1], k)
  <2>1. k - 1 \in 0..n
    BY <1>1
  <2>2. QED
    BY <1>5, <1>7, <2>1
<1>9. \A k \in 0..n : f[k] = IF k = 0 THEN <<>> ELSE Step(f[k - 1], k)
  BY <1>4, <1>7, <1>8
<1>10. f = [k \in 0..n |-> f[k]]
  BY <1>7
<1>11. Is(f)
  BY <1>9, <1>10
<1>12. Is(SortedUpTo(samples))
  BY <1>11 DEF SortedUpTo, n, Step
<1> DEFINE sorted == SortedUpTo(samples)
<1> HIDE DEF sorted
<1>13. sorted = [k \in 0..n |-> IF k = 0 THEN <<>> ELSE Step(sorted[k - 1], k)]
  BY <1>12 DEF sorted
<1>14. sorted[0] = <<>> /\ \A k \in 1..n : sorted[k] = Step(sorted[k - 1], k)
  BY <1>1, <1>13
<1>15. \A k \in 0..n : sorted[k] \in S
  <2> DEFINE T == {k \in Nat : k <= n => sorted[k] \in S}
  <2>1. 0 \in T
    BY <1>2, <1>14
  <2>2. ASSUME NEW k \in Nat, k \in T PROVE k + 1 \in T
    <3>1. SUFFICES ASSUME k + 1 <= n PROVE sorted[k + 1] \in S
      OBVIOUS
    <3>2. k + 1 \in 1..n /\ (k + 1) - 1 = k /\ sorted[k] \in S
      BY <1>1, <2>2, <3>1
    <3>3. QED
      BY <1>3, <1>14, <3>2
  <2> HIDE DEF T
  <2>3. Nat \subseteq T
    BY <2>1, <2>2, Induction
  <2>4. QED
    BY <1>1, <2>3 DEF T
<1>16. QED
  BY <1>14, <1>15 DEF sorted, n, S, Step

(* The good samples, those slower than a speed and those not faster. *)
Good(samples) == {k \in 1..Len(samples) : samples[k].ok}
Below(samples, speed) == {k \in Good(samples) : samples[k].speed < speed}
UpTo(samples, speed) == {k \in Good(samples) : samples[k].speed <= speed}

(* Every speed in its place among the first k samples. *)
InPlace(samples, k, speed, i) ==
    /\ \E j \in Good(samples) : samples[j].speed = speed
    /\ Counted(Below(samples, speed), k) < i
    /\ i <= Counted(UpTo(samples, speed), k)
Ranked(samples, k, sorted) ==
    /\ Len(sorted) = Counted(Good(samples), k)
    /\ \A i \in 1..Len(sorted) : InPlace(samples, k, sorted[i], i)

LEMMA InsertRanked ==
    ASSUME NEW samples \in Seq(Samples), NEW k \in Nat, k + 1 \in Good(samples),
           NEW sorted \in Seq(Nat), Ranked(samples, k, sorted)
    PROVE  Ranked(samples, k + 1, Insert(sorted, samples[k + 1].speed))
<1> DEFINE n == Len(sorted)
           v == samples[k + 1].speed
           p == Counted(UpTo(samples, v), k)
           s == Insert(sorted, v)
           B(x) == Counted(Below(samples, x), k)
           U(x) == Counted(UpTo(samples, x), k)
           B1(x) == Counted(Below(samples, x), k + 1)
           U1(x) == Counted(UpTo(samples, x), k + 1)
<1>1. \A j \in Good(samples) : samples[j].speed \in Nat
  <2>1. \A j \in 1..Len(samples) : samples[j] \in Samples
    BY ElementOfSeq
  <2>2. QED
    BY <2>1 DEF Good, Samples
<1>2. v \in Nat
  BY <1>1
<1>3. n \in Nat /\ \A i \in 1..n : sorted[i] \in Nat
  BY ElementOfSeq, LenProperties
<1>4. n = Counted(Good(samples), k) /\ \A i \in 1..n : InPlace(samples, k, sorted[i], i)
  BY DEF Ranked
<1>5. \A x \in Nat : /\ B(x) \in Nat /\ U(x) \in Nat
                     /\ B1(x) = B(x) + (IF v < x THEN 1 ELSE 0)
                     /\ U1(x) = U(x) + (IF v <= x THEN 1 ELSE 0)
  <2>1. SUFFICES ASSUME NEW x \in Nat
                 PROVE  /\ B(x) \in Nat /\ U(x) \in Nat
                        /\ B1(x) = B(x) + (IF v < x THEN 1 ELSE 0)
                        /\ U1(x) = U(x) + (IF v <= x THEN 1 ELSE 0)
    OBVIOUS
  <2>2. (k + 1 \in Below(samples, x) <=> v < x) /\ (k + 1 \in UpTo(samples, x) <=> v <= x)
    BY DEF Below, UpTo
  <2>3. B(x) \in Nat /\ B1(x) = B(x) + (IF v < x THEN 1 ELSE 0)
    BY <2>2, Counting
  <2>4. U(x) \in Nat /\ U1(x) = U(x) + (IF v <= x THEN 1 ELSE 0)
    BY <2>2, Counting
  <2>5. QED
    BY <2>3, <2>4
<1>6. \A x, y \in Nat : (x <= y => U(x) <= U(y)) /\ (x < y => U(x) <= B(y))
  <2>1. SUFFICES ASSUME NEW x \in Nat, NEW y \in Nat
                 PROVE  (x <= y => U(x) <= U(y)) /\ (x < y => U(x) <= B(y))
    OBVIOUS
  <2>2. x <= y => UpTo(samples, x) \subseteq UpTo(samples, y)
    BY <1>1 DEF UpTo
  <2>3. x < y => UpTo(samples, x) \subseteq Below(samples, y)
    BY <1>1 DEF UpTo, Below
  <2>4. QED
    BY <2>2, <2>3, CountedLess
<1>7. B(v) <= p /\ p \in Nat /\ p <= n
  <2>1. Below(samples, v) \subseteq UpTo(samples, v) /\ UpTo(samples, v) \subseteq Good(samples)
    BY <1>1, <1>2 DEF UpTo, Below
  <2>2. Counted(Below(samples, v), k) <= Counted(UpTo(samples, v), k)
    BY <2>1, CountedLess
  <2>3. Counted(UpTo(samples, v), k) <= Counted(Good(samples), k)
    BY <2>1, CountedLess
  <2>4. p \in Nat
    BY Counting
  <2> HIDE DEF n
  <2>5. QED
    BY <1>4, <2>2, <2>3, <2>4
<1>8. \A i \in 1..n : B(sorted[i]) < i /\ i <= U(sorted[i])
  BY <1>4 DEF InPlace
<1> HIDE DEF n, v, p, s, B, U, B1, U1
<1>9. \A i \in 1..n : sorted[i] <= v <=> i <= p
  <2>1. SUFFICES ASSUME NEW i \in 1..n PROVE sorted[i] <= v <=> i <= p
    OBVIOUS
  <2> DEFINE x == sorted[i]
  <2>2. x \in Nat /\ U(v) = p /\ B(x) < i /\ i <= U(x) /\ i \in Nat
    BY <1>3, <1>8 DEF U, p
  <2> HIDE DEF x
  <2>3. B(x) \in Nat /\ U(x) \in Nat
    BY <1>5, <2>2
  <2>4. (x <= v => U(x) <= U(v)) /\ (v < x => U(v) <= B(x))
    BY <1>2, <1>6, <2>2
  <2>5. x <= v \/ v < x
    BY <1>2, <2>2
  <2>6. x <= v => i <= p
    BY <1>7, <2>2, <2>3, <2>4
  <2>7. v < x => p < i
    BY <1>7, <2>2, <2>3, <2>4
  <2>8. QED
    BY <1>2, <1>7, <2>2, <2>5, <2>6, <2>7 DEF x
<1>10. Cardinality({i \in DOMAIN sorted : sorted[i] <= v}) = p
  <2>1. DOMAIN sorted = 1..n
    BY LenProperties DEF n
  <2>2. {i \in 1..n : sorted[i] <= v} = 1..p
    <3>1. \A i \in 1..p : i \in 1..n
      BY <1>3, <1>7
    <3>2. \A i \in 1..n : i <= p <=> i \in 1..p
      BY <1>3, <1>7
    <3>3. QED
      BY <1>9, <3>1, <3>2
  <2>3. Cardinality(1..p) = p
    BY <1>7, FS_Interval
  <2>4. QED
    BY <2>1, <2>2, <2>3
<1>11. Len(s) = n + 1
  BY <1>2, InsertType DEF s, n
<1>12. \A i \in 1..(n + 1) : s[i] = IF i <= p THEN sorted[i] ELSE IF i = p + 1 THEN v ELSE sorted[i - 1]
  BY <1>10 DEF Insert, s, n
<1>13. Counted(Good(samples), k + 1) = n + 1
  BY <1>3, <1>4, Counting
<1>14. ASSUME NEW i \in 1..(n + 1) PROVE InPlace(samples, k + 1, s[i], i)
  <2>1. CASE i <= p
    <3>1. i \in 1..n /\ s[i] = sorted[i]
      BY <1>3, <1>7, <1>12, <2>1
    <3>2. sorted[i] \in Nat /\ sorted[i] <= v /\ B(sorted[i]) < i /\ i <= U(sorted[i])
      BY <1>3, <1>8, <1>9, <2>1, <3>1
    <3>3. B1(sorted[i]) < i /\ i <= U1(sorted[i])
      <4> DEFINE x == sorted[i]
      <4> HIDE DEF x
      <4>1. x \in Nat /\ x <= v /\ B(x) < i /\ i <= U(x) /\ i \in Nat
        BY <3>2 DEF x
      <4>2. B(x) \in Nat /\ U(x) \in Nat /\ B1(x) = B(x) + (IF v < x THEN 1 ELSE 0)
            /\ U1(x) = U(x) + (IF v <= x THEN 1 ELSE 0)
        BY <1>5, <4>1
      <4>3. B1(x) < i /\ i <= U1(x)
        BY <1>2, <4>1, <4>2
      <4>4. QED
        BY <4>3 DEF x
    <3>4. \E j \in Good(samples) : samples[j].speed = sorted[i]
      BY <1>4, <3>1 DEF InPlace
    <3>5. QED
      BY <3>1, <3>3, <3>4 DEF InPlace, B1, U1
  <2>2. CASE i = p + 1
    <3>1. s[i] = v
      BY <1>7, <1>12, <2>2
    <3>2. B1(v) < i /\ i <= U1(v)
      <4>1. U(v) = p
        BY DEF U, p
      <4>2. B(v) \in Nat /\ B1(v) = B(v) + (IF v < v THEN 1 ELSE 0)
            /\ U1(v) = U(v) + (IF v <= v THEN 1 ELSE 0)
        BY <1>2, <1>5
      <4>3. QED
        BY <1>2, <1>7, <2>2, <4>1, <4>2
    <3>3. QED
      BY <3>1, <3>2 DEF InPlace, B1, U1, v
  <2>3. CASE i > p + 1
    <3>1. i - 1 \in 1..n /\ s[i] = sorted[i - 1] /\ ~ (i - 1 <= p)
      BY <1>3, <1>7, <1>12, <2>3
    <3>2. sorted[i - 1] \in Nat /\ v < sorted[i - 1] /\ B(sorted[i - 1]) < i - 1 /\ i - 1 <= U(sorted[i - 1])
      BY <1>2, <1>3, <1>8, <1>9, <3>1
    <3>3. B1(sorted[i - 1]) < i /\ i <= U1(sorted[i - 1])
      <4> DEFINE x == sorted[i - 1]
      <4> HIDE DEF x
      <4>1. x \in Nat /\ v < x /\ B(x) < i - 1 /\ i - 1 <= U(x) /\ i \in Nat
        BY <3>2 DEF x
      <4>2. B(x) \in Nat /\ U(x) \in Nat /\ B1(x) = B(x) + (IF v < x THEN 1 ELSE 0)
            /\ U1(x) = U(x) + (IF v <= x THEN 1 ELSE 0)
        BY <1>5, <4>1
      <4>3. B1(x) < i /\ i <= U1(x)
        BY <1>2, <4>1, <4>2
      <4>4. QED
        BY <4>3 DEF x
    <3>4. \E j \in Good(samples) : samples[j].speed = sorted[i - 1]
      BY <1>4, <3>1 DEF InPlace
    <3>5. QED
      BY <3>1, <3>3, <3>4 DEF InPlace, B1, U1
  <2>4. QED
    BY <1>3, <1>7, <2>1, <2>2, <2>3
<1>15. QED
  BY <1>11, <1>13, <1>14 DEF Ranked, s, v

LEMMA SortedRanked ==
    ASSUME NEW samples \in Seq(Samples)
    PROVE  Ranked(samples, Len(samples), Sorted(samples)) /\ Sorted(samples) \in Seq(Nat)
<1> DEFINE n == Len(samples)
           sorted == SortedUpTo(samples)
           T == {k \in Nat : k <= n => Ranked(samples, k, sorted[k])}
<1>1. n \in Nat
  BY LenProperties
<1>2. 0 \in T
  <2>1. sorted[0] = <<>> /\ Len(<<>>) = 0
    BY SortSteps
  <2>2. Counted(Good(samples), 0) = 0
    BY Counting
  <2>3. Ranked(samples, 0, sorted[0])
    BY <2>1, <2>2 DEF Ranked
  <2>4. QED
    BY <2>3
<1>3. ASSUME NEW k \in Nat, k \in T PROVE k + 1 \in T
  <2>1. SUFFICES ASSUME k + 1 <= n PROVE Ranked(samples, k + 1, sorted[k + 1])
    OBVIOUS
  <2>2. k + 1 \in 1..n /\ (k + 1) - 1 = k /\ k \in 0..n /\ k <= n
    BY <1>1, <2>1
  <2>3. /\ sorted[k] \in Seq(Nat)
        /\ sorted[k + 1] = IF samples[k + 1].ok THEN Insert(sorted[k], samples[k + 1].speed) ELSE sorted[k]
    BY <2>2, SortSteps
  <2>4. Ranked(samples, k, sorted[k])
    BY <1>3, <2>2
  <2> HIDE DEF sorted
  <2>5. CASE samples[k + 1].ok
    <3>1. k + 1 \in Good(samples)
      BY <2>2, <2>5 DEF Good
    <3>2. QED
      BY <2>3, <2>4, <2>5, <3>1, InsertRanked
  <2>6. CASE ~ samples[k + 1].ok
    <3>1. \A P : P \subseteq Good(samples) => Counted(P, k + 1) = Counted(P, k)
      <4>1. SUFFICES ASSUME NEW P, P \subseteq Good(samples) PROVE Counted(P, k + 1) = Counted(P, k)
        OBVIOUS
      <4>2. k + 1 \notin P
        BY <2>6, <4>1 DEF Good
      <4>3. QED
        BY <4>2, Counting
    <3>2. /\ Counted(Good(samples), k + 1) = Counted(Good(samples), k)
          /\ \A x : /\ Counted(Below(samples, x), k + 1) = Counted(Below(samples, x), k)
                    /\ Counted(UpTo(samples, x), k + 1) = Counted(UpTo(samples, x), k)
      <4>1. \A x : Below(samples, x) \subseteq Good(samples) /\ UpTo(samples, x) \subseteq Good(samples)
        BY DEF Below, UpTo
      <4>2. QED
        BY <3>1, <4>1
    <3>3. sorted[k + 1] = sorted[k]
      BY <2>3, <2>6
    <3>4. QED
      BY <2>4, <3>2, <3>3 DEF Ranked, InPlace
  <2>7. QED
    BY <2>5, <2>6
<1> HIDE DEF T
<1>4. n \in T /\ n <= n /\ n \in 0..n
  BY <1>1, <1>2, <1>3, Induction
<1>5. Ranked(samples, n, sorted[n]) /\ sorted[n] \in Seq(Nat)
  BY <1>4, SortSteps DEF T
<1>6. QED
  BY <1>5 DEF Sorted

(* The index of a percentile, below a hundred, lies in the speeds and      *)
(* splits them.                                                            *)
LEMMA IndexSplits ==
    ASSUME NEW n \in Nat \ {0}, NEW percent \in 0..99
    PROVE  /\ Index(n, percent) \in 0..(n - 1)
           /\ Index(n, percent) * 100 <= percent * n /\ (Index(n, percent) + 1) * 100 > percent * n
<1> DEFINE a == n * percent
           i == a \div 100
<1>1. a \in Nat /\ a = percent * n /\ a < 100 * n
  <2>1. CASE percent = 0
    BY <2>1
  <2>2. QED
    OBVIOUS
<1> HIDE DEF a
<1>2. i \in Nat /\ i * 100 <= a /\ (i + 1) * 100 > a
  BY <1>1
<1> HIDE DEF i
<1>3. i <= n - 1
  BY <1>1, <1>2
<1>4. QED
  BY <1>1, <1>2, <1>3 DEF Index, i, a

(* Every percentile below a hundred, of whatever samples, is one.          *)
LEMMA PercentilesRight ==
    ASSUME NEW samples \in Seq(Samples), NEW percent \in 0..99
    PROVE  IsPercentile(samples, Percentile(Sorted(samples), percent), percent)
<1> DEFINE k == Len(samples)
           sorted == Sorted(samples)
           n == Len(sorted)
           i == Index(n, percent)
           value == Percentile(sorted, percent)
           good == {j \in DOMAIN samples : samples[j].ok}
           below == {j \in good : samples[j].speed < value}
           upTo == {j \in good : samples[j].speed <= value}
<1>1. SUFFICES ASSUME good # {}
               PROVE  /\ \E j \in good : samples[j].speed = value
                      /\ Cardinality(below) * 100 <= percent * Cardinality(good)
                      /\ Cardinality(upTo) * 100 > percent * Cardinality(good)
  BY DEF IsPercentile
<1>2. k \in Nat /\ DOMAIN samples = 1..k
  BY LenProperties
<1>3. good = Good(samples)
  BY <1>2 DEF Good
<1>4. below = Below(samples, value) /\ upTo = UpTo(samples, value)
  BY <1>3 DEF Below, UpTo
<1>5. Ranked(samples, k, sorted) /\ n \in Nat
  BY SortedRanked, LenProperties
<1> HIDE DEF k, sorted, n, i, value, good, below, upTo
<1>6. good \subseteq 1..k /\ below \subseteq good /\ upTo \subseteq good
  BY <1>3, <1>4 DEF Good, Below, UpTo, k
<1>7. /\ Cardinality(good) = Counted(Good(samples), k)
      /\ Cardinality(below) = Counted(Below(samples, value), k)
      /\ Cardinality(upTo) = Counted(UpTo(samples, value), k)
  <2>1. good \intersect (1..k) = good /\ below \intersect (1..k) = below /\ upTo \intersect (1..k) = upTo
    BY <1>6
  <2>2. QED
    BY <1>3, <1>4, <2>1 DEF Counted
<1>8. n = Cardinality(good)
  BY <1>5, <1>7 DEF Ranked, n
<1>9. n \in Nat \ {0}
  <2>1. IsFiniteSet(good)
    <3>1. IsFiniteSet(1..k) /\ good \in SUBSET (1..k)
      BY <1>2, <1>6, FS_Interval
    <3>2. QED
      BY <3>1, FS_Subset
  <2>2. Cardinality(good) # 0
    BY <1>1, <2>1, FS_EmptySet
  <2>3. QED
    BY <1>5, <1>8, <2>2
<1>10. i \in 0..(n - 1) /\ i * 100 <= percent * n /\ (i + 1) * 100 > percent * n
  BY <1>9, IndexSplits DEF i
<1>11. value = sorted[i + 1] /\ i + 1 \in 1..n
  BY <1>9, <1>10 DEF value, Percentile, i, n
<1>12. InPlace(samples, k, value, i + 1)
  BY <1>5, <1>11 DEF Ranked, n
<1>13. Cardinality(below) < i + 1 /\ i + 1 <= Cardinality(upTo)
  BY <1>7, <1>12 DEF InPlace
<1>14. Cardinality(below) \in Nat /\ Cardinality(upTo) \in Nat
  BY <1>2, <1>7, Counting
<1>15. \E j \in good : samples[j].speed = value
  BY <1>3, <1>12 DEF InPlace
<1>16. Cardinality(below) * 100 <= percent * n /\ Cardinality(upTo) * 100 > percent * n
  <2> DEFINE a == percent * n
  <2>1. a \in Nat
    BY <1>9
  <2> HIDE DEF a
  <2>2. i * 100 <= a /\ (i + 1) * 100 > a
    BY <1>10 DEF a
  <2>3. Cardinality(below) * 100 <= a /\ Cardinality(upTo) * 100 > a
    BY <1>10, <1>13, <1>14, <2>1, <2>2
  <2>4. QED
    BY <2>3 DEF a
<1>17. QED
  BY <1>8, <1>15, <1>16

------------------------------------------------------------------------------
(* The command line. *)

(* The tokens the code knows and writes; a command line may hold any other. *)
Known == Rewritten \union {"MODEL", "HOST", "PORT", "--mmproj", Projector}
Turn(Token) == [out : Seq(Token), has : SUBSET Token, skip : BOOLEAN]

LEMMA TokenFacts ==
    /\ Rewritten \subseteq Known /\ Projector \in Known /\ "--mmproj" \in Known
    /\ \A flag : Own(flag) \in Known /\ Own(flag) \notin Rewritten /\ Own(flag) # Projector
    /\ Projector \notin Rewritten /\ "--mmproj" \notin Rewritten /\ "--mmproj" # Projector
<1>1. Rewritten = {"-m", "--model", "--host", "--port", "-p"}
  BY DEF Rewritten, ModelFlags, HostFlags, PortFlags
<1>2. \A flag : Own(flag) = "MODEL" \/ Own(flag) = "HOST" \/ Own(flag) = "PORT"
  BY DEF Own
<1>3. Rewritten \subseteq Known /\ Projector \in Known /\ "--mmproj" \in Known
  BY DEF Known
<1>4. \A flag : Own(flag) \in Known
  BY <1>2 DEF Known
<1>5. \A flag : Own(flag) \notin Rewritten /\ Own(flag) # Projector
  BY <1>1, <1>2 DEF Projector
<1>6. Projector \notin Rewritten /\ "--mmproj" \notin Rewritten /\ "--mmproj" # Projector
  BY <1>1 DEF Projector
<1>7. QED
  BY <1>3, <1>4, <1>5, <1>6

LEMMA BuildTurnType ==
    ASSUME NEW Token, Known \subseteq Token, NEW args \in Seq(Token), NEW turn \in Turn(Token), NEW k \in 1..Len(args)
    PROVE  BuildTurn(args, turn, k) \in Turn(Token)
<1>1. args[k] \in Token
  BY ElementOfSeq
<1>2. turn.out \in Seq(Token) /\ turn.has \in SUBSET Token /\ turn.skip \in BOOLEAN
  BY DEF Turn
<1>3. CASE turn.skip
  BY <1>3 DEF BuildTurn, Turn
<1>4. CASE ~ turn.skip /\ args[k] \in Rewritten
  <2>1. Rewrite(args, k) \in Seq(Token)
    BY <1>1, TokenFacts DEF Rewrite
  <2>2. turn.out \o Rewrite(args, k) \in Seq(Token)
    BY <1>2, <2>1
  <2>3. turn.has \union {Own(args[k])} \in SUBSET Token
    BY <1>2, TokenFacts
  <2>4. QED
    BY <1>4, <2>2, <2>3 DEF BuildTurn, Turn
<1>5. CASE ~ turn.skip /\ args[k] \notin Rewritten
  <2>1. Copied(turn.out, args[k]) \in Seq(Token)
    BY <1>1, TokenFacts DEF Copied
  <2>2. turn.out \o Copied(turn.out, args[k]) \in Seq(Token)
    BY <1>2, <2>1
  <2>3. BuildTurn(args, turn, k) = [turn EXCEPT !.out = turn.out \o Copied(turn.out, args[k])]
    BY <1>5 DEF BuildTurn
  <2>4. QED
    BY <2>2, <2>3 DEF Turn
<1>6. QED
  BY <1>2, <1>3, <1>4, <1>5

LEMMA BuildSteps ==
    ASSUME NEW Token, Known \subseteq Token, NEW args \in Seq(Token)
    PROVE  /\ BuildTurns(args)[0] = [out |-> <<>>, has |-> {}, skip |-> FALSE]
           /\ \A k \in 1..Len(args) :
                 BuildTurns(args)[k] = BuildTurn(args, BuildTurns(args)[k - 1], k)
<1> DEFINE n == Len(args)
           start == [out |-> <<>>, has |-> {}, skip |-> FALSE]
           step == [k \in 1..n |-> [turn \in Turn(Token) |-> BuildTurn(args, turn, k)]]
           Is(turns) == turns = [k \in 0..n |-> IF k = 0 THEN start ELSE BuildTurn(args, turns[k - 1], k)]
<1>1. n \in Nat
  BY LenProperties
<1>2. step \in Steps(n, Turn(Token))
  BY BuildTurnType DEF Steps
<1>3. start \in Turn(Token)
  BY DEF Turn
<1>4. \A k \in 1..n : \A turn \in Turn(Token) : step[k][turn] = BuildTurn(args, turn, k)
  OBVIOUS
<1>5. \A k \in 0..n : k = 0 \/ k \in 1..n
  OBVIOUS
<1>6. \E turns : Is(turns)
  <2> HIDE DEF step, n, start
  <2>0. PICK f : Iterates(f, n, Turn(Token), start, step)
    BY <1>1, <1>2, <1>3, Iteration
  <2>1. f \in [0..n -> Turn(Token)] /\ f[0] = start /\ \A k \in 1..n : f[k] = step[k][f[k - 1]]
    BY <2>0 DEF Iterates
  <2>2. ASSUME NEW k \in 1..n PROVE f[k] = BuildTurn(args, f[k - 1], k)
    <3>1. k - 1 \in 0..n
      BY <1>1
    <3>2. QED
      BY <1>4, <2>1, <3>1
  <2>3. \A k \in 0..n : f[k] = IF k = 0 THEN start ELSE BuildTurn(args, f[k - 1], k)
    BY <1>5, <2>1, <2>2
  <2>4. f = [k \in 0..n |-> f[k]]
    BY <2>1
  <2>5. Is(f)
    BY <2>3, <2>4
  <2>6. QED
    BY <2>5
<1>7. Is(BuildTurns(args))
  BY <1>6 DEF BuildTurns
<1> HIDE DEF start
<1>8. BuildTurns(args)[0] = start
  BY <1>1, <1>7
<1>9. ASSUME NEW k \in 1..n PROVE BuildTurns(args)[k] = BuildTurn(args, BuildTurns(args)[k - 1], k)
  <2>1. k \in 0..n /\ k # 0
    BY <1>1
  <2>2. QED
    BY <1>7, <2>1
<1>10. QED
  BY <1>8, <1>9 DEF start

(* What holds of the tokens written so far: every address flag is followed *)
(* by the studio's own value, every projector comes behind its flag, and   *)
(* every value in has was given.                                           *)
Addressed(out, k) == out[k] \in Rewritten => k < Len(out) /\ out[k + 1] = Own(out[k])
Flagged(out, k) == out[k] = Projector => k > 1 /\ out[k - 1] = "--mmproj"
Gives(out, value) == \E k \in 1..Len(out) : out[k] \in Rewritten /\ Own(out[k]) = value
Written(out, has) ==
    /\ \A k \in 1..Len(out) : Addressed(out, k) /\ Flagged(out, k)
    /\ \A value \in has : Gives(out, value)

(* s is p and then q. *)
IsJoin(s, p, q) ==
    /\ Len(p) \in Nat /\ Len(q) \in Nat /\ Len(s) = Len(p) + Len(q)
    /\ \A k \in 1..Len(p) : s[k] = p[k]
    /\ \A k \in 1..Len(q) : s[Len(p) + k] = q[k]
    /\ \A k \in 1..Len(s) : k \in 1..Len(p) \/ \E j \in 1..Len(q) : k = Len(p) + j

LEMMA Joined ==
    ASSUME NEW Token, NEW p \in Seq(Token), NEW q \in Seq(Token)
    PROVE  p \o q \in Seq(Token) /\ IsJoin(p \o q, p, q)
<1>1. p \o q \in Seq(Token) /\ Len(p) \in Nat /\ Len(q) \in Nat /\ Len(p \o q) = Len(p) + Len(q)
  BY ConcatProperties, LenProperties
<1>2. \A k \in 1..(Len(p) + Len(q)) : (p \o q)[k] = IF k <= Len(p) THEN p[k] ELSE q[k - Len(p)]
  BY ConcatProperties
<1> DEFINE m == Len(p)
           n == Len(q)
<1>3. \A k \in 1..m : k \in 1..(m + n) /\ k <= m
  BY <1>1
<1>4. \A k \in 1..n : m + k \in 1..(m + n) /\ ~ (m + k <= m) /\ (m + k) - m = k
  BY <1>1
<1>5. \A k \in 1..(m + n) : k \in 1..m \/ (k - m \in 1..n /\ k = m + (k - m))
  BY <1>1
<1> HIDE DEF m, n
<1>6. QED
  BY <1>1, <1>2, <1>3, <1>4, <1>5 DEF m, n, IsJoin

LEMMA JoinedOne ==
    ASSUME NEW s, NEW p, NEW q, IsJoin(s, p, q), Len(q) = 1
    PROVE  /\ Len(p) \in Nat /\ Len(s) = Len(p) + 1
           /\ s[Len(p) + 1] = q[1]
           /\ \A k \in 1..Len(p) : s[k] = p[k]
           /\ \A k \in 1..Len(s) : k \in 1..Len(p) \/ k = Len(p) + 1
<1>1. 1 \in 1..1 /\ \A j \in 1..1 : j = 1
  OBVIOUS
<1>2. QED
  BY <1>1 DEF IsJoin

LEMMA JoinedTwo ==
    ASSUME NEW s, NEW p, NEW q, IsJoin(s, p, q), Len(q) = 2
    PROVE  /\ Len(p) \in Nat /\ Len(s) = Len(p) + 2
           /\ s[Len(p) + 1] = q[1] /\ s[Len(p) + 2] = q[2]
           /\ \A k \in 1..Len(p) : s[k] = p[k]
           /\ \A k \in 1..Len(s) : k \in 1..Len(p) \/ k = Len(p) + 1 \/ k = Len(p) + 2
<1>1. 1 \in 1..2 /\ 2 \in 1..2 /\ \A j \in 1..2 : j = 1 \/ j = 2
  OBVIOUS
<1>2. QED
  BY <1>1 DEF IsJoin

(* Tokens written stay as they are when others follow. *)
LEMMA WrittenStays ==
    ASSUME NEW Token, NEW p \in Seq(Token), NEW q \in Seq(Token), NEW has, Written(p, has)
    PROVE  /\ \A k \in 1..Len(p) : Addressed(p \o q, k) /\ Flagged(p \o q, k)
           /\ \A value \in has : Gives(p \o q, value)
<1> DEFINE s == p \o q
<1>1. Len(p) \in Nat /\ Len(q) \in Nat /\ Len(s) = Len(p) + Len(q) /\ \A k \in 1..Len(p) : s[k] = p[k]
  BY Joined DEF IsJoin
<1> HIDE DEF s
<1>2. ASSUME NEW k \in 1..Len(p) PROVE Addressed(s, k) /\ Flagged(s, k)
  <2>1. s[k] = p[k] /\ Addressed(p, k) /\ Flagged(p, k)
    BY <1>1 DEF Written
  <2>2. p[k] \in Rewritten => k + 1 \in 1..Len(p) /\ s[k + 1] = p[k + 1]
    BY <1>1, <2>1 DEF Addressed
  <2>3. p[k] = Projector => k - 1 \in 1..Len(p) /\ s[k - 1] = p[k - 1]
    BY <1>1, <2>1 DEF Flagged
  <2>4. Addressed(s, k)
    BY <1>1, <2>1, <2>2 DEF Addressed
  <2>5. Flagged(s, k)
    BY <2>1, <2>3 DEF Flagged
  <2>6. QED
    BY <2>4, <2>5
<1>3. ASSUME NEW value \in has PROVE Gives(s, value)
  <2>1. PICK k \in 1..Len(p) : p[k] \in Rewritten /\ Own(p[k]) = value
    BY DEF Written, Gives
  <2>2. k \in 1..Len(s) /\ s[k] = p[k]
    BY <1>1
  <2>3. QED
    BY <2>1, <2>2 DEF Gives
<1>4. QED
  BY <1>2, <1>3 DEF s

LEMMA WritesFlag ==
    ASSUME NEW Token, Known \subseteq Token, NEW out \in Seq(Token), NEW has, Written(out, has),
           NEW flag \in Rewritten
    PROVE  /\ out \o <<flag, Own(flag)>> \in Seq(Token)
           /\ Written(out \o <<flag, Own(flag)>>, has \union {Own(flag)})
<1> DEFINE q == <<flag, Own(flag)>>
           s == out \o q
           n == Len(out)
<1>1. q \in Seq(Token) /\ Len(q) = 2 /\ q[1] = flag /\ q[2] = Own(flag)
  BY TokenFacts
<1> HIDE DEF q
<1>j. s \in Seq(Token) /\ IsJoin(s, out, q)
  BY <1>1, Joined
<1> HIDE DEF s
<1>2. /\ s \in Seq(Token) /\ n \in Nat /\ Len(s) = n + 2
      /\ s[n + 1] = flag /\ s[n + 2] = Own(flag)
      /\ \A k \in 1..Len(s) : k \in 1..n \/ k = n + 1 \/ k = n + 2
  BY <1>1, <1>j, JoinedTwo
<1>3. /\ \A k \in 1..n : Addressed(s, k) /\ Flagged(s, k)
      /\ \A value \in has : Gives(s, value)
  BY <1>1, WrittenStays DEF s
<1> HIDE DEF n
<1>4. Addressed(s, n + 1) /\ Flagged(s, n + 1)
  BY <1>2, TokenFacts DEF Addressed, Flagged
<1>5. Addressed(s, n + 2) /\ Flagged(s, n + 2)
  BY <1>2, TokenFacts DEF Addressed, Flagged
<1>6. Gives(s, Own(flag))
  <2>1. n + 1 \in 1..Len(s)
    BY <1>2
  <2>2. QED
    BY <1>2, <2>1 DEF Gives
<1>7. Written(s, has \union {Own(flag)})
  BY <1>2, <1>3, <1>4, <1>5, <1>6 DEF Written
<1>8. QED
  BY <1>2, <1>7 DEF s, q

LEMMA CopiesToken ==
    ASSUME NEW Token, Known \subseteq Token, NEW out \in Seq(Token), NEW has, Written(out, has),
           NEW token \in Token, token \notin Rewritten
    PROVE  /\ out \o Copied(out, token) \in Seq(Token)
           /\ Written(out \o Copied(out, token), has)
<1> DEFINE q == Copied(out, token)
           s == out \o q
           n == Len(out)
<1>1. CASE token = Projector /\ (out = <<>> \/ Last(out) # "--mmproj")
  <2>1. q \in Seq(Token) /\ Len(q) = 2 /\ q[1] = "--mmproj" /\ q[2] = token
    BY <1>1, TokenFacts DEF Copied
  <2> HIDE DEF q
  <2>j. s \in Seq(Token) /\ IsJoin(s, out, q)
    BY <2>1, Joined
  <2> HIDE DEF s
  <2>2. /\ s \in Seq(Token) /\ n \in Nat /\ Len(s) = n + 2
        /\ s[n + 1] = "--mmproj" /\ s[n + 2] = token
        /\ \A k \in 1..Len(s) : k \in 1..n \/ k = n + 1 \/ k = n + 2
    BY <2>1, <2>j, JoinedTwo
  <2>3. /\ \A k \in 1..n : Addressed(s, k) /\ Flagged(s, k)
        /\ \A value \in has : Gives(s, value)
    BY <2>1, WrittenStays DEF s
  <2> HIDE DEF n
  <2>4. Addressed(s, n + 1) /\ Flagged(s, n + 1)
    BY <2>2, TokenFacts DEF Addressed, Flagged
  <2>5. (n + 2) - 1 = n + 1 /\ n + 2 > 1
    BY <2>2
  <2>6. Addressed(s, n + 2) /\ Flagged(s, n + 2)
    BY <2>2, <2>5, TokenFacts DEF Addressed, Flagged
  <2>7. Written(s, has)
    BY <2>2, <2>3, <2>4, <2>6 DEF Written
  <2>8. QED
    BY <2>2, <2>7 DEF s, q
<1>2. CASE ~ (token = Projector /\ (out = <<>> \/ Last(out) # "--mmproj"))
  <2>1. q \in Seq(Token) /\ Len(q) = 1 /\ q[1] = token
    BY <1>2 DEF Copied
  <2>2. token = Projector => n \in Nat /\ n > 0 /\ out[n] = "--mmproj"
    <3>1. SUFFICES ASSUME token = Projector PROVE n \in Nat /\ n > 0 /\ out[n] = "--mmproj"
      OBVIOUS
    <3>2. out # <<>> /\ Last(out) = "--mmproj"
      BY <1>2, <3>1
    <3>3. n \in Nat /\ n > 0
      BY <3>2, LenProperties, EmptySeq
    <3>4. QED
      BY <3>2, <3>3 DEF Last
  <2> HIDE DEF q
  <2>j. s \in Seq(Token) /\ IsJoin(s, out, q)
    BY <2>1, Joined
  <2> HIDE DEF s
  <2>3. /\ s \in Seq(Token) /\ n \in Nat /\ Len(s) = n + 1
        /\ s[n + 1] = token
        /\ \A k \in 1..n : s[k] = out[k]
        /\ \A k \in 1..Len(s) : k \in 1..n \/ k = n + 1
    BY <2>1, <2>j, JoinedOne
  <2>4. /\ \A k \in 1..n : Addressed(s, k) /\ Flagged(s, k)
        /\ \A value \in has : Gives(s, value)
    BY <2>1, WrittenStays DEF s
  <2> HIDE DEF n
  <2>5. Addressed(s, n + 1)
    BY <2>3 DEF Addressed
  <2>6. Flagged(s, n + 1)
    <3>1. SUFFICES ASSUME token = Projector PROVE n + 1 > 1 /\ s[(n + 1) - 1] = "--mmproj"
      BY <2>3 DEF Flagged
    <3>2. n \in 1..n /\ (n + 1) - 1 = n
      BY <2>2, <2>3, <3>1
    <3>3. s[n] = "--mmproj"
      BY <2>2, <2>3, <3>1, <3>2
    <3>4. QED
      BY <2>2, <3>1, <3>2, <3>3
  <2>7. Written(s, has)
    BY <2>3, <2>4, <2>5, <2>6 DEF Written
  <2>8. QED
    BY <2>3, <2>7 DEF s, q
<1>3. QED
  BY <1>1, <1>2

LEMMA BuildTurnWritten ==
    ASSUME NEW Token, Known \subseteq Token, NEW args \in Seq(Token), NEW turn \in Turn(Token),
           NEW k \in 1..Len(args), Written(turn.out, turn.has)
    PROVE  Written(BuildTurn(args, turn, k).out, BuildTurn(args, turn, k).has)
<1>1. args[k] \in Token
  BY ElementOfSeq
<1>2. turn.out \in Seq(Token) /\ turn = [out |-> turn.out, has |-> turn.has, skip |-> turn.skip]
  BY DEF Turn
<1>3. CASE turn.skip
  <2>1. BuildTurn(args, turn, k).out = turn.out /\ BuildTurn(args, turn, k).has = turn.has
    BY <1>2, <1>3 DEF BuildTurn
  <2>2. QED
    BY <2>1
<1>4. CASE ~ turn.skip /\ args[k] \in Rewritten
  <2>1. /\ BuildTurn(args, turn, k).out = turn.out \o <<args[k], Own(args[k])>>
        /\ BuildTurn(args, turn, k).has = turn.has \union {Own(args[k])}
    BY <1>4 DEF BuildTurn, Rewrite
  <2>2. Written(turn.out \o <<args[k], Own(args[k])>>, turn.has \union {Own(args[k])})
    BY <1>2, <1>4, WritesFlag
  <2>3. QED
    BY <2>1, <2>2
<1>5. CASE ~ turn.skip /\ args[k] \notin Rewritten
  <2>1. /\ BuildTurn(args, turn, k).out = turn.out \o Copied(turn.out, args[k])
        /\ BuildTurn(args, turn, k).has = turn.has
    <3>1. BuildTurn(args, turn, k) = [turn EXCEPT !.out = turn.out \o Copied(turn.out, args[k])]
      BY <1>5 DEF BuildTurn
    <3>2. QED
      BY <1>2, <3>1
  <2>2. Written(turn.out \o Copied(turn.out, args[k]), turn.has)
    BY <1>1, <1>2, <1>5, CopiesToken
  <2>3. QED
    BY <2>1, <2>2
<1>6. QED
  BY <1>3, <1>4, <1>5

LEMMA WritesDefault ==
    ASSUME NEW Token, Known \subseteq Token, NEW out \in Seq(Token), NEW has, NEW before \in SUBSET has,
           Written(out, has), NEW flag \in Rewritten
    PROVE  /\ out \o Default(flag, before) \in Seq(Token)
           /\ Written(out \o Default(flag, before), has \union {Own(flag)})
<1>1. CASE Own(flag) \in before
  <2>1. out \o Default(flag, before) = out
    BY <1>1, ConcatEmptySeq DEF Default
  <2>2. has \union {Own(flag)} = has
    BY <1>1
  <2>3. QED
    BY <2>1, <2>2
<1>2. CASE Own(flag) \notin before
  BY <1>2, WritesFlag DEF Default
<1>3. QED
  BY <1>1, <1>2

(* Whatever a profile's arguments are, and whatever an override made of    *)
(* them, the process is told the model of the catalog, the host and the    *)
(* reserved port, each at least once, and every flag that names one of     *)
(* them is followed by the studio's value; and every projector comes       *)
(* behind its flag (BuildCommand of manager.go).                           *)
LEMMA CommandIsOwn ==
    ASSUME NEW Given, NEW args \in Seq(Given)
    PROVE  OwnAddress(BuildCommand(args)) /\ ProjectorFlagged(BuildCommand(args))
<1> DEFINE Token == Given \union Known
           n == Len(args)
           turns == BuildTurns(args)
           Fine(k) == turns[k] \in Turn(Token) /\ Written(turns[k].out, turns[k].has)
           Right == {k \in Nat : k <= n => Fine(k)}
<1>1. Known \subseteq Token /\ args \in Seq(Token) /\ n \in Nat
  <2>1. Given \subseteq Token /\ Known \subseteq Token
    OBVIOUS
  <2>2. n \in Nat /\ args \in [1..n -> Given]
    BY LenProperties
  <2> HIDE DEF Token
  <2>3. args \in [1..n -> Token]
    BY <2>1, <2>2
  <2>4. QED
    BY <2>1, <2>2, <2>3, SeqDef
<1> HIDE DEF Token
<1>2. /\ turns[0] = [out |-> <<>>, has |-> {}, skip |-> FALSE]
      /\ \A k \in 1..n : turns[k] = BuildTurn(args, turns[k - 1], k)
  BY <1>1, BuildSteps
<1>3. 0 \in Right
  <2>1. turns[0] \in Turn(Token) /\ turns[0].out = <<>> /\ turns[0].has = {}
    BY <1>2 DEF Turn
  <2>2. Written(<<>>, {})
    BY DEF Written
  <2>3. QED
    BY <2>1, <2>2
<1>4. ASSUME NEW k \in Nat, k \in Right PROVE k + 1 \in Right
  <2>1. SUFFICES ASSUME k + 1 <= n PROVE Fine(k + 1)
    OBVIOUS
  <2>2. k + 1 \in 1..n /\ (k + 1) - 1 = k /\ Fine(k)
    BY <1>1, <1>4, <2>1
  <2>3. turns[k + 1] = BuildTurn(args, turns[k], k + 1)
    BY <1>2, <2>2
  <2> HIDE DEF turns
  <2>4. BuildTurn(args, turns[k], k + 1) \in Turn(Token)
    BY <1>1, <2>2, BuildTurnType
  <2>5. Written(BuildTurn(args, turns[k], k + 1).out, BuildTurn(args, turns[k], k + 1).has)
    BY <1>1, <2>2, BuildTurnWritten
  <2>6. QED
    BY <2>3, <2>4, <2>5
<1> DEFINE end == turns[n]
           one == end.out \o Default("-m", end.has)
           two == one \o Default("--host", end.has)
           three == two \o Default("--port", end.has)
           all == ((end.has \union {Own("-m")}) \union {Own("--host")}) \union {Own("--port")}
<1>5. end.out \in Seq(Token) /\ Written(end.out, end.has)
  <2> HIDE DEF Right
  <2>1. n \in Right
    BY <1>1, <1>3, <1>4, Induction
  <2>2. Fine(n)
    BY <1>1, <2>1 DEF Right
  <2>3. QED
    BY <2>2 DEF Turn
<1>6. BuildCommand(args) = three
  BY DEF BuildCommand
<1> HIDE DEF turns, end
<1>7. {"-m", "--host", "--port"} \subseteq Rewritten
  BY DEF Rewritten, ModelFlags, HostFlags, PortFlags
<1>8. one \in Seq(Token) /\ Written(one, end.has \union {Own("-m")})
  BY <1>1, <1>5, <1>7, WritesDefault
<1> HIDE DEF one
<1>9. two \in Seq(Token) /\ Written(two, (end.has \union {Own("-m")}) \union {Own("--host")})
  <2>1. end.has \in SUBSET (end.has \union {Own("-m")})
    OBVIOUS
  <2>2. QED
    BY <1>1, <1>7, <1>8, <2>1, WritesDefault
<1> HIDE DEF two
<1>10. three \in Seq(Token) /\ Written(three, all)
  <2>1. end.has \in SUBSET ((end.has \union {Own("-m")}) \union {Own("--host")})
    OBVIOUS
  <2>2. QED
    BY <1>1, <1>7, <1>9, <2>1, WritesDefault
<1> HIDE DEF three, all
<1>11. {"MODEL", "HOST", "PORT"} \subseteq all
  BY DEF all, Own, ModelFlags, HostFlags, PortFlags
<1>12. DOMAIN three = 1..Len(three)
  BY <1>10
<1>13. \A family \in {ModelFlags, HostFlags, PortFlags} : \E k \in DOMAIN three : three[k] \in family
  <2>1. /\ \A flag \in Rewritten : Own(flag) = "MODEL" => flag \in ModelFlags
        /\ \A flag \in Rewritten : Own(flag) = "HOST" => flag \in HostFlags
        /\ \A flag \in Rewritten : Own(flag) = "PORT" => flag \in PortFlags
    BY DEF Own, Rewritten, ModelFlags, HostFlags, PortFlags
  <2>2. Gives(three, "MODEL") /\ Gives(three, "HOST") /\ Gives(three, "PORT")
    BY <1>10, <1>11 DEF Written
  <2>3. QED
    BY <1>12, <2>1, <2>2 DEF Gives
<1>14. OwnAddress(three)
  BY <1>10, <1>12, <1>13 DEF OwnAddress, Written, Addressed
<1>15. ProjectorFlagged(three)
  BY <1>10, <1>12 DEF ProjectorFlagged, Written, Flagged
<1>16. QED
  BY <1>6, <1>14, <1>15

------------------------------------------------------------------------------
(* What is forwarded of a request. *)

(* A request of the gateway's routes: its length is announced or -1, and a *)
(* JSON or multipart body that parses is not empty.                        *)
IsRequest(r, Part, Model) ==
    /\ r \in [method : {"GET", "DELETE", "HEAD", "POST"}, query : Model,
              kind : {"json", "urlencoded", "multipart", "other"}, valid : BOOLEAN,
              length : Int, body : Seq(Part)]
    /\ r.length \in {-1, Len(r.body)}
    /\ r.kind \in {"json", "multipart"} /\ r.valid => r.body # <<>>

LEMMA LeastOfTwo ==
    ASSUME NEW a \in Nat, NEW b \in Nat
    PROVE  Min({a, b}) = IF a <= b THEN a ELSE b
<1>1. \E x \in {a, b} : \A y \in {a, b} : x <= y
  OBVIOUS
<1>2. Min({a, b}) \in {a, b} /\ \A y \in {a, b} : Min({a, b}) <= y
  BY <1>1 DEF Min
<1>3. QED
  BY <1>2

LEMMA WhatIsRead ==
    ASSUME NEW Part, NEW body \in Seq(Part), NEW limit \in Nat
    PROVE  /\ Len(body) <= limit => ReadUpTo(body, limit) = body
           /\ Len(body) > limit => ReadUpTo(body, limit) # body
<1>1. Len(body) \in Nat
  BY LenProperties
<1>2. CASE Len(body) <= limit
  <2>1. Min({Len(body), limit}) = Len(body)
    BY <1>1, <1>2, LeastOfTwo
  <2>2. QED
    BY <1>1, <1>2, <2>1, SubSeqFull DEF ReadUpTo
<1>3. CASE Len(body) > limit
  <2>1. Min({Len(body), limit}) = limit
    BY <1>1, <1>3, LeastOfTwo
  <2>2. SubSeq(body, 1, limit) # body
    <3>1. Len(SubSeq(body, 1, limit)) = limit
      BY <1>1, <1>3
    <3>2. QED
      BY <1>1, <1>3, <3>1
  <2>3. QED
    BY <1>1, <1>3, <2>1, <2>2 DEF ReadUpTo
<1>4. QED
  BY <1>1, <1>2, <1>3

LEMMA NothingRead == ReadUpTo(<<>>, MaxUpload) = <<>> /\ \A model : FirstOr(<<>>, model) = model
<1>1. <<>> \in Seq({}) /\ Len(<<>>) <= MaxUpload /\ MaxUpload \in Nat
  BY LimitAssumption
<1>2. ReadUpTo(<<>>, MaxUpload) = <<>>
  BY <1>1, WhatIsRead
<1>3. SelectInSeq(<<>>, Names) = 0
  BY DEF SelectInSeq
<1>4. QED
  BY <1>2, <1>3 DEF FirstOr

(* Every request the gateway does not refuse is forwarded with the body it *)
(* came with, none within the limits is refused, and the answer is the     *)
(* same whether its length is announced or not, for all limits, except for *)
(* the forms CutOff names (extractModel of api.go).                        *)
LEMMA RequestsForwardedWhole ==
    ASSUME NEW Part, NEW Model, NEW r, IsRequest(r, Part, Model)
    PROVE  ForwardedWhole(r)
<1> DEFINE c == [r EXCEPT !.length = -1]
           limit == LimitOf(r.kind)
           read == ReadUpTo(r.body, limit)
           NoRead == r.method \in {"GET", "DELETE", "HEAD"} \/ r.kind = "other"
<1>1. /\ c.method = r.method /\ c.query = r.query /\ c.kind = r.kind /\ c.valid = r.valid
      /\ c.body = r.body /\ c.length = -1
      /\ r.body \in Seq(Part) /\ Len(r.body) \in Nat /\ r.length \in {-1, Len(r.body)}
      /\ r.method \in {"GET", "DELETE", "HEAD", "POST"} /\ r.valid \in BOOLEAN
      /\ r.kind \in {"json", "urlencoded", "multipart", "other"}
      /\ r.kind \in {"json", "multipart"} /\ r.valid => r.body # <<>>
  BY DEF IsRequest
<1>2. limit \in Nat \ {0} /\ (r.kind = "urlencoded" => limit = MaxUpload)
  BY LimitAssumption DEF LimitOf
<1>3. /\ Len(r.body) <= limit => read = r.body
      /\ Len(r.body) > limit => read # r.body
  BY <1>1, <1>2, WhatIsRead
<1>4. SUFFICES ASSUME ~ CutOff(c)
               PROVE  /\ extractModel(r).ok => extractModel(r).body = r.body
                      /\ r.valid /\ Len(r.body) <= limit => extractModel(r).ok
                      /\ extractModel(r).ok /\ r.valid => extractModel(c) = extractModel(r)
  BY DEF ForwardedWhole
<1>5. ~ NoRead => ~ (r.kind = "urlencoded" /\ Len(r.body) > MaxUpload)
  BY <1>1, <1>4 DEF CutOff
<1>6. ReadBody(r) = IF r.length > limit \/ ~ Parses(r, read) THEN Refused ELSE Parsed(Found(r, read), read)
  BY DEF ReadBody
<1>7. ReadBody(c) = IF ~ Parses(r, read) THEN Refused ELSE Parsed(Found(r, read), read)
  <2>1. ~ (c.length > LimitOf(c.kind))
    BY <1>1, <1>2
  <2>2. Parses(c, read) = Parses(r, read) /\ Found(c, read) = Found(r, read)
    BY <1>1 DEF Parses, Found
  <2>3. ReadUpTo(c.body, LimitOf(c.kind)) = read
    BY <1>1
  <2>4. QED
    BY <2>1, <2>2, <2>3 DEF ReadBody
<1> HIDE DEF limit, read, c
<1>8. CASE NoRead
  <2>1. extractModel(r) = Parsed(r.query, r.body) /\ extractModel(c) = Parsed(r.query, r.body)
    BY <1>1, <1>8 DEF extractModel
  <2>2. QED
    BY <2>1 DEF Parsed
<1>9. CASE ~ NoRead /\ r.length = 0
  <2>1. r.body = <<>>
    BY <1>1, <1>9, EmptySeq
  <2>2. extractModel(r) = Parsed(r.query, r.body) /\ extractModel(c) = ReadBody(c)
    BY <1>1, <1>9 DEF extractModel
  <2>3. r.valid => r.kind = "urlencoded"
    BY <1>1, <1>9, <2>1
  <2>4. r.kind = "urlencoded" => read = <<>> /\ Found(r, read) = r.query
    BY <1>2, <2>1, NothingRead DEF read, Found
  <2>5. r.valid => ReadBody(c) = Parsed(r.query, r.body)
    BY <1>7, <2>1, <2>3, <2>4 DEF Parses
  <2>6. QED
    BY <2>2, <2>5 DEF Parsed
<1>10. CASE ~ NoRead /\ r.length # 0
  <2>1. extractModel(r) = ReadBody(r) /\ extractModel(c) = ReadBody(c)
    BY <1>1, <1>10 DEF extractModel
  <2>2. Parses(r, read) => read = r.body
    BY <1>1, <1>2, <1>3, <1>5, <1>10 DEF Parses
  <2>3. r.valid /\ Len(r.body) <= limit => Parses(r, read) /\ ~ (r.length > limit)
    BY <1>1, <1>2, <1>3 DEF Parses
  <2>4. ~ Refused.ok /\ Parsed(Found(r, read), read).ok /\ Parsed(Found(r, read), read).body = read
    BY DEF Refused, Parsed
  <2>5. QED
    BY <1>6, <1>7, <2>1, <2>2, <2>3, <2>4
<1>11. QED
  BY <1>8, <1>9, <1>10

------------------------------------------------------------------------------
(* The directory walk. *)

(* The walks calls can start from and leave behind. *)
Calls == [Walks -> [Dirs -> Walks]]

LEMMA EachSteps ==
    ASSUME NEW call \in Calls, NEW walk \in Walks, NEW dirs, Len(dirs) \in Nat,
           \A k \in 1..Len(dirs) : dirs[k] \in Dirs, NEW chosen
    PROVE  /\ Each(call, walk, dirs, chosen) \in [0..Len(dirs) -> Walks]
           /\ Each(call, walk, dirs, chosen)[0] = walk
           /\ \A k \in 1..Len(dirs) :
                 Each(call, walk, dirs, chosen)[k] =
                     IF dirs[k] \in chosen THEN call[Each(call, walk, dirs, chosen)[k - 1]][dirs[k]]
                     ELSE Each(call, walk, dirs, chosen)[k - 1]
<1> DEFINE n == Len(dirs)
           Step(w, k) == IF dirs[k] \in chosen THEN call[w][dirs[k]] ELSE w
           step == [k \in 1..n |-> [w \in Walks |-> Step(w, k)]]
           Is(walks) == walks = [k \in 0..n |-> IF k = 0 THEN walk ELSE
                                  IF dirs[k] \in chosen THEN call[walks[k - 1]][dirs[k]] ELSE walks[k - 1]]
<1>1. \A k \in 1..n : \A w \in Walks : Step(w, k) \in Walks
  BY DEF Calls
<1>2. step \in Steps(n, Walks)
  BY <1>1 DEF Steps
<1>3. \A k \in 1..n : \A w \in Walks : step[k][w] = Step(w, k)
  OBVIOUS
<1>4. \A k \in 0..n : k = 0 \/ k \in 1..n
  OBVIOUS
<1> HIDE DEF n, step
<1>5. PICK f : Iterates(f, n, Walks, walk, step)
  BY <1>2, Iteration DEF n
<1>6. f \in [0..n -> Walks] /\ f[0] = walk /\ \A k \in 1..n : f[k] = step[k][f[k - 1]]
  BY <1>5 DEF Iterates
<1>7. ASSUME NEW k \in 1..n PROVE f[k] = Step(f[k - 1], k)
  <2>1. k - 1 \in 0..n
    BY DEF n
  <2>2. QED
    BY <1>3, <1>6, <2>1
<1>8. \A k \in 0..n : f[k] = IF k = 0 THEN walk ELSE
                               IF dirs[k] \in chosen THEN call[f[k - 1]][dirs[k]] ELSE f[k - 1]
  BY <1>4, <1>6, <1>7
<1>9. Is(f)
  <2>1. f = [k \in 0..n |-> f[k]]
    BY <1>6
  <2>2. QED
    BY <1>8, <2>1
<1>10. Is(Each(call, walk, dirs, chosen))
  BY <1>9 DEF Each, n
<1> DEFINE walks == Each(call, walk, dirs, chosen)
<1> HIDE DEF walks
<1>11. Is(walks)
  BY <1>10 DEF walks
<1>12. walks[0] = walk /\ \A k \in 1..n : walks[k] = Step(walks[k - 1], k)
  <2>1. 0 \in 0..n
    BY DEF n
  <2>2. walks[0] = walk
    BY <1>11, <2>1
  <2>3. ASSUME NEW k \in 1..n PROVE walks[k] = Step(walks[k - 1], k)
    <3>1. k \in 0..n /\ k # 0
      BY DEF n
    <3>2. QED
      BY <1>11, <3>1
  <2>4. QED
    BY <2>2, <2>3
<1> DEFINE Right == {k \in Nat : k <= n => walks[k] \in Walks}
<1>13. 0 \in Right
  BY <1>12
<1>14. ASSUME NEW k \in Nat, k \in Right PROVE k + 1 \in Right
  <2>1. SUFFICES ASSUME k + 1 <= n PROVE walks[k + 1] \in Walks
    OBVIOUS
  <2>2. k + 1 \in 1..n /\ (k + 1) - 1 = k /\ walks[k] \in Walks
    BY <1>14, <2>1 DEF n
  <2>3. walks[k + 1] = Step(walks[k], k + 1)
    BY <1>12, <2>2
  <2>4. QED
    BY <1>1, <2>2, <2>3
<1> HIDE DEF Right
<1>15. Nat \subseteq Right
  BY <1>13, <1>14, Induction
<1>16. \A k \in 0..n : walks[k] \in Walks
  BY <1>15 DEF Right, n
<1>17. walks = [k \in 0..n |-> walks[k]]
  BY <1>11
<1>18. walks \in [0..n -> Walks]
  BY <1>16, <1>17
<1>19. QED
  BY <1>12, <1>18 DEF walks, n

(* What a call may do to a walk: it adds directories, and unless it is cut *)
(* everything below those it adds is in the walk it leaves.                *)
Grown(sub, w, v) ==
    /\ w.seen \subseteq v.seen /\ (w.cut => v.cut)
    /\ ~ v.cut => \A d \in v.seen \ w.seen : sub[d] \subseteq v.seen

(* It has d in the walk unless it is cut, and stays within the bound when  *)
(* d is an allowed one.                                                    *)
Adds(sub, w, v, d, allowed, bound) ==
    /\ Grown(sub, w, v)
    /\ ~ v.cut => d \in v.seen
    /\ d \in allowed => v.seen \ w.seen \subseteq bound

GoodCall(sub, call, allowed, bound) ==
    \A w \in Walks, d \in Dirs : Adds(sub, w, call[w][d], d, allowed, bound)

LEMMA GrownTwice ==
    ASSUME NEW sub, NEW w, NEW v, NEW u, Grown(sub, w, v), Grown(sub, v, u)
    PROVE  Grown(sub, w, u)
  BY DEF Grown

(* What a sequence of good calls has done: all of it is grown, within the  *)
(* bound if every directory called was allowed, and each is in the walk.   *)
AddsEach(sub, w, v, dirs, chosen, allowed, bound) ==
    /\ v \in Walks /\ Grown(sub, w, v)
    /\ (\A k \in 1..Len(dirs) : dirs[k] \in chosen => dirs[k] \in allowed)
          => v.seen \ w.seen \subseteq bound
    /\ ~ v.cut => \A k \in 1..Len(dirs) : dirs[k] \in chosen => dirs[k] \in v.seen

LEMMA EachAdds ==
    ASSUME NEW sub, NEW call \in Calls, NEW walk \in Walks, NEW dirs, Len(dirs) \in Nat,
           \A k \in 1..Len(dirs) : dirs[k] \in Dirs, NEW chosen,
           NEW allowed, NEW bound, GoodCall(sub, call, allowed, bound)
    PROVE  AddsEach(sub, walk, Each(call, walk, dirs, chosen)[Len(dirs)], dirs, chosen, allowed, bound)
<1> DEFINE n == Len(dirs)
           walks == Each(call, walk, dirs, chosen)
           AllAllowed == \A k \in 1..n : dirs[k] \in chosen => dirs[k] \in allowed
           Fine(k) == /\ walks[k] \in Walks /\ Grown(sub, walk, walks[k])
                      /\ AllAllowed => walks[k].seen \ walk.seen \subseteq bound
                      /\ ~ walks[k].cut => \A j \in 1..k : dirs[j] \in chosen => dirs[j] \in walks[k].seen
           Right == {k \in Nat : k <= n => Fine(k)}
<1>1. /\ walks \in [0..n -> Walks] /\ walks[0] = walk
      /\ \A k \in 1..n : walks[k] = IF dirs[k] \in chosen THEN call[walks[k - 1]][dirs[k]] ELSE walks[k - 1]
  BY EachSteps
<1> HIDE DEF walks
<1>2. 0 \in Right
  BY <1>1 DEF Grown
<1>3. ASSUME NEW k \in Nat, k \in Right PROVE k + 1 \in Right
  <2>1. SUFFICES ASSUME k + 1 <= n PROVE Fine(k + 1)
    OBVIOUS
  <2>2. k + 1 \in 1..n /\ (k + 1) - 1 = k /\ Fine(k) /\ k + 1 \in 0..n
    BY <1>3, <2>1
  <2>3. \A j \in 1..(k + 1) : j \in 1..k \/ j = k + 1
    OBVIOUS
  <2>4. walks[k + 1] \in Walks
    BY <1>1, <2>2
  <2>5. CASE dirs[k + 1] \notin chosen
    <3>1. walks[k + 1] = walks[k]
      BY <1>1, <2>2, <2>5
    <3>2. QED
      BY <2>2, <2>3, <2>5, <3>1
  <2>6. CASE dirs[k + 1] \in chosen
    <3>1. walks[k + 1] = call[walks[k]][dirs[k + 1]] /\ dirs[k + 1] \in Dirs /\ (AllAllowed => dirs[k + 1] \in allowed)
      BY <1>1, <2>2, <2>6
    <3>2. Adds(sub, walks[k], walks[k + 1], dirs[k + 1], allowed, bound)
      BY <2>2, <3>1 DEF GoodCall
    <3> HIDE DEF n
    <3>3. Grown(sub, walks[k], walks[k + 1]) /\ Grown(sub, walk, walks[k])
      BY <2>2, <3>2 DEF Adds
    <3>4. Grown(sub, walk, walks[k + 1])
      BY <3>3, GrownTwice
    <3>5. AllAllowed => walks[k + 1].seen \ walk.seen \subseteq bound
      BY <2>2, <3>1, <3>2 DEF Adds
    <3>6. ~ walks[k + 1].cut => \A j \in 1..(k + 1) : dirs[j] \in chosen => dirs[j] \in walks[k + 1].seen
      BY <2>2, <2>3, <3>2, <3>3 DEF Adds, Grown
    <3>7. QED
      BY <2>4, <3>4, <3>5, <3>6
  <2>7. QED
    BY <2>5, <2>6
<1> HIDE DEF Right
<1>4. Nat \subseteq Right
  BY <1>2, <1>3, Induction
<1>5. Fine(n)
  BY <1>4 DEF Right
<1>6. QED
  BY <1>5 DEF walks, AddsEach

(* Which directories there are. *)
Graphs == [Dirs -> SUBSET Dirs]

LEMMA ByNameFacts ==
    /\ Len(ByName) = MaxDirs /\ MaxDirs \in Nat /\ \A k \in 1..MaxDirs : ByName[k] = k /\ k \in Dirs
<1>1. MaxDirs \in Nat
  BY BoundAssumption
<1>2. ByName = [d \in 1..MaxDirs |-> d]
  BY DEF ByName, Dirs
<1>3. ByName \in Seq(Nat) /\ Len(ByName) = MaxDirs
  <2>1. ByName \in [1..MaxDirs -> Nat]
    BY <1>2
  <2>2. QED
    BY <1>1, <2>1, SeqDef, LenProperties
<1>4. QED
  BY <1>1, <1>2, <1>3 DEF Dirs

LEMMA CallType ==
    ASSUME NEW sub \in Graphs, NEW n, NEW below \in Calls, NEW walk \in Walks, NEW d \in Dirs
    PROVE  Call(sub, n, below, walk, d) \in Walks
<1>1. walk.seen \in SUBSET Dirs /\ walk.cut \in BOOLEAN
  BY DEF Walks
<1>2. [walk EXCEPT !.cut = @ \/ n > MaxDepth] \in Walks
  <2>1. (walk.cut \/ n > MaxDepth) \in BOOLEAN
    OBVIOUS
  <2>2. QED
    BY <2>1 DEF Walks
<1> DEFINE start == [walk EXCEPT !.seen = @ \union {d}]
<1>3. start \in Walks
  BY <1>1 DEF Walks
<1> HIDE DEF start
<1>4. Each(below, start, ByName, sub[d])[MaxDirs] \in Walks
  <2>1. MaxDirs \in 0..MaxDirs
    BY ByNameFacts
  <2>2. Each(below, start, ByName, sub[d]) \in [0..Len(ByName) -> Walks]
    BY <1>3, ByNameFacts, EachSteps
  <2>3. QED
    BY <2>1, <2>2, ByNameFacts
<1>5. QED
  BY <1>2, <1>4 DEF Call, start

(* The top of the recursion: a call that is too deep. *)
LEMMA TooDeepCall ==
    ASSUME NEW sub, NEW below, NEW walk \in Walks, NEW d
    PROVE  Call(sub, MaxDepth + 1, below, walk, d) = [walk EXCEPT !.cut = TRUE]
<1>1. MaxDepth + 1 > MaxDepth
  BY BoundAssumption
<1>2. QED
  BY <1>1 DEF Call, TooDeep

LEMMA VisitSteps ==
    ASSUME NEW sub \in Graphs
    PROVE  \A n \in 1..(MaxDepth + 1) :
              Visit(sub)[n] = [walk \in Walks |-> [d \in Dirs |-> Call(sub, n, Visit(sub)[n + 1], walk, d)]]
<1> DEFINE top == [walk \in Walks |-> [d \in Dirs |-> [walk EXCEPT !.cut = TRUE]]]
           At(n, below) == [walk \in Walks |-> [d \in Dirs |-> Call(sub, n, below, walk, d)]]
           step == [m \in 1..MaxDepth |-> [below \in Calls |-> At((MaxDepth + 1) - m, below)]]
           Is(visit) == visit = [n \in 1..(MaxDepth + 1) |->
                                    [walk \in Walks |-> [d \in Dirs |-> Call(sub, n, visit[n + 1], walk, d)]]]
<1>1. MaxDepth \in Nat
  BY BoundAssumption
<1>2. top \in Calls
  <2>1. \A walk \in Walks : [walk EXCEPT !.cut = TRUE] \in Walks
    BY DEF Walks
  <2>2. QED
    BY <2>1 DEF Calls
<1>3. \A n : \A below \in Calls : At(n, below) \in Calls
  BY CallType DEF Calls
<1>4. \A below : At(MaxDepth + 1, below) = top
  BY TooDeepCall
<1> HIDE DEF top, At
<1>5. step \in Steps(MaxDepth, Calls)
  BY <1>3 DEF Steps
<1>6. \A m \in 1..MaxDepth : \A below \in Calls : step[m][below] = At((MaxDepth + 1) - m, below)
  OBVIOUS
<1> HIDE DEF step
<1>7. PICK f : Iterates(f, MaxDepth, Calls, top, step)
  BY <1>1, <1>2, <1>5, Iteration
<1>8. /\ f \in [0..MaxDepth -> Calls] /\ f[0] = top
      /\ \A m \in 1..MaxDepth : f[m] = step[m][f[m - 1]]
  BY <1>7 DEF Iterates
<1> DEFINE visit == [n \in 1..(MaxDepth + 1) |-> f[(MaxDepth + 1) - n]]
<1>9. ASSUME NEW n \in 1..(MaxDepth + 1) PROVE f[(MaxDepth + 1) - n] = At(n, visit[n + 1])
  <2>1. CASE n = MaxDepth + 1
    <3>1. (MaxDepth + 1) - n = 0
      BY <1>1, <2>1
    <3>2. QED
      BY <1>4, <1>8, <2>1, <3>1
  <2>2. CASE n # MaxDepth + 1
    <3> DEFINE m == (MaxDepth + 1) - n
    <3>1. m \in 1..MaxDepth /\ m - 1 \in 0..MaxDepth /\ (MaxDepth + 1) - m = n /\ n + 1 \in 1..(MaxDepth + 1)
          /\ (MaxDepth + 1) - (n + 1) = m - 1
      BY <1>1, <2>2
    <3> HIDE DEF m
    <3>2. visit[n + 1] = f[m - 1]
      BY <3>1
    <3>3. f[m] = At((MaxDepth + 1) - m, f[m - 1])
      BY <1>6, <1>8, <3>1
    <3>4. f[m] = At(n, visit[n + 1])
      BY <3>1, <3>2, <3>3
    <3>5. QED
      BY <3>4 DEF m
  <2>3. QED
    BY <2>1, <2>2
<1>10. \A n \in 1..(MaxDepth + 1) : visit[n] = f[(MaxDepth + 1) - n]
  OBVIOUS
<1>11. visit = [n \in 1..(MaxDepth + 1) |-> visit[n]]
  OBVIOUS
<1> HIDE DEF visit
<1>12. \A n \in 1..(MaxDepth + 1) : visit[n] = At(n, visit[n + 1])
  BY <1>9, <1>10
<1>13. visit = [n \in 1..(MaxDepth + 1) |-> At(n, visit[n + 1])]
  BY <1>11, <1>12
<1>14. Is(visit)
  BY <1>13 DEF At
<1>15. Is(Visit(sub))
  BY <1>14 DEF Visit
<1> DEFINE v == Visit(sub)
<1> HIDE DEF v
<1>16. Is(v)
  BY <1>15 DEF v
<1>17. \A n \in 1..(MaxDepth + 1) :
          v[n] = [walk \in Walks |-> [d \in Dirs |-> Call(sub, n, v[n + 1], walk, d)]]
  BY <1>16
<1>18. QED
  BY <1>17 DEF v

LEMMA LevelsSteps ==
    ASSUME NEW sub \in Graphs, NEW roots \in Seq(Dirs)
    PROVE  /\ Levels(sub, roots) \in [1..MaxDepth -> SUBSET Dirs]
           /\ Levels(sub, roots)[1] = Range(roots)
           /\ \A n \in 1..MaxDepth : n # 1 =>
                 Levels(sub, roots)[n] = Levels(sub, roots)[n - 1] \union UNION {sub[d] : d \in Levels(sub, roots)[n - 1]}
<1> DEFINE S == SUBSET Dirs
           Next(A) == A \union UNION {sub[d] : d \in A}
           step == [m \in 1..MaxDepth |-> [A \in S |-> IF m = 1 THEN Range(roots) ELSE Next(A)]]
           Is(level) == level = [n \in 1..MaxDepth |-> IF n = 1 THEN Range(roots) ELSE
                                   level[n - 1] \union UNION {sub[d] : d \in level[n - 1]}]
<1>1. MaxDepth \in Nat /\ 1 \in 1..MaxDepth
  BY BoundAssumption
<1>2. Range(roots) \in S
  <2>1. DOMAIN roots = 1..Len(roots) /\ \A k \in 1..Len(roots) : roots[k] \in Dirs
    BY ElementOfSeq, LenProperties
  <2>2. QED
    BY <2>1 DEF Range
<1>3. \A A \in S : Next(A) \in S
  BY DEF Graphs
<1>4. step \in Steps(MaxDepth, S)
  BY <1>2, <1>3 DEF Steps
<1>5. \A m \in 1..MaxDepth : \A A \in S : step[m][A] = IF m = 1 THEN Range(roots) ELSE Next(A)
  OBVIOUS
<1>6. {} \in S
  OBVIOUS
<1> HIDE DEF S, step, Next
<1>7. PICK f : Iterates(f, MaxDepth, S, {}, step)
  BY <1>1, <1>4, <1>6, Iteration
<1>8. f \in [0..MaxDepth -> S] /\ \A m \in 1..MaxDepth : f[m] = step[m][f[m - 1]]
  BY <1>7 DEF Iterates
<1> DEFINE level == [n \in 1..MaxDepth |-> f[n]]
<1>9. \A n \in 1..MaxDepth : level[n] = f[n]
  OBVIOUS
<1>10. level = [n \in 1..MaxDepth |-> level[n]]
  OBVIOUS
<1> HIDE DEF level
<1>11. ASSUME NEW n \in 1..MaxDepth PROVE level[n] \in S /\ level[n] = IF n = 1 THEN Range(roots) ELSE Next(level[n - 1])
  <2>1. n \in 0..MaxDepth /\ n - 1 \in 0..MaxDepth /\ (n # 1 => n - 1 \in 1..MaxDepth)
    BY <1>1
  <2>2. QED
    BY <1>5, <1>8, <1>9, <2>1
<1>12. Is(level)
  BY <1>10, <1>11 DEF Next
<1>13. Is(Levels(sub, roots))
  BY <1>12 DEF Levels
<1> DEFINE within == Levels(sub, roots)
<1> HIDE DEF within
<1>14. Is(within)
  BY <1>13 DEF within
<1>15. \A n \in 1..MaxDepth : within[n] = IF n = 1 THEN Range(roots) ELSE Next(within[n - 1])
  BY <1>14 DEF Next
<1> DEFINE Right == {k \in Nat : k \in 1..MaxDepth => within[k] \in S}
<1>16. 0 \in Right
  OBVIOUS
<1>17. ASSUME NEW k \in Nat, k \in Right PROVE k + 1 \in Right
  <2>1. SUFFICES ASSUME k + 1 \in 1..MaxDepth PROVE within[k + 1] \in S
    OBVIOUS
  <2>2. CASE k = 0
    BY <1>2, <1>15, <2>1, <2>2
  <2>3. CASE k # 0
    <3>1. k \in 1..MaxDepth /\ (k + 1) - 1 = k /\ k + 1 # 1
      BY <1>1, <2>1, <2>3
    <3>2. within[k] \in S /\ within[k + 1] = Next(within[k])
      BY <1>15, <1>17, <2>1, <3>1
    <3>3. QED
      BY <1>3, <3>2 DEF S
  <2>4. QED
    BY <2>2, <2>3
<1> HIDE DEF Right
<1>18. Nat \subseteq Right
  BY <1>16, <1>17, Induction
<1>19. \A n \in 1..MaxDepth : within[n] \in S
  BY <1>18 DEF Right
<1>20. within = [n \in 1..MaxDepth |-> within[n]]
  BY <1>14
<1>21. within \in [1..MaxDepth -> S]
  BY <1>19, <1>20
<1>22. QED
  BY <1>1, <1>15, <1>21 DEF within, S, Next

(* A level holds the ones before it. *)
LEMMA LevelsGrow ==
    ASSUME NEW sub \in Graphs, NEW roots \in Seq(Dirs), NEW n \in 1..MaxDepth
    PROVE  Levels(sub, roots)[n] \subseteq Within(sub, roots)
<1> DEFINE within == Levels(sub, roots)
           Right == {k \in Nat : n + k <= MaxDepth => within[n] \subseteq within[n + k]}
<1>1. MaxDepth \in Nat /\ n \in Nat /\ \A m \in 1..MaxDepth : m # 1 => within[m - 1] \subseteq within[m]
  BY BoundAssumption, LevelsSteps
<1> HIDE DEF within
<1>2. 0 \in Right
  OBVIOUS
<1>3. ASSUME NEW k \in Nat, k \in Right PROVE k + 1 \in Right
  <2>1. SUFFICES ASSUME n + (k + 1) <= MaxDepth PROVE within[n] \subseteq within[n + (k + 1)]
    OBVIOUS
  <2>2. n + (k + 1) \in 1..MaxDepth /\ n + (k + 1) # 1 /\ (n + (k + 1)) - 1 = n + k /\ n + k <= MaxDepth
    BY <1>1, <2>1
  <2>3. within[n + k] \subseteq within[n + (k + 1)]
    BY <1>1, <2>2
  <2>4. QED
    BY <1>3, <2>2, <2>3
<1> HIDE DEF Right
<1>4. Nat \subseteq Right
  BY <1>2, <1>3, Induction
<1>5. MaxDepth - n \in Nat /\ n + (MaxDepth - n) = MaxDepth
  BY <1>1
<1>6. within[n] \subseteq within[MaxDepth]
  <2>1. MaxDepth - n \in Right /\ MaxDepth <= MaxDepth
    BY <1>1, <1>4, <1>5
  <2>2. QED
    BY <1>5, <2>1 DEF Right
<1>7. QED
  BY <1>6 DEF within, Within

(* Calls at depth n: allowed are the directories of that level, and beyond *)
(* the last level, where a call does nothing, all.                         *)
Allowed(sub, roots, n) == IF n <= MaxDepth THEN Levels(sub, roots)[n] ELSE Dirs

LEMMA GoodAtTheTop ==
    ASSUME NEW sub \in Graphs, NEW allowed, NEW bound
    PROVE  Visit(sub)[MaxDepth + 1] \in Calls /\ GoodCall(sub, Visit(sub)[MaxDepth + 1], allowed, bound)
<1> DEFINE call == Visit(sub)[MaxDepth + 1]
<1>1. MaxDepth + 1 \in 1..(MaxDepth + 1)
  BY BoundAssumption
<1>2. call = [walk \in Walks |-> [d \in Dirs |-> Call(sub, MaxDepth + 1, Visit(sub)[(MaxDepth + 1) + 1], walk, d)]]
  BY <1>1, VisitSteps
<1> HIDE DEF call
<1>3. \A walk \in Walks : /\ [walk EXCEPT !.cut = TRUE] \in Walks
                          /\ [walk EXCEPT !.cut = TRUE].seen = walk.seen
                          /\ [walk EXCEPT !.cut = TRUE].cut
  BY DEF Walks
<1>4. call = [walk \in Walks |-> [d \in Dirs |-> [walk EXCEPT !.cut = TRUE]]]
  BY <1>2, TooDeepCall
<1>5. \A walk \in Walks, d \in Dirs : call[walk][d] = [walk EXCEPT !.cut = TRUE]
  BY <1>4
<1>6. call \in Calls
  BY <1>3, <1>4 DEF Calls
<1>7. ASSUME NEW walk \in Walks, NEW d \in Dirs PROVE Adds(sub, walk, call[walk][d], d, allowed, bound)
  BY <1>3, <1>5 DEF Adds, Grown
<1>8. QED
  BY <1>6, <1>7 DEF GoodCall, call

(* A call that goes on below adds its directory and what is below it.      *)
LEMMA CallAdds ==
    ASSUME NEW sub \in Graphs, NEW n, ~ TooDeep(n), NEW below \in Calls, NEW walk \in Walks, NEW d \in Dirs,
           NEW allowed, NEW further, NEW bound, GoodCall(sub, below, further, bound),
           allowed \subseteq bound, d \in allowed => sub[d] \subseteq further
    PROVE  Adds(sub, walk, Call(sub, n, below, walk, d), d, allowed, bound)
<1>1. walk.seen \in SUBSET Dirs /\ walk.cut \in BOOLEAN
  BY DEF Walks
<1>2. CASE d \in walk.seen
  <2>1. Call(sub, n, below, walk, d) = walk
    BY <1>2 DEF Call
  <2>2. QED
    BY <1>2, <2>1 DEF Adds, Grown
<1>3. CASE d \notin walk.seen
  <2> DEFINE start == [walk EXCEPT !.seen = @ \union {d}]
             v == Each(below, start, ByName, sub[d])[Len(ByName)]
  <2>1. start \in Walks /\ start.seen = walk.seen \union {d} /\ start.cut = walk.cut
    BY <1>1 DEF Walks
  <2>2. Call(sub, n, below, walk, d) = v
    BY <1>3, ByNameFacts DEF Call
  <2>3. /\ Len(ByName) \in Nat /\ \A k \in 1..Len(ByName) : ByName[k] \in Dirs
        /\ \A e \in Dirs : e \in 1..Len(ByName) /\ ByName[e] = e
    BY ByNameFacts DEF Dirs
  <2>4. sub[d] \subseteq Dirs
    BY DEF Graphs
  <2> HIDE DEF start
  <2>5. v = Each(below, start, ByName, sub[d])[Len(ByName)]
    OBVIOUS
  <2> HIDE DEF v
  <2>6. AddsEach(sub, start, v, ByName, sub[d], further, bound)
    BY <2>1, <2>3, <2>5, EachAdds
  <2>7. d \in allowed => v.seen \ start.seen \subseteq bound
    BY <2>6 DEF AddsEach
  <2>8. ~ v.cut => sub[d] \subseteq v.seen
    BY <2>3, <2>4, <2>6 DEF AddsEach
  <2>9. QED
    BY <2>1, <2>2, <2>6, <2>7, <2>8 DEF Adds, Grown, AddsEach
<1>4. QED
  BY <1>2, <1>3

LEMMA GoodAtEveryDepth ==
    ASSUME NEW sub \in Graphs, NEW roots \in Seq(Dirs)
    PROVE  /\ Visit(sub)[1] \in Calls
           /\ GoodCall(sub, Visit(sub)[1], Levels(sub, roots)[1], Within(sub, roots))
<1> DEFINE D == MaxDepth
           within == Levels(sub, roots)
           bound == Within(sub, roots)
           allowed(n) == Allowed(sub, roots, n)
           visit == Visit(sub)
           Fine(n) == visit[n] \in Calls /\ GoodCall(sub, visit[n], allowed(n), bound)
           Right == {k \in Nat : k <= D => Fine((D + 1) - k)}
<1>1. D \in Nat /\ D > 0
  BY BoundAssumption
<1>2. 0 \in Right
  <2>1. (D + 1) - 0 = D + 1
    BY <1>1
  <2>2. QED
    BY <2>1, GoodAtTheTop
<1>3. ASSUME NEW k \in Nat, k \in Right PROVE k + 1 \in Right
  <2>1. SUFFICES ASSUME k + 1 <= D PROVE Fine((D + 1) - (k + 1))
    OBVIOUS
  <2> DEFINE n == (D + 1) - (k + 1)
  <2>2. n \in 1..D /\ n \in 1..(D + 1) /\ (D + 1) - k = n + 1 /\ k <= D
    BY <1>1, <2>1
  <2> HIDE DEF n
  <2>3. Fine(n + 1)
    BY <1>3, <2>2
  <2>4. visit[n] = [walk \in Walks |-> [d \in Dirs |-> Call(sub, n, visit[n + 1], walk, d)]]
    BY <2>2, VisitSteps
  <2>5. ~ TooDeep(n) /\ allowed(n) = within[n]
    BY <1>1, <2>2 DEF TooDeep, Allowed
  <2>6. within[n] \subseteq bound
    BY <2>2, LevelsGrow
  <2>7. \A d \in within[n] : sub[d] \subseteq allowed(n + 1)
    <3>1. CASE n = D
      <4>1. ~ (n + 1 <= D)
        BY <1>1, <3>1
      <4>2. within[n] \subseteq Dirs
        BY <2>2, LevelsSteps
      <4>3. QED
        BY <4>1, <4>2 DEF Allowed, Graphs
    <3>2. CASE n # D
      <4>1. n + 1 \in 1..D /\ n + 1 # 1 /\ (n + 1) - 1 = n /\ n + 1 <= D
        BY <1>1, <2>2, <3>2
      <4>2. within[n + 1] = within[n] \union UNION {sub[d] : d \in within[n]}
        BY <4>1, LevelsSteps
      <4>3. QED
        BY <4>1, <4>2 DEF Allowed
    <3>3. QED
      BY <3>1, <3>2
  <2> HIDE DEF visit, within, bound, allowed
  <2>8. \A walk \in Walks, d \in Dirs : Call(sub, n, visit[n + 1], walk, d) \in Walks
    BY <2>3, CallType
  <2>9. visit[n] \in Calls
    BY <2>4, <2>8 DEF Calls
  <2>10. ASSUME NEW walk \in Walks, NEW d \in Dirs PROVE Adds(sub, walk, visit[n][walk][d], d, allowed(n), bound)
    <3>1. visit[n][walk][d] = Call(sub, n, visit[n + 1], walk, d)
      BY <2>4
    <3>2. Adds(sub, walk, Call(sub, n, visit[n + 1], walk, d), d, allowed(n), bound)
      BY <2>3, <2>5, <2>6, <2>7, CallAdds
    <3>3. QED
      BY <3>1, <3>2
  <2>11. GoodCall(sub, visit[n], allowed(n), bound)
    BY <2>10 DEF GoodCall
  <2>12. QED
    BY <2>9, <2>11 DEF n
<1> HIDE DEF Right
<1>4. Nat \subseteq Right
  BY <1>2, <1>3, Induction
<1>5. Fine(1)
  <2>1. (D + 1) - D = 1 /\ D <= D
    BY <1>1
  <2>2. Fine((D + 1) - D)
    BY <1>1, <1>4, <2>1 DEF Right
  <2>3. QED
    BY <2>1, <2>2
<1>6. QED
  BY <1>1, <1>5 DEF Allowed

(* Directories that are closed under sub and hold the configured ones hold *)
(* every level.                                                            *)
LEMMA ClosedHoldsLevels ==
    ASSUME NEW sub \in Graphs, NEW roots \in Seq(Dirs), NEW A, Range(roots) \subseteq A,
           \A d \in A : sub[d] \subseteq A
    PROVE  Within(sub, roots) \subseteq A
<1> DEFINE within == Levels(sub, roots)
           Right == {k \in Nat : k + 1 <= MaxDepth => within[k + 1] \subseteq A}
<1>1. MaxDepth \in Nat /\ MaxDepth > 0
  BY BoundAssumption
<1>2. /\ within[1] = Range(roots)
      /\ \A n \in 1..MaxDepth : n # 1 => within[n] = within[n - 1] \union UNION {sub[d] : d \in within[n - 1]}
  BY LevelsSteps
<1> HIDE DEF within
<1>3. 0 \in Right
  BY <1>2
<1>4. ASSUME NEW k \in Nat, k \in Right PROVE k + 1 \in Right
  <2> DEFINE n == k + 1
  <2>1. SUFFICES ASSUME n + 1 <= MaxDepth PROVE within[n + 1] \subseteq A
    OBVIOUS
  <2>2. n + 1 \in 1..MaxDepth /\ n + 1 # 1 /\ (n + 1) - 1 = n /\ n <= MaxDepth
    BY <1>1, <2>1
  <2>3. within[n] \subseteq A
    BY <1>4, <2>2
  <2> HIDE DEF n
  <2>4. within[n + 1] = within[n] \union UNION {sub[d] : d \in within[n]}
    BY <1>2, <2>2
  <2>5. QED
    BY <2>3, <2>4
<1> HIDE DEF Right
<1>5. Nat \subseteq Right
  BY <1>3, <1>4, Induction
<1>6. within[MaxDepth] \subseteq A
  <2>1. MaxDepth - 1 \in Nat /\ (MaxDepth - 1) + 1 = MaxDepth
    BY <1>1
  <2>2. MaxDepth - 1 \in Right
    BY <1>5, <2>1
  <2>3. QED
    BY <1>1, <2>1, <2>2 DEF Right
<1>7. QED
  BY <1>6 DEF Within, within

(* Whatever the directories and the symlinks between them, the scan enters *)
(* none that is not within reach, and unless a path was cut for its depth  *)
(* it enters every one that is, through cycles and repeated directories,   *)
(* for every depth that is configured (walkDirRecursive of scanner.go).    *)
LEMMA ScanFindsAll ==
    ASSUME NEW sub \in Graphs, NEW roots \in Seq(Dirs)
    PROVE  FindsAll(sub, roots)
<1> DEFINE none == [seen |-> {}, cut |-> FALSE]
           v == Walk(sub, roots)
<1>1. none \in Walks /\ none.seen = {} /\ ~ none.cut
  BY DEF Walks
<1>2. /\ Len(roots) \in Nat /\ DOMAIN roots = 1..Len(roots)
      /\ \A k \in 1..Len(roots) : roots[k] \in Dirs
  BY ElementOfSeq, LenProperties
<1>3. Levels(sub, roots)[1] = Range(roots)
  BY LevelsSteps
<1>4. \A k \in 1..Len(roots) : roots[k] \in Dirs => roots[k] \in Levels(sub, roots)[1]
  BY <1>2, <1>3 DEF Range
<1>5. v = Each(Visit(sub)[1], none, roots, Dirs)[Len(roots)]
  BY DEF Walk
<1> HIDE DEF none, v
<1>6. AddsEach(sub, none, v, roots, Dirs, Levels(sub, roots)[1], Within(sub, roots))
  <2>1. /\ Visit(sub)[1] \in Calls
        /\ GoodCall(sub, Visit(sub)[1], Levels(sub, roots)[1], Within(sub, roots))
    BY GoodAtEveryDepth
  <2>2. QED
    BY <1>1, <1>2, <1>5, <2>1, EachAdds
<1>7. v.seen \subseteq Within(sub, roots)
  BY <1>1, <1>4, <1>6 DEF AddsEach
<1>8. ASSUME ~ v.cut PROVE Within(sub, roots) \subseteq v.seen
  <2>1. Range(roots) \subseteq v.seen
    BY <1>2, <1>6, <1>8 DEF Range, AddsEach
  <2>2. \A d \in v.seen : sub[d] \subseteq v.seen
    BY <1>1, <1>6, <1>8 DEF Grown, AddsEach
  <2>3. QED
    BY <2>1, <2>2, ClosedHoldsLevels
<1>9. QED
  BY <1>7, <1>8 DEF FindsAll, v

------------------------------------------------------------------------------
(* Sequences put together. *)

(* F holds the sequences of seqs put together, from none to all. *)
IsFlat(F, seqs, Token) ==
    /\ F \in [0..Len(seqs) -> Seq(Token)] /\ F[0] = <<>>
    /\ \A j \in 1..Len(seqs) : F[j] = F[j - 1] \o seqs[j]

LEMMA FlatExists ==
    ASSUME NEW Token, NEW seqs \in Seq(Seq(Token))
    PROVE  \E F : IsFlat(F, seqs, Token)
<1> DEFINE n == Len(seqs)
           S == Seq(Token)
           step == [j \in 1..n |-> [s \in S |-> s \o seqs[j]]]
<1>1. n \in Nat /\ \A j \in 1..n : seqs[j] \in S
  BY ElementOfSeq, LenProperties
<1>2. \A j \in 1..n : \A s \in S : s \o seqs[j] \in S
  BY <1>1, ConcatProperties
<1>3. step \in Steps(n, S)
  BY <1>2 DEF Steps
<1>4. \A j \in 1..n : \A s \in S : step[j][s] = s \o seqs[j]
  OBVIOUS
<1>5. <<>> \in S
  OBVIOUS
<1> HIDE DEF n, S, step
<1>6. PICK F : Iterates(F, n, S, <<>>, step)
  BY <1>1, <1>3, <1>5, Iteration
<1>7. F \in [0..n -> S] /\ F[0] = <<>> /\ \A j \in 1..n : F[j] = step[j][F[j - 1]]
  BY <1>6 DEF Iterates
<1>8. ASSUME NEW j \in 1..n PROVE F[j] = F[j - 1] \o seqs[j]
  <2>1. j - 1 \in 0..n
    BY <1>1
  <2>2. QED
    BY <1>4, <1>7, <2>1
<1>9. QED
  BY <1>7, <1>8 DEF IsFlat, n, S

LEMMA FlattenIsFlat ==
    ASSUME NEW Token, NEW seqs \in Seq(Seq(Token)), NEW F, IsFlat(F, seqs, Token)
    PROVE  FlattenSeq(seqs) = F[Len(seqs)]
<1> DEFINE n == Len(seqs)
           Is(flatten) == flatten = [i \in 1..n |-> IF i = 1 THEN seqs[i] ELSE flatten[i - 1] \o seqs[i]]
<1>1. n \in Nat /\ \A j \in 1..n : seqs[j] \in Seq(Token)
  BY ElementOfSeq, LenProperties
<1>2. F \in [0..n -> Seq(Token)] /\ F[0] = <<>> /\ \A j \in 1..n : F[j] = F[j - 1] \o seqs[j]
  BY DEF IsFlat
<1>3. CASE n = 0
  <2>1. seqs = <<>>
    BY <1>3, EmptySeq
  <2>2. QED
    BY <1>2, <1>3, <2>1 DEF FlattenSeq
<1>4. CASE n # 0
  <2> DEFINE G == [i \in 1..n |-> F[i]]
  <2> HIDE DEF n
  <2>1. F[1] = seqs[1]
    <3>1. 1 \in 1..n /\ 1 - 1 = 0
      BY <1>1, <1>4
    <3>2. F[1] = <<>> \o seqs[1] /\ seqs[1] \in Seq(Token)
      BY <1>1, <1>2, <3>1
    <3>3. QED
      BY <3>2, ConcatEmptySeq
  <2>2. \A i \in 1..n : G[i] = F[i]
    OBVIOUS
  <2>3. G = [i \in 1..n |-> G[i]]
    OBVIOUS
  <2> HIDE DEF G
  <2>4. ASSUME NEW i \in 1..n PROVE G[i] = IF i = 1 THEN seqs[i] ELSE G[i - 1] \o seqs[i]
    <3>1. i # 1 => i - 1 \in 1..n
      BY <1>1
    <3>2. QED
      BY <1>2, <2>1, <2>2, <3>1
  <2>5. Is(G)
    BY <2>3, <2>4
  <2> DEFINE flat == CHOOSE flatten : Is(flatten)
  <2>6. Is(flat)
    BY <2>5
  <2>7. FlattenSeq(seqs) = flat[n]
    BY <1>4 DEF FlattenSeq, n
  <2> HIDE DEF flat
  <2>8. \A i \in 1..n : flat[i] = IF i = 1 THEN seqs[i] ELSE flat[i - 1] \o seqs[i]
    BY <2>6
  <2> DEFINE Right == {k \in Nat : k + 1 <= n => flat[k + 1] = F[k + 1]}
  <2>9. 0 \in Right
    <3>1. 1 <= n => 1 \in 1..n
      BY <1>1
    <3>2. QED
      BY <2>1, <2>8, <3>1
  <2>10. ASSUME NEW k \in Nat, k \in Right PROVE k + 1 \in Right
    <3>1. SUFFICES ASSUME (k + 1) + 1 <= n PROVE flat[(k + 1) + 1] = F[(k + 1) + 1]
      OBVIOUS
    <3> DEFINE i == (k + 1) + 1
    <3>2. i \in 1..n /\ i # 1 /\ i - 1 = k + 1 /\ k + 1 <= n
      BY <1>1, <3>1
    <3>3. flat[k + 1] = F[k + 1]
      BY <2>10, <3>2
    <3> HIDE DEF i
    <3>4. flat[i - 1] = F[i - 1]
      BY <3>2, <3>3
    <3>5. flat[i] = flat[i - 1] \o seqs[i] /\ F[i] = F[i - 1] \o seqs[i]
      BY <1>2, <2>8, <3>2
    <3>6. flat[i] = F[i]
      BY <3>4, <3>5
    <3>7. QED
      BY <3>6 DEF i
  <2> HIDE DEF Right
  <2>11. Nat \subseteq Right
    BY <2>9, <2>10, Induction
  <2>12. flat[n] = F[n]
    <3>1. n - 1 \in Nat /\ (n - 1) + 1 = n
      BY <1>1, <1>4
    <3>2. n - 1 \in Right
      BY <2>11, <3>1
    <3>3. QED
      BY <1>1, <3>1, <3>2 DEF Right
  <2>13. QED
    BY <2>7, <2>12 DEF n
<1>5. QED
  BY <1>3, <1>4

(* What is put together stays when more follows. *)
LEMMA FlatPrefix ==
    ASSUME NEW Token, NEW seqs \in Seq(Seq(Token)), NEW F, IsFlat(F, seqs, Token),
           NEW i \in 0..Len(seqs)
    PROVE  /\ Len(F[i]) \in Nat /\ Len(F[Len(seqs)]) \in Nat /\ Len(F[i]) <= Len(F[Len(seqs)])
           /\ \A q \in 1..Len(F[i]) : F[Len(seqs)][q] = F[i][q]
<1> DEFINE n == Len(seqs)
           Holds(j) == Len(F[i]) <= Len(F[j]) /\ \A q \in 1..Len(F[i]) : F[j][q] = F[i][q]
           Right == {k \in Nat : i + k <= n => Holds(i + k)}
<1>1. n \in Nat /\ \A j \in 1..n : seqs[j] \in Seq(Token)
  BY ElementOfSeq, LenProperties
<1>2. F \in [0..n -> Seq(Token)] /\ \A j \in 1..n : F[j] = F[j - 1] \o seqs[j]
  BY DEF IsFlat
<1>3. \A j \in 0..n : F[j] \in Seq(Token) /\ Len(F[j]) \in Nat
  BY <1>2, LenProperties
<1> HIDE DEF n
<1>4. i \in Nat /\ i <= n /\ i \in 0..n
  BY <1>1 DEF n
<1>5. 0 \in Right
  <2>1. i + 0 = i
    BY <1>4
  <2>2. QED
    BY <1>3, <1>4, <2>1
<1>6. ASSUME NEW k \in Nat, k \in Right PROVE k + 1 \in Right
  <2>1. SUFFICES ASSUME i + (k + 1) <= n PROVE Holds(i + (k + 1))
    OBVIOUS
  <2> DEFINE j == i + (k + 1)
  <2>2. j \in 1..n /\ j \in 0..n /\ j - 1 = i + k /\ j - 1 \in 0..n /\ i + k <= n
    BY <1>1, <1>4, <2>1
  <2>3. Holds(j - 1)
    BY <1>6, <2>2
  <2> HIDE DEF j
  <2>4. F[j] = F[j - 1] \o seqs[j]
    BY <1>2, <2>2
  <2>5. IsJoin(F[j], F[j - 1], seqs[j])
    BY <1>1, <1>3, <2>2, <2>4, Joined
  <2>6. /\ Len(F[i]) \in Nat /\ Len(F[j - 1]) \in Nat /\ Len(F[j - 1]) <= Len(F[j])
        /\ \A q \in 1..Len(F[j - 1]) : F[j][q] = F[j - 1][q]
    <3>1. Len(F[i]) \in Nat
      BY <1>3, <1>4
    <3>2. /\ Len(F[j - 1]) \in Nat /\ Len(seqs[j]) \in Nat /\ Len(F[j]) = Len(F[j - 1]) + Len(seqs[j])
          /\ \A q \in 1..Len(F[j - 1]) : F[j][q] = F[j - 1][q]
      BY <2>5 DEF IsJoin
    <3>3. \A x, y \in Nat : x <= x + y
      OBVIOUS
    <3>4. Len(F[j - 1]) <= Len(F[j])
      BY <3>2, <3>3
    <3>5. QED
      BY <3>1, <3>2, <3>4, Zenon
  <2>7. Len(F[j]) \in Nat
    BY <1>3, <2>2
  <2>8. \A q \in 1..Len(F[i]) : q \in 1..Len(F[j - 1])
    BY <2>3, <2>6
  <2>9. Holds(j)
    BY <2>3, <2>6, <2>7, <2>8
  <2>10. QED
    BY <2>9 DEF j
<1> HIDE DEF Right
<1>7. Nat \subseteq Right
  BY <1>5, <1>6, Induction
<1>8. Holds(n)
  <2>1. n - i \in Nat /\ i + (n - i) = n /\ n <= n
    BY <1>1, <1>4
  <2>2. n - i \in Right
    BY <1>7, <2>1
  <2>3. QED
    BY <2>1, <2>2 DEF Right
<1>9. n \in 0..n
  BY <1>1
<1>10. QED
  BY <1>3, <1>4, <1>8, <1>9 DEF n

LEMMA FlattenAppend ==
    ASSUME NEW Token, NEW seqs \in Seq(Seq(Token)), NEW s \in Seq(Token)
    PROVE  FlattenSeq(Append(seqs, s)) = FlattenSeq(seqs) \o s
<1> DEFINE n == Len(seqs)
           more == Append(seqs, s)
<1>1. /\ n \in Nat /\ more \in Seq(Seq(Token)) /\ Len(more) = n + 1
      /\ more[n + 1] = s /\ \A j \in 1..n : more[j] = seqs[j]
  BY AppendProperties, LenProperties
<1> HIDE DEF more
<1>2. PICK F : IsFlat(F, seqs, Token)
  BY FlatExists
<1>3. FlattenSeq(seqs) = F[n]
  BY <1>2, FlattenIsFlat
<1>4. F \in [0..n -> Seq(Token)] /\ F[0] = <<>> /\ \A j \in 1..n : F[j] = F[j - 1] \o seqs[j]
  BY <1>2 DEF IsFlat
<1> HIDE DEF n
<1>5. F[n] \o s \in Seq(Token)
  BY <1>1, <1>4, ConcatProperties
<1> DEFINE G == [j \in 0..(n + 1) |-> IF j <= n THEN F[j] ELSE F[n] \o s]
<1>6. G \in [0..(n + 1) -> Seq(Token)]
  BY <1>1, <1>4, <1>5
<1>7. \A j \in 0..n : G[j] = F[j]
  BY <1>1
<1>8. G[n + 1] = F[n] \o s
  BY <1>1
<1> HIDE DEF G
<1>9. ASSUME NEW j \in 1..(n + 1) PROVE G[j] = G[j - 1] \o more[j]
  <2>1. CASE j = n + 1
    <3>1. j - 1 = n /\ n \in 0..n
      BY <1>1, <2>1
    <3>2. QED
      BY <1>1, <1>7, <1>8, <2>1, <3>1
  <2>2. CASE j # n + 1
    <3>1. j \in 1..n /\ j \in 0..n /\ j - 1 \in 0..n
      BY <1>1, <2>2
    <3>2. QED
      BY <1>1, <1>4, <1>7, <3>1
  <2>3. QED
    BY <2>1, <2>2
<1>10. G[0] = <<>>
  BY <1>1, <1>4, <1>7
<1>11. IsFlat(G, more, Token)
  BY <1>1, <1>6, <1>9, <1>10 DEF IsFlat
<1>12. FlattenSeq(more) = G[n + 1]
  BY <1>1, <1>11, FlattenIsFlat
<1>13. QED
  BY <1>3, <1>8, <1>12 DEF more

------------------------------------------------------------------------------
(* The merge of an override into the options of a profile. *)

MergeState(Token) == [out : Seq(Token), used : BOOLEAN, skip : BOOLEAN]

LEMMA MergeTurnType ==
    ASSUME NEW Token, NEW args \in Seq(Token), NEW override, Valued(override) \in Seq(Token),
           NEW turn \in MergeState(Token), NEW k \in 1..Len(args)
    PROVE  MergeTurn(args, override, turn, k) \in MergeState(Token)
<1>1. args[k] \in Token
  BY ElementOfSeq
<1>2. turn.out \in Seq(Token) /\ turn.used \in BOOLEAN /\ turn.skip \in BOOLEAN
  BY DEF MergeState
<1>3. CASE turn.skip
  BY <1>2, <1>3 DEF MergeTurn, MergeState
<1>4. CASE ~ turn.skip /\ args[k] = override[1]
  <2>1. turn.out \o Valued(override) \in Seq(Token)
    BY <1>2, ConcatProperties
  <2>2. HasValue(args, k) \in BOOLEAN
    BY DEF HasValue
  <2>3. QED
    BY <1>4, <2>1, <2>2 DEF MergeTurn, MergeState
<1>5. CASE ~ turn.skip /\ args[k] # override[1]
  <2>1. Append(turn.out, args[k]) \in Seq(Token)
    BY <1>1, <1>2, AppendProperties
  <2>2. QED
    BY <1>2, <1>5, <2>1 DEF MergeTurn, MergeState
<1>6. QED
  BY <1>2, <1>3, <1>4, <1>5

LEMMA MergeSteps ==
    ASSUME NEW Token, NEW args \in Seq(Token), NEW override, Valued(override) \in Seq(Token)
    PROVE  /\ MergeTurns(args, override)[0] = [out |-> <<>>, used |-> FALSE, skip |-> FALSE]
           /\ \A k \in 1..Len(args) :
                 MergeTurns(args, override)[k] = MergeTurn(args, override, MergeTurns(args, override)[k - 1], k)
           /\ MergeTurns(args, override)[Len(args)] \in MergeState(Token)
<1> DEFINE n == Len(args)
           S == MergeState(Token)
           start == [out |-> <<>>, used |-> FALSE, skip |-> FALSE]
           step == [k \in 1..n |-> [turn \in S |-> MergeTurn(args, override, turn, k)]]
           Is(turns) == turns = [k \in 0..n |-> IF k = 0 THEN start ELSE MergeTurn(args, override, turns[k - 1], k)]
<1>1. n \in Nat
  BY LenProperties
<1>2. step \in Steps(n, S)
  BY MergeTurnType DEF Steps
<1>3. start \in S
  BY DEF MergeState
<1>4. \A k \in 1..n : \A turn \in S : step[k][turn] = MergeTurn(args, override, turn, k)
  OBVIOUS
<1>5. \A k \in 0..n : k = 0 \/ k \in 1..n
  OBVIOUS
<1> HIDE DEF step, n, start, S
<1>6. PICK f : Iterates(f, n, S, start, step)
  BY <1>1, <1>2, <1>3, Iteration
<1>7. f \in [0..n -> S] /\ f[0] = start /\ \A k \in 1..n : f[k] = step[k][f[k - 1]]
  BY <1>6 DEF Iterates
<1>8. ASSUME NEW k \in 1..n PROVE f[k] = MergeTurn(args, override, f[k - 1], k)
  <2>1. k - 1 \in 0..n
    BY <1>1
  <2>2. QED
    BY <1>4, <1>7, <2>1
<1>9. \A k \in 0..n : f[k] = IF k = 0 THEN start ELSE MergeTurn(args, override, f[k - 1], k)
  BY <1>5, <1>7, <1>8
<1>10. f = [k \in 0..n |-> f[k]]
  BY <1>7
<1>11. Is(f)
  BY <1>9, <1>10
<1> DEFINE turns == MergeTurns(args, override)
<1>12. Is(turns)
  BY <1>11 DEF MergeTurns, n, start
<1> HIDE DEF turns
<1>13. turns[0] = start
  BY <1>1, <1>12
<1>14. ASSUME NEW k \in 1..n PROVE turns[k] = MergeTurn(args, override, turns[k - 1], k)
  <2>1. k \in 0..n /\ k # 0
    BY <1>1
  <2>2. QED
    BY <1>12, <2>1
<1> DEFINE Right == {k \in Nat : k <= n => turns[k] \in S}
<1>15. 0 \in Right
  BY <1>3, <1>13
<1>16. ASSUME NEW k \in Nat, k \in Right PROVE k + 1 \in Right
  <2>1. SUFFICES ASSUME k + 1 <= n PROVE turns[k + 1] \in S
    OBVIOUS
  <2>2. k + 1 \in 1..n /\ (k + 1) - 1 = k /\ turns[k] \in S
    BY <1>1, <1>16, <2>1
  <2>3. turns[k + 1] = MergeTurn(args, override, turns[k], k + 1)
    BY <1>14, <2>2
  <2>4. QED
    BY <2>2, <2>3, MergeTurnType DEF S, n
<1> HIDE DEF Right
<1>17. Nat \subseteq Right
  BY <1>15, <1>16, Induction
<1>18. turns[n] \in S
  BY <1>1, <1>17 DEF Right
<1>19. QED
  BY <1>13, <1>14, <1>18 DEF turns, n, start, S

(* An option: a flag, and perhaps a value, which does not begin with a     *)
(* dash.                                                                   *)
IsOption(o, Token) ==
    /\ o \in Seq(Token) /\ Len(o) \in {1, 2} /\ o[1] \in Dashed
    /\ Len(o) = 2 => o[2] \notin Dashed

(* The option o stands in args behind p, and ends at q. *)
Placed(args, p, q, o) ==
    /\ p \in Nat /\ q \in Nat /\ Len(o) \in Nat /\ Len(args) \in Nat
    /\ q = p + Len(o) /\ q <= Len(args)
    /\ \A i \in 1..Len(o) : args[p + i] = o[i]

LEMMA Placing ==
    ASSUME NEW Token, NEW seqs \in Seq(Seq(Token)), NEW F, IsFlat(F, seqs, Token), NEW j \in 1..Len(seqs)
    PROVE  Placed(F[Len(seqs)], Len(F[j - 1]), Len(F[j]), seqs[j])
<1> DEFINE n == Len(seqs)
           args == F[n]
<1>1. n \in Nat /\ seqs[j] \in Seq(Token) /\ Len(seqs[j]) \in Nat
  BY ElementOfSeq, LenProperties
<1>2. F \in [0..n -> Seq(Token)] /\ F[j] = F[j - 1] \o seqs[j]
  BY DEF IsFlat
<1>3. j \in 0..n /\ j - 1 \in 0..n
  BY <1>1
<1>4. IsJoin(F[j], F[j - 1], seqs[j])
  BY <1>1, <1>2, <1>3, Joined
<1>5. /\ Len(F[j]) \in Nat /\ Len(args) \in Nat /\ Len(F[j]) <= Len(args)
      /\ \A q \in 1..Len(F[j]) : args[q] = F[j][q]
  BY <1>3, FlatPrefix
<1> HIDE DEF args, n
<1> DEFINE p == Len(F[j - 1])
           m == Len(seqs[j])
<1>6. p \in Nat /\ m \in Nat /\ Len(F[j]) = p + m /\ \A i \in 1..m : F[j][p + i] = seqs[j][i]
  BY <1>4 DEF IsJoin
<1> HIDE DEF p, m
<1>7. \A i \in 1..m : p + i \in 1..(p + m)
  BY <1>6
<1>8. \A i \in 1..m : args[p + i] = seqs[j][i]
  BY <1>5, <1>6, <1>7
<1>9. QED
  BY <1>5, <1>6, <1>8 DEF Placed, args, n, p, m

LEMMA AppendTwo ==
    ASSUME NEW Token, NEW s \in Seq(Token), NEW a \in Token, NEW b \in Token
    PROVE  Append(Append(s, a), b) = s \o <<a, b>>
<1>1. Append(s, a) \in Seq(Token) /\ <<a>> \in Seq(Token) /\ <<b>> \in Seq(Token)
  BY AppendProperties
<1>2. Append(s, a) = s \o <<a>>
  BY AppendIsConcat
<1>3. Append(Append(s, a), b) = Append(s, a) \o <<b>>
  BY <1>1, AppendIsConcat
<1>4. (s \o <<a>>) \o <<b>> = s \o (<<a>> \o <<b>>)
  BY <1>1, ConcatAssociative
<1>5. <<a>> \o <<b>> = <<a, b>>
  <2>1. <<a, b>> \in Seq(Token) /\ Len(<<a>>) = 1 /\ Len(<<b>>) = 1 /\ Len(<<a, b>>) = 2
    OBVIOUS
  <2>2. <<a>> \o <<b>> \in Seq(Token) /\ Len(<<a>> \o <<b>>) = 2
    BY <1>1, <2>1, ConcatProperties
  <2>3. \A i \in 1..2 : (<<a>> \o <<b>>)[i] = <<a, b>>[i]
    BY <1>1, <2>1, ConcatProperties
  <2>4. QED
    BY <2>1, <2>2, <2>3, SeqEqual
<1>6. QED
  BY <1>2, <1>3, <1>4, <1>5

(* What becomes of an option; and the loop between two options. *)
New(o, override) == IF o[1] = override[1] THEN Valued(override) ELSE o
Between(args, override, p, out, used) ==
    MergeTurns(args, override)[p] = [out |-> out, used |-> used, skip |-> FALSE]
DashNext(args, q) == q < Len(args) => args[q + 1] \in Dashed

(* What two turns or one make of an option. *)
LEMMA MergesOption ==
    ASSUME NEW Token, NEW args \in Seq(Token), NEW override, Valued(override) \in Seq(Token),
           override[1] \in Dashed, NEW p, NEW q, NEW o, IsOption(o, Token), Placed(args, p, q, o),
           DashNext(args, q), NEW out \in Seq(Token), NEW used \in BOOLEAN,
           Between(args, override, p, out, used)
    PROVE  Between(args, override, q, out \o New(o, override), used \/ o[1] = override[1])
<1> DEFINE turns == MergeTurns(args, override)
           n == Len(args)
<1>1. \A k \in 1..n : turns[k] = MergeTurn(args, override, turns[k - 1], k)
  BY MergeSteps
<1> HIDE DEF turns
<1>2. turns[p] = [out |-> out, used |-> used, skip |-> FALSE]
  BY DEF turns, Between
<1>3. /\ p \in Nat /\ q \in Nat /\ n \in Nat /\ q = p + Len(o) /\ q <= n
      /\ \A i \in 1..Len(o) : args[p + i] = o[i]
  BY DEF Placed
<1>4. o \in Seq(Token) /\ Len(o) \in {1, 2} /\ o[1] \in Dashed /\ (Len(o) = 2 => o[2] \notin Dashed)
  BY DEF IsOption
<1>5. p + 1 \in 1..n /\ (p + 1) - 1 = p /\ args[p + 1] = o[1]
  BY <1>3, <1>4
<1>6. turns[p + 1] = MergeTurn(args, override, turns[p], p + 1)
  BY <1>1, <1>5
<1> HIDE DEF n
<1>7. HasValue(args, p + 1) <=> Len(o) = 2
  <2>1. CASE Len(o) = 1
    <3>1. q = p + 1
      BY <1>3, <2>1
    <3>2. QED
      BY <2>1, <3>1 DEF HasValue, DashNext
  <2>2. CASE Len(o) = 2
    <3>1. q = p + 2 /\ p + 1 < n /\ (p + 1) + 1 = p + 2 /\ args[p + 2] = o[2]
      BY <1>3, <2>2
    <3>2. QED
      BY <1>4, <2>2, <3>1 DEF HasValue, n
  <2>3. QED
    BY <1>4, <2>1, <2>2
<1>8. CASE o[1] = override[1]
  <2>1. turns[p + 1] = [out |-> out \o Valued(override), used |-> TRUE, skip |-> HasValue(args, p + 1)]
    BY <1>2, <1>5, <1>6, <1>8 DEF MergeTurn
  <2>2. turns[q] = [out |-> out \o Valued(override), used |-> TRUE, skip |-> FALSE]
    <3>1. CASE Len(o) = 1
      <4>1. q = p + 1
        BY <1>3, <3>1
      <4>2. ~ HasValue(args, p + 1)
        BY <1>7, <3>1
      <4>3. HasValue(args, p + 1) = FALSE
        BY <4>2 DEF HasValue
      <4>4. QED
        BY <2>1, <4>1, <4>3
    <3>2. CASE Len(o) = 2
      <4>1. q = p + 2 /\ q \in 1..n /\ q - 1 = p + 1
        BY <1>3, <3>2
      <4>2. turns[p + 1].skip
        BY <1>7, <2>1, <3>2
      <4>3. turns[q] = MergeTurn(args, override, turns[p + 1], q)
        BY <1>1, <4>1 DEF n
      <4>4. turns[q] = [out |-> turns[p + 1].out, used |-> turns[p + 1].used, skip |-> FALSE]
        BY <4>2, <4>3 DEF MergeTurn
      <4>5. QED
        BY <2>1, <4>4
    <3>3. QED
      BY <1>4, <3>1, <3>2
  <2>3. (used \/ o[1] = override[1]) = TRUE
    BY <1>8
  <2>4. QED
    BY <1>8, <2>2, <2>3 DEF turns, Between, New
<1>9. CASE o[1] # override[1]
  <2>2. turns[p + 1] = [out |-> Append(out, o[1]), used |-> used, skip |-> FALSE]
    BY <1>2, <1>5, <1>6, <1>9 DEF MergeTurn
  <2>3. turns[q] = [out |-> out \o o, used |-> used, skip |-> FALSE]
    <3>1. CASE Len(o) = 1
      <4>1. q = p + 1
        BY <1>3, <3>1
      <4>2. Append(out, o[1]) = out \o o
        <5>1. o = <<o[1]>>
          BY <1>4, <3>1
        <5>2. Append(out, o[1]) = out \o <<o[1]>>
          BY <1>4, <3>1, AppendIsConcat, ElementOfSeq
        <5>3. QED
          BY <5>1, <5>2
      <4>3. QED
        BY <2>2, <4>1, <4>2
    <3>2. CASE Len(o) = 2
      <4>1. q = p + 2 /\ q \in 1..n /\ q - 1 = p + 1 /\ args[q] = o[2]
        BY <1>3, <3>2
      <4>2. turns[q] = MergeTurn(args, override, turns[p + 1], q)
        BY <1>1, <4>1 DEF n
      <4>3. args[q] # override[1]
        BY <1>4, <3>2, <4>1
      <4>5. turns[q] = [out |-> Append(Append(out, o[1]), o[2]), used |-> used, skip |-> FALSE]
        BY <2>2, <4>1, <4>2, <4>3 DEF MergeTurn
      <4>6. Append(Append(out, o[1]), o[2]) = out \o o
        <5>1. o[1] \in Token /\ o[2] \in Token
          <6>1. 1 \in 1..Len(o) /\ 2 \in 1..Len(o)
            BY <3>2
          <6>2. QED
            BY <1>4, <6>1, ElementOfSeq
        <5>2. o = <<o[1], o[2]>>
          BY <1>4, <3>2
        <5>3. Append(Append(out, o[1]), o[2]) = out \o <<o[1], o[2]>>
          BY <5>1, AppendTwo
        <5>4. QED
          BY <5>2, <5>3
      <4>7. QED
        BY <4>5, <4>6
    <3>3. QED
      BY <1>4, <3>1, <3>2
  <2>4. (used \/ o[1] = override[1]) = used
    BY <1>9
  <2>5. QED
    BY <1>9, <2>3, <2>4 DEF turns, Between, New
<1>10. QED
  BY <1>8, <1>9

(* The loop over options put together is the replacement, one by one. *)
LEMMA MergesOptions ==
    ASSUME NEW Token, NEW options \in Seq(Seq(Token)),
           \A k \in 1..Len(options) : IsOption(options[k], Token),
           NEW override, Valued(override) \in Seq(Token), override[1] \in Dashed
    PROVE  LET end == MergeTurns(FlattenSeq(options), override)[Len(FlattenSeq(options))] IN
           /\ FlattenSeq(options) \in Seq(Token) /\ Replaced(options, override) \in Seq(Seq(Token))
           /\ end.out = FlattenSeq(Replaced(options, override))
           /\ end.used <=> \E k \in DOMAIN options : Hits(options, override, k)
<1> DEFINE n == Len(options)
           replaced == Replaced(options, override)
           Hit(j) == \E k \in 1..j : Hits(options, override, k)
<1>1. n \in Nat /\ DOMAIN options = 1..n /\ \A k \in 1..n : options[k] \in Seq(Token)
  BY ElementOfSeq, LenProperties
<1>2. PICK F : IsFlat(F, options, Token)
  BY FlatExists
<1> DEFINE args == F[n]
<1>3. FlattenSeq(options) = args
  BY <1>2, FlattenIsFlat
<1>4. F \in [0..n -> Seq(Token)] /\ F[0] = <<>>
  BY <1>2 DEF IsFlat
<1>5. args \in Seq(Token)
  <2>1. n \in 0..n
    BY <1>1
  <2>2. QED
    BY <1>4, <2>1
<1>6. /\ replaced \in Seq(Seq(Token)) /\ Len(replaced) = n
      /\ \A k \in 1..n : replaced[k] = New(options[k], override)
  <2>1. replaced = [k \in 1..n |-> New(options[k], override)]
    BY <1>1 DEF Replaced, Hits, New
  <2>2. \A k \in 1..n : New(options[k], override) \in Seq(Token)
    BY <1>1 DEF New
  <2> DEFINE S == Seq(Token)
  <2> HIDE DEF replaced, n, S
  <2>3. replaced \in [1..n -> S]
    BY <2>1, <2>2 DEF S
  <2>4. replaced \in Seq(S)
    BY <1>1, <2>3, SeqDef
  <2>5. replaced \in Seq(S) /\ Len(replaced) = n
    BY <1>1, <2>3, <2>4, LenProperties
  <2>6. QED
    BY <2>1, <2>5 DEF S
<1> HIDE DEF replaced
<1>7. PICK G : IsFlat(G, replaced, Token)
  BY <1>6, FlatExists
<1>8. FlattenSeq(replaced) = G[n]
  BY <1>6, <1>7, FlattenIsFlat
<1>9. G \in [0..n -> Seq(Token)] /\ G[0] = <<>> /\ \A j \in 1..n : G[j] = G[j - 1] \o New(options[j], override)
  BY <1>6, <1>7 DEF IsFlat
<1>10. \A j \in 1..n : Placed(args, Len(F[j - 1]), Len(F[j]), options[j])
  BY <1>2, Placing
<1>11. Between(args, override, 0, <<>>, FALSE)
  BY <1>5, MergeSteps DEF Between
<1> HIDE DEF n, args, Hit
<1> DEFINE Right == {j \in Nat : j <= n => Between(args, override, Len(F[j]), G[j], Hit(j))}
<1>12. 0 \in Right
  <2>1. Len(F[0]) = 0
    BY <1>4
  <2>2. Hit(0) = FALSE
    BY DEF Hit
  <2>3. Between(args, override, Len(F[0]), G[0], Hit(0))
    BY <1>9, <1>11, <2>1, <2>2
  <2>4. QED
    BY <2>3
<1>13. ASSUME NEW j \in Nat, j \in Right PROVE j + 1 \in Right
  <2>1. SUFFICES ASSUME j + 1 <= n 
               PROVE  Between(args, override, Len(F[j + 1]), G[j + 1], Hit(j + 1))
    OBVIOUS
  <2>2. j + 1 \in 1..n /\ (j + 1) - 1 = j /\ j \in 0..n /\ j <= n
    BY <1>1, <2>1 DEF n
  <2> DEFINE p == Len(F[j])
             q == Len(F[j + 1])
             o == options[j + 1]
  <2>3. Placed(args, p, q, o) /\ IsOption(o, Token)
    BY <1>10, <2>2 DEF n
  <2>4. DashNext(args, q)
    <3>1. CASE j + 1 = n
      <4>1. q = Len(args) /\ Len(args) \in Nat
        BY <1>5, <3>1, LenProperties DEF args
      <4>2. QED
        BY <4>1 DEF DashNext
    <3>2. CASE j + 1 # n
      <4>1. (j + 1) + 1 \in 1..n /\ ((j + 1) + 1) - 1 = j + 1
        BY <1>1, <2>2, <3>2
      <4>2. /\ Placed(args, q, Len(F[(j + 1) + 1]), options[(j + 1) + 1])
            /\ IsOption(options[(j + 1) + 1], Token)
        BY <1>10, <4>1 DEF n
      <4> HIDE DEF q
      <4>3. 1 \in 1..Len(options[(j + 1) + 1]) /\ options[(j + 1) + 1][1] \in Dashed
        BY <4>2 DEF IsOption
      <4>4. args[q + 1] = options[(j + 1) + 1][1]
        BY <4>2, <4>3 DEF Placed
      <4>5. QED
        BY <4>3, <4>4 DEF DashNext
    <3>3. QED
      BY <3>1, <3>2
  <2> HIDE DEF p, q, o
  <2>5. Between(args, override, p, G[j], Hit(j))
    BY <1>13, <2>2 DEF p
  <2>6. G[j] \in Seq(Token) /\ Hit(j) \in BOOLEAN
    BY <1>9, <2>2 DEF Hit
  <2> DEFINE u == Hit(j)
  <2> HIDE DEF u
  <2>7. u \in BOOLEAN /\ Between(args, override, p, G[j], u)
    BY <2>5, <2>6 DEF u
  <2>8. Between(args, override, q, G[j] \o New(o, override), u \/ o[1] = override[1])
    BY <1>5, <2>3, <2>4, <2>6, <2>7, MergesOption
  <2>9. G[j + 1] = G[j] \o New(o, override)
    BY <1>9, <2>2 DEF o
  <2>10. Hit(j + 1) = (u \/ o[1] = override[1])
    <3>1. Hits(options, override, j + 1) <=> o[1] = override[1]
      BY DEF Hits, o
    <3>2. \A k \in 1..(j + 1) : k \in 1..j \/ k = j + 1
      OBVIOUS
    <3>3. \A k \in 1..j : k \in 1..(j + 1)
      OBVIOUS
    <3>4. j + 1 \in 1..(j + 1)
      OBVIOUS
    <3>5. Hit(j + 1) <=> (u \/ o[1] = override[1])
      BY <3>1, <3>2, <3>3, <3>4 DEF u, Hit
    <3>6. QED
      BY <3>5 DEF Hit, u
  <2>11. QED
    BY <2>8, <2>9, <2>10 DEF q
<1> HIDE DEF Right
<1>14. Nat \subseteq Right
  BY <1>12, <1>13, Induction
<1>15. Between(args, override, Len(args), G[n], Hit(n))
  <2>1. n \in Right /\ n <= n
    BY <1>1, <1>14 DEF n
  <2>2. QED
    BY <2>1 DEF Right, args
<1> DEFINE end == MergeTurns(args, override)[Len(args)]
<1>16. end.out = G[n] /\ end.used = Hit(n)
  BY <1>15 DEF Between
<1>17. QED
  BY <1>1, <1>3, <1>5, <1>6, <1>8, <1>16 DEF n, replaced, Hit

(* Whatever options a profile has, an override changes the value of its    *)
(* flag, wherever it stands, and nothing else, as long as no value begins  *)
(* with a dash (StartServerWithOverrides of supervisor.go).                *)
LEMMA MergeReplaces ==
    ASSUME NEW Token, NEW options \in Seq(Seq(Token)),
           \A k \in 1..Len(options) : IsOption(options[k], Token),
           NEW flag \in Dashed \intersect Token, NEW value \in Token \union {NoValue},
           NEW override \in {<<flag, value>>, NoOverride}
    PROVE  Replaces(options, override)
<1>1. CASE override = NoOverride
  BY <1>1 DEF Replaces, Merge, MergedOptions
<1>2. CASE override = <<flag, value>> /\ override # NoOverride
  <2> DEFINE replaced == Replaced(options, override)
             args == FlattenSeq(options)
             end == MergeTurns(args, override)[Len(args)]
  <2>1. override[1] \in Dashed /\ Valued(override) \in Seq(Token)
    <3>1. override[1] = flag /\ override[2] = value
      BY <1>2
    <3>2. CASE value = NoValue
      BY <3>1, <3>2 DEF Valued
    <3>3. CASE value # NoValue
      <4>1. value \in Token /\ Valued(override) = <<flag, value>>
        BY <1>2, <3>1, <3>3 DEF Valued
      <4>2. QED
        BY <3>1, <4>1
    <3>4. QED
      BY <3>2, <3>3
  <2>2. /\ replaced \in Seq(Seq(Token)) /\ end.out = FlattenSeq(replaced)
        /\ end.used <=> \E k \in DOMAIN options : Hits(options, override, k)
    BY <2>1, MergesOptions
  <2> HIDE DEF replaced, args, end
  <2>3. Merge(args, override) = IF end.used THEN end.out ELSE end.out \o Valued(override)
    BY <1>2 DEF Merge, end
  <2>4. MergedOptions(options, override) =
           IF \E k \in DOMAIN options : Hits(options, override, k) THEN replaced
           ELSE Append(replaced, Valued(override))
    BY <1>2 DEF MergedOptions, replaced
  <2>5. FlattenSeq(Append(replaced, Valued(override))) = FlattenSeq(replaced) \o Valued(override)
    BY <2>1, <2>2, FlattenAppend
  <2>6. Merge(args, override) = FlattenSeq(MergedOptions(options, override))
    <3>1. CASE end.used
      <4>1. Merge(args, override) = FlattenSeq(replaced) /\ MergedOptions(options, override) = replaced
        BY <2>2, <2>3, <2>4, <3>1
      <4>2. QED
        BY <4>1
    <3>2. CASE ~ end.used
      <4>1. Merge(args, override) = end.out \o Valued(override)
        BY <2>3, <3>2
      <4>2. MergedOptions(options, override) = Append(replaced, Valued(override))
        BY <2>2, <2>4, <3>2
      <4>3. QED
        BY <2>2, <2>5, <4>1, <4>2
    <3>3. QED
      BY <3>1, <3>2
  <2>7. QED
    BY <2>6 DEF Replaces, args
<1>3. QED
  BY <1>1, <1>2

LEMMA MergeType ==
    ASSUME NEW Token, NEW args \in Seq(Token), NEW override, Valued(override) \in Seq(Token)
    PROVE  Merge(args, override) \in Seq(Token)
<1> DEFINE end == MergeTurns(args, override)[Len(args)]
<1>1. end \in MergeState(Token)
  BY MergeSteps
<1> HIDE DEF end
<1>2. end.out \in Seq(Token)
  BY <1>1 DEF MergeState
<1>3. end.out \o Valued(override) \in Seq(Token)
  BY <1>2, ConcatProperties
<1>4. QED
  BY <1>2, <1>3 DEF Merge, end

------------------------------------------------------------------------------
(* A translated stream. *)

(* The values at the places in P up to k, in their order.                  *)
Gathered(P, value, k, s) ==
    /\ Len(s) = Counted(P, k)
    /\ \A j \in P : j <= k => Counted(P, j) \in 1..Len(s) /\ s[Counted(P, j)] = value[j]
    /\ \A r \in 1..Len(s) : \E j \in P : j <= k /\ Counted(P, j) = r

LEMMA GatheredStays ==
    ASSUME NEW P, P \subseteq Nat, NEW value, NEW k \in Nat, k + 1 \notin P, NEW s,
           Gathered(P, value, k, s)
    PROVE  Gathered(P, value, k + 1, s)
<1>1. Counted(P, k + 1) = Counted(P, k)
  BY Counting
<1>2. \A j \in P : j <= k + 1 <=> j <= k
  OBVIOUS
<1>3. QED
  BY <1>1, <1>2 DEF Gathered

LEMMA GatheredMoves ==
    ASSUME NEW P, P \subseteq Nat, NEW value, NEW k \in Nat, k + 1 \in P,
           NEW Piece, NEW s \in Seq(Piece), Gathered(P, value, k, s), value[k + 1] \in Piece
    PROVE  Gathered(P, value, k + 1, Append(s, value[k + 1]))
<1> DEFINE n == Len(s)
           t == Append(s, value[k + 1])
<1>1. n \in Nat
  BY LenProperties
<1>2. Len(t) = n + 1 /\ t[n + 1] = value[k + 1] /\ \A i \in 1..n : t[i] = s[i]
  BY AppendProperties
<1>3. n = Counted(P, k) /\ Counted(P, k + 1) = n + 1
  <2>1. n = Counted(P, k)
    BY DEF Gathered
  <2>2. QED
    BY <2>1, Counting
<1> HIDE DEF t, n
<1>4. \A j \in P : j <= k + 1 <=> j <= k \/ j = k + 1
  OBVIOUS
<1>5. \A j \in P : j <= k => Counted(P, j) \in 1..n /\ s[Counted(P, j)] = value[j]
  BY DEF Gathered, n
<1>6. \A r \in 1..n : \E j \in P : j <= k /\ Counted(P, j) = r
  BY DEF Gathered, n
<1>7. ASSUME NEW j \in P, j <= k + 1
      PROVE  Counted(P, j) \in 1..(n + 1) /\ t[Counted(P, j)] = value[j]
  <2>1. CASE j <= k
    BY <1>1, <1>2, <1>5, <2>1
  <2>2. CASE j = k + 1
    BY <1>1, <1>2, <1>3, <2>2
  <2>3. QED
    BY <1>4, <1>7, <2>1, <2>2
<1>8. ASSUME NEW r \in 1..(n + 1) PROVE \E j \in P : j <= k + 1 /\ Counted(P, j) = r
  <2>1. CASE r = n + 1
    BY <1>3, <2>1
  <2>2. CASE r # n + 1
    <3>1. r \in 1..n
      BY <1>1, <2>2
    <3>2. QED
      BY <1>4, <1>6, <3>1
  <2>3. QED
    BY <2>1, <2>2
<1>9. QED
  BY <1>2, <1>3, <1>7, <1>8 DEF Gathered, t

(* What has been gathered up to m is what InOrder gives.                   *)
LEMMA GatheredIs ==
    ASSUME NEW P, P \subseteq Nat \ {0}, NEW value, NEW m \in Nat,
           NEW Piece, NEW s \in Seq(Piece), Gathered(P, value, m, s)
    PROVE  InOrder({k \in P : k <= m}, value) = s
<1> DEFINE Q == {k \in P : k <= m}
           n == Len(s)
           At(r) == CHOOSE k \in Q : Cardinality({j \in Q : j <= k}) = r
<1>1. n \in Nat /\ s = [r \in 1..n |-> s[r]]
  BY LenProperties
<1>2. Cardinality(Q) = n
  <2>1. \A k \in P : k <= m <=> k \in 1..m
    OBVIOUS
  <2>2. Q = P \intersect (1..m)
    BY <2>1
  <2>3. QED
    BY <2>2 DEF Gathered, Counted
<1>3. \A k \in Q : Cardinality({j \in Q : j <= k}) = Counted(P, k)
  <2>1. ASSUME NEW k \in Q PROVE {j \in Q : j <= k} = P \intersect (1..k)
    <3>1. \A j \in P : j \in Q /\ j <= k <=> j \in 1..k
      OBVIOUS
    <3>2. Q \subseteq P
      OBVIOUS
    <3> HIDE DEF Q
    <3>3. QED
      BY <3>1, <3>2
  <2>2. QED
    BY <2>1 DEF Counted
<1>4. \A k \in Q : s[Counted(P, k)] = value[k]
  BY DEF Gathered
<1>5. \A r \in 1..n : \E k \in Q : Counted(P, k) = r
  BY DEF Gathered
<1> HIDE DEF Q, n
<1>6. ASSUME NEW r \in 1..n PROVE value[At(r)] = s[r]
  <2>1. At(r) \in Q /\ Cardinality({j \in Q : j <= At(r)}) = r
    BY <1>3, <1>5
  <2> HIDE DEF At
  <2>2. Counted(P, At(r)) = r
    BY <1>3, <2>1
  <2>3. QED
    BY <1>4, <2>1, <2>2
<1>7. InOrder(Q, value) = [r \in 1..n |-> value[At(r)]]
  BY <1>2 DEF InOrder
<1> HIDE DEF At
<1>8. QED
  BY <1>1, <1>6, <1>7 DEF Q

(* The value at the last place in P up to k.                               *)
LastAmong(P, k, j) == j \in P /\ j <= k /\ \A i \in P : i <= k => i <= j
IsLatest(P, value, none, k, x) ==
    \/ x = none /\ \A j \in P : ~ (j <= k)
    \/ \E j \in P : LastAmong(P, k, j) /\ x = value[j]

LEMMA LatestStays ==
    ASSUME NEW P, P \subseteq Nat, NEW value, NEW none, NEW k \in Nat, k + 1 \notin P, NEW x,
           IsLatest(P, value, none, k, x)
    PROVE  IsLatest(P, value, none, k + 1, x)
<1>1. \A j \in P : j <= k + 1 <=> j <= k
  OBVIOUS
<1>2. \A j : LastAmong(P, k, j) => LastAmong(P, k + 1, j)
  BY <1>1 DEF LastAmong
<1>3. QED
  BY <1>1, <1>2 DEF IsLatest

LEMMA LatestMoves ==
    ASSUME NEW P, P \subseteq Nat, NEW value, NEW none, NEW k \in Nat, k + 1 \in P
    PROVE  IsLatest(P, value, none, k + 1, value[k + 1])
<1>1. LastAmong(P, k + 1, k + 1)
  BY DEF LastAmong
<1>2. QED
  BY <1>1 DEF IsLatest

LEMMA LatestIs ==
    ASSUME NEW P, P \subseteq Nat, NEW value, NEW none, NEW m \in Nat, NEW x,
           IsLatest(P, value, none, m, x)
    PROVE  Latest({k \in P : k <= m}, value, none) = x
<1> DEFINE Q == {k \in P : k <= m}
           last == CHOOSE k \in Q : \A j \in Q : j <= k
<1>1. CASE x = none /\ \A j \in P : ~ (j <= m)
  <2>1. Q = {}
    BY <1>1
  <2>2. QED
    BY <1>1, <2>1 DEF Latest
<1>2. ASSUME NEW j \in P, LastAmong(P, m, j), x = value[j] PROVE Latest(Q, value, none) = x
  <2>1. j \in Q /\ \A i \in Q : i <= j
    BY <1>2 DEF LastAmong
  <2>2. Q \subseteq Nat
    OBVIOUS
  <2> HIDE DEF Q
  <2>3. last \in Q /\ \A i \in Q : i <= last
    BY <2>1
  <2>4. Latest(Q, value, none) = value[last]
    BY <2>1 DEF Latest
  <2> HIDE DEF last
  <2>5. last = j
    BY <2>1, <2>2, <2>3
  <2>6. QED
    BY <1>2, <2>4, <2>5
<1>3. QED
  BY <1>1, <1>2 DEF IsLatest

------------------------------------------------------------------------------
(* The loop over the lines of a stream. *)

StreamLines(Kind, Piece, Reason) ==
    [kind : Kind, choices : BOOLEAN, text : Piece, finish : Reason, usage : Nat]
StreamTurns(Piece, Reason) == [deltas : Seq(Piece), finish : Reason, tokens : Nat]
Silence == [deltas |-> <<>>, finish |-> NoReason, tokens |-> NoUsage]

(* What a line makes of each part of the state. *)
Speaks(line) == line.kind = "chunk" /\ line.choices /\ line.text # NoText
Finishes(line) == line.kind = "chunk" /\ line.choices /\ line.finish # NoReason
Counts(line) == line.kind = "chunk" /\ line.usage # NoUsage

LEMMA ApplyLine ==
    ASSUME NEW Kind, NEW Piece, NEW Reason, NEW turn \in StreamTurns(Piece, Reason),
           NEW line \in StreamLines(Kind, Piece, Reason)
    PROVE  /\ Apply(turn, line) \in StreamTurns(Piece, Reason)
           /\ Apply(turn, line).deltas = IF Speaks(line) THEN Append(turn.deltas, line.text) ELSE turn.deltas
           /\ Apply(turn, line).finish = IF Finishes(line) THEN line.finish ELSE turn.finish
           /\ Apply(turn, line).tokens = IF Counts(line) THEN line.usage ELSE turn.tokens
<1> DEFINE next == Apply(turn, line)
           deltas == IF Speaks(line) THEN Append(turn.deltas, line.text) ELSE turn.deltas
           finish == IF Finishes(line) THEN line.finish ELSE turn.finish
           tokens == IF Counts(line) THEN line.usage ELSE turn.tokens
<1>1. turn = [deltas |-> turn.deltas, finish |-> turn.finish, tokens |-> turn.tokens]
      /\ turn.deltas \in Seq(Piece) /\ turn.finish \in Reason /\ turn.tokens \in Nat
  BY DEF StreamTurns
<1>2. line.text \in Piece /\ line.finish \in Reason /\ line.usage \in Nat
  BY DEF StreamLines
<1>3. deltas \in Seq(Piece)
  BY <1>1, <1>2, AppendProperties
<1>4. finish \in Reason /\ tokens \in Nat
  BY <1>1, <1>2
<1>5. next = [deltas |-> deltas, finish |-> finish, tokens |-> tokens]
  BY <1>1 DEF Apply, Speaks, Finishes, Counts
<1> HIDE DEF next, deltas, finish, tokens
<1>6. next \in StreamTurns(Piece, Reason)
  BY <1>3, <1>4, <1>5 DEF StreamTurns
<1>7. next.deltas = deltas /\ next.finish = finish /\ next.tokens = tokens
  BY <1>5
<1>8. QED
  BY <1>6, <1>7 DEF next, deltas, finish, tokens

LEMMA ApplySteps ==
    ASSUME NEW Kind, NEW Piece, NEW Reason, NoReason \in Reason,
           NEW lines \in Seq(StreamLines(Kind, Piece, Reason))
    PROVE  /\ ApplyTurns(lines)[0] = Silence
           /\ \A k \in 0..Len(lines) : ApplyTurns(lines)[k] \in StreamTurns(Piece, Reason)
           /\ \A k \in 1..Len(lines) :
                 ApplyTurns(lines)[k] = Apply(ApplyTurns(lines)[k - 1], lines[k])
<1> DEFINE n == Len(lines)
           S == StreamTurns(Piece, Reason)
           step == [k \in 1..n |-> [t \in S |-> Apply(t, lines[k])]]
           Is(turns) == turns = [k \in 0..n |-> IF k = 0 THEN Silence ELSE Apply(turns[k - 1], lines[k])]
<1>1. n \in Nat /\ \A k \in 1..n : lines[k] \in StreamLines(Kind, Piece, Reason)
  BY ElementOfSeq, LenProperties
<1>2. Silence \in S
  BY DEF Silence, StreamTurns, NoUsage
<1>3. \A k \in 1..n : \A t \in S : Apply(t, lines[k]) \in S
  BY <1>1, ApplyLine
<1>4. step \in Steps(n, S)
  BY <1>3 DEF Steps
<1>5. \A k \in 1..n : \A t \in S : step[k][t] = Apply(t, lines[k])
  OBVIOUS
<1>6. \A k \in 0..n : k = 0 \/ k \in 1..n
  OBVIOUS
<1> HIDE DEF step, n, S
<1>7. PICK f : Iterates(f, n, S, Silence, step)
  BY <1>1, <1>2, <1>4, Iteration
<1>8. f \in [0..n -> S] /\ f[0] = Silence /\ \A k \in 1..n : f[k] = step[k][f[k - 1]]
  BY <1>7 DEF Iterates
<1>9. ASSUME NEW k \in 1..n PROVE f[k] = Apply(f[k - 1], lines[k])
  <2>1. k - 1 \in 0..n
    BY <1>1
  <2>2. QED
    BY <1>5, <1>8, <2>1
<1>10. \A k \in 0..n : f[k] = IF k = 0 THEN Silence ELSE Apply(f[k - 1], lines[k])
  BY <1>6, <1>8, <1>9
<1>11. f = [k \in 0..n |-> f[k]]
  BY <1>8
<1>12. Is(f)
  BY <1>10, <1>11
<1>13. Is(ApplyTurns(lines))
  BY <1>12 DEF ApplyTurns, n, Silence
<1> DEFINE turns == ApplyTurns(lines)
<1> HIDE DEF turns
<1>14. turns = [k \in 0..n |-> IF k = 0 THEN Silence ELSE Apply(turns[k - 1], lines[k])]
  BY <1>13 DEF turns
<1>15. turns[0] = Silence /\ \A k \in 1..n : turns[k] = Apply(turns[k - 1], lines[k])
  BY <1>1, <1>14
<1>16. \A k \in 0..n : turns[k] \in S
  <2> DEFINE T == {k \in Nat : k <= n => turns[k] \in S}
  <2>1. 0 \in T
    BY <1>2, <1>15
  <2>2. ASSUME NEW k \in Nat, k \in T PROVE k + 1 \in T
    <3>1. SUFFICES ASSUME k + 1 <= n PROVE turns[k + 1] \in S
      OBVIOUS
    <3>2. k + 1 \in 1..n /\ (k + 1) - 1 = k /\ turns[k] \in S
      BY <1>1, <2>2, <3>1
    <3>3. QED
      BY <1>3, <1>15, <3>2
  <2> HIDE DEF T
  <2>3. Nat \subseteq T
    BY <2>1, <2>2, Induction
  <2>4. QED
    BY <1>1, <2>3 DEF T
<1>17. QED
  BY <1>15, <1>16 DEF turns, n, S

(* The lines that speak, give a reason and give a count, and their values. *)
SpokenAt(lines) == {k \in 1..Len(lines) : Speaks(lines[k])}
FinishAt(lines) == {k \in 1..Len(lines) : Finishes(lines[k])}
UsageAt(lines) == {k \in 1..Len(lines) : Counts(lines[k])}
TextOf(lines) == [k \in DOMAIN lines |-> lines[k].text]
FinishOf(lines) == [k \in DOMAIN lines |-> lines[k].finish]
UsageOf(lines) == [k \in DOMAIN lines |-> lines[k].usage]

(* What the loop has after k lines. *)
Heeds(lines, k, turn) ==
    /\ Gathered(SpokenAt(lines), TextOf(lines), k, turn.deltas)
    /\ IsLatest(FinishAt(lines), FinishOf(lines), NoReason, k, turn.finish)
    /\ IsLatest(UsageAt(lines), UsageOf(lines), NoUsage, k, turn.tokens)

LEMMA HeedsLine ==
    ASSUME NEW Kind, NEW Piece, NEW Reason, NEW lines \in Seq(StreamLines(Kind, Piece, Reason)),
           NEW k \in Nat, k + 1 <= Len(lines), NEW turn \in StreamTurns(Piece, Reason),
           Heeds(lines, k, turn)
    PROVE  Heeds(lines, k + 1, Apply(turn, lines[k + 1]))
<1> DEFINE line == lines[k + 1]
           next == Apply(turn, line)
           P == SpokenAt(lines)
           F == FinishAt(lines)
           U == UsageAt(lines)
<1>1. Len(lines) \in Nat /\ DOMAIN lines = 1..Len(lines)
  BY LenProperties
<1>2. k + 1 \in 1..Len(lines) /\ line \in StreamLines(Kind, Piece, Reason)
  <2>1. k + 1 \in 1..Len(lines)
    BY <1>1
  <2>2. QED
    BY <2>1, ElementOfSeq
<1>3. P \subseteq Nat /\ F \subseteq Nat /\ U \subseteq Nat
  BY <1>1 DEF SpokenAt, FinishAt, UsageAt
<1>4. (k + 1 \in P <=> Speaks(line)) /\ (k + 1 \in F <=> Finishes(line)) /\ (k + 1 \in U <=> Counts(line))
  BY <1>2 DEF SpokenAt, FinishAt, UsageAt
<1>5. /\ TextOf(lines)[k + 1] = line.text /\ FinishOf(lines)[k + 1] = line.finish
      /\ UsageOf(lines)[k + 1] = line.usage
  BY <1>1, <1>2 DEF TextOf, FinishOf, UsageOf
<1>6. line.text \in Piece /\ turn.deltas \in Seq(Piece)
  BY <1>2 DEF StreamLines, StreamTurns
<1>7. /\ next.deltas = IF Speaks(line) THEN Append(turn.deltas, line.text) ELSE turn.deltas
      /\ next.finish = IF Finishes(line) THEN line.finish ELSE turn.finish
      /\ next.tokens = IF Counts(line) THEN line.usage ELSE turn.tokens
  BY <1>2, ApplyLine
<1> HIDE DEF line, next, P, F, U
<1>8. Gathered(P, TextOf(lines), k + 1, next.deltas)
  <2>1. Gathered(P, TextOf(lines), k, turn.deltas)
    BY DEF Heeds, P
  <2>2. CASE Speaks(line)
    <3>1. k + 1 \in P /\ TextOf(lines)[k + 1] \in Piece
          /\ next.deltas = Append(turn.deltas, TextOf(lines)[k + 1])
      BY <1>4, <1>5, <1>6, <1>7, <2>2
    <3>2. QED
      BY <1>3, <1>6, <2>1, <3>1, GatheredMoves
  <2>3. CASE ~ Speaks(line)
    <3>1. k + 1 \notin P /\ next.deltas = turn.deltas
      BY <1>4, <1>7, <2>3
    <3>2. QED
      BY <1>3, <2>1, <3>1, GatheredStays
  <2>4. QED
    BY <2>2, <2>3
<1>9. IsLatest(F, FinishOf(lines), NoReason, k + 1, next.finish)
  <2>1. IsLatest(F, FinishOf(lines), NoReason, k, turn.finish)
    BY DEF Heeds, F
  <2>2. CASE Finishes(line)
    <3>1. k + 1 \in F /\ next.finish = FinishOf(lines)[k + 1]
      BY <1>4, <1>5, <1>7, <2>2
    <3>2. QED
      BY <1>3, <3>1, LatestMoves
  <2>3. CASE ~ Finishes(line)
    <3>1. k + 1 \notin F /\ next.finish = turn.finish
      BY <1>4, <1>7, <2>3
    <3>2. QED
      BY <1>3, <2>1, <3>1, LatestStays
  <2>4. QED
    BY <2>2, <2>3
<1>10. IsLatest(U, UsageOf(lines), NoUsage, k + 1, next.tokens)
  <2>1. IsLatest(U, UsageOf(lines), NoUsage, k, turn.tokens)
    BY DEF Heeds, U
  <2>2. CASE Counts(line)
    <3>1. k + 1 \in U /\ next.tokens = UsageOf(lines)[k + 1]
      BY <1>4, <1>5, <1>7, <2>2
    <3>2. QED
      BY <1>3, <3>1, LatestMoves
  <2>3. CASE ~ Counts(line)
    <3>1. k + 1 \notin U /\ next.tokens = turn.tokens
      BY <1>4, <1>7, <2>3
    <3>2. QED
      BY <1>3, <2>1, <3>1, LatestStays
  <2>4. QED
    BY <2>2, <2>3
<1>11. QED
  BY <1>8, <1>9, <1>10 DEF Heeds, P, F, U, next, line

LEMMA HeedsAll ==
    ASSUME NEW Kind, NEW Piece, NEW Reason, NoReason \in Reason,
           NEW lines \in Seq(StreamLines(Kind, Piece, Reason)), NEW m \in 0..Len(lines)
    PROVE  Heeds(lines, m, ApplyTurns(lines)[m])
<1> DEFINE turns == ApplyTurns(lines)
           T == {k \in Nat : k <= Len(lines) => Heeds(lines, k, turns[k])}
<1>1. Len(lines) \in Nat
  BY LenProperties
<1>2. 0 \in T
  <2>1. Counted(SpokenAt(lines), 0) = 0
    BY Counting
  <2>2. /\ \A j \in SpokenAt(lines) : ~ (j <= 0)
        /\ \A j \in FinishAt(lines) : ~ (j <= 0)
        /\ \A j \in UsageAt(lines) : ~ (j <= 0)
    BY <1>1 DEF SpokenAt, FinishAt, UsageAt
  <2>3. turns[0].deltas = <<>> /\ turns[0].finish = NoReason /\ turns[0].tokens = NoUsage
    BY ApplySteps DEF Silence
  <2> HIDE DEF turns
  <2>4. Len(<<>>) = 0
    OBVIOUS
  <2>5. Gathered(SpokenAt(lines), TextOf(lines), 0, turns[0].deltas)
    BY <2>1, <2>2, <2>3, <2>4 DEF Gathered
  <2>6. QED
    BY <2>2, <2>3, <2>5 DEF Heeds, IsLatest
<1>3. ASSUME NEW k \in Nat, k \in T PROVE k + 1 \in T
  <2>1. SUFFICES ASSUME k + 1 <= Len(lines) PROVE Heeds(lines, k + 1, turns[k + 1])
    OBVIOUS
  <2>2. k + 1 \in 1..Len(lines) /\ (k + 1) - 1 = k /\ k \in 0..Len(lines) /\ k <= Len(lines)
    BY <1>1, <2>1
  <2>3. turns[k] \in StreamTurns(Piece, Reason) /\ turns[k + 1] = Apply(turns[k], lines[k + 1])
    BY <2>2, ApplySteps
  <2>4. Heeds(lines, k, turns[k])
    BY <1>3, <2>2
  <2> HIDE DEF turns
  <2>5. QED
    BY <2>1, <2>3, <2>4, HeedsLine
<1> HIDE DEF T
<1>4. m \in T /\ m <= Len(lines)
  BY <1>1, <1>2, <1>3, Induction
<1>5. QED
  BY <1>4 DEF T

(* If no line is too long, the loop reads up to the first [DONE]. *)
LEMMA ReadLines ==
    ASSUME NEW Kind, NEW Piece, NEW Reason, NEW lines \in Seq(StreamLines(Kind, Piece, Reason)),
           NoneTooLong(lines)
    PROVE  /\ Read(lines) \in 0..Len(lines)
           /\ Chunks(lines) = {k \in 1..Len(lines) : lines[k].kind = "chunk" /\ k <= Read(lines)}
<1> DEFINE n == Len(lines)
           m == Read(lines)
           I == {j \in 1..n : lines[j].kind = "done"}
           Open(k) == \A j \in 1..k : lines[j].kind # "done"
<1>1. n \in Nat /\ DOMAIN lines = 1..n
  BY LenProperties
<1>2. SelectInSeq(lines, Ends) = IF I # {} THEN Min(I) ELSE 0
  <2>1. \A j \in 1..n : Ends(lines[j]) <=> lines[j].kind = "done"
    BY <1>1 DEF NoneTooLong, Ends
  <2>2. {j \in 1..n : Ends(lines[j])} = I
    BY <2>1
  <2>3. SelectInSeq(lines, Ends) = LET J == {j \in 1..n : Ends(lines[j])} IN IF J # {} THEN Min(J) ELSE 0
    BY DEF SelectInSeq
  <2> HIDE DEF I
  <2>4. QED
    BY <2>2, <2>3
<1>3. Chunks(lines) = {k \in 1..n : lines[k].kind = "chunk" /\ Open(k)}
  BY <1>1 DEF Chunks
<1> HIDE DEF I, n
<1>4. m \in 0..n /\ \A k \in 1..n : Open(k) <=> k <= m
  <2>1. CASE I = {}
    <3>1. m = n
      BY <1>2, <2>1 DEF Read, n
    <3>2. \A k \in 1..n : Open(k)
      BY <1>1, <2>1 DEF I
    <3>3. QED
      BY <1>1, <3>1, <3>2
  <2>2. CASE I # {}
    <3>1. I \subseteq 1..n /\ I \subseteq Nat
      BY <1>1 DEF I
    <3>2. \E x \in I : \A y \in I : x <= y
      BY <2>2, <3>1, LeastElement
    <3>3. Min(I) \in I /\ \A y \in I : Min(I) <= y
      BY <3>2 DEF Min
    <3> DEFINE e == Min(I)
    <3>4. e \in 1..n /\ lines[e].kind = "done" /\ \A j \in 1..n : lines[j].kind = "done" => e <= j
      BY <3>1, <3>3 DEF I
    <3>5. SelectInSeq(lines, Ends) = e
      BY <1>2, <2>2
    <3> HIDE DEF e
    <3>6. m = e - 1
      BY <1>1, <3>4, <3>5 DEF Read
    <3> HIDE DEF m
    <3>7. ASSUME NEW k \in 1..n PROVE Open(k) <=> k <= m
      <4>1. CASE k <= m
        <5>1. \A j \in 1..k : j \in 1..n /\ ~ (e <= j)
          BY <1>1, <3>4, <3>6, <4>1
        <5>2. QED
          BY <3>4, <4>1, <5>1
      <4>2. CASE ~ (k <= m)
        <5>1. e \in 1..k
          BY <1>1, <3>4, <3>6, <4>2
        <5>2. QED
          BY <3>4, <4>2, <5>1
      <4>3. QED
        BY <4>1, <4>2
    <3>8. QED
      BY <1>1, <3>4, <3>6, <3>7
  <2>3. QED
    BY <2>1, <2>2
<1> HIDE DEF m, Open
<1>5. QED
  BY <1>3, <1>4 DEF n, m

(* What the loop has in the end is what upstream said.                     *)
LEMMA HeedsWhatIsSaid ==
    ASSUME NEW Kind, NEW Piece, NEW Reason, NoReason \in Reason,
           NEW lines \in Seq(StreamLines(Kind, Piece, Reason)), NoneTooLong(lines)
    PROVE  LET end == ApplyTurns(lines)[Read(lines)] IN
           /\ end.deltas \in Seq(Piece) /\ end.deltas = Said(lines)
           /\ end.finish = Finish(lines) /\ end.tokens = Usage(lines)
<1> DEFINE m == Read(lines)
           end == ApplyTurns(lines)[m]
<1>1. Len(lines) \in Nat
  BY LenProperties
<1>2. m \in 0..Len(lines)
      /\ Chunks(lines) = {k \in 1..Len(lines) : lines[k].kind = "chunk" /\ k <= m}
  BY ReadLines
<1>3. m \in Nat
  BY <1>1, <1>2
<1> HIDE DEF m
<1>4. end \in StreamTurns(Piece, Reason) /\ Heeds(lines, m, end)
  BY <1>2, ApplySteps, HeedsAll
<1> HIDE DEF end
<1>5. end.deltas \in Seq(Piece)
  BY <1>4 DEF StreamTurns
<1>6. end.deltas = Said(lines)
  <2>1. SpokenAt(lines) \subseteq Nat \ {0}
    BY <1>1 DEF SpokenAt
  <2>2. {k \in Choosing(lines) : lines[k].text # NoText} = {k \in SpokenAt(lines) : k <= m}
    BY <1>2 DEF Choosing, SpokenAt, Speaks
  <2>3. Gathered(SpokenAt(lines), TextOf(lines), m, end.deltas)
    BY <1>4 DEF Heeds
  <2>4. InOrder({k \in SpokenAt(lines) : k <= m}, TextOf(lines)) = end.deltas
    BY <1>3, <1>5, <2>1, <2>3, GatheredIs
  <2>5. QED
    BY <2>2, <2>4 DEF Said, TextOf
<1>7. end.finish = Finish(lines)
  <2>1. FinishAt(lines) \subseteq Nat
    BY <1>1 DEF FinishAt
  <2>2. {k \in Choosing(lines) : lines[k].finish # NoReason} = {k \in FinishAt(lines) : k <= m}
    BY <1>2 DEF Choosing, FinishAt, Finishes
  <2>3. IsLatest(FinishAt(lines), FinishOf(lines), NoReason, m, end.finish)
    BY <1>4 DEF Heeds
  <2>4. Latest({k \in FinishAt(lines) : k <= m}, FinishOf(lines), NoReason) = end.finish
    BY <1>3, <2>1, <2>3, LatestIs
  <2>5. QED
    BY <2>2, <2>4 DEF Finish, FinishOf
<1>8. end.tokens = Usage(lines)
  <2>1. UsageAt(lines) \subseteq Nat
    BY <1>1 DEF UsageAt
  <2>2. {k \in Chunks(lines) : lines[k].usage # NoUsage} = {k \in UsageAt(lines) : k <= m}
    BY <1>2 DEF UsageAt, Counts
  <2>3. IsLatest(UsageAt(lines), UsageOf(lines), NoUsage, m, end.tokens)
    BY <1>4 DEF Heeds
  <2>4. Latest({k \in UsageAt(lines) : k <= m}, UsageOf(lines), NoUsage) = end.tokens
    BY <1>3, <2>1, <2>3, LatestIs
  <2>5. QED
    BY <2>2, <2>4 DEF Usage, UsageOf
<1>9. QED
  BY <1>5, <1>6, <1>7, <1>8 DEF m, end

------------------------------------------------------------------------------
(* The events, and what a client makes of them. *)

(* Three events, one for each piece, three events. *)
IsEvents(events, s, reason, tokens) ==
    /\ Len(events) = Len(s) + 6 /\ DOMAIN events = 1..Len(events)
    /\ \A k \in 1..Len(s) : events[k + 3] = Event("content_block_delta", s[k])
    /\ \A k \in 1..Len(events) : k < 4 \/ k > Len(s) + 3 => events[k].type # "content_block_delta"
    /\ events[Len(s) + 5].value = <<reason, tokens>>

LEMMA EventsAre ==
    ASSUME NEW Piece, NEW s \in Seq(Piece), NEW reason, NEW tokens
    PROVE  IsEvents(<<Event("message_start", 0), Event("content_block_start", 0), Event("ping", 0)>>
                    \o [k \in DOMAIN s |-> Event("content_block_delta", s[k])]
                    \o <<Event("content_block_stop", 0), Event("message_delta", <<reason, tokens>>),
                         Event("message_stop", 0)>>,
                    s, reason, tokens)
<1> DEFINE n == Len(s)
           a == <<Event("message_start", 0), Event("content_block_start", 0), Event("ping", 0)>>
           b == [k \in DOMAIN s |-> Event("content_block_delta", s[k])]
           c == <<Event("content_block_stop", 0), Event("message_delta", <<reason, tokens>>),
                  Event("message_stop", 0)>>
           All == {a[1], a[2], a[3], c[1], c[2], c[3]} \union {Event("content_block_delta", x) : x \in Piece}
           ab == a \o b
           events == ab \o c
<1>1. n \in Nat /\ DOMAIN s = 1..n /\ \A k \in 1..n : s[k] \in Piece
  BY ElementOfSeq, LenProperties
<1>2. a \in Seq(All) /\ Len(a) = 3
  OBVIOUS
<1>3. c \in Seq(All) /\ Len(c) = 3
  OBVIOUS
<1>4. b \in Seq(All) /\ Len(b) = n /\ \A k \in 1..n : b[k] = Event("content_block_delta", s[k])
  <2>1. b = [k \in 1..n |-> Event("content_block_delta", s[k])]
    BY <1>1
  <2>2. \A k \in 1..n : Event("content_block_delta", s[k]) \in All
    BY <1>1
  <2> HIDE DEF b, All, n
  <2>3. b \in [1..n -> All]
    BY <2>1, <2>2
  <2>4. b \in Seq(All)
    BY <1>1, <2>3, SeqDef
  <2>5. QED
    BY <1>1, <2>1, <2>3, <2>4, LenProperties
<1>5. /\ a[1].type # "content_block_delta" /\ a[2].type # "content_block_delta"
      /\ a[3].type # "content_block_delta" /\ c[1].type # "content_block_delta"
      /\ c[2].type # "content_block_delta" /\ c[3].type # "content_block_delta"
      /\ c[2].value = <<reason, tokens>>
  BY DEF Event
<1> HIDE DEF n, a, b, c, All
<1>6. ab \in Seq(All) /\ IsJoin(ab, a, b)
  BY <1>2, <1>4, Joined
<1> HIDE DEF ab
<1>7. events \in Seq(All) /\ IsJoin(events, ab, c)
  BY <1>3, <1>6, Joined
<1> HIDE DEF events
<1>8. DOMAIN events = 1..Len(events)
  BY <1>7, LenProperties
<1>9. Len(ab) = n + 3 /\ Len(events) = n + 6
  BY <1>1, <1>2, <1>3, <1>4, <1>6, <1>7 DEF IsJoin
<1>10. /\ ab[1] = a[1] /\ ab[2] = a[2] /\ ab[3] = a[3]
       /\ \A k \in 1..n : ab[3 + k] = b[k]
  BY <1>2, <1>4, <1>6 DEF IsJoin
<1>11. /\ \A k \in 1..(n + 3) : events[k] = ab[k]
       /\ events[(n + 3) + 1] = c[1] /\ events[(n + 3) + 2] = c[2] /\ events[(n + 3) + 3] = c[3]
  BY <1>3, <1>7, <1>9 DEF IsJoin
<1>12. \A k \in 1..n : events[k + 3] = Event("content_block_delta", s[k])
  <2>1. \A k \in 1..n : k + 3 \in 1..(n + 3) /\ k + 3 = 3 + k
    BY <1>1
  <2>2. QED
    BY <1>4, <1>10, <1>11, <2>1
<1>13. ASSUME NEW k \in 1..(n + 6), k < 4 \/ k > n + 3 PROVE events[k].type # "content_block_delta"
  <2>1. CASE k < 4
    <3>1. k \in {1, 2, 3} /\ k \in 1..(n + 3)
      BY <1>1, <2>1
    <3>2. QED
      BY <1>5, <1>10, <1>11, <3>1
  <2>2. CASE k > n + 3
    <3>1. k = (n + 3) + 1 \/ k = (n + 3) + 2 \/ k = (n + 3) + 3
      BY <1>1, <2>2
    <3>2. QED
      BY <1>5, <1>11, <3>1
  <2>3. QED
    BY <1>13, <2>1, <2>2
<1>14. (n + 3) + 2 = n + 5
  BY <1>1
<1>15. QED
  BY <1>5, <1>8, <1>9, <1>11, <1>12, <1>13, <1>14 DEF IsEvents, events, ab, a, b, c, n

(* A client collects the pieces, and is told the reason and the count.     *)
LEMMA ClientCollects ==
    ASSUME NEW Piece, NEW s \in Seq(Piece), NEW events, NEW reason, NEW tokens,
           IsEvents(events, s, reason, tokens)
    PROVE  Collected(events) = s /\ Told(events) = <<reason, tokens>>
<1> DEFINE n == Len(s)
           P == 4..(n + 3)
           value == [k \in DOMAIN events |-> events[k].value]
<1>1. n \in Nat /\ n + 6 \in Nat /\ P \subseteq Nat \ {0}
  BY LenProperties
<1>2. Len(events) = n + 6 /\ DOMAIN events = 1..(n + 6)
  BY DEF IsEvents
<1>3. \A k \in 1..n : events[k + 3].type = "content_block_delta" /\ events[k + 3].value = s[k]
  <2>1. \A x : Event("content_block_delta", x).type = "content_block_delta"
               /\ Event("content_block_delta", x).value = x
    BY DEF Event
  <2>2. \A k \in 1..n : events[k + 3] = Event("content_block_delta", s[k])
    BY DEF IsEvents
  <2>3. QED
    BY <2>1, <2>2
<1>4. \A k \in 1..(n + 6) : k < 4 \/ k > n + 3 => events[k].type # "content_block_delta"
  BY DEF IsEvents
<1> HIDE DEF n
<1>5. \A k \in P : k \in 1..(n + 6) /\ k - 3 \in 1..n /\ (k - 3) + 3 = k
  BY <1>1
<1>6. \A k \in P : events[k].type = "content_block_delta" /\ value[k] = s[k - 3]
  <2>1. \A k \in P : value[k] = events[k].value
    BY <1>2, <1>5
  <2> HIDE DEF P, value
  <2>2. QED
    BY <1>3, <1>5, <2>1
<1>7. {k \in DOMAIN events : events[k].type = "content_block_delta"} = {k \in P : k <= n + 6}
  <2>1. \A k \in 1..(n + 6) : k \in P \/ k < 4 \/ k > n + 3
    BY <1>1
  <2>2. \A k \in P : k <= n + 6
    BY <1>1
  <2> HIDE DEF P
  <2>3. QED
    BY <1>2, <1>4, <1>5, <1>6, <2>1, <2>2
<1>8. \A k \in P : Counted(P, k) = k - 3
  <2>1. ASSUME NEW k \in P PROVE Counted(P, k) = k - 3
    <3>1. P \intersect (1..k) = 4..k
      BY <1>1
    <3>2. 4 \in Int /\ k \in Int /\ ~ (4 > k) /\ k - 4 + 1 = k - 3
      BY <1>1
    <3>3. Cardinality(4..k) = k - 3
      BY <3>2, FS_Interval
    <3>4. QED
      BY <3>1, <3>3 DEF Counted
  <2>2. QED
    BY <2>1
<1>9. Counted(P, n + 6) = n
  <2>1. P \intersect (1..(n + 6)) = 4..(n + 3)
    BY <1>1
  <2>2. 4 \in Int /\ n + 3 \in Int /\ (IF 4 > n + 3 THEN 0 ELSE (n + 3) - 4 + 1) = n
    BY <1>1
  <2>3. Cardinality(4..(n + 3)) = n
    BY <2>2, FS_Interval
  <2>4. QED
    BY <2>1, <2>3 DEF Counted
<1>10. Gathered(P, value, n + 6, s)
  <2>1. \A r \in 1..n : r + 3 \in P /\ r + 3 <= n + 6 /\ (r + 3) - 3 = r
    BY <1>1
  <2> HIDE DEF P, value
  <2>2. \A k \in P : Counted(P, k) \in 1..n /\ s[Counted(P, k)] = value[k]
    BY <1>5, <1>6, <1>8
  <2>3. \A r \in 1..n : \E k \in P : k <= n + 6 /\ Counted(P, k) = r
    BY <1>8, <2>1
  <2>4. QED
    BY <1>9, <2>2, <2>3 DEF Gathered, n
<1> HIDE DEF P, value
<1>11. InOrder({k \in P : k <= n + 6}, value) = s
  BY <1>1, <1>10, GatheredIs
<1>12. Collected(events) = s
  BY <1>7, <1>11 DEF Collected, value
<1>13. Told(events) = <<reason, tokens>>
  <2>1. (n + 6) - 1 = n + 5
    BY <1>1
  <2>2. QED
    BY <1>2, <2>1 DEF Told, IsEvents, n
<1>14. QED
  BY <1>12, <1>13

LEMMA StreamSays ==
    ASSUME NEW Kind, NEW Piece, NEW Reason, NoReason \in Reason,
           NEW lines \in Seq(StreamLines(Kind, Piece, Reason)), NoneTooLong(lines)
    PROVE  /\ Said(lines) \in Seq(Piece)
           /\ Collected(Events(lines)) = Said(lines)
           /\ Told(Events(lines)) = <<StopReason(Finish(lines)), Usage(lines)>>
<1> DEFINE end == ApplyTurns(lines)[Read(lines)]
           events == Events(lines)
<1>1. /\ end.deltas \in Seq(Piece) /\ end.deltas = Said(lines)
      /\ end.finish = Finish(lines) /\ end.tokens = Usage(lines)
  BY HeedsWhatIsSaid
<1>2. events = <<Event("message_start", 0), Event("content_block_start", 0), Event("ping", 0)>>
               \o [k \in DOMAIN end.deltas |-> Event("content_block_delta", end.deltas[k])]
               \o <<Event("content_block_stop", 0),
                    Event("message_delta", <<StopReason(end.finish), end.tokens>>),
                    Event("message_stop", 0)>>
  BY DEF Events
<1> HIDE DEF end, events
<1>3. IsEvents(events, end.deltas, StopReason(end.finish), end.tokens)
  BY <1>1, <1>2, EventsAre
<1>4. Collected(events) = end.deltas /\ Told(events) = <<StopReason(end.finish), end.tokens>>
  BY <1>1, <1>3, ClientCollects
<1>5. QED
  BY <1>1, <1>4 DEF events

------------------------------------------------------------------------------
(* What the server reads of a reply that comes back. *)

(* Pieces put together one by one, one sequence alone, one behind none.    *)
LEMMA FlattenPieces ==
    ASSUME NEW Piece, NEW s \in Seq(Piece)
    PROVE  FlattenSeq([k \in 1..Len(s) |-> <<s[k]>>]) = s
<1> DEFINE n == Len(s)
           seqs == [k \in 1..n |-> <<s[k]>>]
           F == [j \in 0..n |-> SubSeq(s, 1, j)]
<1>1. n \in Nat /\ \A k \in 1..n : s[k] \in Piece
  BY ElementOfSeq, LenProperties
<1>2. seqs \in Seq(Seq(Piece)) /\ Len(seqs) = n /\ \A k \in 1..n : seqs[k] = <<s[k]>>
  <2>1. \A k \in 1..n : <<s[k]>> \in Seq(Piece)
    BY <1>1
  <2>2. seqs \in [1..n -> Seq(Piece)]
    BY <2>1
  <2>3. seqs \in Seq(Seq(Piece))
    BY <1>1, <2>2, SeqDef
  <2>4. QED
    BY <1>1, <2>2, <2>3, LenProperties
<1>3. \A j \in 0..n : SubSeq(s, 1, j) \in Seq(Piece)
  <2>1. ASSUME NEW j \in 0..n PROVE SubSeq(s, 1, j) \in Seq(Piece)
    <3>1. 1 \in Int /\ j \in Int /\ \A i \in 1..j : s[i] \in Piece
      BY <1>1
    <3>2. QED
      BY <3>1, SubSeqProperties
  <2>2. QED
    BY <2>1
<1>4. SubSeq(s, 1, 0) = <<>>
  BY SubSeqEmpty
<1>5. ASSUME NEW j \in 1..n PROVE SubSeq(s, 1, j) = SubSeq(s, 1, j - 1) \o <<s[j]>>
  <2>1. 1 \in 1..Len(s) /\ j \in 1..Len(s)
    BY <1>1
  <2>2. QED
    BY <2>1, SubSeqRecursiveSecond
<1>6. SubSeq(s, 1, n) = s
  BY SubSeqFull
<1> HIDE DEF seqs, n
<1>7. \A j \in 1..n : j \in 0..n /\ j - 1 \in 0..n
  BY <1>1
<1>8. F \in [0..n -> Seq(Piece)] /\ F[0] = <<>> /\ F[n] = s
  BY <1>1, <1>3, <1>4, <1>6
<1>9. \A j \in 1..n : F[j] = F[j - 1] \o seqs[j]
  BY <1>2, <1>5, <1>7
<1> HIDE DEF F
<1>10. IsFlat(F, seqs, Piece)
  BY <1>2, <1>8, <1>9 DEF IsFlat
<1>11. FlattenSeq(seqs) = s
  BY <1>2, <1>8, <1>10, FlattenIsFlat
<1>12. QED
  BY <1>11 DEF seqs, n

LEMMA FlattenOne ==
    ASSUME NEW Piece, NEW s \in Seq(Piece)
    PROVE  FlattenSeq(<<s>>) = s
<1> DEFINE seqs == <<s>>
           F == [j \in 0..1 |-> IF j = 0 THEN <<>> ELSE s]
<1>1. seqs \in Seq(Seq(Piece)) /\ Len(seqs) = 1 /\ seqs[1] = s
  OBVIOUS
<1>2. F \in [0..1 -> Seq(Piece)] /\ F[0] = <<>> /\ F[1] = s
  OBVIOUS
<1>3. <<>> \o s = s
  BY ConcatEmptySeq
<1> HIDE DEF F, seqs
<1>4. \A j \in 1..1 : F[j] = F[j - 1] \o seqs[j]
  BY <1>1, <1>2, <1>3
<1>5. IsFlat(F, seqs, Piece)
  BY <1>1, <1>2, <1>4 DEF IsFlat
<1>6. FlattenSeq(seqs) = s
  BY <1>1, <1>2, <1>5, FlattenIsFlat
<1>7. QED
  BY <1>6 DEF seqs

LEMMA FlattenBehind ==
    ASSUME NEW Piece, NEW s \in Seq(Piece)
    PROVE  FlattenSeq(<< <<>>, s>>) = s
<1> DEFINE none == <<>>
           seqs == <<none, s>>
           F == [j \in 0..2 |-> IF j <= 1 THEN none ELSE s]
<1>1. seqs \in Seq(Seq(Piece)) /\ Len(seqs) = 2 /\ seqs[1] = none /\ seqs[2] = s
  OBVIOUS
<1>2. F \in [0..2 -> Seq(Piece)] /\ F[0] = none /\ F[1] = none /\ F[2] = s
  OBVIOUS
<1>3. none \o s = s /\ none \o none = none
  BY ConcatEmptySeq, EmptySeq
<1> HIDE DEF F, seqs
<1>4. \A j \in 1..2 : F[j] = F[j - 1] \o seqs[j]
  <2>1. F[1] = F[1 - 1] \o seqs[1] /\ F[2] = F[2 - 1] \o seqs[2]
    BY <1>1, <1>2, <1>3
  <2>2. \A j \in 1..2 : j = 1 \/ j = 2
    OBVIOUS
  <2>3. QED
    BY <2>1, <2>2
<1>5. IsFlat(F, seqs, Piece)
  BY <1>1, <1>2, <1>4 DEF IsFlat
<1>6. FlattenSeq(seqs) = s
  BY <1>1, <1>2, <1>5, FlattenIsFlat
<1>7. QED
  BY <1>6 DEF seqs

LEMMA BlocksRead ==
    ASSUME NEW blocks
    PROVE  ContentStr(Blocks(blocks))
              = FlattenSeq([k \in DOMAIN blocks |-> IF blocks[k].type = "text" THEN blocks[k].text ELSE <<>>])
<1>1. Blocks(blocks).kind = "blocks" /\ Blocks(blocks).blocks = blocks
  BY DEF Blocks
<1>2. QED
  BY <1>1 DEF ContentStr

(* Whatever a client sends back of what was said is read as what was said. *)
LEMMA ContentsRead ==
    ASSUME NEW Piece, NEW s \in Seq(Piece), NEW reply,
           reply.content = Blocks(<<Block("text", s)>>), NEW content \in Contents(reply, s)
    PROVE  ContentStr(content) = s
<1> DEFINE n == Len(s)
           thinking == Block("thinking", <<"hm">>)
           text == Block("text", s)
<1>1. n \in Nat /\ DOMAIN s = 1..n
  BY LenProperties
<1>2. /\ text.type = "text" /\ text.text = s /\ thinking.type # "text"
      /\ \A x : Block("text", <<x>>).type = "text" /\ Block("text", <<x>>).text = <<x>>
  BY DEF Block
<1>3. reply.content.blocks = <<text>>
  BY DEF Blocks
<1> HIDE DEF n, thinking, text
<1>4. CASE content = Blocks(<<text>>)
  <2>1. [k \in DOMAIN <<text>> |-> IF <<text>>[k].type = "text" THEN <<text>>[k].text ELSE <<>>] = <<s>>
    BY <1>2
  <2>2. QED
    BY <1>4, <2>1, BlocksRead, FlattenOne
<1>5. CASE content = Text(s)
  BY <1>5 DEF ContentStr, Text
<1>6. CASE content = Blocks(<<thinking>> \o <<text>>)
  <2>1. <<thinking>> \o <<text>> = <<thinking, text>>
    <3> DEFINE All == {thinking, text}
    <3>1. <<thinking>> \in Seq(All) /\ <<text>> \in Seq(All) /\ <<thinking, text>> \in Seq(All)
      OBVIOUS
    <3> HIDE DEF All
    <3>2. <<thinking>> \o <<text>> \in Seq(All) /\ IsJoin(<<thinking>> \o <<text>>, <<thinking>>, <<text>>)
      BY <3>1, Joined
    <3> DEFINE both == <<thinking>> \o <<text>>
    <3> HIDE DEF both
    <3>3. Len(both) = 2 /\ both[1] = thinking /\ both[2] = text
      BY <3>2, JoinedOne DEF both
    <3>4. \A i \in 1..2 : i = 1 \/ i = 2
      OBVIOUS
    <3> DEFINE pair == <<thinking, text>>
    <3>5. pair \in Seq(All) /\ Len(pair) = 2 /\ pair[1] = thinking /\ pair[2] = text
      BY <3>1
    <3> HIDE DEF pair
    <3>6. both \in Seq(All)
      BY <3>2 DEF both
    <3>7. Len(both) = Len(pair) /\ \A i \in 1..Len(both) : both[i] = pair[i]
      BY <3>3, <3>4, <3>5
    <3>8. both = pair
      BY <3>5, <3>6, <3>7, SeqEqual
    <3>9. QED
      BY <3>8 DEF both, pair
  <2> DEFINE blocks == <<thinking, text>>
  <2>2. [k \in DOMAIN blocks |-> IF blocks[k].type = "text" THEN blocks[k].text ELSE <<>>] = << <<>>, s>>
    BY <1>2
  <2>3. content = Blocks(blocks)
    BY <1>6, <2>1
  <2> HIDE DEF blocks
  <2>4. QED
    BY <2>2, <2>3, BlocksRead, FlattenBehind
<1>7. CASE content = Blocks([k \in DOMAIN s |-> Block("text", <<s[k]>>)])
  <2> DEFINE blocks == [k \in 1..n |-> Block("text", <<s[k]>>)]
  <2>1. content = Blocks(blocks)
    BY <1>1, <1>7
  <2>2. [k \in DOMAIN blocks |-> IF blocks[k].type = "text" THEN blocks[k].text ELSE <<>>]
           = [k \in 1..n |-> <<s[k]>>]
    BY <1>2
  <2> HIDE DEF blocks
  <2>3. QED
    BY <2>1, <2>2, BlocksRead, FlattenPieces DEF n
<1>8. QED
  BY <1>3, <1>4, <1>5, <1>6, <1>7 DEF Contents, text, thinking

LEMMA TurnSent ==
    ASSUME NEW system, NEW user, NEW content, system # <<>>
    PROVE  Messages(system, <<Message("user", user), Message("assistant", content)>>)[3]
              = Message("assistant", ContentStr(content))
<1> DEFINE turns == <<Message("user", user), Message("assistant", content)>>
           x == Message("system", system)
           y == Message("user", ContentStr(user))
           z == Message("assistant", ContentStr(content))
<1>1. [k \in DOMAIN turns |-> Message(turns[k].role, ContentStr(turns[k].content))] = <<y, z>>
  <2>1. /\ turns[1].role = "user" /\ turns[1].content = user
        /\ turns[2].role = "assistant" /\ turns[2].content = content
    BY DEF Message
  <2>2. DOMAIN turns = 1..2
    OBVIOUS
  <2> HIDE DEF turns
  <2>3. [k \in 1..2 |-> Message(turns[k].role, ContentStr(turns[k].content))] = <<y, z>>
    BY <2>1
  <2>4. QED
    BY <2>2, <2>3
<1>2. Messages(system, turns) = <<x>> \o <<y, z>>
  BY <1>1 DEF Messages
<1> HIDE DEF x, y, z
<1>3. (<<x>> \o <<y, z>>)[3] = z
  OBVIOUS
<1>4. QED
  BY <1>2, <1>3 DEF z

LEMMA ReplyAgrees ==
    ASSUME NEW lines
    PROVE  LET reply == Reply(Completion(lines)) IN
           /\ reply.content = Blocks(<<Block("text", Said(lines))>>)
           /\ reply.stop = StopReason(Finish(lines)) /\ reply.tokens = Usage(lines)
<1> DEFINE c == Completion(lines)
           reply == Reply(c)
<1>1. /\ c.choices = (Choosing(lines) # {}) /\ c.text = Said(lines)
      /\ c.finish = Finish(lines) /\ c.tokens = Usage(lines)
  BY DEF Completion
<1> HIDE DEF c
<1>2. /\ reply.content = Blocks(<<Block("text", IF c.choices THEN c.text ELSE <<>>)>>)
      /\ reply.stop = (IF c.choices THEN StopReason(c.finish) ELSE "end_turn")
      /\ reply.tokens = c.tokens
  BY DEF Reply
<1> HIDE DEF reply
<1>3. CASE Choosing(lines) # {}
  BY <1>1, <1>2, <1>3 DEF reply, c
<1>4. CASE Choosing(lines) = {}
  <2>1. {k \in Choosing(lines) : lines[k].text # NoText} = {}
    BY <1>4
  <2>2. Said(lines) = <<>>
    <3>1. Cardinality({}) = 0
      BY FS_EmptySet
    <3>2. Said(lines) = InOrder({}, [k \in DOMAIN lines |-> lines[k].text])
      BY <2>1 DEF Said
    <3>3. QED
      BY <3>1, <3>2 DEF InOrder
  <2>3. {k \in Choosing(lines) : lines[k].finish # NoReason} = {}
    BY <1>4
  <2>4. Finish(lines) = NoReason
    BY <2>3 DEF Finish, Latest
  <2>5. StopReason(NoReason) = "end_turn"
    BY DEF StopReason, NoReason
  <2>6. QED
    BY <1>1, <1>2, <1>4, <2>2, <2>4, <2>5 DEF reply, c
<1>5. QED
  BY <1>3, <1>4

LEMMA StreamIsFaithful ==
    ASSUME NEW Kind, NEW Piece, NEW Reason,
           NEW lines \in Seq(StreamLines(Kind, Piece, Reason \union {NoReason}))
    PROVE  SaysTheSame(lines) /\ WaysAgree(lines)
<1> DEFINE reply == Reply(Completion(lines))
           Sent(content) == Messages(<<"rules">>, <<Message("user", Text(<<"hi">>)),
                                                    Message("assistant", content)>>)
<1>1. SUFFICES ASSUME NoneTooLong(lines) PROVE SaysTheSame(lines) /\ WaysAgree(lines)
  BY DEF SaysTheSame, WaysAgree
<1>2. /\ Said(lines) \in Seq(Piece) /\ Collected(Events(lines)) = Said(lines)
      /\ Told(Events(lines)) = <<StopReason(Finish(lines)), Usage(lines)>>
  BY <1>1, StreamSays
<1>3. /\ reply.content = Blocks(<<Block("text", Said(lines))>>)
      /\ reply.stop = StopReason(Finish(lines)) /\ reply.tokens = Usage(lines)
  BY ReplyAgrees
<1> HIDE DEF reply
<1>4. ASSUME NEW content \in Contents(reply, Collected(Events(lines)))
      PROVE  Sent(content)[3] = Message("assistant", Said(lines))
  <2>1. ContentStr(content) = Said(lines)
    BY <1>2, <1>3, <1>4, ContentsRead
  <2>2. <<"rules">> # <<>>
    OBVIOUS
  <2>3. QED
    BY <2>1, <2>2, TurnSent
<1>5. QED
  BY <1>2, <1>3, <1>4 DEF SaysTheSame, WaysAgree, reply

------------------------------------------------------------------------------
(* The last lines of a log. *)

LEMMA Regroup ==
    ASSUME NEW S, NEW x \in Seq(S), NEW y \in Seq(S), NEW z \in Seq(S)
    PROVE  x \o (y \o z) = (x \o y) \o z
BY ConcatAssociative

LEMMA AppendBehind ==
    ASSUME NEW S, NEW s \in Seq(S), NEW t \in Seq(S), NEW e \in S
    PROVE  s \o Append(t, e) = Append(s \o t, e)
<1>1. Append(t, e) = t \o <<e>> /\ <<e>> \in Seq(S)
  BY AppendIsConcat
<1>2. s \o t \in Seq(S)
  BY ConcatProperties
<1>3. Append(s \o t, e) = (s \o t) \o <<e>>
  BY <1>2, AppendIsConcat
<1>4. QED
  BY <1>1, <1>3, ConcatAssociative

LEMMA FlattenIn ==
    ASSUME NEW S, NEW seqs \in Seq(Seq(S))
    PROVE  FlattenSeq(seqs) \in Seq(S)
<1>1. PICK F : IsFlat(F, seqs, S)
  BY FlatExists
<1>2. FlattenSeq(seqs) = F[Len(seqs)]
  BY <1>1, FlattenIsFlat
<1>3. Len(seqs) \in 0..Len(seqs)
  BY LenProperties
<1>4. QED
  BY <1>1, <1>2, <1>3 DEF IsFlat

LEMMA FlattenNone == FlattenSeq(<<>>) = <<>>
BY DEF FlattenSeq

LEMMA FlattenConcat ==
    ASSUME NEW S, NEW a \in Seq(Seq(S)), NEW b \in Seq(Seq(S))
    PROVE  FlattenSeq(a \o b) = FlattenSeq(a) \o FlattenSeq(b)
<1> DEFINE n == Len(b)
           First(k) == SubSeq(b, 1, k)
           Right == {k \in Nat : k <= n => FlattenSeq(a \o First(k)) = FlattenSeq(a) \o FlattenSeq(First(k))}
<1>1. n \in Nat /\ \A k \in 1..n : b[k] \in Seq(S)
  BY ElementOfSeq, LenProperties
<1>2. \A s \in Seq(Seq(S)) : FlattenSeq(s) \in Seq(S)
  <2>1. ASSUME NEW s \in Seq(Seq(S)) PROVE FlattenSeq(s) \in Seq(S)
    BY FlattenIn
  <2>2. QED
    BY <2>1
<1>3. ASSUME NEW k \in 0..n PROVE First(k) \in Seq(Seq(S))
  <2>1. 1 \in Int /\ k \in Int /\ \A i \in 1..k : b[i] \in Seq(S)
    BY <1>1
  <2>2. QED
    BY <2>1, SubSeqProperties
<1>4. First(0) = <<>> /\ First(n) = b
  BY SubSeqEmpty, SubSeqFull
<1>5. ASSUME NEW k \in Nat, k + 1 <= n PROVE First(k + 1) = Append(First(k), b[k + 1])
  <2>1. 1 \in 1..n /\ k + 1 \in 1..n /\ k + 1 \in 1..n /\ k \in 0..n /\ (k + 1) - 1 = k
    BY <1>1, <1>5
  <2>2. SubSeq(b, 1, k + 1) = SubSeq(b, 1, (k + 1) - 1) \o <<b[k + 1]>>
    BY <2>1, SubSeqRecursiveSecond
  <2>3. First(k) \in Seq(Seq(S)) /\ b[k + 1] \in Seq(S)
    BY <1>1, <1>3, <2>1
  <2>4. Append(First(k), b[k + 1]) = First(k) \o <<b[k + 1]>>
    BY <2>3, AppendIsConcat
  <2>5. QED
    BY <2>1, <2>2, <2>4
<1> HIDE DEF First, n
<1>6. 0 \in Right
  <2>1. a \o <<>> = a
    BY ConcatEmptySeq
  <2>2. FlattenSeq(<<>>) = <<>>
    BY FlattenNone
  <2>3. FlattenSeq(a) \o <<>> = FlattenSeq(a)
    BY <1>2, ConcatEmptySeq
  <2>4. QED
    BY <1>4, <2>1, <2>2, <2>3
<1>7. ASSUME NEW k \in Nat, k \in Right PROVE k + 1 \in Right
  <2>1. SUFFICES ASSUME k + 1 <= n PROVE FlattenSeq(a \o First(k + 1)) = FlattenSeq(a) \o FlattenSeq(First(k + 1))
    OBVIOUS
  <2> DEFINE s == First(k)
             e == b[k + 1]
  <2>2. k \in 0..n /\ k <= n /\ k + 1 \in 1..n
    BY <1>1, <2>1
  <2>3. s \in Seq(Seq(S)) /\ e \in Seq(S) /\ First(k + 1) = Append(s, e)
    BY <1>1, <1>3, <1>5, <2>1, <2>2
  <2>4. FlattenSeq(a \o s) = FlattenSeq(a) \o FlattenSeq(s)
    BY <1>7, <2>2
  <2> HIDE DEF s, e
  <2>5. a \o Append(s, e) = Append(a \o s, e)
    BY <2>3, AppendBehind
  <2>6. a \o s \in Seq(Seq(S))
    BY <2>3, ConcatProperties
  <2>7. FlattenSeq(Append(a \o s, e)) = FlattenSeq(a \o s) \o e
    BY <2>3, <2>6, FlattenAppend
  <2>8. FlattenSeq(Append(s, e)) = FlattenSeq(s) \o e
    BY <2>3, FlattenAppend
  <2>9. (FlattenSeq(a) \o FlattenSeq(s)) \o e = FlattenSeq(a) \o (FlattenSeq(s) \o e)
    <3>1. FlattenSeq(a) \in Seq(S) /\ FlattenSeq(s) \in Seq(S)
      BY <1>2, <2>3
    <3>2. \A x, y, z \in Seq(S) : (x \o y) \o z = x \o (y \o z)
      BY ConcatAssociative
    <3>3. QED
      BY <2>3, <3>1, <3>2, Zenon
  <2>10. QED
    BY <2>3, <2>4, <2>5, <2>7, <2>8, <2>9
<1> HIDE DEF Right
<1>8. n \in Right
  BY <1>1, <1>6, <1>7, Induction
<1>9. n <= n
  BY <1>1
<1>10. QED
  BY <1>4, <1>8, <1>9 DEF Right

(* The lines as they stand in the file. *)
WithNewline(lines) == [k \in DOMAIN lines |-> Append(lines[k], Newline)]

LEMMA EndsType ==
    ASSUME NEW B, Newline \in B, NEW lines \in Seq(Seq(B))
    PROVE  /\ WithNewline(lines) \in Seq(Seq(B)) /\ Len(WithNewline(lines)) = Len(lines)
           /\ \A k \in 1..Len(lines) : WithNewline(lines)[k] = Append(lines[k], Newline)
           /\ TextOfLines(lines) = FlattenSeq(WithNewline(lines)) /\ TextOfLines(lines) \in Seq(B)
<1>1. Len(lines) \in Nat /\ DOMAIN lines = 1..Len(lines) /\ \A k \in 1..Len(lines) : lines[k] \in Seq(B)
  BY ElementOfSeq, LenProperties
<1>2. \A k \in 1..Len(lines) : Append(lines[k], Newline) \in Seq(B)
  BY <1>1, AppendProperties
<1>3. WithNewline(lines) \in [1..Len(lines) -> Seq(B)]
  BY <1>1, <1>2 DEF WithNewline
<1>4. WithNewline(lines) \in Seq(Seq(B))
  <2>1. \A n \in Nat : \A f \in [1..n -> Seq(B)] : f \in Seq(Seq(B))
    BY SeqDef
  <2>2. Len(lines) \in Nat
    BY <1>1
  <2>3. QED
    BY <1>3, <2>1, <2>2, Zenon
<1>5. Len(WithNewline(lines)) = Len(lines)
  BY <1>1, <1>3, <1>4, LenProperties
<1>6. TextOfLines(lines) = FlattenSeq(WithNewline(lines))
  BY DEF TextOfLines, WithNewline
<1>7. \A k \in 1..Len(lines) : WithNewline(lines)[k] = Append(lines[k], Newline)
  BY <1>1 DEF WithNewline
<1>8. QED
  BY <1>4, <1>5, <1>6, <1>7, FlattenIn

LEMMA TextOfMore ==
    ASSUME NEW B, Newline \in B, NEW lines \in Seq(Seq(B)), NEW line \in Seq(B)
    PROVE  TextOfLines(Append(lines, line)) = TextOfLines(lines) \o Append(line, Newline)
<1> DEFINE more == Append(lines, line)
           n == Len(lines)
<1>1. /\ more \in Seq(Seq(B)) /\ Len(more) = n + 1 /\ n \in Nat
      /\ more[n + 1] = line /\ \A k \in 1..n : more[k] = lines[k]
  BY AppendProperties, LenProperties
<1> HIDE DEF more
<1>2. /\ WithNewline(lines) \in Seq(Seq(B)) /\ Len(WithNewline(lines)) = n
      /\ \A k \in 1..n : WithNewline(lines)[k] = Append(lines[k], Newline)
      /\ TextOfLines(lines) = FlattenSeq(WithNewline(lines))
  BY EndsType
<1>3. /\ WithNewline(more) \in Seq(Seq(B)) /\ Len(WithNewline(more)) = n + 1
      /\ \A k \in 1..(n + 1) : WithNewline(more)[k] = Append(more[k], Newline)
      /\ TextOfLines(more) = FlattenSeq(WithNewline(more))
  BY <1>1, EndsType
<1>4. Append(line, Newline) \in Seq(B)
  BY AppendProperties
<1> DEFINE t == Append(WithNewline(lines), Append(line, Newline))
<1>5. /\ t \in Seq(Seq(B)) /\ Len(t) = n + 1
      /\ t[n + 1] = Append(line, Newline) /\ \A k \in 1..n : t[k] = WithNewline(lines)[k]
  BY <1>2, <1>4, AppendProperties
<1> HIDE DEF t, n
<1>6. \A k \in 1..(n + 1) : k \in 1..n \/ k = n + 1
  BY <1>1
<1>7. ASSUME NEW k \in 1..(n + 1) PROVE WithNewline(more)[k] = t[k]
  <2>1. WithNewline(more)[k] = Append(more[k], Newline)
    BY <1>3
  <2>2. CASE k \in 1..n
    <3>1. more[k] = lines[k] /\ t[k] = Append(lines[k], Newline)
      BY <1>1, <1>2, <1>5, <2>2
    <3>2. QED
      BY <2>1, <3>1
  <2>3. CASE k = n + 1
    <3>1. more[k] = line /\ t[k] = Append(line, Newline)
      BY <1>1, <1>5, <2>3
    <3>2. QED
      BY <2>1, <3>1
  <2>4. QED
    BY <1>6, <2>2, <2>3
<1>8. WithNewline(more) = t
  BY <1>3, <1>5, <1>7, SeqEqual
<1>9. FlattenSeq(t) = FlattenSeq(WithNewline(lines)) \o Append(line, Newline)
  BY <1>2, <1>4, FlattenAppend DEF t
<1>10. QED
  BY <1>2, <1>3, <1>8, <1>9 DEF more

LEMMA TextOfNone == TextOfLines(<<>>) = <<>>
<1>1. [k \in DOMAIN <<>> |-> Append(<<>>[k], Newline)] = <<>>
  OBVIOUS
<1>2. QED
  BY <1>1, FlattenNone DEF TextOfLines

LEMMA TextOfBoth ==
    ASSUME NEW B, Newline \in B, NEW a \in Seq(Seq(B)), NEW b \in Seq(Seq(B))
    PROVE  TextOfLines(a \o b) = TextOfLines(a) \o TextOfLines(b)
<1> DEFINE s == a \o b
           m == Len(a)
           n == Len(b)
<1>1. s \in Seq(Seq(B)) /\ IsJoin(s, a, b)
  BY Joined
<1> HIDE DEF s
<1>2. /\ WithNewline(a) \in Seq(Seq(B)) /\ Len(WithNewline(a)) = m
      /\ \A k \in 1..m : WithNewline(a)[k] = Append(a[k], Newline)
      /\ TextOfLines(a) = FlattenSeq(WithNewline(a))
  BY EndsType
<1>3. /\ WithNewline(b) \in Seq(Seq(B)) /\ Len(WithNewline(b)) = n
      /\ \A k \in 1..n : WithNewline(b)[k] = Append(b[k], Newline)
      /\ TextOfLines(b) = FlattenSeq(WithNewline(b))
  BY EndsType
<1>4. /\ WithNewline(s) \in Seq(Seq(B)) /\ Len(WithNewline(s)) = Len(s)
      /\ \A k \in 1..Len(s) : WithNewline(s)[k] = Append(s[k], Newline)
      /\ TextOfLines(s) = FlattenSeq(WithNewline(s))
  BY <1>1, EndsType
<1> DEFINE t == WithNewline(a) \o WithNewline(b)
<1>5. t \in Seq(Seq(B)) /\ IsJoin(t, WithNewline(a), WithNewline(b))
  BY <1>2, <1>3, Joined
<1> HIDE DEF t
<1>6. Len(t) = Len(s) /\ Len(s) = m + n /\ m \in Nat /\ n \in Nat
  BY <1>1, <1>2, <1>3, <1>5 DEF IsJoin
<1>7. ASSUME NEW k \in 1..Len(s) PROVE WithNewline(s)[k] = t[k]
  <2>1. CASE k \in 1..m
    <3>1. s[k] = a[k] /\ t[k] = WithNewline(a)[k]
      BY <1>1, <1>2, <1>5, <2>1 DEF IsJoin
    <3>2. QED
      BY <1>2, <1>4, <2>1, <3>1
  <2>2. ASSUME NEW j \in 1..n, k = m + j PROVE WithNewline(s)[k] = t[k]
    <3>1. s[k] = b[j] /\ t[k] = WithNewline(b)[j]
      BY <1>1, <1>2, <1>3, <1>5, <2>2 DEF IsJoin
    <3>2. QED
      BY <1>3, <1>4, <2>2, <3>1
  <2>3. QED
    BY <1>1, <2>1, <2>2 DEF IsJoin
<1>8. WithNewline(s) = t
  BY <1>4, <1>5, <1>6, <1>7, SeqEqual
<1>9. FlattenSeq(t) = FlattenSeq(WithNewline(a)) \o FlattenSeq(WithNewline(b))
  BY <1>2, <1>3, FlattenConcat DEF t
<1>10. QED
  BY <1>2, <1>3, <1>4, <1>8, <1>9 DEF s

(* A text of lines ends with a newline. *)
LEMMA TextEnds ==
    ASSUME NEW B, Newline \in B, NEW lines \in Seq(Seq(B)), lines # <<>>
    PROVE  /\ TextOfLines(lines) \in Seq(B) /\ Len(TextOfLines(lines)) \in Nat \ {0}
           /\ TextOfLines(lines)[Len(TextOfLines(lines))] = Newline
<1>1. PICK most \in Seq(Seq(B)), line \in Seq(B) : lines = Append(most, line)
  BY SequenceEmptyOrAppend
<1> DEFINE t == TextOfLines(most)
<1>2. t \in Seq(B)
  BY EndsType
<1> HIDE DEF t
<1>3. TextOfLines(lines) = t \o Append(line, Newline)
  BY <1>1, TextOfMore DEF t
<1>4. t \o Append(line, Newline) = Append(t \o line, Newline)
  BY <1>2, AppendBehind
<1> DEFINE u == t \o line
<1>5. u \in Seq(B)
  BY <1>2, ConcatProperties
<1> HIDE DEF u
<1>6. TextOfLines(lines) = Append(u, Newline)
  BY <1>3, <1>4 DEF u
<1>7. Append(u, Newline) \in Seq(B) /\ Len(Append(u, Newline)) = Len(u) + 1 /\ Append(u, Newline)[Len(u) + 1] = Newline
  BY <1>5, AppendProperties
<1>8. Len(u) \in Nat
  BY <1>5, LenProperties
<1>9. QED
  BY <1>6, <1>7, <1>8

LEMMA LinesAmong ==
    ASSUME NEW B, NEW C, C \subseteq B, NEW lines \in Seq(Seq(C))
    PROVE  lines \in Seq(Seq(B))
<1>1. Seq(C) \subseteq Seq(B)
  BY SeqMonotonic
<1>2. QED
  BY <1>1, SeqMonotonic

LEMMA Slices ==
    ASSUME NEW S, NEW s \in Seq(S), NEW m \in 1..(Len(s) + 1), NEW k \in 0..Len(s)
    PROVE  SubSeq(s, m, k) \in Seq(S) /\ Len(SubSeq(s, m, k)) = IF m <= k THEN k - m + 1 ELSE 0
<1>1. Len(s) \in Nat /\ \A i \in 1..Len(s) : s[i] \in S
  BY ElementOfSeq, LenProperties
<1>2. m \in Int /\ k \in Int /\ \A i \in m..k : i \in 1..Len(s)
  BY <1>1
<1>3. \A i \in m..k : s[i] \in S
  BY <1>1, <1>2
<1>4. QED
  BY <1>2, <1>3, SubSeqProperties

LEMMA SliceGrows ==
    ASSUME NEW S, NEW s \in Seq(S), NEW j \in 1..Len(s), NEW m \in 1..j
    PROVE  SubSeq(s, m, j) = Append(SubSeq(s, m, j - 1), s[j])
<1>1. Len(s) \in Nat /\ m \in 1..Len(s) /\ m \in 1..(Len(s) + 1) /\ j \in m..Len(s) /\ j - 1 \in 0..Len(s)
  BY LenProperties
<1>2. SubSeq(s, m, j) = SubSeq(s, m, j - 1) \o <<s[j]>>
  BY <1>1, SubSeqRecursiveSecond
<1>3. SubSeq(s, m, j - 1) \in Seq(S)
  BY <1>1, Slices
<1>4. s[j] \in S
  BY ElementOfSeq
<1>5. QED
  BY <1>2, <1>3, <1>4, AppendIsConcat

(* The loop over the bytes of a chunk is well defined. *)
LEMMA CutSteps ==
    ASSUME NEW lines, NEW chunk, Len(chunk) \in Nat
    PROVE  /\ CutTurns(lines, chunk)[0] = [lines |-> lines, start |-> 1]
           /\ \A i \in 1..Len(chunk) :
                 CutTurns(lines, chunk)[i] = CutByte(CutTurns(lines, chunk)[i - 1], chunk, i)
<1> DEFINE start == [lines |-> lines, start |-> 1]
           n == Len(chunk)
           Is(f, m) == f = [i \in 0..m |-> IF i = 0 THEN start ELSE CutByte(f[i - 1], chunk, i)]
           Right == {m \in Nat : \E f : Is(f, m)}
<1> HIDE DEF start
<1>1. 0 \in Right
  <2>1. [i \in 0..0 |-> start] = [i \in 0..0 |-> IF i = 0 THEN start ELSE CutByte([j \in 0..0 |-> start][i - 1], chunk, i)]
    OBVIOUS
  <2>2. Is([i \in 0..0 |-> start], 0)
    BY <2>1
  <2>3. QED
    BY <2>2
<1>2. ASSUME NEW m \in Nat, m \in Right PROVE m + 1 \in Right
  <2>1. PICK f : Is(f, m)
    BY <1>2
  <2> DEFINE g == [i \in 0..(m + 1) |-> IF i <= m THEN f[i] ELSE CutByte(f[m], chunk, i)]
  <2>2. \A i \in 0..m : g[i] = f[i]
    OBVIOUS
  <2>3. g[m + 1] = CutByte(f[m], chunk, m + 1)
    OBVIOUS
  <2>4. g = [i \in 0..(m + 1) |-> g[i]]
    OBVIOUS
  <2> HIDE DEF g
  <2>5. \A i \in 0..m : f[i] = IF i = 0 THEN start ELSE CutByte(f[i - 1], chunk, i)
    BY <2>1
  <2>6. ASSUME NEW i \in 0..(m + 1) PROVE g[i] = IF i = 0 THEN start ELSE CutByte(g[i - 1], chunk, i)
    <3>1. CASE i = m + 1
      <4>1. i # 0 /\ i - 1 = m /\ m \in 0..m
        BY <3>1
      <4>2. QED
        BY <2>2, <2>3, <3>1, <4>1
    <3>2. CASE i # m + 1
      <4>1. i \in 0..m /\ (i # 0 => i - 1 \in 0..m)
        BY <3>2
      <4>2. QED
        BY <2>2, <2>5, <4>1
    <3>3. QED
      BY <3>1, <3>2
  <2>7. Is(g, m + 1)
    BY <2>4, <2>6
  <2>8. QED
    BY <2>7
<1> HIDE DEF Right
<1>3. n \in Right
  BY <1>1, <1>2, Induction
<1>4. \E f : Is(f, n)
  BY <1>3 DEF Right
<1>5. Is(CutTurns(lines, chunk), n)
  BY <1>4 DEF CutTurns, start
<1>6. QED
  BY <1>5 DEF start

(* Cutting a chunk up adds the chunk to the text, and the lines and what   *)
(* is left over hold no newline.                                           *)
IsCut(cut, at, lines, chunk, B) ==
    /\ cut.at = at /\ cut.lines \in Seq(Seq(B \ {Newline})) /\ cut.leftOver \in Seq(B \ {Newline})
    /\ TextOfLines(cut.lines) \o cut.leftOver = TextOfLines(lines) \o chunk

LEMMA CutKeepsText ==
    ASSUME NEW B, Newline \in B, NEW lines \in Seq(Seq(B \ {Newline})), NEW chunk \in Seq(B), NEW at
    PROVE  IsCut(CutUp(at, lines, chunk), at, lines, chunk, B)
<1> DEFINE C == B \ {Newline}
           n == Len(chunk)
           turns == CutTurns(lines, chunk)
           text == TextOfLines(lines)
           Keeps(turn, i) ==
               /\ turn.lines \in Seq(Seq(C)) /\ turn.start \in 1..(i + 1)
               /\ \A k \in (turn.start)..i : chunk[k] # Newline
               /\ TextOfLines(turn.lines) \o SubSeq(chunk, turn.start, i) = text \o SubSeq(chunk, 1, i)
           Right == {i \in Nat : i <= n => Keeps(turns[i], i)}
<1>1. n \in Nat /\ \A k \in 1..n : chunk[k] \in B
  BY ElementOfSeq, LenProperties
<1>2. turns[0] = [lines |-> lines, start |-> 1] /\ \A i \in 1..n : turns[i] = CutByte(turns[i - 1], chunk, i)
  BY <1>1, CutSteps
<1>3. ASSUME NEW more \in Seq(Seq(C)) PROVE more \in Seq(Seq(B)) /\ TextOfLines(more) \in Seq(B)
  BY LinesAmong, EndsType
<1>4. text \in Seq(B)
  BY <1>3
<1> HIDE DEF turns, text, n
<1>5. 0 \in Right
  <2>1. SubSeq(chunk, 1, 0) = <<>>
    BY SubSeqEmpty
  <2>2. QED
    BY <1>2, <2>1 DEF text
<1>6. ASSUME NEW i \in Nat, i \in Right PROVE i + 1 \in Right
  <2> DEFINE j == i + 1
             turn == turns[i]
  <2>0. j \in Nat
    OBVIOUS
  <2>1. SUFFICES ASSUME j <= n PROVE Keeps(turns[j], j)
    BY <2>0, Zenon
  <2>2. i <= n /\ j \in 1..n /\ j - 1 = i /\ j \in Nat
    BY <1>1, <2>1
  <2>3. turns[j] = CutByte(turn, chunk, j)
    BY <1>2, <2>2
  <2>4. Keeps(turn, i)
    BY <1>6, <2>2
  <2> DEFINE here == SubSeq(chunk, turn.start, i)
             past == SubSeq(chunk, 1, i)
  <2>5. here \in Seq(B) /\ past \in Seq(B)
    <3>1. turn.start \in 1..(n + 1) /\ 1 \in 1..(n + 1) /\ i \in 0..n
      BY <1>1, <2>2, <2>4
    <3>2. QED
      BY <3>1, Slices DEF n
  <2>6. SubSeq(chunk, turn.start, j) = Append(here, chunk[j]) /\ SubSeq(chunk, 1, j) = Append(past, chunk[j])
    <3>1. turn.start \in 1..j /\ 1 \in 1..j /\ j \in 1..Len(chunk)
      BY <2>2, <2>4 DEF n
    <3>2. QED
      BY <2>2, <3>1, SliceGrows
  <2>7. chunk[j] \in B
    BY <1>1, <2>2
  <2> DEFINE told == TextOfLines(turn.lines)
  <2>8. turn.lines \in Seq(Seq(B)) /\ told \in Seq(B)
    BY <1>3, <2>4
  <2>9. told \o here = text \o past
    BY <2>4
  <2> HIDE DEF here, past, told
  <2>10. told \o Append(here, chunk[j]) = text \o Append(past, chunk[j])
    <3>1. \A s, t \in Seq(B), e \in B : s \o Append(t, e) = Append(s \o t, e)
      BY AppendBehind
    <3>2. told \o Append(here, chunk[j]) = Append(told \o here, chunk[j])
      BY <2>5, <2>7, <2>8, <3>1, Zenon
    <3>3. text \o Append(past, chunk[j]) = Append(text \o past, chunk[j])
      BY <1>4, <2>5, <2>7, <3>1, Zenon
    <3>4. QED
      BY <2>9, <3>2, <3>3
  <2>11. CASE chunk[j] = Newline
    <3>1. turns[j] = [lines |-> Append(turn.lines, here), start |-> j + 1]
      BY <2>2, <2>3, <2>11 DEF CutByte, here
    <3>2. here \in Seq(C)
      <4>1. turn.start \in Nat /\ \A k \in (turn.start)..i : k \in 1..n
        BY <1>1, <2>2, <2>4
      <4>2. turn.start \in Int /\ i \in Int /\ \A k \in (turn.start)..i : chunk[k] \in C
        BY <1>1, <2>4, <4>1
      <4>3. QED
        BY <4>2, SubSeqProperties DEF here
    <3>3. Append(turn.lines, here) \in Seq(Seq(C))
      BY <2>4, <3>2, AppendProperties
    <3>4. TextOfLines(Append(turn.lines, here)) = told \o Append(here, Newline)
      BY <2>5, <2>8, TextOfMore DEF told
    <3>5. SubSeq(chunk, j + 1, j) = <<>>
      BY <2>2, SubSeqEmpty
    <3>6. told \o Append(here, Newline) \in Seq(B)
      <4>1. Append(here, Newline) \in Seq(B)
        BY <2>5, AppendProperties
      <4>2. QED
        BY <2>8, <4>1, ConcatProperties
    <3>7. (told \o Append(here, Newline)) \o <<>> = told \o Append(here, Newline)
      BY <3>6, ConcatEmptySeq
    <3>8. TextOfLines(Append(turn.lines, here)) \o SubSeq(chunk, j + 1, j) = text \o SubSeq(chunk, 1, j)
      BY <2>6, <2>10, <2>11, <3>4, <3>5, <3>7
    <3>9. j + 1 \in 1..(j + 1) /\ \A k \in (j + 1)..j : FALSE
      BY <2>2
    <3>10. QED
      BY <3>1, <3>3, <3>8, <3>9, SMTT(30)
  <2>12. CASE chunk[j] # Newline
    <3>1. turns[j] = turn
      BY <2>3, <2>12 DEF CutByte
    <3>2. turn.start \in 1..(j + 1) /\ \A k \in (turn.start)..j : k \in (turn.start)..i \/ k = j
      BY <2>2, <2>4
    <3>3. \A k \in (turn.start)..j : chunk[k] # Newline
      BY <2>4, <2>12, <3>2
    <3>4. TextOfLines(turn.lines) \o SubSeq(chunk, turn.start, j) = text \o SubSeq(chunk, 1, j)
      BY <2>6, <2>10 DEF told
    <3>5. QED
      BY <2>4, <3>1, <3>2, <3>3, <3>4
  <2>13. QED
    BY <2>11, <2>12
<1> HIDE DEF Right
<1>7. n \in Right
  BY <1>1, <1>5, <1>6, Induction
<1>8. Keeps(turns[n], n)
  <2>1. n <= n
    BY <1>1
  <2>2. QED
    BY <1>7, <2>1 DEF Right
<1> DEFINE end == turns[n]
<1> DEFINE cut == CutUp(at, lines, chunk)
<1>9. cut.at = at /\ cut.lines = end.lines /\ cut.leftOver = SubSeq(chunk, end.start, n)
  BY DEF CutUp, turns, n
<1>10. SubSeq(chunk, 1, n) = chunk
  BY SubSeqFull DEF n
<1>11. SubSeq(chunk, end.start, n) \in Seq(C)
  <2>1. end.start \in Nat /\ \A k \in (end.start)..n : k \in 1..n
    BY <1>1, <1>8
  <2>2. end.start \in Int /\ n \in Int /\ \A k \in (end.start)..n : chunk[k] \in C
    BY <1>1, <1>8, <2>1
  <2>3. QED
    BY <2>2, SubSeqProperties
<1>12. QED
  BY <1>8, <1>9, <1>10, <1>11 DEF text, IsCut

(* The loop over the pieces of a file is well defined. *)
LEMMA ReadSteps ==
    ASSUME NEW bytes, NEW buffer, Len(bytes) \in Nat
    PROVE  /\ ReadTurns(bytes, buffer)[0] = [at |-> 0, lines |-> <<>>, leftOver |-> <<>>]
           /\ \A k \in 1..Len(bytes) :
                 ReadTurns(bytes, buffer)[k] = ReadPiece(ReadTurns(bytes, buffer)[k - 1], bytes, buffer)
<1> DEFINE start == [at |-> 0, lines |-> <<>>, leftOver |-> <<>>]
           n == Len(bytes)
           Is(f, m) == f = [k \in 0..m |-> IF k = 0 THEN start ELSE ReadPiece(f[k - 1], bytes, buffer)]
           Right == {m \in Nat : \E f : Is(f, m)}
<1> HIDE DEF start
<1>1. 0 \in Right
  <2>1. [k \in 0..0 |-> start] = [k \in 0..0 |-> IF k = 0 THEN start ELSE ReadPiece([j \in 0..0 |-> start][k - 1], bytes, buffer)]
    OBVIOUS
  <2>2. Is([k \in 0..0 |-> start], 0)
    BY <2>1
  <2>3. QED
    BY <2>2
<1>2. ASSUME NEW m \in Nat, m \in Right PROVE m + 1 \in Right
  <2>1. PICK f : Is(f, m)
    BY <1>2
  <2> DEFINE g == [k \in 0..(m + 1) |-> IF k <= m THEN f[k] ELSE ReadPiece(f[m], bytes, buffer)]
  <2>2. \A k \in 0..m : g[k] = f[k]
    OBVIOUS
  <2>3. g[m + 1] = ReadPiece(f[m], bytes, buffer)
    OBVIOUS
  <2>4. g = [k \in 0..(m + 1) |-> g[k]]
    OBVIOUS
  <2> HIDE DEF g
  <2>5. \A k \in 0..m : f[k] = IF k = 0 THEN start ELSE ReadPiece(f[k - 1], bytes, buffer)
    BY <2>1
  <2>6. ASSUME NEW k \in 0..(m + 1) PROVE g[k] = IF k = 0 THEN start ELSE ReadPiece(g[k - 1], bytes, buffer)
    <3>1. CASE k = m + 1
      <4>1. k # 0 /\ k - 1 = m /\ m \in 0..m
        BY <3>1
      <4>2. QED
        BY <2>2, <2>3, <3>1, <4>1
    <3>2. CASE k # m + 1
      <4>1. k \in 0..m /\ (k # 0 => k - 1 \in 0..m)
        BY <3>2
      <4>2. QED
        BY <2>2, <2>5, <4>1
    <3>3. QED
      BY <3>1, <3>2
  <2>7. Is(g, m + 1)
    BY <2>4, <2>6
  <2>8. QED
    BY <2>7
<1> HIDE DEF Right
<1>3. n \in Right
  BY <1>1, <1>2, Induction
<1>4. \E f : Is(f, n)
  BY <1>3 DEF Right
<1>5. Is(ReadTurns(bytes, buffer), n)
  BY <1>4 DEF ReadTurns, start
<1>6. QED
  BY <1>5 DEF start

(* However the file comes in pieces, all of it is read, into lines and a   *)
(* rest without a newline.                                                 *)
LEMMA ReadKeepsText ==
    ASSUME NEW B, Newline \in B, NEW bytes \in Seq(B), NEW buffer \in Nat \ {0}
    PROVE  LET end == ReadTurns(bytes, buffer)[Len(bytes)] IN
           /\ end.lines \in Seq(Seq(B \ {Newline})) /\ end.leftOver \in Seq(B \ {Newline})
           /\ TextOfLines(end.lines) \o end.leftOver = bytes
<1> DEFINE C == B \ {Newline}
           n == Len(bytes)
           turns == ReadTurns(bytes, buffer)
           Keeps(turn, k) ==
               /\ turn.at \in 0..n /\ turn.at >= k
               /\ turn.lines \in Seq(Seq(C)) /\ turn.leftOver \in Seq(C)
               /\ TextOfLines(turn.lines) \o turn.leftOver = SubSeq(bytes, 1, turn.at)
           Right == {k \in Nat : k <= n => Keeps(turns[k], k)}
<1>1. n \in Nat
  BY LenProperties
<1>2. turns[0] = [at |-> 0, lines |-> <<>>, leftOver |-> <<>>] /\ \A k \in 1..n : turns[k] = ReadPiece(turns[k - 1], bytes, buffer)
  BY <1>1, ReadSteps
<1> HIDE DEF turns, n
<1>3. 0 \in Right
  <2>1. SubSeq(bytes, 1, 0) = <<>>
    BY SubSeqEmpty
  <2>2. <<>> \o <<>> = <<>>
    BY ConcatEmptySeq, EmptySeq
  <2>3. turns[0].at = 0 /\ turns[0].lines = <<>> /\ turns[0].leftOver = <<>>
    BY <1>2
  <2>4. TextOfLines(turns[0].lines) \o turns[0].leftOver = SubSeq(bytes, 1, turns[0].at)
    BY <2>1, <2>2, <2>3, TextOfNone
  <2>5. <<>> \in Seq(Seq(C)) /\ <<>> \in Seq(C)
    BY EmptySeq
  <2>6. Keeps(turns[0], 0)
    BY <1>1, <2>3, <2>4, <2>5
  <2>7. QED
    BY <2>6
<1>4. ASSUME NEW i \in Nat, i \in Right PROVE i + 1 \in Right
  <2> DEFINE j == i + 1
             turn == turns[i]
  <2>0. j \in Nat
    OBVIOUS
  <2>1. SUFFICES ASSUME j <= n PROVE Keeps(turns[j], j)
    BY <2>0, Zenon
  <2>2. i <= n /\ j \in 1..n /\ j - 1 = i
    BY <1>1, <2>1
  <2>3. turns[j] = ReadPiece(turn, bytes, buffer)
    BY <1>2, <2>2
  <2>4. Keeps(turn, i)
    BY <1>4, <2>2
  <2> HIDE DEF turn
  <2>5. CASE turn.at = n
    <3>1. turns[j] = turn
      BY <2>3, <2>5 DEF ReadPiece, n
    <3>2. QED
      BY <2>1, <2>4, <2>5, <3>1
  <2>6. CASE turn.at # n
    <3> DEFINE from == turn.at
               end == Min({from + buffer, n})
               piece == SubSeq(bytes, from + 1, end)
    <3>1. from \in Nat /\ from < n /\ from >= i
      BY <1>1, <2>4, <2>6
    <3>2. end \in from + 1..n
      <4>1. from + buffer \in Nat
        BY <3>1
      <4>2. end \in {from + buffer, n} /\ end <= from + buffer /\ end <= n
        BY <1>1, <4>1, LeastOfTwo
      <4> HIDE DEF end
      <4>3. QED
        BY <1>1, <3>1, <4>2
    <3>3. turns[j] = CutUp(end, turn.lines, turn.leftOver \o piece)
      BY <2>3, <2>6 DEF ReadPiece, n
    <3> HIDE DEF from, end
    <3>4. piece \in Seq(B)
      <4>1. from + 1 \in 1..(Len(bytes) + 1) /\ end \in 0..Len(bytes)
        BY <1>1, <3>1, <3>2 DEF n
      <4>2. QED
        BY <4>1, Slices
    <3>5. turn.leftOver \in Seq(B) /\ turn.lines \in Seq(Seq(B))
      BY <2>4, SeqMonotonic, LinesAmong
    <3> DEFINE told == TextOfLines(turn.lines)
               left == turn.leftOver
    <3>6. told \in Seq(B)
      BY <3>5, EndsType
    <3>7. told \o left = SubSeq(bytes, 1, from)
      BY <2>4 DEF from
    <3>8. SubSeq(bytes, 1, from) \o piece = SubSeq(bytes, 1, end)
      <4>1. 1 \in 1..(Len(bytes) + 1) /\ from \in (1 - 1)..Len(bytes) /\ end \in from..Len(bytes)
        BY <1>1, <3>1, <3>2 DEF n
      <4>2. QED
        BY <4>1, ConcatAdjacentSubSeq
    <3> HIDE DEF piece
    <3> DEFINE chunk == left \o piece
    <3>9. chunk \in Seq(B)
      BY <3>4, <3>5, ConcatProperties
    <3>10. /\ turns[j].at = end /\ turns[j].lines \in Seq(Seq(C)) /\ turns[j].leftOver \in Seq(C)
           /\ TextOfLines(turns[j].lines) \o turns[j].leftOver = told \o chunk
      <4>1. turn.lines \in Seq(Seq(B \ {Newline}))
        BY <2>4
      <4> HIDE DEF chunk
      <4>2. turns[j] = CutUp(end, turn.lines, chunk)
        BY <3>3 DEF chunk
      <4>3. QED
        <5>1. IsCut(turns[j], end, turn.lines, chunk, B)
          BY <3>9, <4>1, <4>2, CutKeepsText
        <5>2. QED
          BY <5>1 DEF IsCut
    <3>11. told \o (left \o piece) = (told \o left) \o piece
      <4>1. told \in Seq(B) /\ left \in Seq(B) /\ piece \in Seq(B)
        BY <3>4, <3>5, <3>6
      <4> HIDE DEF told, left
      <4>2. QED
        BY <4>1, Regroup
    <3>12. TextOfLines(turns[j].lines) \o turns[j].leftOver = SubSeq(bytes, 1, end)
      BY <3>7, <3>8, <3>10, <3>11
    <3>13. end \in 0..n /\ end >= j
      BY <1>1, <3>1, <3>2
    <3>14. QED
      BY <3>10, <3>12, <3>13
  <2>7. QED
    BY <2>5, <2>6
<1> HIDE DEF Right
<1>5. n \in Right
  BY <1>1, <1>3, <1>4, Induction
<1>6. Keeps(turns[n], n)
  <2>1. n <= n
    BY <1>1
  <2>2. QED
    BY <1>5, <2>1 DEF Right
<1>7. turns[n].at = n
  BY <1>1, <1>6
<1>8. SubSeq(bytes, 1, n) = bytes
  BY SubSeqFull DEF n
<1>9. QED
  BY <1>6, <1>7, <1>8 DEF turns, n

(* s ends with last, which has at most n elements; first comes before.     *)
IsEnd(first, last, s, n) ==
    /\ s = first \o last /\ Len(last) <= n
    /\ Len(first) = IF Len(s) > n THEN Len(s) - n ELSE 0

LEMMA LastOfIs ==
    ASSUME NEW S, NEW s \in Seq(S), NEW n \in Nat
    PROVE  LastOf(s, n) \in Seq(S) /\ \E first \in Seq(S) : IsEnd(first, LastOf(s, n), s, n)
<1>1. Len(s) \in Nat
  BY LenProperties
<1>2. CASE Len(s) > n
  <2> DEFINE m == Len(s) - n
             first == SubSeq(s, 1, m)
             last == SubSeq(s, m + 1, Len(s))
  <2>1. m \in Nat /\ m \in 1..Len(s) /\ Len(s) - n + 1 = m + 1
    BY <1>1, <1>2
  <2>2. LastOf(s, n) = last
    BY <1>2, <2>1 DEF LastOf
  <2>3. first \in Seq(S) /\ Len(first) = m
    <3>1. 1 \in 1..(Len(s) + 1) /\ m \in 0..Len(s) /\ 1 <= m /\ m - 1 + 1 = m
      BY <1>1, <2>1
    <3>2. QED
      BY <3>1, Slices
  <2>4. last \in Seq(S) /\ Len(last) = IF m + 1 <= Len(s) THEN Len(s) - (m + 1) + 1 ELSE 0
    <3>1. m + 1 \in 1..(Len(s) + 1) /\ Len(s) \in 0..Len(s)
      BY <1>1, <2>1
    <3>2. QED
      BY <3>1, Slices
  <2>5. first \o last = SubSeq(s, 1, Len(s))
    <3>1. 1 \in 1..(Len(s) + 1) /\ m \in (1 - 1)..Len(s) /\ Len(s) \in m..Len(s)
      BY <1>1, <2>1
    <3>2. QED
      BY <3>1, ConcatAdjacentSubSeq
  <2>6. first \o last = s
    BY <2>5, SubSeqFull
  <2> HIDE DEF first, last
  <2>7. Len(last) <= n
    BY <1>1, <2>1, <2>4
  <2>8. Len(first) = IF Len(s) > n THEN Len(s) - n ELSE 0
    BY <1>2, <2>3
  <2>9. IsEnd(first, LastOf(s, n), s, n)
    BY <2>2, <2>6, <2>7, <2>8 DEF IsEnd
  <2>10. QED
    BY <2>2, <2>3, <2>4, <2>9
<1>3. CASE ~ (Len(s) > n)
  <2>1. LastOf(s, n) = s
    BY <1>3 DEF LastOf
  <2>2. <<>> \o s = s /\ <<>> \in Seq(S) /\ Len(<<>>) = 0
    BY ConcatEmptySeq, EmptySeq
  <2>3. Len(s) <= n
    BY <1>1, <1>3
  <2>4. IsEnd(<<>>, s, s, n)
    BY <1>3, <2>2, <2>3 DEF IsEnd
  <2>5. QED
    BY <2>1, <2>2, <2>4
<1>4. QED
  BY <1>2, <1>3

WithRest(lines, rest) == IF rest = <<>> THEN lines ELSE Append(lines, rest)

(* The lines that are read are the text of the part that is read.          *)
LEMMA TextIsRead ==
    ASSUME NEW B, Newline \in B, NEW bytes \in Seq(B), NEW lines \in Seq(Seq(B \ {Newline})),
           NEW rest \in Seq(B \ {Newline}), TextOfLines(lines) \o rest = bytes,
           NEW all, all = WithRest(lines, rest)
    PROVE  all \in Seq(Seq(B \ {Newline})) /\ TextOfLines(all) = Ended(bytes)
<1>1. lines \in Seq(Seq(B)) /\ rest \in Seq(B)
  BY SeqMonotonic, LinesAmong
<1>2. TextOfLines(lines) \in Seq(B)
  BY <1>1, EndsType
<1>3. CASE rest = <<>>
  <2>1. all = lines
    BY <1>3 DEF WithRest
  <2>2. TextOfLines(lines) = bytes
    <3>1. TextOfLines(lines) \o <<>> = TextOfLines(lines)
      BY <1>2, ConcatEmptySeq
    <3>2. QED
      BY <1>3, <3>1
  <2>3. Ended(bytes) = bytes
    <3>1. CASE lines = <<>>
      BY <2>2, <3>1, TextOfNone DEF Ended
    <3>2. CASE lines # <<>>
      <4>1. TextOfLines(lines)[Len(TextOfLines(lines))] = Newline
        BY <1>1, <3>2, TextEnds
      <4>2. QED
        BY <2>2, <4>1 DEF Ended
    <3>3. QED
      BY <3>1, <3>2
  <2>4. QED
    BY <2>1, <2>2, <2>3
<1>4. CASE rest # <<>>
  <2>1. all = Append(lines, rest)
    BY <1>4 DEF WithRest
  <2>2. all \in Seq(Seq(B \ {Newline}))
    BY <2>1, AppendProperties
  <2> DEFINE text == TextOfLines(lines)
  <2>3. TextOfLines(all) = text \o Append(rest, Newline)
    BY <1>1, <2>1, TextOfMore
  <2>4. text \o Append(rest, Newline) = Append(text \o rest, Newline)
    <3> HIDE DEF text
    <3>1. \A s, t \in Seq(B), e \in B : s \o Append(t, e) = Append(s \o t, e)
      BY AppendBehind
    <3>2. QED
      BY <1>1, <1>2, <3>1, Zenon DEF text
  <2>5. bytes # <<>> /\ bytes[Len(bytes)] # Newline
    <3>1. Len(rest) \in Nat \ {0}
      BY <1>4, EmptySeq
    <3>2. IsJoin(bytes, text, rest)
      <4>1. IsJoin(text \o rest, text, rest)
        BY <1>1, <1>2, Joined
      <4>2. QED
        BY <4>1
    <3>3. Len(rest) \in 1..Len(rest)
      BY <3>1
    <3>4. Len(text) \in Nat /\ Len(bytes) = Len(text) + Len(rest) /\ bytes[Len(text) + Len(rest)] = rest[Len(rest)]
      BY <3>2, <3>3 DEF IsJoin
    <3>5. rest[Len(rest)] # Newline
      BY <3>3, ElementOfSeq
    <3>6. Len(bytes) # 0
      BY <3>1, <3>4
    <3>7. bytes # <<>>
      BY <3>6, EmptySeq
    <3>8. QED
      BY <3>4, <3>5, <3>7
  <2>6. Ended(bytes) = Append(bytes, Newline)
    BY <2>5 DEF Ended
  <2>7. QED
    BY <2>2, <2>3, <2>4, <2>6
<1>5. QED
  BY <1>3, <1>4

(* Of the file, what comes before the part that is read stays before it.   *)
LEMMA EndedBehind ==
    ASSUME NEW B, Newline \in B, NEW first \in Seq(B), NEW bytes \in Seq(B), bytes = <<>> => first = <<>>
    PROVE  Ended(first \o bytes) = first \o Ended(bytes) /\ Ended(bytes) \in Seq(B)
<1> DEFINE s == first \o bytes
<1>1. Ended(bytes) \in Seq(B)
  BY AppendProperties DEF Ended
<1>2. CASE bytes = <<>>
  <2>1. s = <<>> /\ <<>> \o <<>> = <<>>
    BY <1>2, ConcatEmptySeq, EmptySeq
  <2>2. Ended(<<>>) = <<>>
    BY DEF Ended
  <2>3. QED
    BY <1>1, <1>2, <2>1, <2>2
<1>3. CASE bytes # <<>>
  <2>1. Len(bytes) \in Nat \ {0}
    BY <1>3, EmptySeq
  <2>2. s \in Seq(B) /\ IsJoin(s, first, bytes)
    BY Joined
  <2> HIDE DEF s
  <2>3. Len(bytes) \in 1..Len(bytes)
    BY <2>1
  <2>4. Len(first) \in Nat /\ Len(s) = Len(first) + Len(bytes) /\ s[Len(first) + Len(bytes)] = bytes[Len(bytes)]
    BY <2>2, <2>3 DEF IsJoin
  <2>5. s # <<>>
    <3>1. Len(s) # 0
      BY <2>1, <2>4
    <3>2. QED
      BY <3>1, EmptySeq
  <2>6. s[Len(s)] = bytes[Len(bytes)]
    BY <2>4
  <2>7. CASE bytes[Len(bytes)] = Newline
    BY <1>1, <2>5, <2>6, <2>7 DEF Ended, s
  <2>8. CASE bytes[Len(bytes)] # Newline
    <3>1. Ended(s) = Append(s, Newline) /\ Ended(bytes) = Append(bytes, Newline)
      BY <1>3, <2>5, <2>6, <2>8 DEF Ended
    <3>2. first \o Append(bytes, Newline) = Append(first \o bytes, Newline)
      BY AppendBehind
    <3>3. QED
      BY <1>1, <3>1, <3>2 DEF s
  <2>9. QED
    BY <2>7, <2>8
<1>4. QED
  BY <1>2, <1>3

(* Whatever a log holds and however it comes in pieces, the lines are its  *)
(* tail.                                                                   *)
LEMMA TailIsRead ==
    ASSUME NEW Byte, NEW file \in Seq(Byte), NEW buffer \in Nat \ {0}, NEW maxLines \in Nat
    PROVE  IsTail(file, buffer, maxLines)
<1>0. PICK B : B = Byte \union {Newline}
  OBVIOUS
<1> DEFINE C == B \ {Newline}
           bytes == LastOf(file, Limit)
           end == ReadTurns(bytes, buffer)[Len(bytes)]
           all == WithRest(end.lines, end.leftOver)
           lines == GetLogFileLines(file, buffer, maxLines)
           whole == Ended(file)
           before == Len(whole) - Len(TextOfLines(lines))
           unread == IF Len(file) > Limit THEN Len(file) - Limit ELSE 0
<1>1. Newline \in B /\ file \in Seq(B) /\ Limit \in Nat \ {0}
  BY <1>0, SeqMonotonic, TailAssumption
<1>2. PICK pre \in Seq(B) : bytes \in Seq(B) /\ file = pre \o bytes /\ Len(pre) = unread
  <2>1. bytes \in Seq(B) /\ \E pre \in Seq(B) : IsEnd(pre, bytes, file, Limit)
    BY <1>1, LastOfIs
  <2>2. QED
    BY <2>1 DEF IsEnd
<1>3. bytes = <<>> => pre = <<>>
  <2>1. SUFFICES ASSUME bytes = <<>> PROVE pre = <<>>
    OBVIOUS
  <2>2. pre \o <<>> = pre
    BY ConcatEmptySeq
  <2>3. file = pre
    BY <1>2, <2>1, <2>2
  <2>4. Len(file) \in Nat
    BY LenProperties
  <2>5. Len(pre) = 0
    BY <1>1, <1>2, <2>3, <2>4
  <2>6. QED
    BY <2>5, EmptySeq
<1> HIDE DEF bytes, unread
<1>4. /\ end.lines \in Seq(Seq(C)) /\ end.leftOver \in Seq(C)
      /\ TextOfLines(end.lines) \o end.leftOver = bytes
  BY <1>1, <1>2, ReadKeepsText
<1>5. lines = LastOf(all, maxLines)
  BY DEF GetLogFileLines, bytes, WithRest
<1> HIDE DEF end, lines
<1>6. all \in Seq(Seq(C)) /\ TextOfLines(all) = Ended(bytes)
  <2> DEFINE l == end.lines
             r == end.leftOver
  <2>1. /\ l \in Seq(Seq(C)) /\ r \in Seq(C) /\ TextOfLines(l) \o r = bytes
        /\ all = WithRest(l, r)
    BY <1>4
  <2> HIDE DEF all, l, r
  <2>2. QED
    BY <1>1, <1>2, <2>1, TextIsRead
<1> HIDE DEF all
<1>7. PICK first \in Seq(Seq(C)) :
        /\ lines \in Seq(Seq(C)) /\ all = first \o lines /\ Len(lines) <= maxLines
        /\ Len(first) = IF Len(all) > maxLines THEN Len(all) - maxLines ELSE 0
  <2>1. lines \in Seq(Seq(C)) /\ \E first \in Seq(Seq(C)) : IsEnd(first, lines, all, maxLines)
    BY <1>5, <1>6, LastOfIs
  <2>2. QED
    BY <2>1 DEF IsEnd
<1>8. first \in Seq(Seq(B)) /\ lines \in Seq(Seq(B))
  BY <1>7, LinesAmong
<1> DEFINE head == TextOfLines(first)
           tail == TextOfLines(lines)
<1>9. head \in Seq(B) /\ tail \in Seq(B)
  BY <1>1, <1>8, EndsType
<1>10. Ended(bytes) = head \o tail
  BY <1>1, <1>6, <1>7, <1>8, TextOfBoth
<1>11. whole = pre \o (head \o tail)
  <2>1. Ended(pre \o bytes) = pre \o Ended(bytes)
    BY <1>1, <1>2, <1>3, EndedBehind
  <2>2. QED
    BY <1>2, <1>10, <2>1
<1> HIDE DEF head, tail, whole
<1> DEFINE front == pre \o head
<1>12. whole = front \o tail
  <2>1. pre \in Seq(B) /\ head \in Seq(B) /\ tail \in Seq(B)
    BY <1>9
  <2>2. QED
    BY <1>11, <2>1, Regroup
<1>13. front \in Seq(B) /\ IsJoin(front, pre, head)
  BY <1>2, <1>9, Joined
<1> HIDE DEF front
<1>14. whole \in Seq(B) /\ IsJoin(whole, front, tail)
  BY <1>9, <1>12, <1>13, Joined
<1>15. before = Len(front) /\ Len(front) \in Nat /\ Len(front) = Len(pre) + Len(head) /\ Len(head) \in Nat
  BY <1>13, <1>14 DEF IsJoin, tail
<1>16. tail = SubSeq(whole, before + 1, Len(whole))
  <2> DEFINE m == Len(front)
             n == Len(whole)
             t == SubSeq(whole, m + 1, n)
  <2>1. /\ m \in Nat /\ n \in Nat /\ Len(tail) \in Nat /\ n = m + Len(tail)
        /\ \A k \in 1..Len(tail) : whole[m + k] = tail[k]
    BY <1>14, <1>15, LenProperties DEF IsJoin
  <2>2. m + 1 \in 1..(Len(whole) + 1) /\ n \in 0..Len(whole)
    BY <2>1
  <2>3. t \in Seq(B) /\ Len(t) = IF m + 1 <= n THEN n - (m + 1) + 1 ELSE 0
    BY <1>14, <2>2, Slices
  <2>4. Len(t) = Len(tail)
    BY <2>1, <2>3
  <2>5. \A k \in 1..Len(tail) : t[k] = whole[(m + 1) + k - 1]
    <3>1. \A k \in 1..Len(whole) : whole[k] \in B
      BY <1>14, ElementOfSeq
    <3>2. m + 1 \in Int /\ n \in Int /\ (\A k \in (m + 1)..n : whole[k] \in B) /\ n - (m + 1) + 1 = Len(tail)
      BY <2>1, <3>1
    <3>3. \A k \in 1..(n - (m + 1) + 1) : t[k] = whole[(m + 1) + k - 1]
      BY <3>2, SubSeqProperties
    <3>4. QED
      BY <3>2, <3>3
  <2>6. \A k \in 1..Len(tail) : t[k] = tail[k]
    <3>1. \A k \in 1..Len(tail) : (m + 1) + k - 1 = m + k
      BY <2>1
    <3>2. QED
      BY <2>1, <2>5, <3>1
  <2> HIDE DEF t, m, n
  <2>7. tail = t
    BY <1>9, <2>3, <2>4, <2>6, SeqEqual
  <2>8. QED
    BY <1>15, <2>7 DEF t, m, n
<1>17. Len(lines) < maxLines => before = unread
  <2>1. SUFFICES ASSUME Len(lines) < maxLines PROVE Len(head) = 0
    BY <1>2, <1>15
  <2>2. Len(all) = Len(first) + Len(lines) /\ Len(first) \in Nat /\ Len(lines) \in Nat
    BY <1>7, ConcatProperties, LenProperties
  <2>3. Len(first) = 0
    BY <1>7, <2>1, <2>2
  <2>4. first = <<>>
    BY <2>3, EmptySeq
  <2>5. QED
    BY <2>4, TextOfNone, EmptySeq DEF head
<1>18. before \notin {0, unread} => whole[before] = Newline
  <2>1. SUFFICES ASSUME before # unread PROVE whole[before] = Newline
    OBVIOUS
  <2>2. Len(head) # 0
    BY <1>2, <1>15, <2>1
  <2>3. first # <<>>
    BY <2>2, TextOfNone, EmptySeq DEF head
  <2>4. head[Len(head)] = Newline
    BY <1>1, <1>8, <2>3, TextEnds DEF head
  <2>5. Len(head) \in 1..Len(head) /\ Len(front) \in 1..Len(front)
    <3>1. Len(pre) \in Nat
      BY LenProperties
    <3>2. QED
      BY <1>15, <2>2, <3>1
  <2>6. front[Len(front)] = Newline
    BY <1>13, <1>15, <2>4, <2>5 DEF IsJoin
  <2>7. whole[Len(front)] = front[Len(front)]
    BY <1>14, <2>5 DEF IsJoin
  <2>8. QED
    BY <1>15, <2>6, <2>7
<1>19. \A k \in DOMAIN lines : Newline \notin Range(lines[k])
  <2>1. ASSUME NEW k \in DOMAIN lines PROVE Newline \notin Range(lines[k])
    <3>1. lines[k] \in Seq(C)
      BY <1>7, ElementOfSeq, LenProperties
    <3>2. Range(lines[k]) \subseteq C
      BY <3>1, RangeOfSeq
    <3>3. QED
      BY <3>2
  <2>2. QED
    BY <2>1
<1>20. before >= 0
  BY <1>15
<1>21. QED
  BY <1>7, <1>16, <1>17, <1>18, <1>19, <1>20 DEF IsTail, lines, tail, whole, unread

------------------------------------------------------------------------------
(* The header of a model file. *)

Byte == 0..255

(* s stands in f from p on, as far as f goes; all of it does; the reader   *)
(* gets v from it, and fails when f ends before.                           *)
Holds(f, p, s) == \A i \in 1..Len(s) : p + i - 1 <= Len(f) => f[p + i - 1] = s[i]
LiesIn(f, p, s) == p + Len(s) - 1 <= Len(f)
Outcome(f, p, s, v) == IF LiesIn(f, p, s) THEN Got(v, p + Len(s)) ELSE Failure

Position == Nat \ {0}

LEMMA GotFacts ==
    ASSUME NEW v, NEW at
    PROVE  /\ Got(v, at).ok = TRUE /\ Got(v, at).value = v /\ Got(v, at).at = at
           /\ Failure.ok = FALSE
BY DEF Got, Failure

LEMMA Parts ==
    ASSUME NEW f \in Seq(Byte), NEW p \in Position, NEW a \in Seq(Byte), NEW b \in Seq(Byte),
           Holds(f, p, a \o b)
    PROVE  /\ Holds(f, p, a) /\ Holds(f, p + Len(a), b) /\ p + Len(a) \in Position
           /\ p + Len(a \o b) = (p + Len(a)) + Len(b)
           /\ LiesIn(f, p, a \o b) <=> LiesIn(f, p + Len(a), b)
           /\ LiesIn(f, p + Len(a), b) => LiesIn(f, p, a)
<1> DEFINE s == a \o b
           m == Len(a)
           n == Len(b)
           size == Len(f)
<1>1. IsJoin(s, a, b)
  BY Joined
<1>2. /\ m \in Nat /\ n \in Nat /\ size \in Nat /\ p \in Nat /\ p # 0 /\ Len(s) = m + n
      /\ \A i \in 1..m : s[i] = a[i]
      /\ \A i \in 1..n : s[m + i] = b[i]
  BY <1>1, LenProperties DEF IsJoin, Position
<1>3. \A i \in 1..Len(s) : p + i - 1 <= size => f[p + i - 1] = s[i]
  BY DEF Holds
<1> HIDE DEF s, m, n, size
<1>4. ASSUME NEW i \in 1..m, p + i - 1 <= size PROVE f[p + i - 1] = a[i]
  <2>1. i \in 1..Len(s)
    BY <1>2
  <2>2. QED
    BY <1>2, <1>3, <1>4, <2>1
<1>5. ASSUME NEW i \in 1..n, (p + m) + i - 1 <= size PROVE f[(p + m) + i - 1] = b[i]
  <2>1. m + i \in 1..Len(s) /\ (p + m) + i - 1 = p + (m + i) - 1
    BY <1>2
  <2>2. QED
    BY <1>2, <1>3, <1>5, <2>1
<1>6. p + m \in Nat \ {0} /\ p + (m + n) = (p + m) + n
  BY <1>2
<1>7. (p + Len(s) - 1 <= size <=> (p + m) + n - 1 <= size) /\ ((p + m) + n - 1 <= size => p + m - 1 <= size)
  BY <1>2
<1>8. QED
  BY <1>2, <1>4, <1>5, <1>6, <1>7 DEF Holds, LiesIn, Position, s, m, n, size

LEMMA ReadBytesIs ==
    ASSUME NEW f \in Seq(Byte), NEW p \in Position, NEW s \in Seq(Byte), Holds(f, p, s)
    PROVE  ReadBytes(f, p, Len(s)) = Outcome(f, p, s, s)
<1> DEFINE n == Len(s)
           size == Len(f)
           t == SubSeq(f, p, p + n - 1)
<1>1. n \in Nat /\ size \in Nat /\ p \in Nat /\ p # 0
  BY LenProperties DEF Position
<1>2. CASE p + n - 1 > size
  BY <1>1, <1>2 DEF ReadBytes, Outcome, LiesIn
<1>3. CASE ~ (p + n - 1 > size)
  <2>1. p + n - 1 <= size
    BY <1>1, <1>3
  <2>2. \A i \in 1..size : f[i] \in Byte
    BY ElementOfSeq
  <2>3. p \in Int /\ p + n - 1 \in Int /\ (p + n - 1) - p + 1 = n /\ \A i \in p..(p + n - 1) : f[i] \in Byte
    BY <1>1, <2>1, <2>2
  <2>4. /\ t \in Seq(Byte) /\ Len(t) = IF p <= p + n - 1 THEN (p + n - 1) - p + 1 ELSE 0
        /\ \A i \in 1..((p + n - 1) - p + 1) : t[i] = f[p + i - 1]
    BY <2>3, SubSeqProperties
  <2>5. Len(t) = n
    BY <1>1, <2>4
  <2>6. ASSUME NEW i \in 1..n PROVE t[i] = s[i]
    <3>1. p + i - 1 <= size
      BY <1>1, <2>1
    <3>2. f[p + i - 1] = s[i]
      BY <3>1 DEF Holds
    <3>3. QED
      BY <2>3, <2>4, <3>2
  <2> HIDE DEF t
  <2>7. t = s
    BY <2>4, <2>5, <2>6, SeqEqual
  <2>8. ReadBytes(f, p, n) = Got(s, p + n)
    BY <1>3, <2>7 DEF ReadBytes, t
  <2>9. QED
    BY <2>1, <2>8 DEF Outcome, LiesIn
<1>4. QED
  BY <1>2, <1>3

(* What remains of a number. *)
LEMMA RestSteps ==
    ASSUME NEW n, NEW width \in Nat
    PROVE  /\ Rest(n, width)[0] = n
           /\ \A k \in 1..width :
                 Rest(n, width)[k] = Rest(n, width)[k - 1] \div 256
<1> DEFINE top == width
           start == n
           Step(x, k) == x \div 256
           Is(f, m) == f = [k \in 0..m |-> IF k = 0 THEN start ELSE Step(f[k - 1], k)]
           Right == {m \in Nat : \E f : Is(f, m)}
<1>0. top \in Nat
  OBVIOUS
<1> HIDE DEF start, Step, top
<1>1. 0 \in Right
  <2> DEFINE f == [k \in 0..0 |-> start]
  <2>1. \A k \in 0..0 : f[k] = IF k = 0 THEN start ELSE Step(f[k - 1], k)
    OBVIOUS
  <2>2. Is(f, 0)
    BY <2>1
  <2>3. QED
    BY <2>2
<1>2. ASSUME NEW m \in Nat, m \in Right PROVE m + 1 \in Right
  <2>1. PICK f : Is(f, m)
    BY <1>2
  <2> DEFINE g == [k \in 0..(m + 1) |-> IF k <= m THEN f[k] ELSE Step(f[m], k)]
  <2>2. \A k \in 0..m : g[k] = f[k]
    OBVIOUS
  <2>3. g[m + 1] = Step(f[m], m + 1)
    OBVIOUS
  <2>4. g = [k \in 0..(m + 1) |-> g[k]]
    OBVIOUS
  <2> HIDE DEF g
  <2>5. \A k \in 0..m : f[k] = IF k = 0 THEN start ELSE Step(f[k - 1], k)
    BY <2>1
  <2>6. ASSUME NEW k \in 0..(m + 1) PROVE g[k] = IF k = 0 THEN start ELSE Step(g[k - 1], k)
    <3>1. CASE k = m + 1
      <4>1. k # 0 /\ k - 1 = m /\ m \in 0..m
        BY <3>1
      <4>2. QED
        BY <2>2, <2>3, <3>1, <4>1
    <3>2. CASE k # m + 1
      <4>1. k \in 0..m /\ (k # 0 => k - 1 \in 0..m)
        BY <3>2
      <4>2. QED
        BY <2>2, <2>5, <4>1
    <3>3. QED
      BY <3>1, <3>2
  <2>7. Is(g, m + 1)
    BY <2>4, <2>6
  <2>8. QED
    BY <2>7
<1> HIDE DEF Right
<1>3. top \in Right
  BY <1>0, <1>1, <1>2, Induction
<1>4. \E f : Is(f, top)
  BY <1>3 DEF Right
<1>5. Is(Rest(n, width), top)
  BY <1>4 DEF Rest, start, Step, top
<1>6. \A k \in 0..top : Rest(n, width)[k] = IF k = 0 THEN start ELSE Step(Rest(n, width)[k - 1], k)
  BY <1>5
<1>7. 0 \in 0..top /\ \A k \in 1..top : k \in 0..top /\ k # 0
  BY <1>0
<1>8. Rest(n, width)[0] = start /\ \A k \in 1..top : Rest(n, width)[k] = Step(Rest(n, width)[k - 1], k)
  BY <1>6, <1>7
<1>9. QED
  BY <1>8 DEF start, Step, top

(* The elements of a list, one after the other. *)
LEMMA ElementSteps ==
    ASSUME NEW element, NEW type, NEW length \in Nat, NEW at
    PROVE  /\ ElementTurns(element, type, length, at)[0] = Got(<<>>, at)
           /\ \A k \in 1..length :
                 ElementTurns(element, type, length, at)[k] = ReadElement(ElementTurns(element, type, length, at)[k - 1], element, type)
<1> DEFINE top == length
           start == Got(<<>>, at)
           Step(x, k) == ReadElement(x, element, type)
           Is(f, m) == f = [k \in 0..m |-> IF k = 0 THEN start ELSE Step(f[k - 1], k)]
           Right == {m \in Nat : \E f : Is(f, m)}
<1>0. top \in Nat
  OBVIOUS
<1> HIDE DEF start, Step, top
<1>1. 0 \in Right
  <2> DEFINE f == [k \in 0..0 |-> start]
  <2>1. \A k \in 0..0 : f[k] = IF k = 0 THEN start ELSE Step(f[k - 1], k)
    OBVIOUS
  <2>2. Is(f, 0)
    BY <2>1
  <2>3. QED
    BY <2>2
<1>2. ASSUME NEW m \in Nat, m \in Right PROVE m + 1 \in Right
  <2>1. PICK f : Is(f, m)
    BY <1>2
  <2> DEFINE g == [k \in 0..(m + 1) |-> IF k <= m THEN f[k] ELSE Step(f[m], k)]
  <2>2. \A k \in 0..m : g[k] = f[k]
    OBVIOUS
  <2>3. g[m + 1] = Step(f[m], m + 1)
    OBVIOUS
  <2>4. g = [k \in 0..(m + 1) |-> g[k]]
    OBVIOUS
  <2> HIDE DEF g
  <2>5. \A k \in 0..m : f[k] = IF k = 0 THEN start ELSE Step(f[k - 1], k)
    BY <2>1
  <2>6. ASSUME NEW k \in 0..(m + 1) PROVE g[k] = IF k = 0 THEN start ELSE Step(g[k - 1], k)
    <3>1. CASE k = m + 1
      <4>1. k # 0 /\ k - 1 = m /\ m \in 0..m
        BY <3>1
      <4>2. QED
        BY <2>2, <2>3, <3>1, <4>1
    <3>2. CASE k # m + 1
      <4>1. k \in 0..m /\ (k # 0 => k - 1 \in 0..m)
        BY <3>2
      <4>2. QED
        BY <2>2, <2>5, <4>1
    <3>3. QED
      BY <3>1, <3>2
  <2>7. Is(g, m + 1)
    BY <2>4, <2>6
  <2>8. QED
    BY <2>7
<1> HIDE DEF Right
<1>3. top \in Right
  BY <1>0, <1>1, <1>2, Induction
<1>4. \E f : Is(f, top)
  BY <1>3 DEF Right
<1>5. Is(ElementTurns(element, type, length, at), top)
  BY <1>4 DEF ElementTurns, start, Step, top
<1>6. \A k \in 0..top : ElementTurns(element, type, length, at)[k] = IF k = 0 THEN start ELSE Step(ElementTurns(element, type, length, at)[k - 1], k)
  BY <1>5
<1>7. 0 \in 0..top /\ \A k \in 1..top : k \in 0..top /\ k # 0
  BY <1>0
<1>8. ElementTurns(element, type, length, at)[0] = start /\ \A k \in 1..top : ElementTurns(element, type, length, at)[k] = Step(ElementTurns(element, type, length, at)[k - 1], k)
  BY <1>6, <1>7
<1>9. QED
  BY <1>8 DEF start, Step, top

(* The pairs, one after the other. *)
LEMMA PairSteps ==
    ASSUME NEW file, NEW n \in Nat, NEW at
    PROVE  /\ PairTurns(file, n, at)[0] = Got([key \in {} |-> 0], at)
           /\ \A k \in 1..n :
                 PairTurns(file, n, at)[k] = ReadPair(PairTurns(file, n, at)[k - 1], file)
<1> DEFINE top == n
           start == Got([key \in {} |-> 0], at)
           Step(x, k) == ReadPair(x, file)
           Is(f, m) == f = [k \in 0..m |-> IF k = 0 THEN start ELSE Step(f[k - 1], k)]
           Right == {m \in Nat : \E f : Is(f, m)}
<1>0. top \in Nat
  OBVIOUS
<1> HIDE DEF start, Step, top
<1>1. 0 \in Right
  <2> DEFINE f == [k \in 0..0 |-> start]
  <2>1. \A k \in 0..0 : f[k] = IF k = 0 THEN start ELSE Step(f[k - 1], k)
    OBVIOUS
  <2>2. Is(f, 0)
    BY <2>1
  <2>3. QED
    BY <2>2
<1>2. ASSUME NEW m \in Nat, m \in Right PROVE m + 1 \in Right
  <2>1. PICK f : Is(f, m)
    BY <1>2
  <2> DEFINE g == [k \in 0..(m + 1) |-> IF k <= m THEN f[k] ELSE Step(f[m], k)]
  <2>2. \A k \in 0..m : g[k] = f[k]
    OBVIOUS
  <2>3. g[m + 1] = Step(f[m], m + 1)
    OBVIOUS
  <2>4. g = [k \in 0..(m + 1) |-> g[k]]
    OBVIOUS
  <2> HIDE DEF g
  <2>5. \A k \in 0..m : f[k] = IF k = 0 THEN start ELSE Step(f[k - 1], k)
    BY <2>1
  <2>6. ASSUME NEW k \in 0..(m + 1) PROVE g[k] = IF k = 0 THEN start ELSE Step(g[k - 1], k)
    <3>1. CASE k = m + 1
      <4>1. k # 0 /\ k - 1 = m /\ m \in 0..m
        BY <3>1
      <4>2. QED
        BY <2>2, <2>3, <3>1, <4>1
    <3>2. CASE k # m + 1
      <4>1. k \in 0..m /\ (k # 0 => k - 1 \in 0..m)
        BY <3>2
      <4>2. QED
        BY <2>2, <2>5, <4>1
    <3>3. QED
      BY <3>1, <3>2
  <2>7. Is(g, m + 1)
    BY <2>4, <2>6
  <2>8. QED
    BY <2>7
<1> HIDE DEF Right
<1>3. top \in Right
  BY <1>0, <1>1, <1>2, Induction
<1>4. \E f : Is(f, top)
  BY <1>3 DEF Right
<1>5. Is(PairTurns(file, n, at), top)
  BY <1>4 DEF PairTurns, start, Step, top
<1>6. \A k \in 0..top : PairTurns(file, n, at)[k] = IF k = 0 THEN start ELSE Step(PairTurns(file, n, at)[k - 1], k)
  BY <1>5
<1>7. 0 \in 0..top /\ \A k \in 1..top : k \in 0..top /\ k # 0
  BY <1>0
<1>8. PairTurns(file, n, at)[0] = start /\ \A k \in 1..top : PairTurns(file, n, at)[k] = Step(PairTurns(file, n, at)[k - 1], k)
  BY <1>6, <1>7
<1>9. QED
  BY <1>8 DEF start, Step, top

(* The reader, by the depth of values. *)
LEMMA ReaderSteps ==
    ASSUME NEW file
    PROVE  /\ Reader(file)[0] = [type \in Nat |-> [at \in Nat |-> Failure]]
           /\ \A k \in 1..MaxNesting :
                 Reader(file)[k] = [type \in Nat |-> [at \in Nat |-> ReadValue(file, Reader(file)[k - 1], type, at)]]
<1> DEFINE top == MaxNesting
           start == [type \in Nat |-> [at \in Nat |-> Failure]]
           Step(x, k) == [type \in Nat |-> [at \in Nat |-> ReadValue(file, x, type, at)]]
           Is(f, m) == f = [k \in 0..m |-> IF k = 0 THEN start ELSE Step(f[k - 1], k)]
           Right == {m \in Nat : \E f : Is(f, m)}
<1>0. top \in Nat
  BY ReaderAssumption
<1> HIDE DEF start, Step, top
<1>1. 0 \in Right
  <2> DEFINE f == [k \in 0..0 |-> start]
  <2>1. \A k \in 0..0 : f[k] = IF k = 0 THEN start ELSE Step(f[k - 1], k)
    OBVIOUS
  <2>2. Is(f, 0)
    BY <2>1
  <2>3. QED
    BY <2>2
<1>2. ASSUME NEW m \in Nat, m \in Right PROVE m + 1 \in Right
  <2>1. PICK f : Is(f, m)
    BY <1>2
  <2> DEFINE g == [k \in 0..(m + 1) |-> IF k <= m THEN f[k] ELSE Step(f[m], k)]
  <2>2. \A k \in 0..m : g[k] = f[k]
    OBVIOUS
  <2>3. g[m + 1] = Step(f[m], m + 1)
    OBVIOUS
  <2>4. g = [k \in 0..(m + 1) |-> g[k]]
    OBVIOUS
  <2> HIDE DEF g
  <2>5. \A k \in 0..m : f[k] = IF k = 0 THEN start ELSE Step(f[k - 1], k)
    BY <2>1
  <2>6. ASSUME NEW k \in 0..(m + 1) PROVE g[k] = IF k = 0 THEN start ELSE Step(g[k - 1], k)
    <3>1. CASE k = m + 1
      <4>1. k # 0 /\ k - 1 = m /\ m \in 0..m
        BY <3>1
      <4>2. QED
        BY <2>2, <2>3, <3>1, <4>1
    <3>2. CASE k # m + 1
      <4>1. k \in 0..m /\ (k # 0 => k - 1 \in 0..m)
        BY <3>2
      <4>2. QED
        BY <2>2, <2>5, <4>1
    <3>3. QED
      BY <3>1, <3>2
  <2>7. Is(g, m + 1)
    BY <2>4, <2>6
  <2>8. QED
    BY <2>7
<1> HIDE DEF Right
<1>3. top \in Right
  BY <1>0, <1>1, <1>2, Induction
<1>4. \E f : Is(f, top)
  BY <1>3 DEF Right
<1>5. Is(Reader(file), top)
  BY <1>4 DEF Reader, start, Step, top
<1>6. \A k \in 0..top : Reader(file)[k] = IF k = 0 THEN start ELSE Step(Reader(file)[k - 1], k)
  BY <1>5
<1>7. 0 \in 0..top /\ \A k \in 1..top : k \in 0..top /\ k # 0
  BY <1>0
<1>8. Reader(file)[0] = start /\ \A k \in 1..top : Reader(file)[k] = Step(Reader(file)[k - 1], k)
  BY <1>6, <1>7
<1>9. QED
  BY <1>8 DEF start, Step, top

(* The values, by their depth, what is written of them, what is shown. *)
LEMMA ValuesSteps ==
    /\ Values[0] = {}
           /\ \A k \in 1..MaxNesting :
                 Values[k] = Scalars \union Strings \union Lists(Values[k - 1])
<1> DEFINE top == MaxNesting
           start == {}
           Step(x, k) == Scalars \union Strings \union Lists(x)
           Is(f, m) == f = [k \in 0..m |-> IF k = 0 THEN start ELSE Step(f[k - 1], k)]
           Right == {m \in Nat : \E f : Is(f, m)}
<1>0. top \in Nat
  BY ReaderAssumption
<1> HIDE DEF start, Step, top
<1>1. 0 \in Right
  <2> DEFINE f == [k \in 0..0 |-> start]
  <2>1. \A k \in 0..0 : f[k] = IF k = 0 THEN start ELSE Step(f[k - 1], k)
    OBVIOUS
  <2>2. Is(f, 0)
    BY <2>1
  <2>3. QED
    BY <2>2
<1>2. ASSUME NEW m \in Nat, m \in Right PROVE m + 1 \in Right
  <2>1. PICK f : Is(f, m)
    BY <1>2
  <2> DEFINE g == [k \in 0..(m + 1) |-> IF k <= m THEN f[k] ELSE Step(f[m], k)]
  <2>2. \A k \in 0..m : g[k] = f[k]
    OBVIOUS
  <2>3. g[m + 1] = Step(f[m], m + 1)
    OBVIOUS
  <2>4. g = [k \in 0..(m + 1) |-> g[k]]
    OBVIOUS
  <2> HIDE DEF g
  <2>5. \A k \in 0..m : f[k] = IF k = 0 THEN start ELSE Step(f[k - 1], k)
    BY <2>1
  <2>6. ASSUME NEW k \in 0..(m + 1) PROVE g[k] = IF k = 0 THEN start ELSE Step(g[k - 1], k)
    <3>1. CASE k = m + 1
      <4>1. k # 0 /\ k - 1 = m /\ m \in 0..m
        BY <3>1
      <4>2. QED
        BY <2>2, <2>3, <3>1, <4>1
    <3>2. CASE k # m + 1
      <4>1. k \in 0..m /\ (k # 0 => k - 1 \in 0..m)
        BY <3>2
      <4>2. QED
        BY <2>2, <2>5, <4>1
    <3>3. QED
      BY <3>1, <3>2
  <2>7. Is(g, m + 1)
    BY <2>4, <2>6
  <2>8. QED
    BY <2>7
<1> HIDE DEF Right
<1>3. top \in Right
  BY <1>0, <1>1, <1>2, Induction
<1>4. \E f : Is(f, top)
  BY <1>3 DEF Right
<1>5. Is(Values, top)
  BY <1>4 DEF Values, start, Step, top
<1>6. \A k \in 0..top : Values[k] = IF k = 0 THEN start ELSE Step(Values[k - 1], k)
  BY <1>5
<1>7. 0 \in 0..top /\ \A k \in 1..top : k \in 0..top /\ k # 0
  BY <1>0
<1>8. Values[0] = start /\ \A k \in 1..top : Values[k] = Step(Values[k - 1], k)
  BY <1>6, <1>7
<1>9. QED
  BY <1>8 DEF start, Step, top

LEMMA EncodedSteps ==
    /\ Encoded[0] = [v \in {} |-> <<>>]
           /\ \A k \in 1..MaxNesting :
                 Encoded[k] = [v \in Values[k] |-> Encode(Encoded[k - 1], v)]
<1> DEFINE top == MaxNesting
           start == [v \in {} |-> <<>>]
           Step(x, k) == [v \in Values[k] |-> Encode(x, v)]
           Is(f, m) == f = [k \in 0..m |-> IF k = 0 THEN start ELSE Step(f[k - 1], k)]
           Right == {m \in Nat : \E f : Is(f, m)}
<1>0. top \in Nat
  BY ReaderAssumption
<1> HIDE DEF start, Step, top
<1>1. 0 \in Right
  <2> DEFINE f == [k \in 0..0 |-> start]
  <2>1. \A k \in 0..0 : f[k] = IF k = 0 THEN start ELSE Step(f[k - 1], k)
    OBVIOUS
  <2>2. Is(f, 0)
    BY <2>1
  <2>3. QED
    BY <2>2
<1>2. ASSUME NEW m \in Nat, m \in Right PROVE m + 1 \in Right
  <2>1. PICK f : Is(f, m)
    BY <1>2
  <2> DEFINE g == [k \in 0..(m + 1) |-> IF k <= m THEN f[k] ELSE Step(f[m], k)]
  <2>2. \A k \in 0..m : g[k] = f[k]
    OBVIOUS
  <2>3. g[m + 1] = Step(f[m], m + 1)
    OBVIOUS
  <2>4. g = [k \in 0..(m + 1) |-> g[k]]
    OBVIOUS
  <2> HIDE DEF g
  <2>5. \A k \in 0..m : f[k] = IF k = 0 THEN start ELSE Step(f[k - 1], k)
    BY <2>1
  <2>6. ASSUME NEW k \in 0..(m + 1) PROVE g[k] = IF k = 0 THEN start ELSE Step(g[k - 1], k)
    <3>1. CASE k = m + 1
      <4>1. k # 0 /\ k - 1 = m /\ m \in 0..m
        BY <3>1
      <4>2. QED
        BY <2>2, <2>3, <3>1, <4>1
    <3>2. CASE k # m + 1
      <4>1. k \in 0..m /\ (k # 0 => k - 1 \in 0..m)
        BY <3>2
      <4>2. QED
        BY <2>2, <2>5, <4>1
    <3>3. QED
      BY <3>1, <3>2
  <2>7. Is(g, m + 1)
    BY <2>4, <2>6
  <2>8. QED
    BY <2>7
<1> HIDE DEF Right
<1>3. top \in Right
  BY <1>0, <1>1, <1>2, Induction
<1>4. \E f : Is(f, top)
  BY <1>3 DEF Right
<1>5. Is(Encoded, top)
  BY <1>4 DEF Encoded, start, Step, top
<1>6. \A k \in 0..top : Encoded[k] = IF k = 0 THEN start ELSE Step(Encoded[k - 1], k)
  BY <1>5
<1>7. 0 \in 0..top /\ \A k \in 1..top : k \in 0..top /\ k # 0
  BY <1>0
<1>8. Encoded[0] = start /\ \A k \in 1..top : Encoded[k] = Step(Encoded[k - 1], k)
  BY <1>6, <1>7
<1>9. QED
  BY <1>8 DEF start, Step, top

LEMMA ShownSteps ==
    /\ Shown[0] = [v \in {} |-> <<>>]
           /\ \A k \in 1..MaxNesting :
                 Shown[k] = [v \in Values[k] |-> Show(Shown[k - 1], v)]
<1> DEFINE top == MaxNesting
           start == [v \in {} |-> <<>>]
           Step(x, k) == [v \in Values[k] |-> Show(x, v)]
           Is(f, m) == f = [k \in 0..m |-> IF k = 0 THEN start ELSE Step(f[k - 1], k)]
           Right == {m \in Nat : \E f : Is(f, m)}
<1>0. top \in Nat
  BY ReaderAssumption
<1> HIDE DEF start, Step, top
<1>1. 0 \in Right
  <2> DEFINE f == [k \in 0..0 |-> start]
  <2>1. \A k \in 0..0 : f[k] = IF k = 0 THEN start ELSE Step(f[k - 1], k)
    OBVIOUS
  <2>2. Is(f, 0)
    BY <2>1
  <2>3. QED
    BY <2>2
<1>2. ASSUME NEW m \in Nat, m \in Right PROVE m + 1 \in Right
  <2>1. PICK f : Is(f, m)
    BY <1>2
  <2> DEFINE g == [k \in 0..(m + 1) |-> IF k <= m THEN f[k] ELSE Step(f[m], k)]
  <2>2. \A k \in 0..m : g[k] = f[k]
    OBVIOUS
  <2>3. g[m + 1] = Step(f[m], m + 1)
    OBVIOUS
  <2>4. g = [k \in 0..(m + 1) |-> g[k]]
    OBVIOUS
  <2> HIDE DEF g
  <2>5. \A k \in 0..m : f[k] = IF k = 0 THEN start ELSE Step(f[k - 1], k)
    BY <2>1
  <2>6. ASSUME NEW k \in 0..(m + 1) PROVE g[k] = IF k = 0 THEN start ELSE Step(g[k - 1], k)
    <3>1. CASE k = m + 1
      <4>1. k # 0 /\ k - 1 = m /\ m \in 0..m
        BY <3>1
      <4>2. QED
        BY <2>2, <2>3, <3>1, <4>1
    <3>2. CASE k # m + 1
      <4>1. k \in 0..m /\ (k # 0 => k - 1 \in 0..m)
        BY <3>2
      <4>2. QED
        BY <2>2, <2>5, <4>1
    <3>3. QED
      BY <3>1, <3>2
  <2>7. Is(g, m + 1)
    BY <2>4, <2>6
  <2>8. QED
    BY <2>7
<1> HIDE DEF Right
<1>3. top \in Right
  BY <1>0, <1>1, <1>2, Induction
<1>4. \E f : Is(f, top)
  BY <1>3 DEF Right
<1>5. Is(Shown, top)
  BY <1>4 DEF Shown, start, Step, top
<1>6. \A k \in 0..top : Shown[k] = IF k = 0 THEN start ELSE Step(Shown[k - 1], k)
  BY <1>5
<1>7. 0 \in 0..top /\ \A k \in 1..top : k \in 0..top /\ k # 0
  BY <1>0
<1>8. Shown[0] = start /\ \A k \in 1..top : Shown[k] = Step(Shown[k - 1], k)
  BY <1>6, <1>7
<1>9. QED
  BY <1>8 DEF start, Step, top

LEMMA RestType ==
    ASSUME NEW n \in Nat, NEW width \in Nat
    PROVE  \A k \in 0..width : Rest(n, width)[k] \in Nat /\ Rest(n, width)[k] <= n
<1> DEFINE rest == Rest(n, width)
           Right == {k \in Nat : k <= width => rest[k] \in Nat /\ rest[k] <= n}
<1>1. rest[0] = n /\ \A k \in 1..width : rest[k] = rest[k - 1] \div 256
  BY RestSteps
<1> HIDE DEF rest
<1>2. 0 \in Right
  BY <1>1
<1>3. ASSUME NEW k \in Nat, k \in Right PROVE k + 1 \in Right
  <2>1. SUFFICES ASSUME k + 1 <= width PROVE rest[k + 1] \in Nat /\ rest[k + 1] <= n
    OBVIOUS
  <2>2. k <= width /\ k + 1 \in 1..width /\ (k + 1) - 1 = k
    BY <2>1
  <2>3. rest[k] \in Nat /\ rest[k] <= n
    BY <1>3, <2>2
  <2>4. rest[k + 1] = rest[k] \div 256
    BY <1>1, <2>2
  <2>5. \A x \in Nat : x \div 256 \in Nat /\ x \div 256 <= x
    OBVIOUS
  <2>6. QED
    BY <2>3, <2>4, <2>5
<1> HIDE DEF Right
<1>4. Nat \subseteq Right
  BY <1>2, <1>3, Induction
<1>5. ASSUME NEW k \in 0..width PROVE rest[k] \in Nat /\ rest[k] <= n
  <2>1. k \in Nat /\ k <= width
    OBVIOUS
  <2>2. QED
    BY <1>4, <2>1 DEF Right
<1>6. QED
  BY <1>5 DEF rest

LEMMA WriteIntType ==
    ASSUME NEW n \in Nat, NEW width \in Nat
    PROVE  /\ WriteInt(n, width) \in Seq(Byte) /\ Len(WriteInt(n, width)) = width
           /\ \A k \in 1..width : WriteInt(n, width)[k] = Rest(n, width)[k - 1] % 256
<1> DEFINE s == [k \in 1..width |-> Rest(n, width)[k - 1] % 256]
<1>1. \A x \in Nat : x % 256 \in Byte
  BY DEF Byte
<1>2. \A k \in 1..width : k - 1 \in 0..width
  OBVIOUS
<1>3. \A k \in 1..width : Rest(n, width)[k - 1] % 256 \in Byte
  BY <1>1, <1>2, RestType
<1>4. s \in [1..width -> Byte]
  BY <1>3
<1>5. s \in Seq(Byte)
  BY <1>4, SeqDef
<1>6. \A k \in 1..width : s[k] = Rest(n, width)[k - 1] % 256
  OBVIOUS
<1>7. Len(s) = width
  <2> HIDE DEF s
  <2>1. DOMAIN s = 1..Len(s) /\ Len(s) \in Nat
    BY <1>5, LenProperties
  <2>2. DOMAIN s = 1..width
    BY <1>4
  <2>3. \A a, b \in Nat : 1..a = 1..b => a = b
    <3>1. ASSUME NEW a \in Nat, NEW b \in Nat, 1..a = 1..b, a < b PROVE FALSE
      <4>1. b \in 1..b /\ b \notin 1..a
        BY <3>1
      <4>2. QED
        BY <3>1, <4>1
    <3>2. QED
      BY <3>1
  <2>4. 1..Len(s) = 1..width
    BY <2>1, <2>2
  <2> DEFINE size == Len(s)
  <2>5. size \in Nat /\ 1..size = 1..width
    BY <2>1, <2>4
  <2> HIDE DEF size
  <2>6. size = width
    BY <2>3, <2>5
  <2>7. QED
    BY <2>6 DEF size
<1>8. WriteInt(n, width) = s
  BY DEF WriteInt
<1>9. QED
  BY <1>5, <1>6, <1>7, <1>8

LEMMA WrittenInt ==
    ASSUME NEW n \in Nat, NEW width \in Nat
    PROVE  WriteInt(n, width) \in Seq(Byte) /\ Len(WriteInt(n, width)) = width
BY WriteIntType

LEMMA Digits ==
    ASSUME NEW x \in Nat, NEW q, NEW r, q = x \div 256, r = x % 256
    PROVE  q * 256 + r = x
<1>1. q \in Nat
  OBVIOUS
<1>2. r \in Nat
  OBVIOUS
<1>3. QED
  BY <1>1, <1>2

(* A number that fits is what is read of its bytes. *)
LEMMA IntegerWritten ==
    ASSUME NEW n \in Nat, NEW width \in Nat, Fits(n, width)
    PROVE  Integer(WriteInt(n, width)) = n
<1> DEFINE bytes == WriteInt(n, width)
           rest == Rest(n, width)
           Is(from) == from = [k \in 1..(width + 1) |->
                          IF k > width THEN 0 ELSE Min({from[k + 1] * 256 + bytes[k], Huge})]
           G == [k \in 1..(width + 1) |-> rest[k - 1]]
<1>1. Len(bytes) = width /\ \A k \in 1..width : bytes[k] = rest[k - 1] % 256
  BY WriteIntType
<1>2. rest[0] = n /\ (\A k \in 1..width : rest[k] = rest[k - 1] \div 256) /\ \A k \in 0..width : rest[k] \in Nat /\ rest[k] <= n
  BY RestSteps, RestType
<1>3. n < Huge /\ rest[width] = 0 /\ Huge \in Nat
  BY ReaderAssumption DEF Fits
<1> HIDE DEF bytes, rest
<1>4. ASSUME NEW k \in 1..width PROVE rest[k - 1] = Min({rest[k] * 256 + bytes[k], Huge})
  <2>1. k - 1 \in 0..width /\ k \in 0..width
    OBVIOUS
  <2>2. rest[k - 1] \in Nat /\ rest[k - 1] <= n /\ rest[k] \in Nat
    BY <1>2, <2>1
  <2>3. rest[k] = rest[k - 1] \div 256 /\ bytes[k] = rest[k - 1] % 256
    BY <1>1, <1>2
  <2>4. rest[k] * 256 + bytes[k] = rest[k - 1]
    BY <2>2, <2>3, Digits
  <2>5. rest[k - 1] <= Huge
    BY <1>3, <2>2
  <2>6. QED
    BY <1>3, <2>2, <2>4, <2>5, LeastOfTwo
<1>5. \A k \in 1..(width + 1) : G[k] = rest[k - 1]
  OBVIOUS
<1>6. G = [k \in 1..(width + 1) |-> G[k]]
  OBVIOUS
<1> HIDE DEF G
<1>7. ASSUME NEW k \in 1..(width + 1)
      PROVE  G[k] = IF k > width THEN 0 ELSE Min({G[k + 1] * 256 + bytes[k], Huge})
  <2>1. CASE k > width
    <3>1. k = width + 1 /\ k - 1 = width
      BY <2>1
    <3>2. QED
      BY <1>3, <1>5, <2>1, <3>1
  <2>2. CASE ~ (k > width)
    <3>1. k \in 1..width /\ k + 1 \in 1..(width + 1) /\ (k + 1) - 1 = k
      BY <2>2
    <3>2. G[k] = rest[k - 1] /\ G[k + 1] = rest[k]
      BY <1>5, <3>1
    <3>3. QED
      BY <1>4, <2>2, <3>1, <3>2
  <2>3. QED
    BY <2>1, <2>2
<1>8. Is(G)
  BY <1>6, <1>7
<1> DEFINE from == CHOOSE g : Is(g)
<1>9. Is(from)
  BY <1>8
<1>10. Integer(bytes) = from[1]
  BY <1>1 DEF Integer
<1> HIDE DEF from
<1>11. \A k \in 1..(width + 1) : from[k] = IF k > width THEN 0 ELSE Min({from[k + 1] * 256 + bytes[k], Huge})
  BY <1>9
<1> DEFINE Right == {j \in Nat : j <= width => from[width + 1 - j] = rest[width - j]}
<1>12. 0 \in Right
  <2>1. width + 1 - 0 = width + 1 /\ width - 0 = width /\ width + 1 \in 1..(width + 1) /\ width + 1 > width
    OBVIOUS
  <2>2. from[width + 1] = 0
    BY <1>11, <2>1
  <2>3. QED
    BY <1>3, <2>1, <2>2
<1>13. ASSUME NEW j \in Nat, j \in Right PROVE j + 1 \in Right
  <2>1. SUFFICES ASSUME j + 1 <= width PROVE from[width + 1 - (j + 1)] = rest[width - (j + 1)]
    OBVIOUS
  <2> DEFINE k == width - j
  <2>2. /\ k \in 1..width /\ k \in 1..(width + 1) /\ k + 1 = width + 1 - j /\ ~ (k > width)
        /\ width + 1 - (j + 1) = k /\ width - (j + 1) = k - 1 /\ j <= width
    BY <2>1
  <2>3. from[k + 1] = rest[k]
    BY <1>13, <2>2
  <2> HIDE DEF k
  <2>4. from[k] = Min({from[k + 1] * 256 + bytes[k], Huge})
    BY <1>11, <2>2
  <2>5. from[k] = rest[k - 1]
    BY <1>4, <2>2, <2>3, <2>4
  <2>6. QED
    BY <2>2, <2>5
<1> HIDE DEF Right
<1>14. width \in Right
  BY <1>12, <1>13, Induction
<1>15. width + 1 - width = 1 /\ width - width = 0 /\ width <= width
  OBVIOUS
<1>16. from[1] = rest[0]
  BY <1>14, <1>15 DEF Right
<1>17. QED
  BY <1>2, <1>10, <1>16 DEF bytes

LEMMA ReadIntIs ==
    ASSUME NEW f \in Seq(Byte), NEW p \in Position, NEW n \in Nat, NEW width \in Nat,
           Fits(n, width), Holds(f, p, WriteInt(n, width))
    PROVE  ReadInt(f, p, width) = Outcome(f, p, WriteInt(n, width), n)
<1> DEFINE s == WriteInt(n, width)
<1>1. s \in Seq(Byte) /\ Len(s) = width
  BY WriteIntType
<1>2. Integer(s) = n
  BY IntegerWritten
<1>3. Holds(f, p, s)
  OBVIOUS
<1> HIDE DEF s
<1>4. ReadBytes(f, p, width) = Outcome(f, p, s, s)
  BY <1>1, <1>3, ReadBytesIs
<1>5. CASE LiesIn(f, p, s)
  <2>1. ReadBytes(f, p, width) = Got(s, p + Len(s))
    BY <1>4, <1>5 DEF Outcome
  <2>2. ReadInt(f, p, width) = Got(Integer(s), p + Len(s))
    BY <2>1 DEF ReadInt, Got
  <2>3. QED
    BY <1>2, <1>5, <2>2 DEF Outcome, s
<1>6. CASE ~ LiesIn(f, p, s)
  <2>1. ReadBytes(f, p, width) = Failure
    BY <1>4, <1>6 DEF Outcome
  <2>2. ReadInt(f, p, width) = Failure
    BY <2>1, GotFacts DEF ReadInt
  <2>3. QED
    BY <1>6, <2>2 DEF Outcome, s
<1>7. QED
  BY <1>5, <1>6

LEMMA SmallFits ==
    ASSUME NEW n \in 0..12, NEW width \in Nat \ {0}
    PROVE  Fits(n, width)
<1> DEFINE rest == Rest(n, width)
           Right == {j \in Nat : j + 1 <= width => rest[j + 1] = 0}
<1>1. rest[0] = n /\ \A k \in 1..width : rest[k] = rest[k - 1] \div 256
  BY RestSteps
<1> HIDE DEF rest
<1>2. 0 \in Right
  <2>1. 0 + 1 = 1 /\ 1 \in 1..width /\ 1 - 1 = 0
    OBVIOUS
  <2>2. rest[1] = n \div 256
    BY <1>1, <2>1
  <2>3. n \div 256 = 0
    OBVIOUS
  <2>4. QED
    BY <2>1, <2>2, <2>3
<1>3. ASSUME NEW j \in Nat, j \in Right PROVE j + 1 \in Right
  <2>1. SUFFICES ASSUME (j + 1) + 1 <= width PROVE rest[(j + 1) + 1] = 0
    OBVIOUS
  <2>2. (j + 1) + 1 \in 1..width /\ ((j + 1) + 1) - 1 = j + 1 /\ j + 1 <= width
    BY <2>1
  <2>3. rest[(j + 1) + 1] = rest[j + 1] \div 256 /\ rest[j + 1] = 0
    BY <1>1, <1>3, <2>2
  <2>4. 0 \div 256 = 0
    OBVIOUS
  <2>5. QED
    BY <2>3, <2>4
<1> HIDE DEF Right
<1>4. width - 1 \in Right
  <2>1. width - 1 \in Nat
    OBVIOUS
  <2>2. QED
    BY <1>2, <1>3, <2>1, Induction
<1>5. (width - 1) + 1 = width
  OBVIOUS
<1>6. rest[width] = 0
  BY <1>4, <1>5 DEF Right
<1>7. n < Huge
  BY ReaderAssumption
<1>8. QED
  BY <1>6, <1>7 DEF Fits, rest

LEMMA WriteStringType ==
    ASSUME NEW s \in Texts
    PROVE  WriteString(s) \in Seq(Byte) /\ s \in Seq(Byte) /\ WriteInt(Len(s), 8) \in Seq(Byte) /\ Len(s) \in Nat
<1>1. s \in Seq(Byte)
  BY DEF Texts, Byte
<1>2. Len(s) \in Nat
  BY <1>1, LenProperties
<1>3. WriteInt(Len(s), 8) \in Seq(Byte)
  BY <1>2, WriteIntType
<1>4. QED
  BY <1>1, <1>2, <1>3, ConcatProperties DEF WriteString

LEMMA ReadStringIs ==
    ASSUME NEW f \in Seq(Byte), NEW p \in Position, NEW s \in Texts, Holds(f, p, WriteString(s))
    PROVE  ReadString(f, p) = Outcome(f, p, WriteString(s), s)
<1> DEFINE n == Len(s)
           a == WriteInt(n, 8)
           q == p + Len(a)
<1>1. s \in Seq(Byte) /\ a \in Seq(Byte) /\ n \in Nat /\ WriteString(s) = a \o s
  BY WriteStringType DEF WriteString
<1>2. Fits(n, 8) /\ ~ (n > MaxString)
  BY <1>1, ReaderAssumption DEF Texts
<1>3. Holds(f, p, a \o s)
  BY <1>1
<1>4. ReadInt(f, p, 8) = Outcome(f, p, a, n) \/ ~ Holds(f, p, a)
  BY <1>1, <1>2, ReadIntIs
<1> HIDE DEF a, n
<1>5. /\ Holds(f, p, a) /\ Holds(f, q, s) /\ q \in Position
      /\ p + Len(a \o s) = q + Len(s)
      /\ LiesIn(f, p, a \o s) <=> LiesIn(f, q, s)
      /\ LiesIn(f, q, s) => LiesIn(f, p, a)
  BY <1>1, <1>3, Parts
<1> HIDE DEF q
<1>6. ReadBytes(f, q, n) = Outcome(f, q, s, s)
  BY <1>1, <1>5, ReadBytesIs DEF n
<1>7. CASE LiesIn(f, p, a)
  <2>1. ReadInt(f, p, 8) = Got(n, q)
    BY <1>4, <1>5, <1>7 DEF Outcome, q
  <2>2. ReadString(f, p) = ReadBytes(f, q, n)
    BY <1>2, <2>1 DEF ReadString, Got
  <2>3. Outcome(f, q, s, s) = Outcome(f, p, a \o s, s)
    BY <1>5 DEF Outcome
  <2>4. QED
    BY <1>1, <1>6, <2>2, <2>3
<1>8. CASE ~ LiesIn(f, p, a)
  <2>1. ReadInt(f, p, 8) = Failure
    BY <1>4, <1>5, <1>8 DEF Outcome
  <2>2. ReadString(f, p) = Failure
    BY <2>1 DEF ReadString, Failure
  <2>3. Outcome(f, p, a \o s, s) = Failure
    BY <1>5, <1>8 DEF Outcome
  <2>4. QED
    BY <1>1, <2>2, <2>3
<1>9. QED
  BY <1>7, <1>8

(* What is read of a list: its first elements, when f goes that far.       *)
LEMMA FlatHolds ==
    ASSUME NEW f \in Seq(Byte), NEW p \in Position, NEW seqs \in Seq(Seq(Byte)), NEW F, IsFlat(F, seqs, Byte),
           Holds(f, p, F[Len(seqs)])
    PROVE  /\ \A k \in 0..Len(seqs) : F[k] \in Seq(Byte)
           /\ \A k \in 1..Len(seqs) : Holds(f, p, F[k - 1] \o seqs[k])
<1> DEFINE n == Len(seqs)
<1>1. n \in Nat /\ n \in 0..n
  BY LenProperties
<1>2. F \in [0..n -> Seq(Byte)] /\ \A k \in 1..n : F[k] = F[k - 1] \o seqs[k]
  BY DEF IsFlat
<1>3. ASSUME NEW k \in 0..n PROVE Holds(f, p, F[k])
  <2>1. /\ Len(F[k]) \in Nat /\ Len(F[n]) \in Nat /\ Len(F[k]) <= Len(F[n])
        /\ \A q \in 1..Len(F[k]) : F[n][q] = F[k][q]
    BY FlatPrefix
  <2> HIDE DEF n
  <2>2. \A q \in 1..Len(F[k]) : q \in 1..Len(F[n])
    BY <2>1
  <2>3. Holds(f, p, F[n])
    BY DEF n
  <2>4. QED
    BY <2>1, <2>2, <2>3 DEF Holds
<1>4. \A k \in 1..n : k \in 0..n
  OBVIOUS
<1> HIDE DEF n
<1>5. \A k \in 1..n : Holds(f, p, F[k - 1] \o seqs[k])
  <2>1. ASSUME NEW k \in 1..n PROVE Holds(f, p, F[k - 1] \o seqs[k])
    <3>1. Holds(f, p, F[k]) /\ F[k] = F[k - 1] \o seqs[k]
      BY <1>2, <1>3, <1>4
    <3>2. QED
      BY <3>1
  <2>2. QED
    BY <2>1
<1>6. QED
  BY <1>2, <1>5 DEF n

(* element reads in f of each of the sequences what is to be seen of it.   *)
ReadsEach(f, element, type, seqs, shows) ==
    \A k \in 1..Len(seqs), q \in Position :
       Holds(f, q, seqs[k]) => element[type][q] = Outcome(f, q, seqs[k], shows[k])

LEMMA ElementRead ==
    ASSUME NEW read, NEW element, NEW type, NEW kept, NEW q, NEW show, NEW next,
           read = Got(kept, q), element[type][q] = Got(show, next)
    PROVE  ReadElement(read, element, type)
              = Got(IF Len(kept) < MaxParsed THEN Append(kept, show) ELSE kept, next)
<1>1. read.ok /\ read.value = kept /\ read.at = q
  BY GotFacts
<1> DEFINE e == element[type][q]
<1>2. e.ok /\ e.value = show /\ e.at = next
  BY DEF Got
<1>3. e = element[type][read.at]
  BY <1>1
<1> HIDE DEF e
<1>4. QED
  BY <1>1, <1>2, <1>3 DEF ReadElement

LEMMA ElementsAreRead ==
    ASSUME NEW f \in Seq(Byte), NEW p \in Position, p - 1 <= Len(f), NEW element, NEW type,
           NEW seqs \in Seq(Seq(Byte)), NEW T, NEW shows \in Seq(T), Len(shows) = Len(seqs),
           ReadsEach(f, element, type, seqs, shows),
           Holds(f, p, FlattenSeq(seqs))
    PROVE  ElementTurns(element, type, Len(seqs), p)[Len(seqs)]
              = Outcome(f, p, FlattenSeq(seqs), SubSeq(shows, 1, Min({Len(seqs), MaxParsed})))
<1> DEFINE n == Len(seqs)
           turns == ElementTurns(element, type, n, p)
           Kept(k) == SubSeq(shows, 1, Min({k, MaxParsed}))
<1>1. PICK F : IsFlat(F, seqs, Byte)
  BY FlatExists
<1>2. FlattenSeq(seqs) = F[n]
  BY <1>1, FlattenIsFlat
<1>3. /\ \A k \in 0..n : F[k] \in Seq(Byte)
      /\ \A k \in 1..n : Holds(f, p, F[k - 1] \o seqs[k])
  BY <1>1, <1>2, FlatHolds
<1>4. F[0] = <<>> /\ \A k \in 1..n : F[k] = F[k - 1] \o seqs[k]
  BY <1>1 DEF IsFlat
<1>5. n \in Nat /\ \A k \in 1..n : seqs[k] \in Seq(Byte)
  BY ElementOfSeq, LenProperties
<1>6. turns[0] = Got(<<>>, p) /\ \A k \in 1..n : turns[k] = ReadElement(turns[k - 1], element, type)
  BY <1>5, ElementSteps
<1>7. MaxParsed \in Nat /\ Len(f) \in Nat /\ p \in Nat /\ p # 0
  BY ReaderAssumption, LenProperties DEF Position
<1>8. \A k \in 0..n : Min({k, MaxParsed}) = IF k <= MaxParsed THEN k ELSE MaxParsed
  BY <1>5, <1>7, LeastOfTwo
<1>9. ASSUME NEW k \in 1..n
      PROVE  IF Len(Kept(k - 1)) < MaxParsed THEN Append(Kept(k - 1), shows[k]) = Kept(k) ELSE Kept(k - 1) = Kept(k)
  <2>1. k - 1 \in 0..n /\ k \in 0..n /\ k \in Nat
    BY <1>5
  <2> DEFINE m == Min({k - 1, MaxParsed})
  <2>2. m = IF k - 1 <= MaxParsed THEN k - 1 ELSE MaxParsed
    BY <1>8, <2>1
  <2> HIDE DEF m
  <2>3. m \in 0..n /\ 1 \in 1..(n + 1) /\ m \in Nat
    BY <1>5, <1>7, <2>1, <2>2
  <2>4. Len(SubSeq(shows, 1, m)) = m
    <3>1. Len(SubSeq(shows, 1, m)) = IF 1 <= m THEN m - 1 + 1 ELSE 0
      <4>1. 1 \in 1..(Len(shows) + 1) /\ m \in 0..Len(shows)
        BY <2>3
      <4>2. QED
        BY <4>1, Slices
    <3>2. QED
      BY <2>3, <3>1
  <2>5. CASE m < MaxParsed
    <3>1. m = k - 1 /\ Min({k, MaxParsed}) = k
      BY <1>7, <1>8, <2>1, <2>2, <2>5
    <3>2. SubSeq(shows, 1, k) = Append(SubSeq(shows, 1, k - 1), shows[k])
      <4>1. k \in 1..Len(shows) /\ 1 \in 1..k
        BY <1>5
      <4>2. QED
        BY <4>1, SliceGrows
    <3>3. QED
      BY <2>4, <2>5, <3>1, <3>2 DEF m
  <2>6. CASE ~ (m < MaxParsed)
    <3>1. m = MaxParsed /\ Min({k, MaxParsed}) = MaxParsed
      BY <1>7, <1>8, <2>1, <2>2, <2>6
    <3>2. QED
      BY <2>4, <2>6, <3>1 DEF m
  <2>7. QED
    BY <2>5, <2>6
<1>10. Kept(0) = <<>>
  <2>1. Min({0, MaxParsed}) = 0
    BY <1>7, LeastOfTwo
  <2>2. QED
    BY <2>1, SubSeqEmpty
<1> HIDE DEF Kept, turns, n
<1> DEFINE Right == {k \in Nat : k <= n => turns[k] = Outcome(f, p, F[k], Kept(k))}
<1>11. 0 \in Right
  <2>1. Len(<<>>) = 0 /\ p + 0 = p /\ p + 0 - 1 <= Len(f)
    BY <1>7, EmptySeq
  <2>2. Outcome(f, p, <<>>, <<>>) = Got(<<>>, p)
    BY <2>1 DEF Outcome, LiesIn
  <2>3. QED
    BY <1>4, <1>6, <1>10, <2>2
<1>12. ASSUME NEW j \in Nat, j \in Right PROVE j + 1 \in Right
  <2> DEFINE k == j + 1
             a == F[j]
             b == seqs[k]
             q == p + Len(a)
             kept == Kept(j)
             show == shows[k]
  <2>0. k \in Nat
    OBVIOUS
  <2>1. SUFFICES ASSUME k <= n PROVE turns[k] = Outcome(f, p, F[k], Kept(k))
    BY <2>0, Zenon
  <2>2. k \in 1..n /\ j \in 0..n /\ k - 1 = j /\ j <= n
    BY <1>5, <2>1
  <2>3. turns[j] = Outcome(f, p, a, kept) /\ turns[k] = ReadElement(turns[j], element, type) /\ F[k] = a \o b
    BY <1>4, <1>6, <1>12, <2>2
  <2>4. a \in Seq(Byte) /\ b \in Seq(Byte) /\ Holds(f, p, a \o b)
    BY <1>3, <1>5, <2>2
  <2>5. Kept(k) = IF Len(kept) < MaxParsed THEN Append(kept, show) ELSE kept
    BY <1>9, <2>2
  <2>6. \A x \in Position : Holds(f, x, b) => element[type][x] = Outcome(f, x, b, show)
    BY <2>2 DEF n, ReadsEach
  <2> HIDE DEF a, b, kept, show, k
  <2>7. /\ Holds(f, q, b) /\ q \in Position /\ p + Len(a \o b) = q + Len(b)
        /\ LiesIn(f, p, a \o b) <=> LiesIn(f, q, b)
        /\ LiesIn(f, q, b) => LiesIn(f, p, a)
    BY <2>4, Parts
  <2> HIDE DEF q
  <2>8. element[type][q] = Outcome(f, q, b, show)
    BY <2>6, <2>7
  <2>9. CASE LiesIn(f, q, b)
    <3>1. turns[j] = Got(kept, q) /\ element[type][q] = Got(show, q + Len(b))
      BY <2>3, <2>7, <2>8, <2>9 DEF Outcome, q
    <3>2. turns[k] = Got(IF Len(kept) < MaxParsed THEN Append(kept, show) ELSE kept, q + Len(b))
      BY <2>3, <3>1, ElementRead
    <3>3. turns[k] = Got(Kept(k), q + Len(b))
      BY <2>5, <3>2
    <3>4. QED
      BY <2>3, <2>7, <2>9, <3>3 DEF Outcome
  <2>10. CASE ~ LiesIn(f, q, b)
    <3>1. turns[j] = Failure \/ (turns[j] = Got(kept, q) /\ element[type][q] = Failure)
      BY <2>3, <2>7, <2>8, <2>10 DEF Outcome, q
    <3>2. turns[k] = Failure
      BY <2>3, <3>1 DEF ReadElement, Got, Failure
    <3>3. QED
      BY <2>3, <2>7, <2>10, <3>2 DEF Outcome
  <2>11. QED
    BY <2>9, <2>10
<1> HIDE DEF Right
<1>13. n \in Right
  BY <1>5, <1>11, <1>12, Induction
<1>14. turns[n] = Outcome(f, p, F[n], Kept(n))
  <2>1. n <= n
    BY <1>5
  <2>2. QED
    BY <1>13, <2>1 DEF Right
<1>15. QED
  BY <1>2, <1>14 DEF turns, n, Kept

(* A number, a string and a list, as they are read.                        *)
LEMMA ScalarRead ==
    ASSUME NEW f \in Seq(Byte), NEW p \in Position, NEW element, NEW v \in Scalars,
           Holds(f, p, WriteInt(v.number, Width(v.type)))
    PROVE  /\ ReadValue(f, element, v.type, p)
                 = Outcome(f, p, WriteInt(v.number, Width(v.type)), [number |-> v.number])
           /\ WriteInt(v.number, Width(v.type)) \in Seq(Byte)
<1> DEFINE n == v.number
           t == v.type
           w == Width(t)
           s == WriteInt(n, w)
           read == ReadInt(f, p, w)
<1>1. n \in Nat /\ t \in {0, 1, 2, 3, 4, 5, 6, 7, 10, 11, 12} /\ Fits(n, w) /\ (t = BoolType => n \in {0, 1})
  BY DEF Scalars
<1> HIDE DEF n, t
<1>2. w \in Nat /\ w > 0 /\ t # StringType /\ t # ArrayType
  BY <1>1 DEF Width, StringType, ArrayType
<1>3. Holds(f, p, s)
  BY DEF n, t
<1> HIDE DEF w
<1>4. read = Outcome(f, p, s, n) /\ s \in Seq(Byte)
  BY <1>1, <1>2, <1>3, ReadIntIs, WriteIntType
<1>5. ReadValue(f, element, t, p)
         = IF ~ read.ok THEN Failure
           ELSE Got([number |-> IF t = BoolType /\ read.value > 0 THEN 1 ELSE read.value], read.at)
  BY <1>2 DEF ReadValue, w
<1> HIDE DEF s, read
<1>6. CASE LiesIn(f, p, s)
  <2>1. read = Got(n, p + Len(s))
    BY <1>4, <1>6 DEF Outcome
  <2>2. read.ok /\ read.value = n /\ read.at = p + Len(s)
    BY <2>1 DEF Got
  <2>3. (IF t = BoolType /\ n > 0 THEN 1 ELSE n) = n
    BY <1>1
  <2>4. ReadValue(f, element, t, p) = Got([number |-> n], p + Len(s))
    BY <1>5, <2>2, <2>3
  <2>5. QED
    BY <1>4, <1>6, <2>4 DEF Outcome, s, w, t, n
<1>7. CASE ~ LiesIn(f, p, s)
  <2>1. read = Failure
    BY <1>4, <1>7 DEF Outcome
  <2>2. ~ read.ok
    BY <2>1 DEF Failure
  <2>3. ReadValue(f, element, t, p) = Failure
    BY <1>5, <2>2
  <2>4. QED
    BY <1>4, <1>7, <2>3 DEF Outcome, s, w, t, n
<1>8. QED
  BY <1>6, <1>7

LEMMA StringRead ==
    ASSUME NEW f \in Seq(Byte), NEW p \in Position, NEW element, NEW v \in Strings,
           Holds(f, p, WriteString(v.bytes))
    PROVE  /\ ReadValue(f, element, v.type, p) = Outcome(f, p, WriteString(v.bytes), [bytes |-> v.bytes])
           /\ WriteString(v.bytes) \in Seq(Byte)
<1> DEFINE b == v.bytes
           s == WriteString(b)
           read == ReadString(f, p)
<1>1. b \in Texts /\ v.type = StringType /\ ~ (Width(v.type) > 0) /\ v.type # ArrayType
  <2>1. v.type = StringType /\ b \in Texts
    BY DEF Strings
  <2>2. Width(StringType) = 0
    BY DEF Width, StringType
  <2>3. QED
    BY <2>1, <2>2 DEF StringType, ArrayType
<1>2. Holds(f, p, s)
  OBVIOUS
<1> HIDE DEF b
<1>3. read = Outcome(f, p, s, b) /\ s \in Seq(Byte)
  BY <1>1, <1>2, ReadStringIs, WriteStringType
<1>4. ReadValue(f, element, v.type, p) = IF read.ok THEN Got([bytes |-> read.value], read.at) ELSE Failure
  BY <1>1 DEF ReadValue
<1> HIDE DEF s, read
<1>5. CASE LiesIn(f, p, s)
  <2>1. read = Got(b, p + Len(s))
    BY <1>3, <1>5 DEF Outcome
  <2>2. read.ok /\ read.value = b /\ read.at = p + Len(s)
    BY <2>1 DEF Got
  <2>3. ReadValue(f, element, v.type, p) = Got([bytes |-> b], p + Len(s))
    BY <1>4, <2>2
  <2>4. QED
    BY <1>3, <1>5, <2>3 DEF Outcome, s, b
<1>6. CASE ~ LiesIn(f, p, s)
  <2>1. read = Failure
    BY <1>3, <1>6 DEF Outcome
  <2>2. ~ read.ok
    BY <2>1 DEF Failure
  <2>3. ReadValue(f, element, v.type, p) = Failure
    BY <1>4, <2>2
  <2>4. QED
    BY <1>3, <1>6, <2>3 DEF Outcome, s, b
<1>7. QED
  BY <1>5, <1>6

LEMMA ListType ==
    ASSUME NEW V, NEW enc, \A w \in V : enc[w] \in Seq(Byte), NEW v \in Lists(V)
    PROVE  Encode(enc, v) \in Seq(Byte)
<1> DEFINE list == v.list
           n == Len(list)
           seqs == [k \in DOMAIN list |-> enc[list[k]]]
           a == WriteInt(v.of, 4)
           b == WriteInt(n, 8)
<1>1. v.type = ArrayType /\ v.of \in Nat /\ list \in Seq(V)
  BY DEF Lists
<1>2. n \in Nat /\ DOMAIN list = 1..n /\ \A k \in 1..n : list[k] \in V
  BY <1>1, ElementOfSeq, LenProperties
<1>3. Encode(enc, v) = a \o b \o FlattenSeq(seqs)
  BY <1>1 DEF Encode, ArrayType, StringType
<1> HIDE DEF list, n
<1>4. seqs \in Seq(Seq(Byte))
  <2>1. \A k \in 1..n : enc[list[k]] \in Seq(Byte)
    BY <1>2
  <2>2. seqs \in [1..n -> Seq(Byte)]
    BY <1>2, <2>1
  <2> HIDE DEF seqs
  <2>3. QED
    BY <1>2, <2>2
<1> HIDE DEF seqs
<1>5. a \in Seq(Byte) /\ b \in Seq(Byte)
  BY <1>1, <1>2, WrittenInt
<1> HIDE DEF a, b
<1>6. FlattenSeq(seqs) \in Seq(Byte)
  BY <1>4, FlattenIn
<1>7. QED
  BY <1>3, <1>5, <1>6, ConcatProperties

(* What element reads in f of a value, which is encoded and shown so.      *)
ReadsElement(f, element, enc, shown, w) ==
    \A q \in Position : Holds(f, q, enc[w]) => element[w.type][q] = Outcome(f, q, enc[w], shown[w])

ReadsValues(f, element, V, enc, shown) ==
    \A w \in V : enc[w] \in Seq(Byte) /\ ReadsElement(f, element, enc, shown, w)

LEMMA ListRead ==
    ASSUME NEW f \in Seq(Byte), NEW p \in Position, NEW element, NEW V, NEW enc, NEW shown,
           ReadsValues(f, element, V, enc, shown),
           NEW v \in Lists(V), Holds(f, p, Encode(enc, v))
    PROVE  /\ ReadValue(f, element, v.type, p) = Outcome(f, p, Encode(enc, v), Show(shown, v))
           /\ Encode(enc, v) \in Seq(Byte)
<1> DEFINE list == v.list
           n == Len(list)
           type == v.of
           seqs == [k \in 1..n |-> enc[list[k]]]
           shows == [k \in 1..n |-> shown[list[k]]]
           a == WriteInt(type, 4)
           b == WriteInt(n, 8)
           c == FlattenSeq(seqs)
           m == Min({n, MaxParsed})
           of == ReadInt(f, p, 4)
           length == ReadInt(f, of.at, 8)
           read == ElementTurns(element, of.value, length.value, length.at)[length.value]
<1>1. /\ v.type = ArrayType /\ type \in 0..12 /\ list \in Seq(V) /\ Fits(n, 8)
      /\ \A k \in DOMAIN list : list[k].type = type
  BY DEF Lists
<1>2. n \in Nat /\ DOMAIN list = 1..n /\ \A k \in 1..n : list[k] \in V
  BY <1>1, ElementOfSeq, LenProperties
<1>22. \A w \in V : enc[w] \in Seq(Byte) /\ ReadsElement(f, element, enc, shown, w)
  BY DEF ReadsValues
<1>3. Encode(enc, v) = a \o b \o c
  BY <1>1, <1>2 DEF Encode, ArrayType, StringType
<1>4. Show(shown, v) = [list |-> [k \in 1..m |-> shown[list[k]]]]
  BY <1>1, <1>2 DEF Show, ArrayType, StringType
<1>5. ReadValue(f, element, v.type, p)
         = IF of.ok /\ length.ok /\ read.ok THEN Got([list |-> read.value], read.at) ELSE Failure
  BY <1>1 DEF ReadValue, Width, ArrayType, StringType
<1>6. \A k \in 1..n : list[k].type = type
  BY <1>1, <1>2
<1> HIDE DEF list, n, type, m, of, length, read
<1>7. seqs \in Seq(Seq(Byte)) /\ Len(seqs) = n
  <2>1. \A k \in 1..n : enc[list[k]] \in Seq(Byte)
    BY <1>2, <1>22
  <2>2. seqs \in [1..n -> Seq(Byte)]
    BY <2>1
  <2> HIDE DEF seqs
  <2>3. QED
    BY <1>2, <2>2 DEF n
<1> PICK T : T = {shown[w] : w \in V}
  OBVIOUS
<1>8. shows \in Seq(T) /\ Len(shows) = n
  <2>1. \A k \in 1..n : shown[list[k]] \in T
    BY <1>2
  <2>2. shows \in [1..n -> T]
    BY <2>1
  <2> HIDE DEF shows
  <2>3. QED
    BY <1>2, <2>2
<1>9. \A k \in 1..n : seqs[k] = enc[list[k]] /\ shows[k] = shown[list[k]]
  OBVIOUS
<1> HIDE DEF seqs, shows
<1>10. c \in Seq(Byte)
  BY <1>7, FlattenIn
<1>11. /\ a \in Seq(Byte) /\ Len(a) = 4 /\ b \in Seq(Byte) /\ Len(b) = 8
       /\ Fits(type, 4)
  <2>1. type \in Nat /\ 4 \in Nat \ {0} /\ 8 \in Nat
    BY <1>1
  <2>2. a \in Seq(Byte) /\ Len(a) = 4
    BY <2>1, WrittenInt
  <2>3. b \in Seq(Byte) /\ Len(b) = 8
    BY <1>2, <2>1, WrittenInt
  <2>4. QED
    BY <1>1, <2>1, <2>2, <2>3, SmallFits
<1> HIDE DEF a, b, c
<1>12. a \o b \in Seq(Byte) /\ a \o b \o c \in Seq(Byte)
  BY <1>10, <1>11, ConcatProperties
<1>13. Holds(f, p, (a \o b) \o c)
  BY <1>3
<1> DEFINE p1 == p + Len(a)
           p2 == p + Len(a \o b)
<1>14. /\ Holds(f, p, a \o b) /\ Holds(f, p2, c) /\ p2 \in Position
       /\ p + Len((a \o b) \o c) = p2 + Len(c)
       /\ LiesIn(f, p, (a \o b) \o c) <=> LiesIn(f, p2, c)
       /\ LiesIn(f, p2, c) => LiesIn(f, p, a \o b)
  BY <1>10, <1>12, <1>13, Parts
<1>15. /\ Holds(f, p, a) /\ Holds(f, p1, b) /\ p1 \in Position
       /\ p2 = p1 + Len(b)
       /\ LiesIn(f, p, a \o b) <=> LiesIn(f, p1, b)
       /\ LiesIn(f, p1, b) => LiesIn(f, p, a)
  BY <1>11, <1>14, Parts
<1>16. of = Outcome(f, p, a, type)
  <2>1. type \in Nat
    BY <1>1
  <2>2. QED
    BY <1>11, <1>15, <2>1, ReadIntIs DEF of, a
<1>17. ReadInt(f, p1, 8) = Outcome(f, p1, b, n)
  BY <1>1, <1>2, <1>15, ReadIntIs DEF b
<1> HIDE DEF p1, p2
<1>18. CASE ~ LiesIn(f, p, a)
  <2>1. of = Failure
    BY <1>16, <1>18 DEF Outcome
  <2>2. ~ of.ok
    BY <2>1 DEF Failure
  <2>3. ReadValue(f, element, v.type, p) = Failure
    BY <1>5, <2>2
  <2>4. QED
    BY <1>3, <1>12, <1>14, <1>15, <1>18, <2>3 DEF Outcome
<1>19. CASE LiesIn(f, p, a) /\ ~ LiesIn(f, p1, b)
  <2>1. of = Got(type, p1)
    BY <1>16, <1>19 DEF Outcome, p1
  <2>2. of.at = p1
    BY <2>1 DEF Got
  <2>3. length = Failure
    BY <1>17, <1>19, <2>2 DEF Outcome, length
  <2>4. ~ length.ok
    BY <2>3 DEF Failure
  <2>5. ReadValue(f, element, v.type, p) = Failure
    BY <1>5, <2>4
  <2>6. QED
    BY <1>3, <1>12, <1>14, <1>15, <1>19, <2>5 DEF Outcome
<1>20. CASE LiesIn(f, p1, b)
  <2>1. of = Got(type, p1)
    BY <1>15, <1>16, <1>20 DEF Outcome, p1
  <2>2. of.ok /\ of.value = type /\ of.at = p1
    BY <2>1 DEF Got
  <2>3. length = Got(n, p2)
    BY <1>15, <1>17, <1>20, <2>2 DEF Outcome, length
  <2>4. length.ok /\ length.value = n /\ length.at = p2
    BY <2>3 DEF Got
  <2>5. read = ElementTurns(element, type, n, p2)[n]
    BY <2>2, <2>4 DEF read
  <2>6. p2 - 1 <= Len(f)
    BY <1>11, <1>15, <1>20, LenProperties DEF LiesIn, Position
  <2>7. ASSUME NEW k \in 1..n, NEW q \in Position, Holds(f, q, seqs[k])
        PROVE element[type][q] = Outcome(f, q, seqs[k], shows[k])
    <3>1. list[k] \in V /\ list[k].type = type /\ seqs[k] = enc[list[k]] /\ shows[k] = shown[list[k]]
      BY <1>2, <1>6, <1>9
    <3>2. ReadsElement(f, element, enc, shown, list[k])
      BY <1>22, <3>1
    <3>3. QED
      BY <2>7, <3>1, <3>2 DEF ReadsElement
  <2>8. Holds(f, p2, FlattenSeq(seqs))
    BY <1>14 DEF c
  <2>9. ElementTurns(element, type, Len(seqs), p2)[Len(seqs)]
          = Outcome(f, p2, FlattenSeq(seqs), SubSeq(shows, 1, Min({Len(seqs), MaxParsed})))
    <3>1. Len(shows) = Len(seqs) /\ 1..Len(seqs) = 1..n
      BY <1>7, <1>8
    <3>2. ReadsEach(f, element, type, seqs, shows)
      BY <2>7, <3>1 DEF ReadsEach
    <3>3. QED
      BY <1>7, <1>8, <1>14, <2>6, <2>8, <3>1, <3>2, ElementsAreRead
  <2>10. read = Outcome(f, p2, c, SubSeq(shows, 1, m))
    BY <1>7, <2>5, <2>9 DEF c, m
  <2>11. SubSeq(shows, 1, m) = [k \in 1..m |-> shown[list[k]]]
    <3>1. m \in 0..n /\ m \in Nat
      <4>1. m = IF n <= MaxParsed THEN n ELSE MaxParsed
        BY <1>2, ReaderAssumption, LeastOfTwo DEF m
      <4>2. QED
        BY <1>2, <4>1, ReaderAssumption
    <3>2. \A k \in 1..m : k \in 1..n
      BY <1>2, <3>1
    <3>5. \A k \in 1..m : shows[k] = shown[list[k]]
      BY <1>9, <3>2
    <3>3. SubSeq(shows, 1, m) = [k \in 1..m |-> shows[k]]
      BY <3>1
    <3>4. QED
      BY <3>3, <3>5
  <2>12. CASE LiesIn(f, p2, c)
    <3>1. read = Got(SubSeq(shows, 1, m), p2 + Len(c))
      BY <2>10, <2>12 DEF Outcome
    <3>2. read.ok /\ read.value = SubSeq(shows, 1, m) /\ read.at = p2 + Len(c)
      BY <3>1 DEF Got
    <3>3. ReadValue(f, element, v.type, p) = Got([list |-> SubSeq(shows, 1, m)], p2 + Len(c))
      BY <1>5, <2>2, <2>4, <3>2
    <3>4. QED
      BY <1>3, <1>4, <1>12, <1>14, <2>11, <2>12, <3>3 DEF Outcome
  <2>13. CASE ~ LiesIn(f, p2, c)
    <3>1. read = Failure
      BY <2>10, <2>13 DEF Outcome
    <3>2. ~ read.ok
      BY <3>1 DEF Failure
    <3>3. ReadValue(f, element, v.type, p) = Failure
      BY <1>5, <3>2
    <3>4. QED
      BY <1>3, <1>12, <1>14, <2>13, <3>3 DEF Outcome
  <2>14. QED
    BY <2>12, <2>13
<1>21. QED
  BY <1>18, <1>19, <1>20

(* Every value, by its depth. *)
LEMMA ValueRead ==
    ASSUME NEW f \in Seq(Byte), NEW depth \in 0..MaxNesting, NEW v \in Values[depth]
    PROVE  Encoded[depth][v] \in Seq(Byte) /\ ReadsElement(f, Reader(f)[depth], Encoded[depth], Shown[depth], v)
<1> DEFINE IsRead(d) == \A w \in Values[d] :
              Encoded[d][w] \in Seq(Byte) /\ ReadsElement(f, Reader(f)[d], Encoded[d], Shown[d], w)
           Right == {d \in Nat : d <= MaxNesting => IsRead(d)}
<1>1. 0 \in Right
  BY ValuesSteps
<1>2. ASSUME NEW j \in Nat, j \in Right PROVE j + 1 \in Right
  <2> DEFINE d == j + 1
  <2>0. d \in Nat
    OBVIOUS
  <2>1. SUFFICES ASSUME d <= MaxNesting PROVE IsRead(d)
    BY <2>0, Zenon
  <2>2. d \in 1..MaxNesting /\ d - 1 = j /\ j <= MaxNesting
    BY <2>1, ReaderAssumption
  <2>3. IsRead(j)
    BY <1>2, <2>2
  <2> HIDE DEF d
  <2>4. SUFFICES ASSUME NEW w \in Values[d]
                 PROVE  Encoded[d][w] \in Seq(Byte) /\ ReadsElement(f, Reader(f)[d], Encoded[d], Shown[d], w)
    OBVIOUS
  <2>5. Values[d] = Scalars \union Strings \union Lists(Values[j])
    BY <2>2, ValuesSteps
  <2>6. Encoded[d] = [x \in Values[d] |-> Encode(Encoded[j], x)]
    BY <2>2, EncodedSteps
  <2>7. Encoded[d][w] = Encode(Encoded[j], w)
    BY <2>6
  <2>8. Shown[d] = [x \in Values[d] |-> Show(Shown[j], x)]
    BY <2>2, ShownSteps
  <2>9. Shown[d][w] = Show(Shown[j], w)
    BY <2>8
  <2>10. Reader(f)[d] = [type \in Nat |-> [at \in Nat |-> ReadValue(f, Reader(f)[d - 1], type, at)]]
    <3>1. \A k \in 1..MaxNesting :
             Reader(f)[k] = [type \in Nat |-> [at \in Nat |-> ReadValue(f, Reader(f)[k - 1], type, at)]]
      BY ReaderSteps
    <3>2. QED
      BY <2>2, <3>1
  <2>11. w.type \in Nat
    <3>1. w \in Scalars => w.type \in Nat
      BY DEF Scalars
    <3>2. w \in Strings => w.type \in Nat
      BY DEF Strings, StringType
    <3>3. w \in Lists(Values[j]) => w.type \in Nat
      BY DEF Lists, ArrayType
    <3>4. QED
      BY <2>5, <3>1, <3>2, <3>3
  <2>12. \A q \in Position : Reader(f)[d][w.type][q] = ReadValue(f, Reader(f)[j], w.type, q)
    <3>1. \A q \in Position : Reader(f)[d][w.type][q] = ReadValue(f, Reader(f)[d - 1], w.type, q)
      BY <2>10, <2>11 DEF Position
    <3>2. QED
      BY <2>2, <3>1
  <2>13. SUFFICES /\ Encode(Encoded[j], w) \in Seq(Byte)
                  /\ \A q \in Position : Holds(f, q, Encode(Encoded[j], w)) =>
                        ReadValue(f, Reader(f)[j], w.type, q) = Outcome(f, q, Encode(Encoded[j], w), Show(Shown[j], w))
    BY <2>7, <2>9, <2>12 DEF ReadsElement
  <2>14. CASE w \in Scalars
    <3>1. w.type # StringType /\ w.type # ArrayType
      BY <2>14 DEF Scalars, StringType, ArrayType
    <3>2. Encode(Encoded[j], w) = WriteInt(w.number, Width(w.type)) /\ Show(Shown[j], w) = [number |-> w.number]
      BY <3>1 DEF Encode, Show
    <3>3. w.number \in Nat /\ Width(w.type) \in Nat
      BY <2>14 DEF Scalars, Width
    <3>4. Encode(Encoded[j], w) \in Seq(Byte)
      BY <3>2, <3>3, WrittenInt
    <3>5. ASSUME NEW q \in Position, Holds(f, q, WriteInt(w.number, Width(w.type)))
          PROVE  ReadValue(f, Reader(f)[j], w.type, q)
                    = Outcome(f, q, WriteInt(w.number, Width(w.type)), [number |-> w.number])
      BY <2>14, <3>5, ScalarRead
    <3>6. QED
      BY <3>2, <3>4, <3>5
  <2>15. CASE w \in Strings
    <3>1. w.type = StringType /\ w.type # ArrayType /\ w.bytes \in Texts
      BY <2>15 DEF Strings, StringType, ArrayType
    <3>2. Encode(Encoded[j], w) = WriteString(w.bytes) /\ Show(Shown[j], w) = [bytes |-> w.bytes]
      BY <3>1 DEF Encode, Show
    <3>3. WriteString(w.bytes) \in Seq(Byte)
      BY <3>1, WriteStringType
    <3>4. QED
      BY <2>15, <3>2, <3>3, StringRead
  <2>16. CASE w \in Lists(Values[j])
    <3>1. \A x \in Values[j] : Encoded[j][x] \in Seq(Byte) /\ ReadsElement(f, Reader(f)[j], Encoded[j], Shown[j], x)
      BY <2>3
    <3>2. Encode(Encoded[j], w) \in Seq(Byte)
      BY <2>16, <3>1, ListType
    <3>3. ASSUME NEW q \in Position, Holds(f, q, Encode(Encoded[j], w))
          PROVE  ReadValue(f, Reader(f)[j], w.type, q) = Outcome(f, q, Encode(Encoded[j], w), Show(Shown[j], w))
      <4>1. ReadsValues(f, Reader(f)[j], Values[j], Encoded[j], Shown[j])
        BY <3>1 DEF ReadsValues
      <4>2. QED
        BY <2>16, <3>3, <4>1, ListRead
    <3>4. QED
      BY <3>2, <3>3
  <2>17. QED
    BY <2>5, <2>14, <2>15, <2>16
<1> HIDE DEF Right, IsRead
<1>3. depth \in Right
  BY <1>1, <1>2, Induction
<1>4. IsRead(depth)
  <2>1. depth <= MaxNesting
    BY ReaderAssumption
  <2>2. QED
    BY <1>3, <2>1 DEF Right
<1>5. QED
  BY <1>4 DEF IsRead

LEMMA ValueType ==
    ASSUME NEW depth \in 0..MaxNesting, NEW v \in Values[depth]
    PROVE  v.type \in 0..12
<1>1. CASE depth = 0
  BY <1>1, ValuesSteps
<1>2. CASE depth # 0
  <2>1. depth \in 1..MaxNesting
    BY <1>2, ReaderAssumption
  <2>2. Values[depth] = Scalars \union Strings \union Lists(Values[depth - 1])
    BY <2>1, ValuesSteps
  <2>3. v \in Scalars => v.type \in 0..12
    BY DEF Scalars
  <2>4. v \in Strings => v.type \in 0..12
    BY DEF Strings, StringType
  <2>5. v \in Lists(Values[depth - 1]) => v.type \in 0..12
    BY DEF Lists, ArrayType
  <2>6. QED
    BY <2>2, <2>3, <2>4, <2>5
<1>3. QED
  BY <1>1, <1>2

(* One pair. *)
Pairs == [key : Texts, value : Values[MaxNesting]]
ShownOf(pair) == Shown[MaxNesting][pair.value]

LEMMA EncodedPairType ==
    ASSUME NEW pair \in Pairs
    PROVE  EncodedPair(pair) \in Seq(Byte)
<1>1. pair.key \in Texts /\ pair.value \in Values[MaxNesting] /\ MaxNesting \in 0..MaxNesting /\ <<>> \in Seq(Byte)
  BY ReaderAssumption, EmptySeq DEF Pairs
<1>2. WriteString(pair.key) \in Seq(Byte)
  BY <1>1, WriteStringType
<1>3. pair.value.type \in Nat /\ 4 \in Nat
  BY <1>1, ValueType
<1>4. WriteInt(pair.value.type, 4) \in Seq(Byte)
  BY <1>3, WrittenInt
<1>5. Encoded[MaxNesting][pair.value] \in Seq(Byte)
  BY <1>1, ValueRead
<1>6. QED
  BY <1>2, <1>4, <1>5, ConcatProperties DEF EncodedPair

LEMMA PairRead ==
    ASSUME NEW f \in Seq(Byte), NEW p \in Position, NEW metadata, NEW pair \in Pairs,
           Holds(f, p, EncodedPair(pair))
    PROVE  ReadPair(Got(metadata, p), f)
              = Outcome(f, p, EncodedPair(pair), Put(metadata, pair.key, ShownOf(pair)))
<1> DEFINE name == pair.key
           v == pair.value
           shown == ShownOf(pair)
           a == WriteString(name)
           b == WriteInt(v.type, 4)
           c == Encoded[MaxNesting][v]
           read == Got(metadata, p)
           key == ReadString(f, read.at)
           type == ReadInt(f, key.at, 4)
           value == Reader(f)[MaxNesting][type.value][type.at]
           p1 == p + Len(a)
           p2 == p + Len(a \o b)
<1>1. name \in Texts /\ v \in Values[MaxNesting] /\ MaxNesting \in 0..MaxNesting
  BY ReaderAssumption DEF Pairs
<1>2. v.type \in 0..12 /\ v.type \in Nat /\ 4 \in Nat /\ 4 \in Nat \ {0}
  <2>1. v.type \in 0..12
    BY <1>1, ValueType
  <2>2. QED
    BY <2>1
<1>3. a \in Seq(Byte) /\ b \in Seq(Byte) /\ c \in Seq(Byte) /\ Fits(v.type, 4)
  <2>1. a \in Seq(Byte)
    BY <1>1, WriteStringType
  <2>2. b \in Seq(Byte)
    BY <1>2, WrittenInt
  <2>3. c \in Seq(Byte)
    BY <1>1, ValueRead
  <2>4. Fits(v.type, 4)
    BY <1>2, SmallFits
  <2>5. QED
    BY <2>1, <2>2, <2>3, <2>4
<1>4. ReadsElement(f, Reader(f)[MaxNesting], Encoded[MaxNesting], Shown[MaxNesting], v)
  BY <1>1, ValueRead
<1>5. \A q \in Position : Holds(f, q, c) => Reader(f)[MaxNesting][v.type][q] = Outcome(f, q, c, shown)
  BY <1>4 DEF ReadsElement, ShownOf
<1>6. EncodedPair(pair) = (a \o b) \o c
  BY DEF EncodedPair
<1>7. ReadPair(read, f)
         = IF ~ read.ok \/ ~ key.ok \/ ~ type.ok \/ ~ value.ok THEN Failure
           ELSE Got(Put(read.value, key.value, value.value), value.at)
  BY DEF ReadPair
<1>8. read.ok /\ read.value = metadata /\ read.at = p
  BY DEF Got
<1>9. Holds(f, p, (a \o b) \o c) /\ a \o b \in Seq(Byte)
  BY <1>3, <1>6, ConcatProperties
<1>10. Holds(f, p, a) => ReadString(f, p) = Outcome(f, p, a, name)
  BY <1>1, ReadStringIs
<1>11. \A q \in Position : Holds(f, q, b) => ReadInt(f, q, 4) = Outcome(f, q, b, v.type)
  BY <1>2, <1>3, ReadIntIs
<1> HIDE DEF name, v, shown, a, b, c, read, key, type, value
<1>12. /\ Holds(f, p, a \o b) /\ Holds(f, p2, c) /\ p2 \in Position
       /\ p + Len((a \o b) \o c) = p2 + Len(c)
       /\ LiesIn(f, p, (a \o b) \o c) <=> LiesIn(f, p2, c)
       /\ LiesIn(f, p2, c) => LiesIn(f, p, a \o b)
  BY <1>3, <1>9, Parts
<1>13. /\ Holds(f, p, a) /\ Holds(f, p1, b) /\ p1 \in Position
       /\ p2 = p1 + Len(b)
       /\ LiesIn(f, p, a \o b) <=> LiesIn(f, p1, b)
       /\ LiesIn(f, p1, b) => LiesIn(f, p, a)
  BY <1>3, <1>12, Parts
<1> HIDE DEF p1, p2
<1>14. key = Outcome(f, p, a, name)
  BY <1>8, <1>10, <1>13 DEF key
<1>15. CASE ~ LiesIn(f, p, a)
  <2>1. key = Failure
    BY <1>14, <1>15 DEF Outcome
  <2>2. ~ key.ok
    BY <2>1 DEF Failure
  <2>3. ReadPair(read, f) = Failure
    BY <1>7, <2>2
  <2>4. QED
    BY <1>6, <1>12, <1>13, <1>15, <2>3 DEF Outcome, read
<1>16. CASE LiesIn(f, p, a)
  <2>1. key = Got(name, p1)
    BY <1>14, <1>16 DEF Outcome, p1
  <2>2. key.ok /\ key.value = name /\ key.at = p1
    BY <2>1 DEF Got
  <2>3. type = Outcome(f, p1, b, v.type)
    BY <1>11, <1>13, <2>2 DEF type
  <2>4. CASE ~ LiesIn(f, p1, b)
    <3>1. type = Failure
      BY <2>3, <2>4 DEF Outcome
    <3>2. ~ type.ok
      BY <3>1 DEF Failure
    <3>3. ReadPair(read, f) = Failure
      BY <1>7, <3>2
    <3>4. QED
      BY <1>6, <1>12, <1>13, <2>4, <3>3 DEF Outcome, read
  <2>5. CASE LiesIn(f, p1, b)
    <3>1. type = Got(v.type, p2)
      BY <1>13, <2>3, <2>5 DEF Outcome
    <3>2. type.ok /\ type.value = v.type /\ type.at = p2
      BY <3>1 DEF Got
    <3>3. value = Outcome(f, p2, c, shown)
      BY <1>5, <1>12, <3>2 DEF value
    <3>4. CASE ~ LiesIn(f, p2, c)
      <4>1. value = Failure
        BY <3>3, <3>4 DEF Outcome
      <4>2. ~ value.ok
        BY <4>1 DEF Failure
      <4>3. ReadPair(read, f) = Failure
        BY <1>7, <4>2
      <4>4. QED
        BY <1>6, <1>12, <3>4, <4>3 DEF Outcome, read
    <3>5. CASE LiesIn(f, p2, c)
      <4>1. value = Got(shown, p2 + Len(c))
        BY <3>3, <3>5 DEF Outcome
      <4>2. value.ok /\ value.value = shown /\ value.at = p2 + Len(c)
        BY <4>1 DEF Got
      <4>3. ReadPair(read, f) = Got(Put(metadata, name, shown), p2 + Len(c))
        BY <1>7, <1>8, <2>2, <3>2, <4>2
      <4>4. QED
        BY <1>6, <1>12, <3>5, <4>3 DEF Outcome, read, name, shown
    <3>6. QED
      BY <3>4, <3>5
  <2>6. QED
    BY <2>4, <2>5
<1>17. QED
  BY <1>15, <1>16

(* The pairs up to k: of every key the last value. *)
IsLast(pairs, k, key, i) == i \in 1..k /\ pairs[i].key = key /\ \A j \in (i + 1)..k : pairs[j].key # key
LastUpTo(pairs, k, key) == CHOOSE i : IsLast(pairs, k, key, i)
KeysUpTo(pairs, k) == {pairs[i].key : i \in 1..k}
PairsUpTo(pairs, k) == [key \in KeysUpTo(pairs, k) |-> ShownOf(pairs[LastUpTo(pairs, k, key)])]

LEMMA OneIsLast ==
    ASSUME NEW pairs, NEW k \in Nat, NEW key, NEW i, IsLast(pairs, k, key, i)
    PROVE  LastUpTo(pairs, k, key) = i
<1> DEFINE m == LastUpTo(pairs, k, key)
<1>1. IsLast(pairs, k, key, m)
  BY DEF LastUpTo
<1> HIDE DEF m
<1>2. m \in 1..k /\ i \in 1..k /\ pairs[m].key = key /\ pairs[i].key = key
  BY <1>1 DEF IsLast
<1>3. ~ (m < i)
  <2>1. SUFFICES ASSUME m < i PROVE FALSE
    OBVIOUS
  <2>2. i \in (m + 1)..k
    BY <1>2, <2>1
  <2>3. QED
    BY <1>1, <1>2, <2>2 DEF IsLast
<1>4. ~ (i < m)
  <2>1. SUFFICES ASSUME i < m PROVE FALSE
    OBVIOUS
  <2>2. m \in (i + 1)..k
    BY <1>2, <2>1
  <2>3. QED
    BY <1>2, <2>2 DEF IsLast
<1>5. QED
  BY <1>2, <1>3, <1>4 DEF m

LEMMA LastStays ==
    ASSUME NEW pairs, NEW k \in Nat \ {0}, NEW key, NEW i, IsLast(pairs, k - 1, key, i), pairs[k].key # key
    PROVE  IsLast(pairs, k, key, i)
<1>1. i \in 1..(k - 1) /\ i \in 1..k /\ \A j \in (i + 1)..k : j = k \/ j \in (i + 1)..(k - 1)
  BY DEF IsLast
<1>2. QED
  BY <1>1 DEF IsLast

LEMMA SomeLast ==
    ASSUME NEW pairs, NEW k \in Nat, NEW key \in KeysUpTo(pairs, k)
    PROVE  \E i : IsLast(pairs, k, key, i)
<1> DEFINE Right == {m \in Nat : key \in KeysUpTo(pairs, m) => \E i : IsLast(pairs, m, key, i)}
<1>1. 0 \in Right
  BY DEF KeysUpTo
<1>2. ASSUME NEW j \in Nat, j \in Right PROVE j + 1 \in Right
  <2> DEFINE m == j + 1
  <2>1. SUFFICES ASSUME key \in KeysUpTo(pairs, m) PROVE \E i : IsLast(pairs, m, key, i)
    OBVIOUS
  <2>2. m \in Nat \ {0} /\ m - 1 = j /\ m \in 1..m /\ \A x \in (m + 1)..m : FALSE
    OBVIOUS
  <2>3. \A x \in 1..m : x = m \/ x \in 1..j
    OBVIOUS
  <2> HIDE DEF m
  <2>4. CASE pairs[m].key = key
    <3>1. IsLast(pairs, m, key, m)
      BY <2>2, <2>4 DEF IsLast
    <3>2. QED
      BY <3>1
  <2>5. CASE pairs[m].key # key
    <3>1. PICK x \in 1..m : pairs[x].key = key
      BY <2>1 DEF KeysUpTo
    <3>2. x \in 1..j
      BY <2>3, <2>5, <3>1
    <3>3. key \in KeysUpTo(pairs, j)
      BY <3>1, <3>2 DEF KeysUpTo
    <3>4. PICK i : IsLast(pairs, j, key, i)
      BY <1>2, <3>3
    <3>5. IsLast(pairs, m, key, i)
      BY <2>2, <2>5, <3>4, LastStays
    <3>6. QED
      BY <3>5
  <2>6. QED
    BY <2>4, <2>5
<1> HIDE DEF Right
<1>3. k \in Right
  BY <1>1, <1>2, Induction
<1>4. QED
  BY <1>3 DEF Right

LEMMA OneMorePair ==
    ASSUME NEW pairs, NEW k \in Nat \ {0}
    PROVE  PairsUpTo(pairs, k) = Put(PairsUpTo(pairs, k - 1), pairs[k].key, ShownOf(pairs[k]))
<1> DEFINE old == PairsUpTo(pairs, k - 1)
           new == Put(old, pairs[k].key, ShownOf(pairs[k]))
           keys == KeysUpTo(pairs, k - 1)
<1>1. k - 1 \in Nat /\ k \in Nat /\ k \in 1..k /\ \A x \in (k + 1)..k : FALSE
  OBVIOUS
<1>2. 1..k = 1..(k - 1) \union {k}
  OBVIOUS
<1>3. KeysUpTo(pairs, k) = keys \union {pairs[k].key}
  BY <1>2 DEF KeysUpTo
<1>4. DOMAIN old = keys
  BY DEF PairsUpTo
<1>5. ASSUME NEW key \in KeysUpTo(pairs, k)
      PROVE  ShownOf(pairs[LastUpTo(pairs, k, key)]) = IF key = pairs[k].key THEN ShownOf(pairs[k]) ELSE old[key]
  <2>1. CASE key = pairs[k].key
    <3>1. IsLast(pairs, k, key, k)
      BY <1>1, <2>1 DEF IsLast
    <3>2. LastUpTo(pairs, k, key) = k
      BY <1>1, <3>1, OneIsLast
    <3>3. QED
      BY <2>1, <3>2
  <2>2. CASE key # pairs[k].key
    <3>1. key \in keys
      BY <1>3, <2>2
    <3>2. PICK i : IsLast(pairs, k - 1, key, i)
      BY <1>1, <3>1, SomeLast
    <3>3. LastUpTo(pairs, k - 1, key) = i
      BY <1>1, <3>2, OneIsLast
    <3>4. IsLast(pairs, k, key, i)
      BY <2>2, <3>2, LastStays
    <3>5. LastUpTo(pairs, k, key) = i
      BY <1>1, <3>4, OneIsLast
    <3>6. old[key] = ShownOf(pairs[LastUpTo(pairs, k - 1, key)])
      BY <3>1 DEF PairsUpTo
    <3>7. QED
      BY <2>2, <3>3, <3>5, <3>6
  <2>3. QED
    BY <2>1, <2>2
<1>6. new = [key \in keys \union {pairs[k].key} |-> IF key = pairs[k].key THEN ShownOf(pairs[k]) ELSE old[key]]
  BY <1>4 DEF Put
<1> HIDE DEF old, new, keys
<1>7. PairsUpTo(pairs, k) = [key \in KeysUpTo(pairs, k) |-> ShownOf(pairs[LastUpTo(pairs, k, key)])]
  BY DEF PairsUpTo
<1>8. PairsUpTo(pairs, k) = new
  BY <1>3, <1>5, <1>6, <1>7
<1>9. QED
  BY <1>8 DEF new, old

(* All of them. *)
PairsWritten(pairs) == FlattenSeq([k \in DOMAIN pairs |-> EncodedPair(pairs[k])])

LEMMA PairSequences ==
    ASSUME NEW pairs \in Seq(Pairs)
    PROVE  LET seqs == [k \in DOMAIN pairs |-> EncodedPair(pairs[k])] IN
           /\ seqs \in Seq(Seq(Byte)) /\ Len(seqs) = Len(pairs) /\ Len(pairs) \in Nat
           /\ \A k \in 1..Len(pairs) : pairs[k] \in Pairs /\ seqs[k] = EncodedPair(pairs[k])
<1> DEFINE seqs == [k \in DOMAIN pairs |-> EncodedPair(pairs[k])]
           n == Len(pairs)
<1>1. n \in Nat /\ DOMAIN pairs = 1..n /\ \A k \in 1..n : pairs[k] \in Pairs
  BY ElementOfSeq, LenProperties
<1>2. \A k \in 1..n : EncodedPair(pairs[k]) \in Seq(Byte)
  BY <1>1, EncodedPairType
<1>3. seqs \in [1..n -> Seq(Byte)] /\ \A k \in 1..n : seqs[k] = EncodedPair(pairs[k])
  BY <1>1, <1>2
<1> HIDE DEF seqs, n
<1>4. seqs \in Seq(Seq(Byte)) /\ Len(seqs) = n
  BY <1>1, <1>3
<1>5. QED
  BY <1>1, <1>3, <1>4 DEF seqs, n

LEMMA PairsAreRead ==
    ASSUME NEW f \in Seq(Byte), NEW p \in Position, p - 1 <= Len(f), NEW pairs \in Seq(Pairs),
           Holds(f, p, PairsWritten(pairs))
    PROVE  PairTurns(f, Len(pairs), p)[Len(pairs)]
              = Outcome(f, p, PairsWritten(pairs), PairsUpTo(pairs, Len(pairs)))
<1> DEFINE n == Len(pairs)
           seqs == [k \in DOMAIN pairs |-> EncodedPair(pairs[k])]
           turns == PairTurns(f, n, p)
<1>1. /\ seqs \in Seq(Seq(Byte)) /\ Len(seqs) = n /\ n \in Nat
      /\ \A k \in 1..n : pairs[k] \in Pairs /\ seqs[k] = EncodedPair(pairs[k])
  BY PairSequences
<1>2. PairsWritten(pairs) = FlattenSeq(seqs)
  BY DEF PairsWritten
<1> HIDE DEF seqs
<1>3. PICK F : IsFlat(F, seqs, Byte)
  BY <1>1, FlatExists
<1>4. FlattenSeq(seqs) = F[n]
  BY <1>1, <1>3, FlattenIsFlat
<1>5. Holds(f, p, F[Len(seqs)])
  BY <1>1, <1>2, <1>4
<1>6. /\ \A k \in 0..n : F[k] \in Seq(Byte)
      /\ \A k \in 1..n : Holds(f, p, F[k - 1] \o seqs[k])
  <2>1. /\ \A k \in 0..Len(seqs) : F[k] \in Seq(Byte)
        /\ \A k \in 1..Len(seqs) : Holds(f, p, F[k - 1] \o seqs[k])
    BY <1>1, <1>3, <1>5, FlatHolds
  <2>2. QED
    BY <1>1, <2>1
<1>7. F[0] = <<>> /\ \A k \in 1..n : F[k] = F[k - 1] \o seqs[k]
  BY <1>1, <1>3 DEF IsFlat
<1>8. turns[0] = Got([key \in {} |-> 0], p) /\ \A k \in 1..n : turns[k] = ReadPair(turns[k - 1], f)
  BY <1>1, PairSteps
<1>9. Len(f) \in Nat /\ p \in Nat /\ p # 0
  BY LenProperties DEF Position
<1> HIDE DEF turns, n
<1> DEFINE Right == {k \in Nat : k <= n => turns[k] = Outcome(f, p, F[k], PairsUpTo(pairs, k))}
<1>10. 0 \in Right
  <2>1. Len(<<>>) = 0 /\ p + 0 = p /\ p + 0 - 1 <= Len(f)
    BY <1>9, EmptySeq
  <2>2. KeysUpTo(pairs, 0) = {}
    BY DEF KeysUpTo
  <2>3. PairsUpTo(pairs, 0) = [key \in {} |-> 0]
    BY <2>2 DEF PairsUpTo
  <2>4. Outcome(f, p, <<>>, PairsUpTo(pairs, 0)) = Got([key \in {} |-> 0], p)
    BY <2>1, <2>3 DEF Outcome, LiesIn
  <2>5. QED
    BY <1>7, <1>8, <2>4
<1>11. ASSUME NEW j \in Nat, j \in Right PROVE j + 1 \in Right
  <2> DEFINE k == j + 1
             a == F[j]
             b == EncodedPair(pairs[k])
             q == p + Len(a)
             old == PairsUpTo(pairs, j)
  <2>0. k \in Nat
    OBVIOUS
  <2>1. SUFFICES ASSUME k <= n PROVE turns[k] = Outcome(f, p, F[k], PairsUpTo(pairs, k))
    BY <2>0, Zenon
  <2>2. k \in 1..n /\ j \in 0..n /\ k - 1 = j /\ j <= n /\ k \in Nat \ {0}
    BY <1>1, <2>1
  <2>3. turns[j] = Outcome(f, p, a, old) /\ turns[k] = ReadPair(turns[j], f) /\ F[k] = a \o b
    BY <1>1, <1>7, <1>8, <1>11, <2>2
  <2>4. a \in Seq(Byte) /\ b \in Seq(Byte) /\ Holds(f, p, a \o b) /\ pairs[k] \in Pairs
    BY <1>1, <1>6, <2>2
  <2>5. PairsUpTo(pairs, k) = Put(old, pairs[k].key, ShownOf(pairs[k]))
    BY <2>2, OneMorePair
  <2>6. \A x \in Position : Holds(f, x, b) =>
           ReadPair(Got(old, x), f) = Outcome(f, x, b, Put(old, pairs[k].key, ShownOf(pairs[k])))
    BY <2>4, PairRead
  <2> HIDE DEF a, b, k, old
  <2>7. /\ Holds(f, q, b) /\ q \in Position /\ p + Len(a \o b) = q + Len(b)
        /\ LiesIn(f, p, a \o b) <=> LiesIn(f, q, b)
        /\ LiesIn(f, q, b) => LiesIn(f, p, a)
    BY <2>4, Parts
  <2> HIDE DEF q
  <2>8. ReadPair(Got(old, q), f) = Outcome(f, q, b, PairsUpTo(pairs, k))
    BY <2>5, <2>6, <2>7
  <2>9. CASE LiesIn(f, p, a)
    <3>1. turns[j] = Got(old, q)
      BY <2>3, <2>9 DEF Outcome, q
    <3>2. turns[k] = Outcome(f, q, b, PairsUpTo(pairs, k))
      BY <2>3, <2>8, <3>1
    <3>3. QED
      BY <2>3, <2>7, <3>2 DEF Outcome
  <2>10. CASE ~ LiesIn(f, p, a)
    <3>1. turns[j] = Failure
      BY <2>3, <2>10 DEF Outcome
    <3>2. ~ turns[j].ok
      BY <3>1 DEF Failure
    <3>3. turns[k] = Failure
      BY <2>3, <3>2 DEF ReadPair
    <3>4. QED
      BY <2>3, <2>7, <2>10, <3>3 DEF Outcome
  <2>11. QED
    BY <2>9, <2>10
<1> HIDE DEF Right
<1>12. n \in Right
  BY <1>1, <1>10, <1>11, Induction
<1>13. turns[n] = Outcome(f, p, F[n], PairsUpTo(pairs, n))
  <2>1. n <= n
    BY <1>1
  <2>2. QED
    BY <1>12, <2>1 DEF Right
<1>14. QED
  BY <1>2, <1>4, <1>13 DEF turns, n

(* A header that a writer can write. *)
IsWritten(version, pairs) == version \in {1, 2, 3} /\ pairs \in Seq(Pairs) /\ Fits(Len(pairs), Wide(version))
Described(version, pairs) == [version |-> version, tensors |-> 9, pairs |-> PairsUpTo(pairs, Len(pairs))]

LEMMA HeaderParts ==
    ASSUME NEW version, NEW pairs, IsWritten(version, pairs)
    PROVE  /\ Magic \in Seq(Byte) /\ Len(Magic) = 4
           /\ WriteInt(version, 4) \in Seq(Byte) /\ Fits(version, 4) /\ version \in Nat
           /\ WriteInt(9, Wide(version)) \in Seq(Byte) /\ Fits(9, Wide(version))
           /\ WriteInt(Len(pairs), Wide(version)) \in Seq(Byte) /\ Len(pairs) \in Nat
           /\ Wide(version) \in Nat
           /\ PairsWritten(pairs) \in Seq(Byte)
<1>1. version \in {1, 2, 3} /\ pairs \in Seq(Pairs)
  BY DEF IsWritten
<1>2. Wide(version) \in Nat \ {0} /\ Wide(version) \in Nat
  BY <1>1 DEF Wide
<1>3. version \in 0..12 /\ version \in Nat /\ 9 \in 0..12 /\ 9 \in Nat /\ 4 \in Nat \ {0} /\ 4 \in Nat
  BY <1>1
<1>4. Len(pairs) \in Nat
  BY <1>1, LenProperties
<1>5. Magic \in Seq(Byte) /\ Len(Magic) = 4
  BY DEF Magic, Byte
<1>6. WriteInt(version, 4) \in Seq(Byte) /\ Fits(version, 4)
  BY <1>3, WrittenInt, SmallFits
<1>7. WriteInt(9, Wide(version)) \in Seq(Byte)
  BY <1>2, <1>3, WrittenInt
<1>8. Fits(9, Wide(version))
  BY <1>2, <1>3, SmallFits
<1>9. WriteInt(Len(pairs), Wide(version)) \in Seq(Byte)
  BY <1>2, <1>4, WrittenInt
<1>10. PairsWritten(pairs) \in Seq(Byte)
  BY <1>1, PairSequences, FlattenIn DEF PairsWritten
<1>11. QED
  BY <1>2, <1>3, <1>4, <1>5, <1>6, <1>7, <1>8, <1>9, <1>10

LEMMA HeaderRead ==
    ASSUME NEW f \in Seq(Byte), NEW version, NEW pairs, IsWritten(version, pairs),
           Holds(f, 1, Header(version, pairs))
    PROVE  ReadMetadata(f) = Outcome(f, 1, Header(version, pairs), Described(version, pairs))
<1> DEFINE w == Wide(version)
           n == Len(pairs)
           m == Magic
           v == WriteInt(version, 4)
           t == WriteInt(9, w)
           c == WriteInt(n, w)
           b == PairsWritten(pairs)
           s2 == m \o v
           s3 == s2 \o t
           s4 == s3 \o c
           s5 == s4 \o b
           q1 == 1 + Len(m)
           q2 == 1 + Len(s2)
           q3 == 1 + Len(s3)
           q4 == 1 + Len(s4)
           magic == ReadBytes(f, 1, 4)
           number == ReadInt(f, magic.at, 4)
           tensors == ReadInt(f, number.at, Wide(number.value))
           count == ReadInt(f, tensors.at, Wide(number.value))
           read == PairTurns(f, count.value, count.at)[count.value]
<1>1. /\ m \in Seq(Byte) /\ Len(m) = 4 /\ v \in Seq(Byte) /\ t \in Seq(Byte) /\ c \in Seq(Byte) /\ b \in Seq(Byte)
      /\ version \in Nat /\ n \in Nat /\ w \in Nat /\ Fits(version, 4) /\ Fits(9, w)
  BY HeaderParts
<1>2. version \in {1, 2, 3} /\ pairs \in Seq(Pairs) /\ Fits(n, w)
  BY DEF IsWritten
<1>3. Header(version, pairs) = s5
  BY DEF Header, PairsWritten
<1>4. ReadMetadata(f)
         = IF /\ magic.ok /\ magic.value = m
              /\ number.ok /\ number.value \in {1, 2, 3}
              /\ tensors.ok /\ count.ok /\ read.ok
           THEN Got([version |-> number.value, tensors |-> tensors.value, pairs |-> read.value], read.at)
           ELSE Failure
  BY DEF ReadMetadata
<1>5. Holds(f, 1, m) => magic = Outcome(f, 1, m, m)
  <2>1. 1 \in Position
    BY DEF Position
  <2>2. Holds(f, 1, m) => ReadBytes(f, 1, Len(m)) = Outcome(f, 1, m, m)
    BY <1>1, <2>1, ReadBytesIs
  <2>3. QED
    BY <1>1, <2>2
<1>6. \A q \in Position : Holds(f, q, v) => ReadInt(f, q, 4) = Outcome(f, q, v, version)
  BY <1>1, ReadIntIs
<1>7. \A q \in Position : Holds(f, q, t) => ReadInt(f, q, w) = Outcome(f, q, t, 9)
  BY <1>1, ReadIntIs
<1>8. \A q \in Position : Holds(f, q, c) => ReadInt(f, q, w) = Outcome(f, q, c, n)
  BY <1>1, <1>2, ReadIntIs
<1>9. \A q \in Position : q - 1 <= Len(f) /\ Holds(f, q, b) => PairTurns(f, n, q)[n] = Outcome(f, q, b, PairsUpTo(pairs, n))
  BY <1>2, PairsAreRead
<1>10. Holds(f, 1, s5) /\ 1 \in Position
  BY <1>3 DEF Position
<1> HIDE DEF n, m, v, t, c, b, magic, number, tensors, count, read
<1>11. s2 \in Seq(Byte) /\ s3 \in Seq(Byte) /\ s4 \in Seq(Byte)
  BY <1>1, ConcatProperties
<1> HIDE DEF s2, s3, s4, w
<1>12. /\ Holds(f, 1, s4) /\ Holds(f, q4, b) /\ q4 \in Position
       /\ 1 + Len(s5) = q4 + Len(b)
       /\ LiesIn(f, 1, s5) <=> LiesIn(f, q4, b)
       /\ LiesIn(f, q4, b) => LiesIn(f, 1, s4)
  BY <1>1, <1>10, <1>11, Parts
<1>13. /\ Holds(f, 1, s3) /\ Holds(f, q3, c) /\ q3 \in Position
       /\ q4 = q3 + Len(c)
       /\ LiesIn(f, 1, s4) <=> LiesIn(f, q3, c)
       /\ LiesIn(f, q3, c) => LiesIn(f, 1, s3)
  BY <1>1, <1>10, <1>11, <1>12, Parts DEF s4
<1>14. /\ Holds(f, 1, s2) /\ Holds(f, q2, t) /\ q2 \in Position
       /\ q3 = q2 + Len(t)
       /\ LiesIn(f, 1, s3) <=> LiesIn(f, q2, t)
       /\ LiesIn(f, q2, t) => LiesIn(f, 1, s2)
  BY <1>1, <1>10, <1>11, <1>13, Parts DEF s3
<1>15. /\ Holds(f, 1, m) /\ Holds(f, q1, v) /\ q1 \in Position
       /\ q2 = q1 + Len(v)
       /\ LiesIn(f, 1, s2) <=> LiesIn(f, q1, v)
       /\ LiesIn(f, q1, v) => LiesIn(f, 1, m)
  BY <1>1, <1>10, <1>14, Parts DEF s2
<1>16. magic = Outcome(f, 1, m, m)
  BY <1>5, <1>15
<1> HIDE DEF s5, q1, q2, q3, q4
<1> DEFINE described == Described(version, pairs)
<1>17. CASE ~ LiesIn(f, 1, s5)
  <2>1. SUFFICES ~ magic.ok \/ ~ number.ok \/ ~ tensors.ok \/ ~ count.ok \/ ~ read.ok
    <3>1. ASSUME ~ magic.ok \/ ~ number.ok \/ ~ tensors.ok \/ ~ count.ok \/ ~ read.ok
          PROVE  ReadMetadata(f) = Failure
      BY <1>4, <3>1
    <3>2. QED
      BY <1>3, <1>17, <3>1 DEF Outcome
  <2>2. CASE ~ LiesIn(f, 1, m)
    BY <1>16, <2>2 DEF Outcome, Failure
  <2>3. CASE LiesIn(f, 1, m)
    <3>1. magic = Got(m, q1)
      BY <1>16, <2>3 DEF Outcome, q1
    <3>2. magic.at = q1
      BY <3>1 DEF Got
    <3>3. number = Outcome(f, q1, v, version)
      BY <1>6, <1>15, <3>2 DEF number
    <3>4. CASE ~ LiesIn(f, q1, v)
      BY <3>3, <3>4 DEF Outcome, Failure
    <3>5. CASE LiesIn(f, q1, v)
      <4>1. number = Got(version, q2)
        BY <1>15, <3>3, <3>5 DEF Outcome
      <4>2. number.at = q2 /\ number.value = version
        BY <4>1 DEF Got
      <4>3. tensors = Outcome(f, q2, t, 9)
        BY <1>7, <1>14, <4>2 DEF tensors, w
      <4>4. CASE ~ LiesIn(f, q2, t)
        BY <4>3, <4>4 DEF Outcome, Failure
      <4>5. CASE LiesIn(f, q2, t)
        <5>1. tensors = Got(9, q3)
          BY <1>14, <4>3, <4>5 DEF Outcome
        <5>2. tensors.at = q3
          BY <5>1 DEF Got
        <5>3. count = Outcome(f, q3, c, n)
          BY <1>8, <1>13, <4>2, <5>2 DEF count, w
        <5>4. CASE ~ LiesIn(f, q3, c)
          BY <5>3, <5>4 DEF Outcome, Failure
        <5>5. CASE LiesIn(f, q3, c)
          <6>1. count = Got(n, q4)
            BY <1>13, <5>3, <5>5 DEF Outcome
          <6>2. count.at = q4 /\ count.value = n
            BY <6>1 DEF Got
          <6>3. q4 - 1 <= Len(f)
            BY <1>1, <1>13, <5>5, LenProperties DEF LiesIn, Position
          <6>4. read = Outcome(f, q4, b, PairsUpTo(pairs, n))
            BY <1>9, <1>12, <6>2, <6>3 DEF read
          <6>5. QED
            BY <1>12, <1>17, <6>4 DEF Outcome, Failure
        <5>6. QED
          BY <5>4, <5>5
      <4>6. QED
        BY <4>4, <4>5
    <3>6. QED
      BY <3>4, <3>5
  <2>4. QED
    BY <2>2, <2>3
<1>18. CASE LiesIn(f, 1, s5)
  <2>1. LiesIn(f, q4, b) /\ LiesIn(f, q3, c) /\ LiesIn(f, q2, t) /\ LiesIn(f, q1, v) /\ LiesIn(f, 1, m)
    BY <1>12, <1>13, <1>14, <1>15, <1>18
  <2>2. magic = Got(m, q1)
    BY <1>16, <2>1 DEF Outcome, q1
  <2>3. magic.ok /\ magic.value = m /\ magic.at = q1
    BY <2>2 DEF Got
  <2>4. number = Got(version, q2)
    BY <1>6, <1>15, <2>1, <2>3 DEF Outcome, number
  <2>5. number.ok /\ number.at = q2 /\ number.value = version
    BY <2>4 DEF Got
  <2>6. tensors = Got(9, q3)
    BY <1>7, <1>14, <2>1, <2>5 DEF Outcome, tensors, w
  <2>7. tensors.ok /\ tensors.at = q3 /\ tensors.value = 9
    BY <2>6 DEF Got
  <2>8. count = Got(n, q4)
    BY <1>8, <1>13, <2>1, <2>5, <2>7 DEF Outcome, count, w
  <2>9. count.ok /\ count.at = q4 /\ count.value = n
    BY <2>8 DEF Got
  <2>10. q4 - 1 <= Len(f)
    BY <1>13, <2>1 DEF LiesIn
  <2>11. read = Got(PairsUpTo(pairs, n), q4 + Len(b))
    BY <1>9, <1>12, <2>1, <2>9, <2>10 DEF Outcome, read
  <2>12. read.ok /\ read.value = PairsUpTo(pairs, n) /\ read.at = q4 + Len(b)
    BY <2>11 DEF Got
  <2>13. ReadMetadata(f) = Got([version |-> version, tensors |-> 9, pairs |-> PairsUpTo(pairs, n)], q4 + Len(b))
    BY <1>2, <1>4, <2>3, <2>5, <2>7, <2>9, <2>12
  <2>14. QED
    BY <1>3, <1>12, <1>18, <2>13 DEF Outcome, Described, n
<1>19. QED
  BY <1>17, <1>18

(* What is left of a header when it is cut off, and all of it.             *)
LEMMA CutHolds ==
    ASSUME NEW s \in Seq(Byte), NEW cut \in 0..Len(s)
    PROVE  /\ SubSeq(s, 1, cut) \in Seq(Byte) /\ Holds(SubSeq(s, 1, cut), 1, s)
           /\ LiesIn(SubSeq(s, 1, cut), 1, s) <=> cut = Len(s)
<1> DEFINE f == SubSeq(s, 1, cut)
           size == Len(s)
<1>1. size \in Nat /\ cut \in Nat /\ cut <= size
  BY LenProperties
<1>2. 1 \in 1..(size + 1) /\ cut \in 0..size
  BY <1>1
<1>3. f \in Seq(Byte) /\ Len(f) = IF 1 <= cut THEN cut - 1 + 1 ELSE 0
  BY <1>2, Slices
<1>4. Len(f) = cut
  BY <1>1, <1>3
<1>5. \A i \in 1..cut : f[i] = s[i]
  BY <1>1
<1> HIDE DEF f, size
<1>6. ASSUME NEW i \in 1..size, 1 + i - 1 <= Len(f) PROVE f[1 + i - 1] = s[i]
  <2>1. i \in 1..cut /\ 1 + i - 1 = i
    BY <1>1, <1>4, <1>6
  <2>2. QED
    BY <1>5, <2>1
<1>7. Holds(f, 1, s)
  BY <1>6 DEF Holds, size
<1>8. LiesIn(f, 1, s) <=> cut = size
  BY <1>1, <1>4 DEF LiesIn, size
<1>9. QED
  BY <1>3, <1>7, <1>8 DEF f, size

LEMMA HeaderIsReadBack ==
    ASSUME NEW version, NEW pairs, IsWritten(version, pairs), NEW cut \in 0..Len(Header(version, pairs))
    PROVE  ReadsBack(version, pairs, cut)
<1> DEFINE file == Header(version, pairs)
           f == SubSeq(file, 1, cut)
           n == Len(pairs)
           read == ReadMetadata(f)
           keys == {pairs[k].key : k \in DOMAIN pairs}
           LastWith(key) == CHOOSE k \in DOMAIN pairs :
                             pairs[k].key = key /\ \A j \in (k + 1)..Len(pairs) : pairs[j].key # key
           shown == [key \in keys |-> Shown[MaxNesting][pairs[LastWith(key)].value]]
<1>1. ReadsBack(version, pairs, cut)
         <=> /\ read.ok = (cut = Len(file))
             /\ cut = Len(file) => read = Got([version |-> version, tensors |-> 9, pairs |-> shown], cut + 1)
  BY DEF ReadsBack, ComesOut
<1>2. n \in Nat /\ DOMAIN pairs = 1..n /\ pairs \in Seq(Pairs)
  BY LenProperties DEF IsWritten
<1>3. shown = PairsUpTo(pairs, n)
  <2>1. keys = KeysUpTo(pairs, n)
    BY <1>2 DEF KeysUpTo
  <2>2. ASSUME NEW key \in keys PROVE Shown[MaxNesting][pairs[LastWith(key)].value] = ShownOf(pairs[LastUpTo(pairs, n, key)])
    <3>1. PICK i : IsLast(pairs, n, key, i)
      BY <1>2, <2>1, SomeLast
    <3>2. i \in DOMAIN pairs /\ pairs[i].key = key /\ \A j \in (i + 1)..Len(pairs) : pairs[j].key # key
      BY <1>2, <3>1 DEF IsLast
    <3> DEFINE k == LastWith(key)
    <3>3. k \in DOMAIN pairs /\ pairs[k].key = key /\ \A j \in (k + 1)..Len(pairs) : pairs[j].key # key
      BY <3>2
    <3> HIDE DEF k
    <3>4. IsLast(pairs, n, key, k)
      BY <1>2, <3>3 DEF IsLast
    <3>5. LastUpTo(pairs, n, key) = k
      BY <1>2, <3>4, OneIsLast
    <3>6. QED
      BY <3>5 DEF ShownOf, k
  <2> HIDE DEF keys, LastWith
  <2>3. PairsUpTo(pairs, n) = [key \in keys |-> ShownOf(pairs[LastUpTo(pairs, n, key)])]
    BY <2>1 DEF PairsUpTo
  <2>4. QED
    BY <2>2, <2>3
<1> HIDE DEF shown, keys, LastWith
<1>4. file \in Seq(Byte) /\ Len(file) \in Nat
  <2>1. file \in Seq(Byte)
    BY HeaderParts, ConcatProperties DEF Header, PairsWritten
  <2>2. QED
    BY <2>1, LenProperties
<1>5. Holds(f, 1, file) => read = Outcome(f, 1, file, Described(version, pairs)) \/ f \notin Seq(Byte)
  BY HeaderRead
<1> HIDE DEF file
<1>6. f \in Seq(Byte) /\ Holds(f, 1, file) /\ (LiesIn(f, 1, file) <=> cut = Len(file))
  <2>1. cut \in 0..Len(file)
    BY DEF file
  <2>2. QED
    BY <1>4, <2>1, CutHolds
<1> HIDE DEF f, read
<1>7. read = Outcome(f, 1, file, Described(version, pairs))
  BY <1>5, <1>6
<1>8. cut \in Nat /\ cut <= Len(file)
  BY <1>4 DEF file
<1>9. CASE cut < Len(file)
  <2>1. read = Failure /\ cut # Len(file)
    BY <1>4, <1>6, <1>7, <1>8, <1>9 DEF Outcome
  <2>2. read.ok = FALSE
    BY <2>1 DEF Failure
  <2>3. QED
    BY <1>1, <2>1, <2>2
<1>10. CASE ~ (cut < Len(file))
  <2>1. cut = Len(file)
    BY <1>4, <1>8, <1>10
  <2>2. read = Got(Described(version, pairs), 1 + cut)
    BY <1>6, <1>7, <2>1 DEF Outcome
  <2>3. 1 + cut = cut + 1
    BY <1>8
  <2>4. Described(version, pairs) = [version |-> version, tensors |-> 9, pairs |-> shown]
    BY <1>3 DEF Described
  <2>5. read.ok = TRUE
    BY <2>2 DEF Got
  <2>6. QED
    BY <1>1, <2>1, <2>2, <2>3, <2>4, <2>5
<1>11. QED
  BY <1>9, <1>10

------------------------------------------------------------------------------
(* The algorithms, for whatever they are given. *)

(* Whatever the directories and the symlinks between them, the scan enters *)
(* none that is not within reach, and unless a path was cut for its depth  *)
(* it enters every one that is, through cycles and repeated directories,   *)
(* for every depth that is configured (walkDirRecursive of scanner.go).    *)
THEOREM ScansFindAll ==
    ASSUME task = "walk" => input \in [sub : Graphs, roots : Seq(Dirs)]
    PROVE  WalkFindsAll
<1>1. SUFFICES ASSUME task = "walk" PROVE FindsAll(input.sub, input.roots)
  BY DEF WalkFindsAll
<1>2. input.sub \in Graphs /\ input.roots \in Seq(Dirs)
  BY <1>1
<1>3. QED
  BY <1>2, ScanFindsAll

(* The options of a profile and the override of a sweep.  When plain, the  *)
(* options are flags with at most one value, none of which begins with a   *)
(* dash; otherwise they are any tokens.                                    *)
IsSweep(sweep, Token) ==
    /\ sweep.options \in Seq(Seq(Token))
    /\ \/ sweep.override = NoOverride
       \/ \E flag \in Dashed \intersect Token, value \in Token \union {NoValue} :
             sweep.override = <<flag, value>>
    /\ sweep.plain => \A k \in 1..Len(sweep.options) : IsOption(sweep.options[k], Token)

(* Whatever options a profile has, an override changes the value of its    *)
(* flag, wherever it stands, and nothing else, as long as no value begins  *)
(* with a dash (StartServerWithOverrides of supervisor.go); and whatever   *)
(* its arguments are, the process is told the model of the catalog, the    *)
(* host and the reserved port, each at least once, every flag that names   *)
(* one of them is followed by the studio's value, and every projector      *)
(* comes behind its flag (BuildCommand of manager.go).                     *)
THEOREM CommandsSound ==
    ASSUME NEW Token, task = "args" => IsSweep(input, Token)
    PROVE  CommandSound
<1> DEFINE args == FlattenSeq(input.options)
           merged == Merge(args, input.override)
<1>1. SUFFICES ASSUME task = "args"
               PROVE  /\ input.plain => Replaces(input.options, input.override)
                      /\ OwnAddress(BuildCommand(merged)) /\ ProjectorFlagged(BuildCommand(merged))
  BY DEF CommandSound
<1>2. IsSweep(input, Token)
  BY <1>1
<1>3. input.options \in Seq(Seq(Token))
  BY <1>2 DEF IsSweep
<1>4. args \in Seq(Token)
  <2>1. PICK F : IsFlat(F, input.options, Token)
    BY <1>3, FlatExists
  <2>2. args = F[Len(input.options)]
    BY <1>3, <2>1, FlattenIsFlat
  <2>3. Len(input.options) \in 0..Len(input.options)
    BY <1>3, LenProperties
  <2>4. QED
    BY <2>1, <2>2, <2>3 DEF IsFlat
<1> HIDE DEF args
<1>5. CASE input.override = NoOverride
  <2>1. merged \in Seq(Token)
    BY <1>4, <1>5 DEF Merge
  <2>2. Replaces(input.options, input.override)
    BY <1>5 DEF Replaces, Merge, MergedOptions
  <2> HIDE DEF merged
  <2>3. QED
    BY <2>1, <2>2, CommandIsOwn
<1>6. ASSUME NEW flag \in Dashed \intersect Token, NEW value \in Token \union {NoValue},
             input.override = <<flag, value>>
      PROVE  /\ input.plain => Replaces(input.options, input.override)
             /\ OwnAddress(BuildCommand(merged)) /\ ProjectorFlagged(BuildCommand(merged))
  <2>1. Valued(input.override) \in Seq(Token)
    <3>1. CASE value = NoValue
      BY <1>6, <3>1 DEF Valued
    <3>2. CASE value # NoValue
      <4>1. value \in Token /\ Valued(input.override) = <<flag, value>>
        BY <1>6, <3>2 DEF Valued
      <4>2. QED
        BY <4>1
    <3>3. QED
      BY <3>1, <3>2
  <2>2. merged \in Seq(Token)
    BY <1>4, <2>1, MergeType
  <2>3. ASSUME input.plain PROVE Replaces(input.options, input.override)
    <3>1. \A k \in 1..Len(input.options) : IsOption(input.options[k], Token)
      BY <1>2, <2>3 DEF IsSweep
    <3>2. QED
      BY <1>3, <1>6, <3>1, MergeReplaces
  <2> HIDE DEF merged
  <2>4. QED
    BY <2>2, <2>3, CommandIsOwn
<1>7. QED
  BY <1>2, <1>5, <1>6 DEF IsSweep

(* Every request the gateway does not refuse is forwarded with the body it *)
(* came with, none within the limits is refused, and the answer is the     *)
(* same whether its length is announced or not, for all limits, except for *)
(* the forms CutOff names (extractModel of api.go).                        *)
THEOREM RequestsWhole ==
    ASSUME NEW Part, NEW Model, task = "request" => IsRequest(input, Part, Model)
    PROVE  RequestWhole
BY RequestsForwardedWhole DEF RequestWhole

(* A request is measured by all tokens of its answer up to the end and by  *)
(* the timings reported last; the ranks 50, 90 and (by the name of p99) 95 *)
(* are speeds that were measured, in their place; and the cell that is     *)
(* recommended is the first completed one that none beats, for any number  *)
(* of lines, samples and cells (streamRequest, computeAggregates and       *)
(* generateRecommendation of runner.go).                                   *)
THEOREM FiguresAreMeasured ==
    ASSUME NEW Status,
           task = "answer" => input \in Seq(Lines),
           task = "samples" => input \in Seq(Samples),
           task = "cells" => input \in Seq([status : Status, mean : Nat])
    PROVE  FiguresAsMeasured
<1>1. task = "answer" => Measured(input)
  BY AnswersMeasured
<1>2. ASSUME task = "samples"
      PROVE  LET report == Aggregates(input) IN
             /\ IsPercentile(input, report.p50, 50)
             /\ IsPercentile(input, report.p90, 90)
             /\ IsPercentile(input, report.p99, 95)
  <2>1. input \in Seq(Samples)
    BY <1>2
  <2>2. ASSUME NEW percent \in 0..99
        PROVE  IsPercentile(input, Percentile(Sorted(input), percent), percent)
    BY <2>1, PercentilesRight
  <2>3. 50 \in 0..99 /\ 90 \in 0..99 /\ 95 \in 0..99
    OBVIOUS
  <2>4. QED
    BY <2>2, <2>3 DEF Aggregates
<1>3. task = "cells" => IsBest(input)
  BY BestIsRecommended
<1>4. QED
  BY <1>1, <1>2, <1>3 DEF FiguresAsMeasured

(* Of every stream without a line that is too long, whatever its chunks    *)
(* carry and in whatever order, the client gets every piece, the reason    *)
(* and the count, as it would in one piece, and what it sends back of it   *)
(* is read as what was said (streamAnthropicResponse,                      *)
(* writeAnthropicResponse and anthropicContentStr of anthropic.go).        *)
THEOREM StreamsFaithful ==
    ASSUME NEW Kind, NEW Piece, NEW Reason,
           task = "stream" => input \in Seq(StreamLines(Kind, Piece, Reason \union {NoReason}))
    PROVE  StreamFaithful
BY StreamIsFaithful DEF StreamFaithful

(* A header of a model file and the input of the reader: any pairs whose   *)
(* keys, strings and lists are within the limits, in a version there is,   *)
(* and a place where the file may end.                                     *)
IsHeader(header) ==
    /\ IsWritten(header.version, header.pairs)
    /\ header.cut \in 0..Len(Header(header.version, header.pairs))

(* Every header that can be written, with values of every type, nested to  *)
(* any depth, and lists of any length, comes out of the reader as it was   *)
(* written, a key that comes twice with its last value, and a header that  *)
(* is cut off anywhere is refused (ReadMetadata of reader.go); and the     *)
(* lines of a log are its tail, whatever it holds and in whatever pieces   *)
(* it is read (GetLogFileLines of db.go), for all limits.                  *)
THEOREM FilesReadCorrectly ==
    ASSUME NEW Symbol,
           task = "header" => IsHeader(input),
           task = "log" => input \in [file : Seq(Symbol), buffer : Nat \ {0}, maxLines : Nat]
    PROVE  FilesReadRight
<1>1. ASSUME task = "header" PROVE ReadsBack(input.version, input.pairs, input.cut)
  <2>1. /\ IsWritten(input.version, input.pairs)
        /\ input.cut \in 0..Len(Header(input.version, input.pairs))
    BY <1>1 DEF IsHeader
  <2>2. QED
    BY <2>1, HeaderIsReadBack
<1>2. ASSUME task = "log" PROVE IsTail(input.file, input.buffer, input.maxLines)
  <2>1. input.file \in Seq(Symbol) /\ input.buffer \in Nat \ {0} /\ input.maxLines \in Nat
    BY <1>2
  <2>2. QED
    BY <2>1, TailIsRead
<1>3. QED
  BY <1>1, <1>2 DEF FilesReadRight
==============================================================================
