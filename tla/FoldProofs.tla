------------------------------ MODULE FoldProofs ------------------------------
(***************************************************************************)
(* Lemmas that the proofs about tables rest on: extrema of sets of         *)
(* numbers, induction over a set of numbers, and what FoldLeft and         *)
(* FlattenSeq compute, unfolded once.                                      *)
(***************************************************************************)
EXTENDS Integers, SequencesExt, WellFoundedInduction, SequenceTheorems, TLAPS

-----------------------------------------------------------------------------
(* Naturals: the smallest and the largest of some, and the form of         *)
(* induction used throughout: no number is the first that S lacks.         *)

LEMMA MinOfNaturals ==
  ASSUME NEW S \in SUBSET Nat, S # {}
  PROVE  Min(S) \in S /\ \A x \in S : Min(S) <= x
<1>1. \E k \in S : \A m \in S : ~(<<m, k>> \in OpToRel(<, Nat))
  BY NatLessThanWellFounded, WFMin
<1>2. PICK k \in S : \A m \in S : ~(m < k)
  BY <1>1 DEF OpToRel
<1>3. \E k1 \in S : \A m \in S : k1 =< m
  BY <1>2
<1>4. QED BY <1>3 DEF Min

LEMMA NatInductionSet ==
  ASSUME NEW n \in Nat, NEW S, 0 \in S, \A k \in 1 .. n : k - 1 \in S => k \in S
  PROVE  \A k \in 0 .. n : k \in S
<1> DEFINE Lacking == {k \in 0 .. n : k \notin S}
           first == Min(Lacking)
<1> SUFFICES ASSUME Lacking # {} PROVE FALSE
  OBVIOUS
<1>1. first \in Lacking /\ \A m \in Lacking : first <= m
  BY MinOfNaturals
<1> HIDE DEF first
<1>2. first # 0 /\ first \in 1 .. n /\ first - 1 \in 0 .. n /\ ~(first <= first - 1)
  BY <1>1
<1>3. first - 1 \in S
  BY <1>1, <1>2
<1>4. QED BY <1>1, <1>2, <1>3

LEMMA MaxOfInterval ==
  ASSUME NEW n \in Nat, NEW S \in SUBSET (1 .. n), S # {}
  PROVE  Max(S) \in S /\ \A x \in S : Max(S) >= x
<1> DEFINE Bounds == {b \in Nat : \A x \in S : x <= b}
           top == Min(Bounds)
<1>1. n \in Bounds
  OBVIOUS
<1>2. top \in Bounds /\ \A b \in Bounds : top <= b
  BY <1>1, MinOfNaturals
<1>3. top \in Nat /\ \A x \in S : x <= top
  BY <1>2
<1> HIDE DEF top
<1>4. top \in S
  <2> SUFFICES ASSUME top \notin S PROVE FALSE
    OBVIOUS
  <2>0. PICK y \in S : TRUE
    OBVIOUS
  <2>1. /\ \A x \in S : x \in Nat /\ x >= 1 /\ x <= top - 1
        /\ top - 1 \in Nat
    BY <1>3, <2>0
  <2>2. top - 1 \in Bounds
    BY <1>3, <2>1
  <2>3. ~(top <= top - 1)
    BY <1>3
  <2>4. QED BY <1>2, <2>2, <2>3
<1>5. \E x \in S : \A y \in S : x >= y
  BY <1>3, <1>4
<1>6. QED BY <1>5 DEF Max

LEMMA MaxOfPrefix ==
  ASSUME NEW k \in Nat, k > 0
  PROVE  Max(1 .. k) = k /\ (1 .. k) \ {k} = 1 .. k - 1
<1>1. Max(1 .. k) \in 1 .. k /\ \A x \in 1 .. k : Max(1 .. k) >= x
  <2>1. k \in 1 .. k
    OBVIOUS
  <2>2. QED BY <2>1, MaxOfInterval
<1>2. Max(1 .. k) = k
  BY <1>1
<1>3. QED BY <1>2

-----------------------------------------------------------------------------
(* Folds.  FoldLeft is defined by a function on the subsets of the         *)
(* sequence's domain; such a function exists.                              *)

FoldStep(F, base, seq, it, s) ==
  IF s = {} THEN base ELSE F[it[s \ {Max(s)}]][seq[Max(s)]]

Solves(F, base, seq, it, k) ==
  it = [s \in SUBSET (1 .. k) |-> FoldStep(F, base, seq, it, s)]

Solvable(R, F, base, seq, k) ==
  \E it \in [SUBSET (1 .. k) -> R] : Solves(F, base, seq, it, k)

LEMMA FoldExists ==
  ASSUME NEW R, NEW D, NEW F \in [R -> [D -> R]], NEW base \in R, NEW seq \in Seq(D)
  PROVE  Solvable(R, F, base, seq, Len(seq))
<1> DEFINE Solved == {k \in 0 .. Len(seq) : Solvable(R, F, base, seq, k)}
<1>0. Len(seq) \in Nat /\ \A i \in 1 .. Len(seq) : seq[i] \in D
  OBVIOUS
<1>1. Solvable(R, F, base, seq, 0)
  <2> DEFINE it == [s \in SUBSET (1 .. 0) |-> base]
  <2>1. \A s \in SUBSET (1 .. 0) : s = {}
    OBVIOUS
  <2>2. it \in [SUBSET (1 .. 0) -> R]
    OBVIOUS
  <2>3. Solves(F, base, seq, it, 0)
    BY <2>1 DEF Solves, FoldStep
  <2>4. QED BY <2>2, <2>3 DEF Solvable
<1>2. ASSUME NEW k \in 1 .. Len(seq), Solvable(R, F, base, seq, k - 1)
      PROVE  Solvable(R, F, base, seq, k)
  <2>0. k \in Nat /\ k > 0 /\ k <= Len(seq)
    BY <1>0
  <2>1. PICK old \in [SUBSET (1 .. k - 1) -> R] : Solves(F, base, seq, old, k - 1)
    BY <1>2 DEF Solvable
  <2> DEFINE it == [s \in SUBSET (1 .. k) |-> FoldStep(F, base, seq, old, s)]
  <2>2. ASSUME NEW s \in SUBSET (1 .. k), s # {}
        PROVE  Max(s) \in 1 .. Len(seq) /\ s \ {Max(s)} \in SUBSET (1 .. k - 1)
    <3>1. PICK m : m = Max(s)
      OBVIOUS
    <3>2. m \in s /\ \A x \in s : m >= x
      BY <2>0, <2>2, <3>1, MaxOfInterval
    <3>3. m \in Nat /\ m >= 1 /\ m <= k
      BY <2>0, <3>2
    <3>4. ASSUME NEW x \in s, x # m
          PROVE  x \in 1 .. k - 1
      BY <2>0, <3>2, <3>3, <3>4
    <3>5. Max(s) \in 1 .. Len(seq)
      BY <1>0, <2>0, <3>1, <3>3
    <3>6. s \ {Max(s)} \in SUBSET (1 .. k - 1)
      BY <3>1, <3>4
    <3>7. QED BY <3>5, <3>6
  <2>3. ASSUME NEW s \in SUBSET (1 .. k)
        PROVE  FoldStep(F, base, seq, old, s) \in R
    <3>1. CASE s = {}
      BY <3>1 DEF FoldStep
    <3>2. CASE s # {}
      <4>1. PICK d \in D : d = seq[Max(s)]
        BY <1>0, <2>2, <3>2
      <4>2. PICK r \in R : r = old[s \ {Max(s)}]
        BY <2>1, <2>2, <3>2
      <4>3. F[r][d] \in R
        OBVIOUS
      <4>4. QED BY <3>2, <4>1, <4>2, <4>3 DEF FoldStep
    <3>3. QED BY <3>1, <3>2
  <2>4. it \in [SUBSET (1 .. k) -> R]
    BY <2>3
  <2>5. ASSUME NEW s \in SUBSET (1 .. k - 1)
        PROVE  it[s] = old[s]
    <3>1. s \in SUBSET (1 .. k)
      BY <1>0
    <3>2. QED BY <2>1, <3>1 DEF Solves
  <2>6. ASSUME NEW s \in SUBSET (1 .. k)
        PROVE  FoldStep(F, base, seq, old, s) = FoldStep(F, base, seq, it, s)
    BY <2>2, <2>5 DEF FoldStep
  <2>7. Solves(F, base, seq, it, k)
    BY <2>6 DEF Solves
  <2>8. QED BY <2>4, <2>7 DEF Solvable
<1>3. 0 \in Solved /\ \A k \in 1 .. Len(seq) : k - 1 \in Solved => k \in Solved
  BY <1>0, <1>1, <1>2
<1>4. \A k \in 0 .. Len(seq) : k \in Solved
  <2> HIDE DEF Solved
  <2>1. QED BY <1>0, <1>3, NatInductionSet
<1>5. QED BY <1>0, <1>4

(* The same in the words of FoldLeft's definition.                         *)
Folds(F, base, seq, it) ==
  it = [x \in SUBSET (DOMAIN seq) |-> IF x = {} THEN base ELSE F[it[x \ {Max(x)}]][seq[Max(x)]]]

FoldsWithin(R, D, F, base, seq, it) ==
  /\ Folds(F, base, seq, it)
  /\ \A x \in SUBSET (DOMAIN seq) : x # {} => it[x \ {Max(x)}] \in R /\ seq[Max(x)] \in D

LEMMA FoldValues ==
  ASSUME NEW R, NEW D, NEW F \in [R -> [D -> R]], NEW base \in R, NEW seq \in Seq(D)
  PROVE  \E it : FoldsWithin(R, D, F, base, seq, it)
<1> DEFINE n == Len(seq)
<1>1. n \in Nat /\ DOMAIN seq = 1 .. n /\ \A i \in 1 .. n : seq[i] \in D
  OBVIOUS
<1>2. PICK it \in [SUBSET (1 .. n) -> R] : Solves(F, base, seq, it, n)
  BY FoldExists DEF Solvable
<1>3. Folds(F, base, seq, it)
  BY <1>1, <1>2 DEF Solves, FoldStep, Folds
<1>4. ASSUME NEW x \in SUBSET (1 .. n), x # {}
      PROVE  it[x \ {Max(x)}] \in R /\ seq[Max(x)] \in D
  <2>1. Max(x) \in 1 .. n
    BY <1>1, <1>4, MaxOfInterval
  <2>2. x \ {Max(x)} \in SUBSET (1 .. n)
    OBVIOUS
  <2>3. QED BY <1>1, <1>2, <2>1, <2>2
<1>5. QED BY <1>1, <1>3, <1>4 DEF FoldsWithin

(* What is left to say of a fold: the function's values on the prefixes.   *)
LEMMA FoldPrefixes ==
  ASSUME NEW n \in Nat, NEW it
  PROVE  /\ {} \in SUBSET (1 .. n) /\ 1 .. 0 = {}
         /\ \A k \in 1 .. n : /\ 1 .. k \in SUBSET (1 .. n) /\ 1 .. k # {}
                              /\ Max(1 .. k) = k /\ (1 .. k) \ {k} = 1 .. k - 1
<1>1. ASSUME NEW k \in 1 .. n
      PROVE  k \in Nat /\ k > 0 /\ k <= n
  OBVIOUS
<1>2. ASSUME NEW k \in 1 .. n
      PROVE  Max(1 .. k) = k /\ (1 .. k) \ {k} = 1 .. k - 1
  BY <1>1, MaxOfPrefix
<1>3. ASSUME NEW k \in 1 .. n
      PROVE  1 .. k \in SUBSET (1 .. n) /\ 1 .. k # {}
  BY <1>1
<1>4. QED BY <1>2, <1>3

-----------------------------------------------------------------------------
(* FlattenSeq: the sequences, one after the other.                         *)

Flattens(seqs, g, k) ==
  g = [i \in 1 .. k |-> IF i = 1 THEN seqs[i] ELSE g[i - 1] \o seqs[i]]

FlattenRun(E, seqs, f) ==
  /\ f \in [0 .. Len(seqs) -> Seq(E)]
  /\ f[0] = <<>>
  /\ \A k \in 1 .. Len(seqs) : f[k] = f[k - 1] \o seqs[k]
  /\ FlattenSeq(seqs) = f[Len(seqs)]

LEMMA FlattenExists ==
  ASSUME NEW E, NEW seqs \in Seq(Seq(E))
  PROVE  \E g \in [1 .. Len(seqs) -> Seq(E)] : Flattens(seqs, g, Len(seqs))
<1> DEFINE n == Len(seqs)
           Can(k) == \E g \in [1 .. k -> Seq(E)] : Flattens(seqs, g, k)
           Done1 == {k \in 0 .. n : Can(k)}
<1>1. n \in Nat /\ \A i \in 1 .. n : seqs[i] \in Seq(E)
  OBVIOUS
<1>2. Can(0)
  <2> DEFINE g == [i \in 1 .. 0 |-> <<>>]
  <2>1. g \in [1 .. 0 -> Seq(E)] /\ Flattens(seqs, g, 0)
    BY DEF Flattens
  <2>2. QED BY <2>1
<1>3. ASSUME NEW k \in 1 .. n, Can(k - 1)
      PROVE  Can(k)
  <2>1. PICK old \in [1 .. k - 1 -> Seq(E)] : Flattens(seqs, old, k - 1)
    BY <1>3
  <2> DEFINE g == [i \in 1 .. k |-> IF i = 1 THEN seqs[i] ELSE old[i - 1] \o seqs[i]]
  <2>2. \A i \in 1 .. k : i \in 1 .. n /\ (i # 1 => i - 1 \in 1 .. k - 1)
    BY <1>1
  <2>3. ASSUME NEW i \in 1 .. k
        PROVE  g[i] \in Seq(E)
    <3>1. CASE i = 1
      BY <1>1, <2>2, <3>1
    <3>2. CASE i # 1
      <4>1. old[i - 1] \in Seq(E) /\ seqs[i] \in Seq(E)
        BY <1>1, <2>1, <2>2, <3>2
      <4>2. QED BY <3>2, <4>1
    <3>3. QED BY <3>1, <3>2
  <2>4. g \in [1 .. k -> Seq(E)]
    BY <2>3
  <2>5. ASSUME NEW i \in 1 .. k - 1
        PROVE  g[i] = old[i]
    <3>1. i \in 1 .. k
      BY <1>1
    <3>2. QED BY <2>1, <3>1 DEF Flattens
  <2>6. Flattens(seqs, g, k)
    BY <2>2, <2>5 DEF Flattens
  <2>7. QED BY <2>4, <2>6
<1>4. \A k \in 1 .. n : k - 1 \in Done1 => k \in Done1
  <2> HIDE DEF Can
  <2>1. QED BY <1>1, <1>3
<1>5. 0 \in Done1
  <2> HIDE DEF Can
  <2>1. QED BY <1>1, <1>2
<1>6. \A k \in 0 .. n : k \in Done1
  <2> HIDE DEF Done1
  <2>1. QED BY <1>1, <1>4, <1>5, NatInductionSet
<1>7. Can(n)
  <2> HIDE DEF Can
  <2>1. QED BY <1>1, <1>6
<1>8. QED BY <1>7

LEMMA FlattenRuns ==
  ASSUME NEW E, NEW seqs \in Seq(Seq(E))
  PROVE  \E f : FlattenRun(E, seqs, f)
<1> DEFINE n == Len(seqs)
<1>1. n \in Nat /\ \A i \in 1 .. n : seqs[i] \in Seq(E)
  OBVIOUS
<1>2. CASE n = 0
  <2>1. seqs = <<>> /\ FlattenSeq(seqs) = <<>>
    BY <1>2 DEF FlattenSeq
  <2> DEFINE f == [k \in 0 .. n |-> <<>>]
  <2>2. f \in [0 .. n -> Seq(E)] /\ f[0] = <<>> /\ f[n] = <<>>
    BY <1>2
  <2>3. FlattenRun(E, seqs, f)
    BY <1>2, <2>1, <2>2 DEF FlattenRun
  <2>4. QED BY <2>3
<1>3. CASE n # 0
  <2> DEFINE g == CHOOSE h : Flattens(seqs, h, n)
             f == [k \in 0 .. n |-> IF k = 0 THEN <<>> ELSE g[k]]
  <2>1. Flattens(seqs, g, n)
    BY FlattenExists
  <2>2. FlattenSeq(seqs) = g[n]
    BY <1>3, Zenon DEF FlattenSeq, Flattens
  <2> HIDE DEF g
  <2>3. g[1] = seqs[1] /\ \A k \in 1 .. n : k # 1 => g[k] = g[k - 1] \o seqs[k]
    <3>1. \A k \in 1 .. n : g[k] = IF k = 1 THEN seqs[k] ELSE g[k - 1] \o seqs[k]
      BY <2>1 DEF Flattens
    <3>2. 1 \in 1 .. n
      BY <1>1, <1>3
    <3>3. QED BY <3>1, <3>2
  <2>4. \A k \in 1 .. n : g[k] \in Seq(E)
    <3> DEFINE Typed == {k \in 0 .. n : k # 0 => g[k] \in Seq(E)}
    <3>1. 0 \in Typed
      BY <1>1
    <3>2. ASSUME NEW k \in 1 .. n, k - 1 \in Typed
          PROVE  k \in Typed
      <4>1. k \in 0 .. n
        BY <1>1
      <4>2. CASE k = 1
        BY <1>1, <2>3, <4>1, <4>2
      <4>3. CASE k # 1
        <5>1. k - 1 # 0
          BY <1>1, <4>3
        <5>2. PICK a, b \in Seq(E) : a = g[k - 1] /\ b = seqs[k]
          BY <1>1, <3>2, <5>1
        <5>3. g[k] = a \o b
          BY <2>3, <4>3, <5>2
        <5>4. g[k] \in Seq(E)
          BY <5>3
        <5>5. QED BY <4>1, <5>4
      <4>4. QED BY <4>2, <4>3
    <3>3. \A k \in 0 .. n : k \in Typed
      <4> HIDE DEF Typed
      <4>1. QED BY <1>1, <3>1, <3>2, NatInductionSet
    <3>4. QED BY <1>1, <3>3
  <2>5. f \in [0 .. n -> Seq(E)]
    BY <1>1, <2>4
  <2>6. ASSUME NEW k \in 1 .. n
        PROVE  f[k] = f[k - 1] \o seqs[k]
    <3>1. CASE k = 1
      BY <1>1, <2>3, <3>1
    <3>2. CASE k # 1
      <4>1. k - 1 # 0 /\ k # 0 /\ k - 1 \in 0 .. n /\ k \in 0 .. n
        BY <1>1, <3>2
      <4>2. f[k] = g[k] /\ f[k - 1] = g[k - 1]
        BY <4>1
      <4>3. QED BY <2>3, <3>2, <4>2
    <3>3. QED BY <3>1, <3>2
  <2>7. f[0] = <<>> /\ FlattenSeq(seqs) = f[n]
    BY <1>1, <1>3, <2>2
  <2>8. FlattenRun(E, seqs, f)
    BY <2>5, <2>6, <2>7 DEF FlattenRun
  <2>9. QED BY <2>8
<1>4. QED BY <1>2, <1>3

==============================================================================
