-------------------------- MODULE FrameDatabaseProofs --------------------------
(***************************************************************************)
(* Proofs about the physical frame allocator, for every region table,      *)
(* every set of requests and every size of the arrays.  The first half is  *)
(* about the operators of FrameTable: what each does to a tidy array.      *)
(***************************************************************************)
EXTENDS FrameDatabase, FoldProofs, FiniteSetTheorems

-----------------------------------------------------------------------------
(* Items of a table: entries of the frame arrays, or descriptors.          *)

Items(E) ==
  /\ \A e \in E : e.base \in Nat /\ e.count \in Nat /\ SaysTheSame(e, e)
  /\ \A e, f \in E : SaysTheSame(e, f) => SaysTheSame(f, e)
  /\ \A e, f, g \in E : SaysTheSame(e, f) /\ SaysTheSame(f, g) => SaysTheSame(e, g)
  /\ \A e \in E, n \in Nat : /\ [e EXCEPT !.count = n] \in E
                             /\ [e EXCEPT !.count = n].base = e.base
                             /\ [e EXCEPT !.count = n].count = n
                             /\ SaysTheSame([e EXCEPT !.count = n], e)

Results(E) == [ok : BOOLEAN, table : Seq(E)]

(* What AppendEntry does, by cases.                                        *)
Kept(t, e, u) == (~t.ok \/ e.count = 0) /\ u = t

Lengthened(t, e, u) ==
  LET n == Len(t.table) IN
  /\ t.ok /\ e.count > 0 /\ n > 0 /\ Continues(t.table[n], e)
  /\ u.ok /\ Len(u.table) = n
  /\ \A i \in 1 .. n - 1 : u.table[i] = t.table[i]
  /\ u.table[n] = [t.table[n] EXCEPT !.count = t.table[n].count + e.count]

Added(t, e, u) ==
  LET n == Len(t.table) IN
  /\ t.ok /\ e.count > 0 /\ n < MaxEntries
  /\ n > 0 => ~Continues(t.table[n], e)
  /\ u.ok /\ Len(u.table) = n + 1
  /\ \A i \in 1 .. n : u.table[i] = t.table[i]
  /\ u.table[n + 1] = e

Overfull(t, e, u) ==
  /\ t.ok /\ e.count > 0 /\ Len(t.table) >= MaxEntries
  /\ ~u.ok /\ u.table = t.table

LEMMA AppendEntryCases ==
  ASSUME NEW E, Items(E), NEW t \in Results(E), NEW e \in E
  PROVE  LET u == AppendEntry(t, e) IN
         /\ u \in Results(E)
         /\ Kept(t, e, u) \/ Lengthened(t, e, u) \/ Added(t, e, u) \/ Overfull(t, e, u)
<1> DEFINE n == Len(t.table)
           u == AppendEntry(t, e)
<1>1. /\ t.ok \in BOOLEAN /\ t.table \in Seq(E) /\ n \in Nat /\ e.count \in Nat
      /\ \A i \in 1 .. n : t.table[i] \in E /\ t.table[i].count \in Nat
      /\ t.table # <<>> <=> n > 0
  BY DEF Results, Items
<1>2. CASE ~t.ok \/ e.count = 0
  BY <1>2 DEF AppendEntry, Kept
<1>3. CASE t.ok /\ e.count > 0 /\ t.table # <<>> /\ Continues(Last(t.table), e)
  <2>1. u = Done([t.table EXCEPT ![n].count = @ + e.count])
    BY <1>3 DEF AppendEntry
  <2>2. n \in 1 .. n /\ n > 0
    BY <1>1, <1>3
  <2>3. PICK g \in E : g = [t.table[n] EXCEPT !.count = t.table[n].count + e.count]
    <3>1. PICK old \in E, m \in Nat : old = t.table[n] /\ m = old.count + e.count
      BY <1>1, <2>2 DEF Items
    <3>2. [old EXCEPT !.count = m] \in E
      BY <3>1 DEF Items
    <3>3. QED BY <3>1, <3>2
  <2>4. u.ok /\ u.table = [t.table EXCEPT ![n] = g]
    BY <2>1, <2>3 DEF Done
  <2>5. /\ u.table \in Seq(E) /\ Len(u.table) = n
        /\ \A i \in 1 .. n - 1 : u.table[i] = t.table[i]
        /\ u.table[n] = g
    BY <1>1, <2>2, <2>4
  <2>6. u \in Results(E)
    BY <2>1, <2>5 DEF Results, Done
  <2>7. Lengthened(t, e, u)
    BY <1>3, <2>2, <2>3, <2>4, <2>5 DEF Lengthened, Last
  <2>8. QED BY <2>6, <2>7
<1>4. CASE t.ok /\ e.count > 0 /\ ~(t.table # <<>> /\ Continues(Last(t.table), e))
  <2>1. u = IF n < MaxEntries THEN Done(Append(t.table, e)) ELSE Failed(t.table)
    BY <1>4 DEF AppendEntry
  <2>2. n > 0 => ~Continues(t.table[n], e)
    BY <1>1, <1>4 DEF Last
  <2>3. CASE n < MaxEntries
    <3>1. u.ok /\ u.table = Append(t.table, e)
      BY <2>1, <2>3 DEF Done
    <3>2. /\ u.table \in Seq(E) /\ Len(u.table) = n + 1
          /\ \A i \in 1 .. n : u.table[i] = t.table[i]
          /\ u.table[n + 1] = e
      BY <1>1, <3>1
    <3>3. u \in Results(E)
      BY <2>1, <2>3, <3>1, <3>2 DEF Results, Done
    <3>4. Added(t, e, u)
      BY <1>4, <2>2, <2>3, <3>1, <3>2 DEF Added
    <3>5. QED BY <3>3, <3>4
  <2>4. CASE ~(n < MaxEntries)
    <3>1. u = Failed(t.table) /\ n >= MaxEntries
      BY <1>1, <2>1, <2>4, MaxEntriesAssumption
    <3>2. QED BY <1>1, <1>4, <3>1 DEF Failed, Results, Overfull
  <2>5. QED BY <2>3, <2>4
<1>5. QED BY <1>1, <1>2, <1>3, <1>4

(* A tidy array: ranges that are not empty, in order, and no two neighbours *)
(* that could be one.                                                      *)
Tidy(E, table) ==
  /\ table \in Seq(E) /\ Len(table) <= MaxEntries
  /\ \A i \in 1 .. Len(table) : table[i].count > 0
  /\ \A i, j \in 1 .. Len(table) : i < j => End(table[i]) <= table[j].base
  /\ \A i \in 1 .. Len(table) - 1 : ~Continues(table[i], table[i + 1])

Precedes(table, e) == \A i \in 1 .. Len(table) : End(table[i]) <= e.base

(* The array says of frame p what x says.                                  *)
Shows(table, p, x) == \E i \in 1 .. Len(table) : p \in Frames(table[i]) /\ SaysTheSame(table[i], x)

LEMMA AppendKeepsTidy ==
  ASSUME NEW E, Items(E), NEW t \in Results(E), NEW e \in E,
         Tidy(E, t.table), Precedes(t.table, e), NEW u, u = AppendEntry(t, e)
  PROVE  /\ u \in Results(E) /\ Tidy(E, u.table)
         /\ \A x \in E : Precedes(t.table, x) /\ End(e) <= x.base => Precedes(u.table, x)
         /\ u.ok => t.ok
         /\ u.ok => \A p \in Nat, x \in E :
              Shows(u.table, p, x) <=> \/ Shows(t.table, p, x)
                                       \/ p \in Frames(e) /\ SaysTheSame(e, x)
<1> DEFINE n == Len(t.table)
<1>1. u \in Results(E)
      /\ (Kept(t, e, u) \/ Lengthened(t, e, u) \/ Added(t, e, u) \/ Overfull(t, e, u))
  BY AppendEntryCases
<1>2. /\ t.ok \in BOOLEAN /\ t.table \in Seq(E) /\ n \in Nat /\ e.count \in Nat /\ e.base \in Nat
      /\ \A i \in 1 .. n : t.table[i] \in E
      /\ \A i \in 1 .. n : t.table[i].count \in Nat /\ t.table[i].base \in Nat
      /\ u.ok \in BOOLEAN /\ u.table \in Seq(E)
  BY <1>1 DEF Results, Items
<1>3. CASE Kept(t, e, u)
  <2>1. u = t
    BY <1>3 DEF Kept
  <2>2. u.ok => \A p \in Nat : p \notin Frames(e)
    <3>1. u.ok => e.count = 0
      BY <1>3, <2>1 DEF Kept
    <3>2. e.count = 0 => \A p \in Nat : ~(e.base <= p /\ p <= e.base + e.count - 1)
      BY <1>2
    <3>3. QED BY <1>2, <3>1, <3>2 DEF Frames, Span
  <2>3. QED BY <1>1, <2>1, <2>2
<1>4. CASE Overfull(t, e, u)
  <2>1. ~u.ok /\ u.table = t.table
    BY <1>4 DEF Overfull
  <2>2. QED BY <1>1, <2>1 DEF Precedes
<1>5. CASE Lengthened(t, e, u)
  <2>1. /\ t.ok /\ e.count > 0 /\ n > 0 /\ Continues(t.table[n], e)
        /\ u.ok /\ Len(u.table) = n
        /\ \A i \in 1 .. n - 1 : u.table[i] = t.table[i]
        /\ u.table[n] = [t.table[n] EXCEPT !.count = t.table[n].count + e.count]
    BY <1>5 DEF Lengthened
  <2>2. PICK old \in E, g \in E : old = t.table[n] /\ g = u.table[n]
    BY <1>2, <2>1
  <2>3. /\ old.base \in Nat /\ old.count \in Nat /\ old.count > 0
        /\ g.base = old.base /\ g.count = old.count + e.count
        /\ End(old) = e.base /\ SaysTheSame(old, e) /\ SaysTheSame(g, old)
    <3>1. old.base \in Nat /\ old.count \in Nat
      BY <2>2 DEF Items
    <3>2. n \in 1 .. n
      BY <1>2, <2>1
    <3>3. old.count > 0
      BY <1>1, <2>1, <2>2, <3>2 DEF Tidy
    <3>4. End(old) = e.base /\ SaysTheSame(old, e)
      BY <2>1, <2>2 DEF Continues
    <3>5. PICK c \in Nat : c = old.count + e.count
      BY <1>2, <3>1
    <3>6. g = [old EXCEPT !.count = c]
      BY <2>1, <2>2, <3>5
    <3>7. g.base = old.base /\ g.count = c /\ SaysTheSame(g, old)
      BY <2>2, <3>5, <3>6 DEF Items
    <3>8. QED BY <3>1, <3>3, <3>4, <3>5, <3>7
  <2>4. End(g) = End(e)
    BY <1>2, <2>3 DEF End
  <2>5. \A i \in 1 .. n : i = n \/ i \in 1 .. n - 1
    BY <1>2
  <2>6. Tidy(E, u.table)
    <3>1. \A i \in 1 .. n : u.table[i].base = t.table[i].base /\ u.table[i].count > 0
      <4>1. g.count > 0 /\ \A i \in 1 .. n : t.table[i].count > 0
        BY <1>2, <2>3 DEF Tidy
      <4>2. QED BY <2>1, <2>2, <2>3, <2>5, <4>1
    <3>2. \A i, j \in 1 .. n : i < j => End(u.table[i]) <= u.table[j].base
      <4> TAKE i, j \in 1 .. n
      <4> HAVE i < j
      <4>1. i \in 1 .. n - 1
        BY <1>2
      <4>2. QED BY <2>1, <3>1, <4>1 DEF Tidy
    <3>3. \A i \in 1 .. n - 1 : ~Continues(u.table[i], u.table[i + 1])
      <4> TAKE i \in 1 .. n - 1
      <4>1. ~Continues(t.table[i], t.table[i + 1]) /\ u.table[i] = t.table[i]
        BY <2>1 DEF Tidy
      <4>2. CASE i + 1 \in 1 .. n - 1
        BY <2>1, <4>1, <4>2
      <4>3. CASE i + 1 = n
        <5>1. SaysTheSame(t.table[i], g) => SaysTheSame(t.table[i], old)
          BY <1>2, <2>2, <2>3 DEF Items
        <5>2. QED BY <2>2, <2>3, <4>1, <4>3, <5>1 DEF Continues
      <4>4. QED BY <1>2, <4>2, <4>3
    <3>4. Len(u.table) <= MaxEntries
      BY <2>1 DEF Tidy
    <3>5. QED BY <1>2, <2>1, <3>1, <3>2, <3>3, <3>4 DEF Tidy
  <2>7. \A x \in E : Precedes(t.table, x) /\ End(e) <= x.base => Precedes(u.table, x)
    BY <2>1, <2>2, <2>4, <2>5 DEF Precedes
  <2>8. ASSUME NEW p \in Nat, NEW x \in E
        PROVE  Shows(u.table, p, x) <=> \/ Shows(t.table, p, x)
                                        \/ p \in Frames(e) /\ SaysTheSame(e, x)
    <3>1. p \in Frames(g) <=> p \in Frames(old) \/ p \in Frames(e)
      <4>1. g.base = old.base /\ g.base + g.count = e.base + e.count /\ old.base + old.count = e.base
        BY <2>3, <2>4 DEF End
      <4>2. (g.base <= p /\ p <= g.base + g.count - 1) <=>
              \/ old.base <= p /\ p <= old.base + old.count - 1
              \/ e.base <= p /\ p <= e.base + e.count - 1
        <5>1. e.base \in Nat /\ e.count \in Nat
          BY <1>2
        <5>2. /\ old.base \in Nat /\ old.count \in Nat
              /\ g.base = old.base /\ g.count = old.count + e.count
          BY <2>3
        <5>3. PICK a, b, c \in Nat : a = old.base /\ b = old.count /\ c = e.count
          BY <5>1, <5>2
        <5>4. e.base = a + b /\ g.base = a /\ g.count = b + c
          BY <4>1, <5>2, <5>3
        <5>5. (a <= p /\ p <= a + (b + c) - 1) <=>
                \/ a <= p /\ p <= a + b - 1
                \/ a + b <= p /\ p <= a + b + c - 1
          OBVIOUS
        <5>6. QED BY <5>3, <5>4, <5>5
      <4>3. g.count \in Nat
        BY <1>2, <2>3
      <4>4. QED BY <1>2, <2>3, <4>2, <4>3 DEF Frames, Span
    <3>2. (SaysTheSame(g, x) <=> SaysTheSame(old, x)) /\ (SaysTheSame(e, x) <=> SaysTheSame(old, x))
      BY <2>3 DEF Items
    <3>3. \A i \in 1 .. n - 1 : u.table[i] = t.table[i]
      BY <2>1
    <3>4. n \in 1 .. n /\ \A i \in 1 .. n - 1 : i \in 1 .. n
      BY <1>2, <2>1
    <3>5. Shows(u.table, p, x) <=>
            \/ p \in Frames(g) /\ SaysTheSame(g, x)
            \/ \E i \in 1 .. n - 1 : p \in Frames(u.table[i]) /\ SaysTheSame(u.table[i], x)
      BY <2>1, <2>2, <2>5, <3>4 DEF Shows
    <3>6. Shows(t.table, p, x) <=>
            \/ p \in Frames(old) /\ SaysTheSame(old, x)
            \/ \E i \in 1 .. n - 1 : p \in Frames(t.table[i]) /\ SaysTheSame(t.table[i], x)
      BY <2>2, <2>5, <3>4 DEF Shows
    <3>7. QED BY <3>1, <3>2, <3>3, <3>5, <3>6
  <2>9. QED BY <1>1, <2>1, <2>6, <2>7, <2>8
<1>6. CASE Added(t, e, u)
  <2>1. /\ t.ok /\ e.count > 0 /\ n < MaxEntries
        /\ n > 0 => ~Continues(t.table[n], e)
        /\ u.ok /\ Len(u.table) = n + 1
        /\ \A i \in 1 .. n : u.table[i] = t.table[i]
        /\ u.table[n + 1] = e
    BY <1>6 DEF Added
  <2>2. \A i \in 1 .. n + 1 : i = n + 1 \/ i \in 1 .. n
    BY <1>2
  <2>3. n + 1 \in 1 .. n + 1 /\ \A i \in 1 .. n : i \in 1 .. n + 1
    BY <1>2
  <2>4. Tidy(E, u.table)
    <3>1. \A i \in 1 .. n + 1 : u.table[i].count > 0
      BY <2>1, <2>2 DEF Tidy
    <3>2. \A i, j \in 1 .. n + 1 : i < j => End(u.table[i]) <= u.table[j].base
      <4> TAKE i, j \in 1 .. n + 1
      <4> HAVE i < j
      <4>1. i \in 1 .. n
        BY <1>2
      <4>2. CASE j \in 1 .. n
        BY <2>1, <4>1, <4>2 DEF Tidy
      <4>3. CASE j = n + 1
        BY <2>1, <4>1, <4>3 DEF Precedes
      <4>4. QED BY <2>2, <4>2, <4>3
    <3>3. \A i \in 1 .. n : ~Continues(u.table[i], u.table[i + 1])
      <4> TAKE i \in 1 .. n
      <4>1. CASE i = n
        BY <1>2, <2>1, <4>1
      <4>2. CASE i \in 1 .. n - 1
        <5>1. i + 1 \in 1 .. n
          BY <1>2, <4>2
        <5>2. QED BY <2>1, <4>2, <5>1 DEF Tidy
      <4>3. QED BY <1>2, <4>1, <4>2
    <3>4. Len(u.table) <= MaxEntries /\ Len(u.table) - 1 = n
      BY <1>2, <2>1, MaxEntriesAssumption
    <3>5. QED BY <1>2, <2>1, <3>1, <3>2, <3>3, <3>4 DEF Tidy
  <2>5. \A x \in E : Precedes(t.table, x) /\ End(e) <= x.base => Precedes(u.table, x)
    BY <2>1, <2>2 DEF Precedes
  <2>6. ASSUME NEW p \in Nat, NEW x \in E
        PROVE  Shows(u.table, p, x) <=> \/ Shows(t.table, p, x)
                                        \/ p \in Frames(e) /\ SaysTheSame(e, x)
    <3>1. Shows(u.table, p, x) <=>
            \/ p \in Frames(e) /\ SaysTheSame(e, x)
            \/ \E i \in 1 .. n : p \in Frames(u.table[i]) /\ SaysTheSame(u.table[i], x)
      BY <2>1, <2>2, <2>3 DEF Shows
    <3>2. QED BY <2>1, <3>1 DEF Shows
  <2>7. QED BY <1>1, <2>1, <2>4, <2>5, <2>6
<1>7. QED BY <1>1, <1>3, <1>4, <1>5, <1>6

-----------------------------------------------------------------------------
(* AppendAll: the runs of its fold, and what it makes of items in order.   *)

AppendRun(E, s, f) ==
  /\ f \in [0 .. Len(s) -> Results(E)]
  /\ f[0] = Done(<<>>)
  /\ \A k \in 1 .. Len(s) : f[k] = AppendEntry(f[k - 1], s[k])
  /\ AppendAll(s) = f[Len(s)]

LEMMA AppendAllRuns ==
  ASSUME NEW E, Items(E), NEW s \in Seq(E)
  PROVE  \E f : AppendRun(E, s, f)
<1> DEFINE n == Len(s)
           R == Results(E)
           F == [t \in R |-> [e \in E |-> AppendEntry(t, e)]]
           Folded(it) == it = [x \in SUBSET (DOMAIN s) |->
                                 IF x = {} THEN Done(<<>>)
                                 ELSE AppendEntry(it[x \ {Max(x)}], s[Max(x)])]
           fold == CHOOSE it : Folded(it)
           f == [k \in 0 .. n |-> fold[1 .. k]]
<1>1. n \in Nat /\ DOMAIN s = 1 .. n /\ (\A i \in 1 .. n : s[i] \in E)
  OBVIOUS
<1>2. Done(<<>>) \in R
  BY DEF Results, Done
<1>3. \A t \in R, e \in E : AppendEntry(t, e) \in R
  BY AppendEntryCases
<1>4. \E it : Folded(it)
  <2>1. F \in [R -> [E -> R]]
    BY <1>3
  <2>2. PICK it \in [SUBSET (1 .. n) -> R] : Solves(F, Done(<<>>), s, it, n)
    <3> HIDE DEF F, R
    <3>1. Solvable(R, F, Done(<<>>), s, n)
      BY <1>2, <2>1, FoldExists
    <3>2. QED BY <3>1 DEF Solvable
  <2>3. ASSUME NEW x \in SUBSET (1 .. n)
        PROVE  FoldStep(F, Done(<<>>), s, it, x) =
                 IF x = {} THEN Done(<<>>) ELSE AppendEntry(it[x \ {Max(x)}], s[Max(x)])
    <3>1. CASE x = {}
      BY <3>1 DEF FoldStep
    <3>2. CASE x # {}
      <4>1. Max(x) \in 1 .. n
        BY <1>1, <3>2, MaxOfInterval
      <4>2. PICK d \in E : d = s[Max(x)]
        BY <1>1, <4>1
      <4>3. x \ {Max(x)} \in SUBSET (1 .. n)
        OBVIOUS
      <4>4. PICK r \in R : r = it[x \ {Max(x)}]
        BY <2>2, <4>3
      <4>5. F[r][d] = AppendEntry(r, d)
        OBVIOUS
      <4>6. QED BY <3>2, <4>2, <4>4, <4>5 DEF FoldStep
    <3>3. QED BY <3>1, <3>2
  <2>4. Folded(it)
    BY <1>1, <2>2, <2>3 DEF Solves
  <2>5. QED BY <2>4
<1>5. Folded(fold)
  <2> HIDE DEF Folded
  <2>1. QED BY <1>4
<1>6. AppendAll(s) = fold[1 .. n]
  BY <1>1, Zenon DEF AppendAll, FoldLeft, MapThenFoldSet
<1>7. fold[{}] = Done(<<>>) /\ \A k \in 1 .. n : fold[1 .. k] = AppendEntry(fold[1 .. k - 1], s[k])
  <2> HIDE DEF fold
  <2>1. fold[{}] = Done(<<>>)
    BY <1>5
  <2>2. ASSUME NEW k \in 1 .. n
        PROVE  fold[1 .. k] = AppendEntry(fold[1 .. k - 1], s[k])
    <3>1. 1 .. k \in SUBSET (DOMAIN s) /\ 1 .. k # {}
          /\ Max(1 .. k) = k /\ (1 .. k) \ {k} = 1 .. k - 1
      BY <1>1, FoldPrefixes
    <3>2. QED BY <1>5, <3>1
  <2>3. QED BY <2>1, <2>2
<1> HIDE DEF fold
<1>8. \A k \in 0 .. n : fold[1 .. k] \in R
  <2> DEFINE Typed == {k \in 0 .. n : fold[1 .. k] \in R}
  <2>1. 0 \in Typed
    BY <1>1, <1>2, <1>7, FoldPrefixes
  <2>2. \A k \in 1 .. n : k - 1 \in Typed => k \in Typed
    BY <1>1, <1>3, <1>7
  <2>3. \A k \in 0 .. n : k \in Typed
    <3> HIDE DEF Typed
    <3>1. QED BY <1>1, <2>1, <2>2, NatInductionSet
  <2>4. QED BY <2>3
<1>9. AppendRun(E, s, f)
  <2>1. f \in [0 .. n -> R]
    BY <1>8
  <2>2. f[0] = Done(<<>>)
    BY <1>1, <1>7, FoldPrefixes
  <2>3. ASSUME NEW k \in 1 .. n
        PROVE  f[k] = AppendEntry(f[k - 1], s[k])
    <3>1. k \in 0 .. n /\ k - 1 \in 0 .. n
      BY <1>1
    <3>2. QED BY <1>7, <3>1
  <2>4. AppendAll(s) = f[n]
    BY <1>1, <1>6
  <2>5. QED BY <2>1, <2>2, <2>3, <2>4 DEF AppendRun
<1>10. QED BY <1>9

(* As many items as there is room for always fit.                          *)
LEMMA AppendAllFits ==
  ASSUME NEW E, Items(E), NEW s \in Seq(E), Len(s) <= MaxEntries
  PROVE  AppendAll(s).ok
<1> DEFINE n == Len(s)
<1>1. n \in Nat /\ \A i \in 1 .. n : s[i] \in E
  OBVIOUS
<1>2. PICK f : AppendRun(E, s, f)
  BY AppendAllRuns
<1> DEFINE Fitting == {k \in 0 .. n : f[k].ok /\ Len(f[k].table) <= k}
<1>3. 0 \in Fitting
  <2>1. f[0].ok /\ f[0].table = <<>>
    BY <1>2 DEF AppendRun, Done
  <2>2. QED BY <1>1, <2>1
<1>4. ASSUME NEW k \in 1 .. n, k - 1 \in Fitting PROVE k \in Fitting
  <2>1. PICK t, u, e : /\ t = f[k - 1] /\ u = f[k] /\ e = s[k] /\ u = AppendEntry(t, e)
                       /\ t \in Results(E) /\ u \in Results(E) /\ e \in E
                       /\ t.ok /\ Len(t.table) <= k - 1
    <3>1. k - 1 \in 0 .. n /\ k \in 0 .. n /\ s[k] \in E
      BY <1>1
    <3>2. f[k - 1] \in Results(E) /\ f[k] \in Results(E) /\ f[k] = AppendEntry(f[k - 1], s[k])
      BY <1>2, <3>1 DEF AppendRun
    <3>3. f[k - 1].ok /\ Len(f[k - 1].table) <= k - 1
      BY <1>4
    <3>4. QED BY <3>1, <3>2, <3>3
  <2>2. Kept(t, e, u) \/ Lengthened(t, e, u) \/ Added(t, e, u) \/ Overfull(t, e, u)
    BY <2>1, AppendEntryCases
  <2>3. PICK a, b \in Nat : a = Len(t.table) /\ b = Len(u.table)
    BY <2>1 DEF Results
  <2>4. ~Overfull(t, e, u)
    <3>1. a < MaxEntries
      BY <1>1, <2>1, <2>3, MaxEntriesAssumption
    <3>2. QED BY <2>3, <3>1, MaxEntriesAssumption DEF Overfull
  <2>5. u.ok /\ b <= a + 1
    BY <2>1, <2>2, <2>3, <2>4 DEF Kept, Lengthened, Added
  <2>6. a <= k - 1 /\ k \in Nat
    BY <1>1, <2>1, <2>3
  <2>7. b <= k
    BY <2>3, <2>5, <2>6
  <2>8. f[k].ok /\ Len(f[k].table) <= k
    BY <2>1, <2>3, <2>5, <2>7
  <2>9. QED BY <2>8
<1>5. \A k \in 0 .. n : k \in Fitting
  <2> HIDE DEF Fitting
  <2>1. QED BY <1>1, <1>3, <1>4, NatInductionSet
<1>6. QED BY <1>1, <1>2, <1>5 DEF AppendRun

(* Items in order, none of them reaching into a later one.                 *)
InOrder(s) == \A i, j \in 1 .. Len(s) : i < j => End(s[i]) <= s[j].base

LEMMA AppendAllTidies ==
  ASSUME NEW E, Items(E), NEW s \in Seq(E), InOrder(s)
  PROVE  /\ AppendAll(s) \in Results(E) /\ Tidy(E, AppendAll(s).table)
         /\ AppendAll(s).ok => \A p \in Nat, x \in E : Shows(AppendAll(s).table, p, x) <=> Shows(s, p, x)
<1> DEFINE n == Len(s)
<1>1. n \in Nat /\ (\A i \in 1 .. n : s[i] \in E)
  OBVIOUS
<1>2. PICK f : AppendRun(E, s, f)
  BY AppendAllRuns
<1> DEFINE Sound(k) ==
      /\ Tidy(E, f[k].table)
      /\ \A j \in k + 1 .. n : Precedes(f[k].table, s[j])
      /\ f[k].ok => \A p \in Nat, x \in E :
           Shows(f[k].table, p, x) <=>
             \E i \in 1 .. k : p \in Frames(s[i]) /\ SaysTheSame(s[i], x)
    SoundUpTo == {k \in 0 .. n : Sound(k)}
<1>3. 0 \in SoundUpTo
  <2>1. f[0].table = <<>> /\ 0 \in 0 .. n
    BY <1>1, <1>2 DEF AppendRun, Done
  <2>2. Sound(0)
    BY <2>1, MaxEntriesAssumption DEF Tidy, Precedes, Shows
  <2>3. QED BY <2>1, <2>2
<1>4. ASSUME NEW k \in 1 .. n, Sound(k - 1)
      PROVE  Sound(k)
  <2>0. k \in Nat /\ k > 0 /\ k <= n /\ k \in k - 1 + 1 .. n /\ k - 1 \in 0 .. n /\ k \in 0 .. n
    BY <1>1
  <2>11. PICK t \in Results(E), e \in E : t = f[k - 1] /\ e = s[k] /\ f[k] = AppendEntry(t, e)
    BY <1>1, <1>2, <2>0 DEF AppendRun
  <2>1. PICK u : t = f[k - 1] /\ e = s[k] /\ u = f[k] /\ u = AppendEntry(t, e)
    BY <2>11
  <2>2. Tidy(E, t.table) /\ Precedes(t.table, e)
    BY <1>4, <2>0, <2>1
  <2>3. /\ Tidy(E, u.table)
        /\ \A x \in E : Precedes(t.table, x) /\ End(e) <= x.base => Precedes(u.table, x)
        /\ u.ok => t.ok
        /\ u.ok => \A p \in Nat, x \in E :
             Shows(u.table, p, x) <=> \/ Shows(t.table, p, x)
                                      \/ p \in Frames(e) /\ SaysTheSame(e, x)
    BY <2>1, <2>2, AppendKeepsTidy
  <2>4. ASSUME NEW j \in k + 1 .. n
        PROVE  Precedes(u.table, s[j])
    <3>1. j \in (k - 1) + 1 .. n /\ j \in 1 .. n /\ k < j
      BY <1>1, <2>0
    <3>2. Precedes(t.table, s[j])
      BY <1>4, <2>1, <3>1
    <3>3. End(e) <= s[j].base /\ s[j] \in E
      BY <1>1, <2>1, <3>1 DEF InOrder
    <3>4. QED BY <2>3, <3>2, <3>3
  <2>5. ASSUME u.ok, NEW p \in Nat, NEW x \in E
        PROVE  Shows(u.table, p, x) <=>
                 \E i \in 1 .. k : p \in Frames(s[i]) /\ SaysTheSame(s[i], x)
    <3>1. \A i \in 1 .. k : i = k \/ i \in 1 .. k - 1
      BY <2>0
    <3>2. \A i \in 1 .. k - 1 : i \in 1 .. k
      BY <2>0
    <3>3. Shows(t.table, p, x) <=>
            \E i \in 1 .. k - 1 : p \in Frames(s[i]) /\ SaysTheSame(s[i], x)
      BY <1>4, <2>1, <2>3, <2>5
    <3> DEFINE Says(i) == p \in Frames(s[i]) /\ SaysTheSame(s[i], x)
    <3>4. Shows(u.table, p, x) <=> (\E i \in 1 .. k - 1 : Says(i)) \/ Says(k)
      BY <2>1, <2>3, <2>5, <3>3
    <3>5. (\E i \in 1 .. k : Says(i)) <=> (\E i \in 1 .. k - 1 : Says(i)) \/ Says(k)
      <4> HIDE DEF Says
      <4>1. k \in 1 .. k
        BY <2>0
      <4>2. QED BY <3>1, <3>2, <4>1
    <3>6. QED BY <3>4, <3>5
  <2>6. QED BY <2>1, <2>3, <2>4, <2>5
<1>5. \A k \in 1 .. n : k - 1 \in SoundUpTo => k \in SoundUpTo
  <2> HIDE DEF Sound
  <2>1. QED BY <1>1, <1>4
<1>6. \A k \in 0 .. n : k \in SoundUpTo
  <2> HIDE DEF SoundUpTo
  <2>1. QED BY <1>1, <1>3, <1>5, NatInductionSet
<1>7. Sound(n) /\ AppendAll(s) = f[n] /\ f[n] \in Results(E)
  <2>1. n \in 0 .. n
    BY <1>1
  <2>2. Sound(n)
    <3> HIDE DEF Sound
    <3>1. QED BY <1>6, <2>1
  <2>3. QED BY <1>2, <2>1, <2>2 DEF AppendRun
<1>8. QED BY <1>7 DEF Shows

-----------------------------------------------------------------------------
(* FlattenSeq: the pieces of the entries, one after the other.             *)

(* Every item of an earlier sequence ends before any of a later one.       *)
BeforeAll(s, t) == \A i \in 1 .. Len(s), j \in 1 .. Len(t) : End(s[i]) <= t[j].base

LEMMA FlattenKeepsOrder ==
  ASSUME NEW E, Items(E), NEW seqs \in Seq(Seq(E)),
         \A i \in 1 .. Len(seqs) : InOrder(seqs[i]),
         \A i, j \in 1 .. Len(seqs) : i < j => BeforeAll(seqs[i], seqs[j])
  PROVE  /\ FlattenSeq(seqs) \in Seq(E) /\ InOrder(FlattenSeq(seqs))
         /\ \A p \in Nat, x \in E :
              Shows(FlattenSeq(seqs), p, x) <=> \E i \in 1 .. Len(seqs) : Shows(seqs[i], p, x)
<1> DEFINE n == Len(seqs)
<1>1. n \in Nat /\ \A i \in 1 .. n : seqs[i] \in Seq(E)
  OBVIOUS
<1>2. PICK f : FlattenRun(E, seqs, f)
  BY FlattenRuns
<1> DEFINE Sound(k) ==
      /\ InOrder(f[k])
      /\ \A j \in k + 1 .. n : BeforeAll(f[k], seqs[j])
      /\ \A p \in Nat, x \in E : Shows(f[k], p, x) <=> \E i \in 1 .. k : Shows(seqs[i], p, x)
    SoundUpTo == {k \in 0 .. n : Sound(k)}
<1>3. Sound(0)
  <2>1. f[0] = <<>>
    BY <1>2 DEF FlattenRun
  <2>2. QED BY <2>1 DEF InOrder, BeforeAll, Shows
<1>4. ASSUME NEW k \in 1 .. n, Sound(k - 1)
      PROVE  Sound(k)
  <2>0. k \in Nat /\ k > 0 /\ k <= n /\ k \in k - 1 + 1 .. n /\ k - 1 \in 0 .. n /\ k \in 0 .. n
    BY <1>1
  <2>1. PICK a \in Seq(E), b \in Seq(E), c \in Seq(E) :
          a = f[k - 1] /\ b = seqs[k] /\ c = f[k] /\ c = a \o b
    BY <1>1, <1>2, <2>0 DEF FlattenRun
  <2>2. InOrder(a) /\ InOrder(b) /\ BeforeAll(a, b)
    BY <1>4, <2>0, <2>1
  <2>3. /\ Len(a) \in Nat /\ Len(b) \in Nat /\ Len(c) = Len(a) + Len(b)
        /\ \A i \in 1 .. Len(a) : c[i] = a[i] /\ i \in 1 .. Len(c)
        /\ \A i \in 1 .. Len(b) : c[Len(a) + i] = b[i] /\ Len(a) + i \in 1 .. Len(c)
        /\ \A i \in 1 .. Len(c) : i \in 1 .. Len(a) \/ \E m \in 1 .. Len(b) : i = Len(a) + m
    <3>1. Len(a) \in Nat /\ Len(b) \in Nat
      OBVIOUS
    <3>2. Len(c) = Len(a) + Len(b)
          /\ (\A i \in 1 .. Len(a) : c[i] = a[i])
          /\ (\A i \in 1 .. Len(b) : c[Len(a) + i] = b[i])
      <4>1. /\ Len(a \o b) = Len(a) + Len(b)
            /\ \A i \in 1 .. Len(a) + Len(b) :
                 (a \o b)[i] = IF i <= Len(a) THEN a[i] ELSE b[i - Len(a)]
        BY ConcatProperties
      <4>2. \A i \in 1 .. Len(b) : /\ Len(a) + i \in 1 .. Len(a) + Len(b)
                                   /\ ~(Len(a) + i <= Len(a)) /\ Len(a) + i - Len(a) = i
        BY <3>1
      <4>3. \A i \in 1 .. Len(a) : i \in 1 .. Len(a) + Len(b) /\ i <= Len(a)
        BY <3>1
      <4>4. ASSUME NEW i \in 1 .. Len(b)
            PROVE  c[Len(a) + i] = b[i]
        <5>1. PICK z : z = Len(a) + i
          OBVIOUS
        <5>2. z \in 1 .. Len(a) + Len(b) /\ ~(z <= Len(a)) /\ z - Len(a) = i
          BY <4>2, <5>1
        <5>3. (a \o b)[z] = b[z - Len(a)]
          BY <4>1, <5>2
        <5>4. QED BY <2>1, <5>1, <5>2, <5>3
      <4>5. ASSUME NEW i \in 1 .. Len(a)
            PROVE  c[i] = a[i]
        BY <2>1, <4>1, <4>3
      <4>6. QED BY <2>1, <4>1, <4>4, <4>5
    <3>3. \A i \in 1 .. Len(c) : i \in 1 .. Len(a) \/ i - Len(a) \in 1 .. Len(b)
      BY <3>1, <3>2
    <3>4. /\ \A i \in 1 .. Len(a) : i \in 1 .. Len(c)
          /\ \A i \in 1 .. Len(b) : Len(a) + i \in 1 .. Len(c)
      BY <3>1, <3>2
    <3>5. \A i \in 1 .. Len(c) : i = Len(a) + (i - Len(a))
      BY <3>1, <3>2
    <3>6. QED BY <3>1, <3>2, <3>3, <3>4, <3>5
  <2>4. InOrder(c)
    <3> SUFFICES ASSUME NEW i \in 1 .. Len(c), NEW j \in 1 .. Len(c), i < j
                 PROVE  End(c[i]) <= c[j].base
      BY DEF InOrder
    <3>1. CASE i \in 1 .. Len(a) /\ j \in 1 .. Len(a)
      BY <2>2, <2>3, <3>1 DEF InOrder
    <3>2. CASE i \in 1 .. Len(a) /\ j \notin 1 .. Len(a)
      <4>1. PICK m \in 1 .. Len(b) : j = Len(a) + m
        BY <2>3, <3>2
      <4>2. c[i] = a[i] /\ c[j] = b[m]
        BY <2>3, <3>2, <4>1
      <4>3. End(a[i]) <= b[m].base
        BY <2>2, <3>2, <4>1 DEF BeforeAll
      <4>4. QED BY <4>2, <4>3
    <3>3. CASE i \notin 1 .. Len(a)
      <4>1. PICK l \in 1 .. Len(b) : i = Len(a) + l
        BY <2>3, <3>3
      <4>2. j \notin 1 .. Len(a)
        BY <2>3, <4>1
      <4>3. PICK m \in 1 .. Len(b) : j = Len(a) + m
        BY <2>3, <4>2
      <4>4. l < m
        BY <2>3, <4>1, <4>3
      <4>5. QED BY <2>2, <2>3, <4>1, <4>3, <4>4 DEF InOrder
    <3>4. QED BY <3>1, <3>2, <3>3
  <2>5. ASSUME NEW j \in k + 1 .. n
        PROVE  BeforeAll(c, seqs[j])
    <3>1. j \in k - 1 + 1 .. n /\ j \in 1 .. n /\ k < j
      BY <1>1, <2>0
    <3>2. BeforeAll(a, seqs[j]) /\ BeforeAll(b, seqs[j])
      BY <1>4, <2>1, <3>1
    <3>3. ASSUME NEW i \in 1 .. Len(c), NEW l \in 1 .. Len(seqs[j])
          PROVE  End(c[i]) <= seqs[j][l].base
      <4>1. CASE i \in 1 .. Len(a)
        BY <2>3, <3>2, <4>1 DEF BeforeAll
      <4>2. CASE i \notin 1 .. Len(a)
        <5>1. PICK m \in 1 .. Len(b) : i = Len(a) + m
          BY <2>3, <4>2
        <5>2. QED BY <2>3, <3>2, <5>1 DEF BeforeAll
      <4>3. QED BY <4>1, <4>2
    <3>4. QED BY <3>3 DEF BeforeAll
  <2>6. ASSUME NEW p \in Nat, NEW x \in E
        PROVE  Shows(c, p, x) <=> \E i \in 1 .. k : Shows(seqs[i], p, x)
    <3>1. Shows(c, p, x) <=> Shows(a, p, x) \/ Shows(b, p, x)
      BY <2>3 DEF Shows
    <3>2. Shows(a, p, x) <=> \E i \in 1 .. k - 1 : Shows(seqs[i], p, x)
      BY <1>4, <2>1
    <3>3. \A i \in 1 .. k : i = k \/ i \in 1 .. k - 1
      BY <2>0
    <3>4. k \in 1 .. k /\ \A i \in 1 .. k - 1 : i \in 1 .. k
      BY <2>0
    <3>5. QED BY <2>1, <3>1, <3>2, <3>3, <3>4
  <2>7. QED BY <2>1, <2>4, <2>5, <2>6
<1>5. 0 \in SoundUpTo /\ \A k \in 1 .. n : k - 1 \in SoundUpTo => k \in SoundUpTo
  <2> HIDE DEF Sound
  <2>1. QED BY <1>1, <1>3, <1>4
<1>6. \A k \in 0 .. n : k \in SoundUpTo
  <2> HIDE DEF SoundUpTo
  <2>1. QED BY <1>1, <1>5, NatInductionSet
<1>7. Sound(n) /\ FlattenSeq(seqs) = f[n] /\ f[n] \in Seq(E)
  <2>1. n \in 0 .. n
    BY <1>1
  <2>2. Sound(n)
    <3> HIDE DEF Sound
    <3>1. QED BY <1>6, <2>1
  <2>3. QED BY <1>2, <2>1, <2>2 DEF FlattenRun
<1>8. QED BY <1>7

-----------------------------------------------------------------------------
(* Frame entries, and what a range leaves of one.                          *)

LEMMA SameEntry ==
  ASSUME NEW a \in Entry, NEW b \in Entry
  PROVE  SaysTheSame(a, b) <=> /\ a.state = b.state /\ a.usage = b.usage
                               /\ a.owner = b.owner /\ a.source = b.source
<1>1. DOMAIN a = {"base", "count", "state", "usage", "owner", "source"}
  BY DEF Entry
<1>2. DOMAIN a \ {"base", "count"} = {"state", "usage", "owner", "source"}
  BY <1>1
<1>3. QED BY <1>2 DEF SaysTheSame

LEMMA EntriesAreItems == Items(Entry)
<1>1. \A e \in Entry : e.base \in Nat /\ e.count \in Nat
  BY DEF Entry
<1>2. \A e \in Entry, n \in Nat : /\ [e EXCEPT !.count = n] \in Entry
                                  /\ [e EXCEPT !.count = n].base = e.base
                                  /\ [e EXCEPT !.count = n].count = n
                                  /\ [e EXCEPT !.count = n].state = e.state
                                  /\ [e EXCEPT !.count = n].usage = e.usage
                                  /\ [e EXCEPT !.count = n].owner = e.owner
                                  /\ [e EXCEPT !.count = n].source = e.source
  BY DEF Entry
<1>3. ASSUME NEW e \in Entry, NEW n \in Nat
      PROVE  SaysTheSame([e EXCEPT !.count = n], e)
  <2>1. PICK c : c = [e EXCEPT !.count = n]
    OBVIOUS
  <2>2. c \in Entry /\ c.state = e.state /\ c.usage = e.usage /\ c.owner = e.owner /\ c.source = e.source
    BY <1>2, <2>1
  <2>3. SaysTheSame(c, e)
    BY <2>2, SameEntry
  <2>4. QED BY <2>1, <2>3
<1>4. \A e, f, g \in Entry : /\ SaysTheSame(e, e)
                             /\ SaysTheSame(e, f) => SaysTheSame(f, e)
                             /\ SaysTheSame(e, f) /\ SaysTheSame(f, g) => SaysTheSame(e, g)
  BY SameEntry
<1>5. QED BY <1>1, <1>2, <1>3, <1>4 DEF Items

(* The middle of an entry, with its new state, usage and owner.            *)
Middle(e, base, count, state, usage, owner) ==
  [e EXCEPT !.base = CutFrom(e, base, count),
            !.count = CutTo(e, base, count) - CutFrom(e, base, count),
            !.state = state, !.usage = usage, !.owner = owner]

LEMMA CutEntry ==
  ASSUME NEW e \in Entry, NEW base \in Nat, NEW count \in Nat, ~Outside(e, base, count),
         NEW a, a = Before(e, base, count), NEW c, c = Behind(e, base, count)
  PROVE  /\ a \in Entry /\ c \in Entry /\ SaysTheSame(a, e) /\ SaysTheSame(c, e)
         /\ a.base = e.base /\ End(a) = CutFrom(e, base, count)
         /\ c.base = CutTo(e, base, count) /\ End(c) = End(e)
         /\ e.base <= CutFrom(e, base, count)
         /\ CutFrom(e, base, count) <= CutTo(e, base, count)
         /\ CutTo(e, base, count) <= End(e)
         /\ \A p \in Nat : /\ p \in Frames(a) <=> p \in Frames(e) /\ p < base
                           /\ p \in Frames(c) <=> p \in Frames(e) /\ p >= base + count
                           /\ p \in Span(CutFrom(e, base, count),
                                         CutTo(e, base, count) - CutFrom(e, base, count))
                                <=> p \in Frames(e) /\ p \in Span(base, count)
<1> DEFINE from == CutFrom(e, base, count)
           to == CutTo(e, base, count)
<1>1. e.base \in Nat /\ e.count \in Nat
  BY DEF Entry
<1>2. /\ from \in Nat /\ to \in Nat
      /\ from = (IF base > e.base THEN base ELSE e.base)
      /\ to = (IF base + count < e.base + e.count THEN base + count ELSE e.base + e.count)
      /\ e.base + e.count > base /\ e.base < base + count
  BY <1>1 DEF CutFrom, CutTo, Larger, Smaller, Outside, End
<1>4. /\ a = [e EXCEPT !.count = from - e.base]
      /\ c = [e EXCEPT !.base = to, !.count = End(e) - to]
  <2>1. a = [e EXCEPT !.count = from - e.base]
    BY DEF Before
  <2>2. c = [e EXCEPT !.base = to, !.count = End(e) - to]
    BY DEF Behind
  <2>3. QED BY <2>1, <2>2
<1> HIDE DEF from, to
<1>3. e.base <= from /\ from <= to /\ to <= e.base + e.count
      /\ from - e.base \in Nat /\ e.base + e.count - to \in Nat /\ to - from \in Nat
  BY <1>1, <1>2
<1>5. /\ a \in Entry /\ a.base = e.base /\ a.count = from - e.base
      /\ a.state = e.state /\ a.usage = e.usage /\ a.owner = e.owner /\ a.source = e.source
  BY <1>1, <1>3, <1>4 DEF Entry
<1>6. /\ c \in Entry /\ c.base = to /\ c.count = e.base + e.count - to
      /\ c.state = e.state /\ c.usage = e.usage /\ c.owner = e.owner /\ c.source = e.source
  <2>1. PICK z \in Nat : z = e.base + e.count - to
    BY <1>3
  <2>2. End(e) - to = z
    BY <1>1, <1>2, <2>1 DEF End
  <2>3. c = [e EXCEPT !.base = to, !.count = z]
    BY <1>4, <2>2
  <2>4. to \in Nat
    BY <1>2
  <2>5. QED BY <2>1, <2>3, <2>4 DEF Entry
<1>7. SaysTheSame(a, e) /\ SaysTheSame(c, e)
  BY <1>5, <1>6, SameEntry
<1>8. End(a) = from /\ End(c) = End(e)
  <2>1. End(a) = e.base + (from - e.base) /\ End(c) = to + (e.base + e.count - to)
    BY <1>5, <1>6 DEF End
  <2>2. QED BY <1>1, <1>2, <2>1 DEF End
<1>9. ASSUME NEW p \in Nat
      PROVE  /\ p \in Frames(a) <=> p \in Frames(e) /\ p < base
             /\ p \in Frames(c) <=> p \in Frames(e) /\ p >= base + count
             /\ p \in Span(from, to - from) <=> p \in Frames(e) /\ p \in Span(base, count)
  BY <1>1, <1>2, <1>3, <1>5, <1>6 DEF Frames, Span
<1>10. QED BY <1>3, <1>5, <1>6, <1>7, <1>8, <1>9 DEF from, to, End

LEMMA CutMiddle ==
  ASSUME NEW e \in Entry, NEW base \in Nat, NEW count \in Nat, ~Outside(e, base, count),
         NEW state \in States, NEW usage \in Usages, NEW owner \in Owners,
         NEW b, b = Middle(e, base, count, state, usage, owner)
  PROVE  /\ b \in Entry /\ b.base = CutFrom(e, base, count) /\ End(b) = CutTo(e, base, count)
         /\ b.state = state /\ b.usage = usage /\ b.owner = owner /\ b.source = e.source
         /\ \A p \in Nat : p \in Frames(b) <=> p \in Frames(e) /\ p \in Span(base, count)
<1> DEFINE from == CutFrom(e, base, count)
           to == CutTo(e, base, count)
<1>1. e.base \in Nat /\ e.count \in Nat
  BY DEF Entry
<1>2. /\ from \in Nat /\ to \in Nat
      /\ from = (IF base > e.base THEN base ELSE e.base)
      /\ to = (IF base + count < e.base + e.count THEN base + count ELSE e.base + e.count)
      /\ e.base + e.count > base /\ e.base < base + count
  BY <1>1 DEF CutFrom, CutTo, Larger, Smaller, Outside, End
<1>3. b = [e EXCEPT !.base = from, !.count = to - from,
                    !.state = state, !.usage = usage, !.owner = owner]
  BY DEF Middle
<1> HIDE DEF from, to
<1>4. to - from \in Nat /\ from <= to
  BY <1>1, <1>2
<1>5. /\ b \in Entry /\ b.base = from /\ b.count = to - from
      /\ b.state = state /\ b.usage = usage /\ b.owner = owner /\ b.source = e.source
  BY <1>2, <1>3, <1>4 DEF Entry
<1>6. End(b) = to
  BY <1>2, <1>5 DEF End
<1>7. \A p \in Nat : p \in Frames(b) <=> p \in Frames(e) /\ p \in Span(base, count)
  BY <1>1, <1>2, <1>5 DEF Frames, Span
<1>8. QED BY <1>5, <1>6, <1>7 DEF from, to

-----------------------------------------------------------------------------
(* Cutting: each entry is replaced by pieces of itself, which are in order. *)

PiecesOf(t, ps) ==
  /\ ps \in Seq(Seq(Entry)) /\ Len(ps) = Len(t)
  /\ \A i \in 1 .. Len(t) :
       /\ InOrder(ps[i])
       /\ \A j \in 1 .. Len(ps[i]) : t[i].base <= ps[i][j].base /\ End(ps[i][j]) <= End(t[i])

LEMMA CutTable ==
  ASSUME NEW t, Tidy(Entry, t), NEW ps, PiecesOf(t, ps), NEW u, u = AppendAll(FlattenSeq(ps))
  PROVE  /\ u \in Results(Entry) /\ Tidy(Entry, u.table)
         /\ u.ok => \A p \in Nat, x \in Entry :
              Shows(u.table, p, x) <=> \E i \in 1 .. Len(t) : Shows(ps[i], p, x)
<1>1. /\ ps \in Seq(Seq(Entry)) /\ Len(ps) = Len(t)
      /\ \A i \in 1 .. Len(ps) : InOrder(ps[i]) /\ ps[i] \in Seq(Entry)
  BY DEF PiecesOf
<1>2. ASSUME NEW i \in 1 .. Len(ps), NEW j \in 1 .. Len(ps), i < j
      PROVE  BeforeAll(ps[i], ps[j])
  <2> SUFFICES ASSUME NEW k \in 1 .. Len(ps[i]), NEW l \in 1 .. Len(ps[j])
               PROVE  End(ps[i][k]) <= ps[j][l].base
    BY DEF BeforeAll
  <2>1. /\ End(ps[i][k]) <= End(t[i]) /\ End(t[i]) <= t[j].base
        /\ t[j].base <= ps[j][l].base
    BY <1>1, <1>2 DEF PiecesOf, Tidy
  <2>2. t[i] \in Entry /\ t[j] \in Entry /\ ps[i][k] \in Entry /\ ps[j][l] \in Entry
    BY <1>1 DEF Tidy
  <2>3. \A e \in Entry : e.base \in Nat /\ End(e) \in Nat
    BY DEF Entry, End
  <2>4. PICK a, b, c, d \in Nat : a = End(ps[i][k]) /\ b = End(t[i]) /\ c = t[j].base /\ d = ps[j][l].base
    BY <2>2, <2>3
  <2>5. QED BY <2>1, <2>4
<1>3. PICK s : s = FlattenSeq(ps)
  OBVIOUS
<1>4. /\ s \in Seq(Entry) /\ InOrder(s)
      /\ \A p \in Nat, x \in Entry : Shows(s, p, x) <=> \E i \in 1 .. Len(ps) : Shows(ps[i], p, x)
  BY <1>1, <1>2, <1>3, EntriesAreItems, FlattenKeepsOrder
<1>5. /\ u \in Results(Entry) /\ Tidy(Entry, u.table)
      /\ u.ok => \A p \in Nat, x \in Entry : Shows(u.table, p, x) <=> Shows(s, p, x)
  BY <1>3, <1>4, EntriesAreItems, AppendAllTidies
<1>6. QED BY <1>1, <1>4, <1>5

(* The frames an array covers are those of which it says something.        *)
LEMMA CoveredFrames ==
  ASSUME NEW t \in Seq(Entry)
  PROVE  /\ FramesOf(t) \subseteq Nat
         /\ \A p \in Nat : p \in FramesOf(t) <=> \E x \in Entry : Shows(t, p, x)
<1>1. ToSet(t) = {t[i] : i \in 1 .. Len(t)}
  BY DEF ToSet
<1>2. \A e \in Entry : Frames(e) \subseteq Nat /\ SaysTheSame(e, e)
  BY EntriesAreItems DEF Items, Frames, Span
<1>3. \A i \in 1 .. Len(t) : t[i] \in Entry
  OBVIOUS
<1>4. \A p : p \in FramesOf(t) <=> \E i \in 1 .. Len(t) : p \in Frames(t[i])
  BY <1>1 DEF FramesOf
<1>5. QED BY <1>2, <1>3, <1>4 DEF Shows

(* Three pieces of an entry, and an entry that is left whole.              *)
LEMMA Triple ==
  ASSUME NEW E, NEW a \in E, NEW b \in E, NEW c \in E, NEW s, s = <<a, b, c>>,
         End(a) <= b.base, End(b) <= c.base, End(a) <= c.base
  PROVE  s \in Seq(E) /\ Len(s) = 3 /\ InOrder(s)
         /\ s[1] = a /\ s[2] = b /\ s[3] = c /\ 1 .. Len(s) = {1, 2, 3}
<1>1. s \in Seq(E) /\ Len(s) = 3 /\ s[1] = a /\ s[2] = b /\ s[3] = c
  OBVIOUS
<1>2. 1 .. 3 = {1, 2, 3}
  OBVIOUS
<1>3. QED BY <1>1, <1>2 DEF InOrder

LEMMA Couple ==
  ASSUME NEW E, NEW a \in E, NEW c \in E, NEW s, s = <<a, c>>, End(a) <= c.base
  PROVE  s \in Seq(E) /\ Len(s) = 2 /\ InOrder(s)
         /\ s[1] = a /\ s[2] = c /\ 1 .. Len(s) = {1, 2}
<1>1. s \in Seq(E) /\ Len(s) = 2 /\ s[1] = a /\ s[2] = c
  OBVIOUS
<1>2. 1 .. 2 = {1, 2}
  OBVIOUS
<1>3. QED BY <1>1, <1>2 DEF InOrder

LEMMA Single ==
  ASSUME NEW E, NEW a \in E, NEW s, s = <<a>>
  PROVE  s \in Seq(E) /\ Len(s) = 1 /\ InOrder(s) /\ s[1] = a /\ 1 .. Len(s) = {1}
<1>1. s \in Seq(E) /\ Len(s) = 1 /\ s[1] = a
  OBVIOUS
<1>2. 1 .. 1 = {1}
  OBVIOUS
<1>3. QED BY <1>1, <1>2 DEF InOrder

-----------------------------------------------------------------------------
(* Rewriting a range.                                                      *)

RewritePieces(e, base, count, state, usage, owner) ==
  IF Outside(e, base, count) THEN <<e>>
  ELSE <<Before(e, base, count), Middle(e, base, count, state, usage, owner), Behind(e, base, count)>>

(* What x must say for the rewritten entry e to say it of frame p.         *)
RewrittenSays(e, base, count, state, usage, owner, p, x) ==
  /\ p \in Frames(e)
  /\ IF p \in Span(base, count)
     THEN x.state = state /\ x.usage = usage /\ x.owner = owner /\ x.source = e.source
     ELSE SaysTheSame(e, x)

LEMMA RewriteEntry ==
  ASSUME NEW e \in Entry, NEW base \in Nat, NEW count \in Nat,
         NEW state \in States, NEW usage \in Usages, NEW owner \in Owners,
         NEW s, s = RewritePieces(e, base, count, state, usage, owner)
  PROVE  /\ s \in Seq(Entry) /\ InOrder(s)
         /\ \A j \in 1 .. Len(s) : e.base <= s[j].base /\ End(s[j]) <= End(e)
         /\ \A p \in Nat, x \in Entry :
              Shows(s, p, x) <=> RewrittenSays(e, base, count, state, usage, owner, p, x)
<1>1. e.base \in Nat /\ e.count \in Nat /\ End(e) \in Nat /\ End(e) = e.base + e.count
  BY DEF Entry, End
<1>2. CASE Outside(e, base, count)
  <2>1. s = <<e>>
    BY <1>2 DEF RewritePieces
  <2>2. s \in Seq(Entry) /\ InOrder(s) /\ s[1] = e /\ 1 .. Len(s) = {1}
    BY <2>1, Single
  <2>3. \A p \in Nat : p \in Frames(e) => p \notin Span(base, count)
    BY <1>1, <1>2 DEF Outside, Frames, Span
  <2>4. \A p \in Nat, x \in Entry : Shows(s, p, x) <=> p \in Frames(e) /\ SaysTheSame(e, x)
    BY <2>2 DEF Shows
  <2>5. \A j \in 1 .. Len(s) : e.base <= s[j].base /\ End(s[j]) <= End(e)
    BY <1>1, <2>2
  <2>6. \A p \in Nat, x \in Entry :
          Shows(s, p, x) <=> RewrittenSays(e, base, count, state, usage, owner, p, x)
    BY <2>3, <2>4 DEF RewrittenSays
  <2>7. QED BY <2>2, <2>5, <2>6
<1>3. CASE ~Outside(e, base, count)
  <2> DEFINE from == CutFrom(e, base, count)
             to == CutTo(e, base, count)
  <2>1. PICK a, b, c : /\ a = Before(e, base, count)
                       /\ b = Middle(e, base, count, state, usage, owner)
                       /\ c = Behind(e, base, count)
    OBVIOUS
  <2>2. /\ a \in Entry /\ c \in Entry /\ SaysTheSame(a, e) /\ SaysTheSame(c, e)
        /\ a.base = e.base /\ End(a) = from /\ c.base = to /\ End(c) = End(e)
        /\ e.base <= from /\ from <= to /\ to <= End(e)
        /\ \A p \in Nat : /\ p \in Frames(a) <=> p \in Frames(e) /\ p < base
                          /\ p \in Frames(c) <=> p \in Frames(e) /\ p >= base + count
    BY <1>3, <2>1, CutEntry
  <2>3. /\ b \in Entry /\ b.base = from /\ End(b) = to
        /\ b.state = state /\ b.usage = usage /\ b.owner = owner /\ b.source = e.source
        /\ \A p \in Nat : p \in Frames(b) <=> p \in Frames(e) /\ p \in Span(base, count)
    BY <1>3, <2>1, CutMiddle
  <2>4. s = <<a, b, c>>
    BY <1>3, <2>1 DEF RewritePieces
  <2>5. PICK f, g \in Nat : f = from /\ g = to /\ e.base <= f /\ f <= g /\ g <= End(e)
    BY <2>2, <2>3 DEF Entry
  <2> HIDE DEF from, to
  <2>6. End(a) <= b.base /\ End(b) <= c.base /\ End(a) <= c.base
    BY <2>2, <2>3, <2>5
  <2>7. /\ s \in Seq(Entry) /\ InOrder(s) /\ 1 .. Len(s) = {1, 2, 3}
        /\ s[1] = a /\ s[2] = b /\ s[3] = c
    BY <2>2, <2>3, <2>4, <2>6, Triple
  <2>8. \A j \in {1, 2, 3} : e.base <= s[j].base /\ End(s[j]) <= End(e)
    <3>1. /\ e.base <= a.base /\ e.base <= b.base /\ e.base <= c.base
          /\ End(a) <= End(e) /\ End(b) <= End(e) /\ End(c) <= End(e)
      BY <1>1, <2>2, <2>3, <2>5
    <3>2. QED BY <2>7, <3>1
  <2>9. ASSUME NEW p \in Nat, NEW x \in Entry
        PROVE  Shows(s, p, x) <=> RewrittenSays(e, base, count, state, usage, owner, p, x)
    <3>1. Shows(s, p, x) <=> \/ p \in Frames(a) /\ SaysTheSame(a, x)
                             \/ p \in Frames(b) /\ SaysTheSame(b, x)
                             \/ p \in Frames(c) /\ SaysTheSame(c, x)
      BY <2>7 DEF Shows
    <3>2. SaysTheSame(a, x) <=> SaysTheSame(e, x)
      BY <2>2, EntriesAreItems DEF Items
    <3>3. SaysTheSame(c, x) <=> SaysTheSame(e, x)
      BY <2>2, EntriesAreItems DEF Items
    <3>4. SaysTheSame(b, x) <=> x.state = state /\ x.usage = usage /\ x.owner = owner /\ x.source = e.source
      BY <2>3, SameEntry
    <3>5. /\ p \in Frames(a) <=> p \in Frames(e) /\ p < base
          /\ p \in Frames(c) <=> p \in Frames(e) /\ p >= base + count
          /\ p \in Frames(b) <=> p \in Frames(e) /\ p \in Span(base, count)
      BY <2>2, <2>3
    <3>6. p \in Span(base, count) <=> ~(p < base) /\ ~(p >= base + count)
      BY DEF Span
    <3>7. QED BY <3>1, <3>2, <3>3, <3>4, <3>5, <3>6 DEF RewrittenSays
  <2>10. QED BY <2>7, <2>8, <2>9
<1>4. QED BY <1>2, <1>3

(* What x must say for a rewritten array to say it of frame p.             *)
RangeSays(t, base, count, state, usage, owner, p, x) ==
  IF p \in Span(base, count)
  THEN /\ x.state = state /\ x.usage = usage /\ x.owner = owner
       /\ \E y \in Entry : Shows(t, p, y) /\ x.source = y.source
  ELSE Shows(t, p, x)

LEMMA RewriteRange ==
  ASSUME NEW t, Tidy(Entry, t), NEW base \in Nat, NEW count \in Nat,
         NEW state \in States, NEW usage \in Usages, NEW owner \in Owners,
         NEW u, u = RewriteFrameDatabaseRange(t, base, count, state, usage, owner)
  PROVE  /\ u \in Results(Entry) /\ Tidy(Entry, u.table)
         /\ ~u.ok => u.table = t
         /\ u.ok => Covers(t, base, count)
         /\ u.ok => \A p \in Nat, x \in Entry :
              Shows(u.table, p, x) <=> RangeSays(t, base, count, state, usage, owner, p, x)
<1> DEFINE Of(e) == RewritePieces(e, base, count, state, usage, owner)
           ps == [i \in DOMAIN t |-> Of(t[i])]
           scratch == AppendAll(FlattenSeq(ps))
<1>1. t \in Seq(Entry) /\ DOMAIN t = 1 .. Len(t) /\ \A i \in 1 .. Len(t) : t[i] \in Entry
  BY DEF Tidy
<1>2. u = IF scratch.ok /\ Covers(t, base, count) THEN scratch ELSE Failed(t)
  BY DEF RewriteFrameDatabaseRange, RewritePieces, Middle
<1>3. \A i \in 1 .. Len(t) :
        /\ Of(t[i]) \in Seq(Entry) /\ InOrder(Of(t[i]))
        /\ \A j \in 1 .. Len(Of(t[i])) : t[i].base <= Of(t[i])[j].base /\ End(Of(t[i])[j]) <= End(t[i])
  BY <1>1, RewriteEntry
<1>4. \A i \in 1 .. Len(t) : \A p \in Nat, x \in Entry :
        Shows(Of(t[i]), p, x) <=> RewrittenSays(t[i], base, count, state, usage, owner, p, x)
  BY <1>1, RewriteEntry
<1> HIDE DEF Of
<1>5. PiecesOf(t, ps)
  <2>1. ps \in Seq(Seq(Entry)) /\ Len(ps) = Len(t) /\ \A i \in 1 .. Len(t) : ps[i] = Of(t[i])
    BY <1>1, <1>3
  <2>2. QED BY <1>3, <2>1 DEF PiecesOf
<1>6. \A i \in 1 .. Len(t) : ps[i] = Of(t[i])
  BY <1>1
<1> HIDE DEF ps
<1>7. /\ scratch \in Results(Entry) /\ Tidy(Entry, scratch.table)
      /\ scratch.ok => \A p \in Nat, x \in Entry :
           Shows(scratch.table, p, x) <=> \E i \in 1 .. Len(t) : Shows(ps[i], p, x)
  BY <1>5, CutTable
<1> HIDE DEF scratch
<1>8. CASE scratch.ok /\ Covers(t, base, count)
  <2>1. u = scratch
    BY <1>2, <1>8
  <2>2. ASSUME NEW p \in Nat, NEW x \in Entry
        PROVE  Shows(u.table, p, x) <=> RangeSays(t, base, count, state, usage, owner, p, x)
    <3>1. Shows(u.table, p, x) <=>
            \E i \in 1 .. Len(t) : RewrittenSays(t[i], base, count, state, usage, owner, p, x)
      BY <1>4, <1>6, <1>7, <1>8, <2>1
    <3>2. CASE p \notin Span(base, count)
      BY <3>1, <3>2 DEF Shows, RewrittenSays, RangeSays
    <3>3. CASE p \in Span(base, count)
      <4>1. \A y \in Entry : Shows(t, p, y) <=>
              \E i \in 1 .. Len(t) : p \in Frames(t[i]) /\ SaysTheSame(t[i], y)
        BY DEF Shows
      <4>2. \A i \in 1 .. Len(t) : SaysTheSame(t[i], t[i])
        BY <1>1, EntriesAreItems DEF Items
      <4>3. \A i \in 1 .. Len(t), y \in Entry : SaysTheSame(t[i], y) => t[i].source = y.source
        BY <1>1, SameEntry
      <4>4. QED BY <1>1, <3>1, <3>3, <4>1, <4>2, <4>3 DEF RewrittenSays, RangeSays
    <3>4. QED BY <3>2, <3>3
  <2>3. QED BY <1>7, <1>8, <2>1, <2>2
<1>9. CASE ~(scratch.ok /\ Covers(t, base, count))
  <2>1. ~u.ok /\ u.table = t /\ u \in Results(Entry)
    BY <1>1, <1>2, <1>9 DEF Failed, Results
  <2>2. QED BY <2>1
<1>10. QED BY <1>8, <1>9

LEMMA RewriteKeepsFrames ==
  ASSUME NEW t, Tidy(Entry, t), NEW base \in Nat, NEW count \in Nat,
         NEW state \in States, NEW usage \in Usages, NEW owner \in Owners,
         NEW u, u = RewriteFrameDatabaseRange(t, base, count, state, usage, owner)
  PROVE  FramesOf(u.table) = FramesOf(t)
<1>1. u \in Results(Entry) /\ t \in Seq(Entry) /\ u.table \in Seq(Entry)
  BY RewriteRange DEF Tidy, Results
<1>2. CASE ~u.ok
  BY <1>2, RewriteRange
<1>3. CASE u.ok
  <2>1. FramesOf(t) \subseteq Nat /\ FramesOf(u.table) \subseteq Nat
    BY <1>1, CoveredFrames
  <2>2. ASSUME NEW p \in Nat
        PROVE  p \in FramesOf(u.table) <=> p \in FramesOf(t)
    <3>1. \A x \in Entry :
            Shows(u.table, p, x) <=> RangeSays(t, base, count, state, usage, owner, p, x)
      BY <1>3, RewriteRange
    <3>2. p \in FramesOf(t) <=> \E x \in Entry : Shows(t, p, x)
      BY <1>1, CoveredFrames
    <3>3. p \in FramesOf(u.table) <=> \E x \in Entry : Shows(u.table, p, x)
      BY <1>1, CoveredFrames
    <3>4. ASSUME NEW y \in Entry
          PROVE  \E x \in Entry : /\ x.state = state /\ x.usage = usage /\ x.owner = owner
                                  /\ x.source = y.source
      <4>1. PICK x : x = [base |-> y.base, count |-> y.count, state |-> state, usage |-> usage,
                          owner |-> owner, source |-> y.source]
        OBVIOUS
      <4>2. x \in Entry /\ x.state = state /\ x.usage = usage /\ x.owner = owner /\ x.source = y.source
        BY <4>1 DEF Entry
      <4>3. QED BY <4>2
    <3>5. QED BY <3>1, <3>2, <3>3, <3>4 DEF RangeSays
  <2>3. QED BY <2>1, <2>2
<1>4. QED BY <1>2, <1>3

(* Rewriting a table as an entry says.                                     *)
RewriteAs(t, a) == RewriteFrameDatabaseRange(t, a.base, a.count, a.state, a.usage, a.owner)
SaysAs(t, a, p, x) == RangeSays(t, a.base, a.count, a.state, a.usage, a.owner, p, x)

LEMMA RewrittenAs ==
  ASSUME NEW t, Tidy(Entry, t), NEW a \in Entry, NEW u, u = RewriteAs(t, a)
  PROVE  /\ u \in Results(Entry) /\ Tidy(Entry, u.table) /\ FramesOf(u.table) = FramesOf(t)
         /\ ~u.ok => u.table = t
         /\ u.ok => \A p \in Nat, x \in Entry : Shows(u.table, p, x) <=> SaysAs(t, a, p, x)
<1>1. /\ a.base \in Nat /\ a.count \in Nat /\ a.state \in States /\ a.usage \in Usages
      /\ a.owner \in Owners
  BY DEF Entry
<1>2. PICK b, c, s, g, o : b = a.base /\ c = a.count /\ s = a.state /\ g = a.usage /\ o = a.owner
  OBVIOUS
<1>3. /\ b \in Nat /\ c \in Nat /\ s \in States /\ g \in Usages /\ o \in Owners
      /\ u = RewriteFrameDatabaseRange(t, b, c, s, g, o)
  BY <1>1, <1>2 DEF RewriteAs
<1>4. u \in Results(Entry) /\ Tidy(Entry, u.table) /\ (~u.ok => u.table = t)
  BY <1>3, RewriteRange
<1>5. FramesOf(u.table) = FramesOf(t)
  BY <1>3, RewriteKeepsFrames
<1>6. u.ok => \A p \in Nat, x \in Entry : Shows(u.table, p, x) <=> RangeSays(t, b, c, s, g, o, p, x)
  BY <1>3, RewriteRange
<1>7. QED BY <1>2, <1>4, <1>5, <1>6 DEF SaysAs

-----------------------------------------------------------------------------
(* Removing a range.                                                       *)

RemovePieces(e, base, count) ==
  IF Outside(e, base, count) THEN <<e>> ELSE <<Before(e, base, count), Behind(e, base, count)>>

LEMMA RemoveFromEntry ==
  ASSUME NEW e \in Entry, NEW base \in Nat, NEW count \in Nat,
         NEW s, s = RemovePieces(e, base, count)
  PROVE  /\ s \in Seq(Entry) /\ InOrder(s)
         /\ \A j \in 1 .. Len(s) : e.base <= s[j].base /\ End(s[j]) <= End(e)
         /\ \A p \in Nat, x \in Entry :
              Shows(s, p, x) <=> /\ p \in Frames(e) /\ SaysTheSame(e, x)
                                 /\ p \notin Span(base, count)
<1>1. e.base \in Nat /\ e.count \in Nat /\ End(e) \in Nat /\ End(e) = e.base + e.count
  BY DEF Entry, End
<1>2. CASE Outside(e, base, count)
  <2>1. s = <<e>>
    BY <1>2 DEF RemovePieces
  <2>2. s \in Seq(Entry) /\ InOrder(s) /\ s[1] = e /\ 1 .. Len(s) = {1}
    BY <2>1, Single
  <2>3. \A p \in Nat : p \in Frames(e) => p \notin Span(base, count)
    BY <1>1, <1>2 DEF Outside, Frames, Span
  <2>4. \A p \in Nat, x \in Entry : Shows(s, p, x) <=> p \in Frames(e) /\ SaysTheSame(e, x)
    BY <2>2 DEF Shows
  <2>5. \A j \in 1 .. Len(s) : e.base <= s[j].base /\ End(s[j]) <= End(e)
    BY <1>1, <2>2
  <2>6. QED BY <2>2, <2>3, <2>4, <2>5
<1>3. CASE ~Outside(e, base, count)
  <2> DEFINE from == CutFrom(e, base, count)
             to == CutTo(e, base, count)
  <2>1. PICK a, c : a = Before(e, base, count) /\ c = Behind(e, base, count)
    OBVIOUS
  <2>2. /\ a \in Entry /\ c \in Entry /\ SaysTheSame(a, e) /\ SaysTheSame(c, e)
        /\ a.base = e.base /\ End(a) = from /\ c.base = to /\ End(c) = End(e)
        /\ e.base <= from /\ from <= to /\ to <= End(e)
        /\ \A p \in Nat : /\ p \in Frames(a) <=> p \in Frames(e) /\ p < base
                          /\ p \in Frames(c) <=> p \in Frames(e) /\ p >= base + count
    BY <1>3, <2>1, CutEntry
  <2>3. s = <<a, c>>
    BY <1>3, <2>1 DEF RemovePieces
  <2>4. PICK f, g \in Nat : f = from /\ g = to /\ e.base <= f /\ f <= g /\ g <= End(e)
    <3>1. from \in Nat /\ to \in Nat
      BY <1>1 DEF CutFrom, CutTo, Larger, Smaller, End
    <3>2. QED BY <2>2, <3>1
  <2> HIDE DEF from, to
  <2>5. End(a) <= c.base
    BY <2>2, <2>4
  <2>6. s \in Seq(Entry) /\ InOrder(s) /\ 1 .. Len(s) = {1, 2} /\ s[1] = a /\ s[2] = c
    BY <2>2, <2>3, <2>5, Couple
  <2>7. \A j \in {1, 2} : e.base <= s[j].base /\ End(s[j]) <= End(e)
    <3>1. e.base <= a.base /\ e.base <= c.base /\ End(a) <= End(e) /\ End(c) <= End(e)
      BY <1>1, <2>2, <2>4
    <3>2. QED BY <2>6, <3>1
  <2>8. ASSUME NEW p \in Nat, NEW x \in Entry
        PROVE  Shows(s, p, x) <=> p \in Frames(e) /\ SaysTheSame(e, x) /\ p \notin Span(base, count)
    <3>1. Shows(s, p, x) <=> \/ p \in Frames(a) /\ SaysTheSame(a, x)
                             \/ p \in Frames(c) /\ SaysTheSame(c, x)
      BY <2>6 DEF Shows
    <3>2. SaysTheSame(a, x) <=> SaysTheSame(e, x)
      BY <2>2, EntriesAreItems DEF Items
    <3>3. SaysTheSame(c, x) <=> SaysTheSame(e, x)
      BY <2>2, EntriesAreItems DEF Items
    <3>4. /\ p \in Frames(a) <=> p \in Frames(e) /\ p < base
          /\ p \in Frames(c) <=> p \in Frames(e) /\ p >= base + count
      BY <2>2
    <3>5. p \in Span(base, count) <=> ~(p < base) /\ ~(p >= base + count)
      BY DEF Span
    <3>6. QED BY <3>1, <3>2, <3>3, <3>4, <3>5
  <2>9. QED BY <2>6, <2>7, <2>8
<1>4. QED BY <1>2, <1>3

LEMMA RemovedRange ==
  ASSUME NEW t, Tidy(Entry, t), NEW base \in Nat, NEW count \in Nat,
         NEW u, u = RemoveRange(t, base, count)
  PROVE  /\ u \in Results(Entry) /\ Tidy(Entry, u.table)
         /\ u.ok => \A p \in Nat, x \in Entry :
              Shows(u.table, p, x) <=> Shows(t, p, x) /\ p \notin Span(base, count)
<1> DEFINE Of(e) == RemovePieces(e, base, count)
           ps == [i \in DOMAIN t |-> Of(t[i])]
           scratch == AppendAll(FlattenSeq(ps))
<1>1. t \in Seq(Entry) /\ DOMAIN t = 1 .. Len(t) /\ \A i \in 1 .. Len(t) : t[i] \in Entry
  BY DEF Tidy
<1>2. u = IF scratch.ok /\ Covers(t, base, count) THEN scratch ELSE Failed(t)
  BY DEF RemoveRange, RemovePieces
<1>3. \A i \in 1 .. Len(t) :
        /\ Of(t[i]) \in Seq(Entry) /\ InOrder(Of(t[i]))
        /\ \A j \in 1 .. Len(Of(t[i])) : t[i].base <= Of(t[i])[j].base /\ End(Of(t[i])[j]) <= End(t[i])
  BY <1>1, RemoveFromEntry
<1>4. \A i \in 1 .. Len(t) : \A p \in Nat, x \in Entry :
        Shows(Of(t[i]), p, x) <=> /\ p \in Frames(t[i]) /\ SaysTheSame(t[i], x)
                                  /\ p \notin Span(base, count)
  BY <1>1, RemoveFromEntry
<1> HIDE DEF Of
<1>5. PiecesOf(t, ps)
  <2>1. ps \in Seq(Seq(Entry)) /\ Len(ps) = Len(t) /\ \A i \in 1 .. Len(t) : ps[i] = Of(t[i])
    BY <1>1, <1>3
  <2>2. QED BY <1>3, <2>1 DEF PiecesOf
<1>6. \A i \in 1 .. Len(t) : ps[i] = Of(t[i])
  BY <1>1
<1> HIDE DEF ps
<1>7. /\ scratch \in Results(Entry) /\ Tidy(Entry, scratch.table)
      /\ scratch.ok => \A p \in Nat, x \in Entry :
           Shows(scratch.table, p, x) <=> \E i \in 1 .. Len(t) : Shows(ps[i], p, x)
  BY <1>5, CutTable
<1> HIDE DEF scratch
<1>8. CASE scratch.ok /\ Covers(t, base, count)
  <2>1. u = scratch
    BY <1>2, <1>8
  <2>2. \A p \in Nat, x \in Entry :
          Shows(u.table, p, x) <=> Shows(t, p, x) /\ p \notin Span(base, count)
    <3> SUFFICES ASSUME NEW p \in Nat, NEW x \in Entry
                 PROVE  Shows(u.table, p, x) <=> Shows(t, p, x) /\ p \notin Span(base, count)
      OBVIOUS
    <3>1. Shows(u.table, p, x) <=> \E i \in 1 .. Len(t) : /\ p \in Frames(t[i]) /\ SaysTheSame(t[i], x)
                                                          /\ p \notin Span(base, count)
      BY <1>4, <1>6, <1>7, <1>8, <2>1
    <3>2. Shows(t, p, x) <=> \E i \in 1 .. Len(t) : p \in Frames(t[i]) /\ SaysTheSame(t[i], x)
      BY DEF Shows
    <3>3. QED BY <3>1, <3>2
  <2>3. QED BY <1>7, <2>1, <2>2
<1>9. CASE ~(scratch.ok /\ Covers(t, base, count))
  <2>1. ~u.ok /\ u.table = t /\ u \in Results(Entry)
    BY <1>1, <1>2, <1>9 DEF Failed, Results
  <2>2. QED BY <2>1
<1>10. QED BY <1>8, <1>9

-----------------------------------------------------------------------------
(* Inserting an entry that overlaps none.                                  *)

LEMMA Inserted ==
  ASSUME NEW E, NEW s \in Seq(E), NEW at \in 1 .. Len(s) + 1, NEW e \in E,
         NEW r, r = InsertAt(s, at, e)
  PROVE  /\ r \in Seq(E) /\ Len(r) = Len(s) + 1 /\ r[at] = e
         /\ \A i \in 1 .. at - 1 : r[i] = s[i]
         /\ \A i \in at + 1 .. Len(s) + 1 : r[i] = s[i - 1] /\ i - 1 \in at .. Len(s)
<1>1. PICK n \in Nat : n = Len(s) /\ at \in Nat /\ at >= 1 /\ at <= n + 1 /\ \A i \in 1 .. n : s[i] \in E
  OBVIOUS
<1>2. PICK a, b, ae : /\ a = SubSeq(s, 1, at - 1) /\ b = SubSeq(s, at, n)
                      /\ ae = a \o <<e>> /\ r = ae \o b
  BY <1>1 DEF InsertAt
<1>3. a \in Seq(E) /\ Len(a) = at - 1 /\ \A i \in 1 .. at - 1 : a[i] = s[i]
  <2>1. \A i \in 1 .. at - 1 : s[i] \in E
    BY <1>1
  <2>2. PICK m \in Int : m = at - 1
    BY <1>1
  <2>3. /\ a \in Seq(E) /\ Len(a) = IF 1 <= m THEN m - 1 + 1 ELSE 0
        /\ \A i \in 1 .. m - 1 + 1 : a[i] = s[1 + i - 1]
    BY <1>2, <2>1, <2>2, SubSeqProperties
  <2>4. \A i \in 1 .. m : i \in 1 .. m - 1 + 1 /\ 1 + i - 1 = i
    BY <2>2
  <2>5. QED BY <1>1, <2>2, <2>3, <2>4
<1>4. b \in Seq(E) /\ Len(b) = n - at + 1 /\ \A i \in 1 .. n - at + 1 : b[i] = s[at + i - 1]
  <2>1. \A i \in at .. n : s[i] \in E
    BY <1>1
  <2>2. /\ b \in Seq(E) /\ Len(b) = IF at <= n THEN n - at + 1 ELSE 0
        /\ \A i \in 1 .. n - at + 1 : b[i] = s[at + i - 1]
    BY <1>1, <1>2, <2>1, SubSeqProperties
  <2>3. Len(b) = n - at + 1
    <3>1. ~(at <= n) => n - at + 1 = 0
      BY <1>1
    <3>2. QED BY <2>2, <3>1
  <2>4. QED BY <2>2, <2>3
<1>5. /\ <<e>> \in Seq(E) /\ Len(<<e>>) = 1 /\ <<e>>[1] = e
  OBVIOUS
<1>6. /\ ae \in Seq(E) /\ Len(ae) = at
      /\ \A i \in 1 .. at : ae[i] = IF i <= at - 1 THEN a[i] ELSE <<e>>[i - (at - 1)]
  <2>1. /\ ae \in Seq(E) /\ Len(ae) = Len(a) + Len(<<e>>)
        /\ \A i \in 1 .. Len(a) + Len(<<e>>) : ae[i] = IF i <= Len(a) THEN a[i] ELSE <<e>>[i - Len(a)]
    <3>1. PICK one : one = <<e>>
      OBVIOUS
    <3>2. a \in Seq(E) /\ one \in Seq(E)
      BY <1>3, <1>5, <3>1
    <3>3. /\ a \o one \in Seq(E) /\ Len(a \o one) = Len(a) + Len(one)
          /\ \A i \in 1 .. Len(a) + Len(one) : (a \o one)[i] = IF i <= Len(a) THEN a[i] ELSE one[i - Len(a)]
      BY ONLY <3>2, ConcatProperties
    <3>4. ae = a \o one
      BY <1>2, <3>1
    <3>5. QED BY <3>1, <3>3, <3>4
  <2>2. Len(a) + Len(<<e>>) = at
    BY <1>1, <1>3, <1>5
  <2>3. QED BY <1>3, <2>1, <2>2
<1>7. /\ r \in Seq(E) /\ Len(r) = n + 1
      /\ \A i \in 1 .. n + 1 : r[i] = IF i <= at THEN ae[i] ELSE b[i - at]
  <2>1. /\ r \in Seq(E) /\ Len(r) = Len(ae) + Len(b)
        /\ \A i \in 1 .. Len(ae) + Len(b) : r[i] = IF i <= Len(ae) THEN ae[i] ELSE b[i - Len(ae)]
    <3>1. ae \in Seq(E) /\ b \in Seq(E)
      BY <1>4, <1>6
    <3>2. /\ ae \o b \in Seq(E) /\ Len(ae \o b) = Len(ae) + Len(b)
          /\ \A i \in 1 .. Len(ae) + Len(b) : (ae \o b)[i] = IF i <= Len(ae) THEN ae[i] ELSE b[i - Len(ae)]
      BY ONLY <3>1, ConcatProperties
    <3>3. r = ae \o b
      BY <1>2
    <3>4. QED BY <3>2, <3>3
  <2>2. Len(ae) + Len(b) = n + 1
    BY <1>1, <1>4, <1>6
  <2>3. QED BY <1>6, <2>1, <2>2
<1>8. r[at] = e
  <2>1. at \in 1 .. n + 1 /\ at \in 1 .. at /\ ~(at <= at - 1) /\ at - (at - 1) = 1
    BY <1>1
  <2>2. QED BY <1>5, <1>6, <1>7, <2>1
<1>9. ASSUME NEW i \in 1 .. at - 1
      PROVE  r[i] = s[i]
  <2>1. i \in 1 .. n + 1 /\ i <= at /\ i \in 1 .. at /\ i <= at - 1
    BY <1>1
  <2>2. QED BY <1>3, <1>6, <1>7, <2>1
<1>10. ASSUME NEW i \in at + 1 .. n + 1
       PROVE  r[i] = s[i - 1] /\ i - 1 \in at .. n
  <2>1. PICK k : k = i - at
    OBVIOUS
  <2>2. i \in 1 .. n + 1 /\ ~(i <= at) /\ k \in 1 .. n - at + 1 /\ at + k - 1 = i - 1
        /\ i - 1 \in at .. n
    BY <1>1, <2>1
  <2>3. r[i] = b[k] /\ b[k] = s[at + k - 1]
    BY <1>4, <1>7, <2>1, <2>2
  <2>4. QED BY <2>2, <2>3
<1>11. QED BY <1>1, <1>7, <1>8, <1>9, <1>10

(* The first entry that starts behind the new one is where it goes.        *)
Place(t, new) ==
  LET behind == {i \in DOMAIN t : new.base < t[i].base}
  IN IF behind = {} THEN Len(t) + 1 ELSE Min(behind)

Splits(t, new, at) ==
  /\ at \in 1 .. Len(t) + 1
  /\ \A i \in 1 .. at - 1 : i \in 1 .. Len(t) /\ t[i].base <= new.base
  /\ \A i \in at .. Len(t) : i \in 1 .. Len(t) /\ new.base < t[i].base

LEMMA InsertionPoint ==
  ASSUME NEW t, Tidy(Entry, t), NEW new \in Entry,
         NEW at, at = Place(t, new)
  PROVE  Splits(t, new, at)
<1> DEFINE n == Len(t)
           behind == {i \in DOMAIN t : new.base < t[i].base}
<1>1. t \in Seq(Entry) /\ n \in Nat /\ DOMAIN t = 1 .. n /\ \A i \in 1 .. n : t[i] \in Entry
  BY DEF Tidy
<1>2. PICK b \in Nat : b = new.base
  BY DEF Entry
<1>3. \A i \in 1 .. n : t[i].base \in Nat /\ t[i].count \in Nat
  BY <1>1 DEF Entry
<1>4. \A i, j \in 1 .. n : i < j => t[i].base + t[i].count <= t[j].base
  BY DEF Tidy, End
<1>5. CASE behind = {}
  <2>1. at = n + 1
    BY <1>5 DEF Place
  <2>2. \A i \in 1 .. n : ~(b < t[i].base)
    BY <1>1, <1>2, <1>5
  <2>3. \A i \in 1 .. n : t[i].base <= b
    BY <1>2, <1>3, <2>2
  <2>4. 1 .. at - 1 = 1 .. n /\ at .. n = {} /\ at \in 1 .. n + 1
    BY <1>1, <2>1
  <2>5. QED BY <1>2, <2>3, <2>4 DEF Splits
<1>6. CASE behind # {}
  <2>1. at = Min(behind) /\ behind \in SUBSET Nat
    BY <1>1, <1>6 DEF Place
  <2>2. at \in behind /\ \A i \in behind : at <= i
    BY <1>6, <2>1, MinOfNaturals
  <2>3. at \in 1 .. n /\ b < t[at].base
    BY <1>1, <1>2, <2>2
  <2>4. ASSUME NEW i \in 1 .. at - 1
        PROVE  i \in 1 .. n /\ t[i].base <= b
    <3>1. i \in 1 .. n /\ ~(at <= i)
      BY <1>1, <2>3
    <3>2. ~(b < t[i].base)
      BY <1>1, <1>2, <2>2, <3>1
    <3>3. QED BY <1>2, <1>3, <3>1, <3>2
  <2>5. ASSUME NEW i \in at .. n
        PROVE  i \in 1 .. n /\ b < t[i].base
    <3>1. i \in 1 .. n /\ (i = at \/ at < i)
      BY <1>1, <2>3
    <3>2. CASE at < i
      <4>1. PICK x, y, z \in Nat : x = t[at].base /\ y = t[at].count /\ z = t[i].base
        BY <1>3, <2>3, <3>1
      <4>2. x + y <= z /\ b < x
        BY <1>4, <2>3, <3>1, <3>2, <4>1
      <4>3. b < z
        BY ONLY b \in Nat, <4>1, <4>2
      <4>4. QED BY <3>1, <4>1, <4>3
    <3>3. QED BY <2>3, <3>1, <3>2
  <2>6. at \in 1 .. n + 1
    BY <1>1, <2>3
  <2>7. QED BY <1>2, <2>4, <2>5, <2>6 DEF Splits
<1>7. QED BY <1>5, <1>6

LEMMA InsertedInOrder ==
  ASSUME NEW t, Tidy(Entry, t), NEW new \in Entry, new.count > 0,
         \A i \in 1 .. Len(t) : Outside(t[i], new.base, new.count),
         NEW at, Splits(t, new, at), NEW r, r = InsertAt(t, at, new)
  PROVE  /\ r \in Seq(Entry) /\ InOrder(r)
         /\ \A p \in Nat, x \in Entry :
              Shows(r, p, x) <=> Shows(t, p, x) \/ (p \in Frames(new) /\ SaysTheSame(new, x))
<1> DEFINE n == Len(t)
<1>1. t \in Seq(Entry) /\ n \in Nat /\ \A i \in 1 .. n : t[i] \in Entry
  BY DEF Tidy
<1>2. \A e \in Entry : e.base \in Nat /\ e.count \in Nat /\ End(e) = e.base + e.count
  BY DEF Entry, End
<1>3. \A i, j \in 1 .. n : i < j => End(t[i]) <= t[j].base
  BY DEF Tidy
<1>4. /\ at \in 1 .. n + 1
      /\ \A i \in 1 .. at - 1 : i \in 1 .. n /\ t[i].base <= new.base
      /\ \A i \in at .. n : i \in 1 .. n /\ new.base < t[i].base
  BY DEF Splits
<1>5. at \in Nat /\ at >= 1 /\ at <= n + 1
  BY <1>1, <1>4
<1>6. \A i \in 1 .. at - 1 : i \in 1 .. n /\ End(t[i]) <= new.base
  <2> TAKE i \in 1 .. at - 1
  <2>1. PICK e \in Entry : e = t[i] /\ e.base <= new.base /\ Outside(e, new.base, new.count)
    BY <1>1, <1>4
  <2>2. PICK b, c, d, m \in Nat : b = e.base /\ c = e.count /\ d = new.base /\ m = new.count
    BY <1>2
  <2>4. b <= d /\ (b + c <= d \/ b >= d + m) /\ m > 0
    BY <1>2, <2>1, <2>2 DEF Outside
  <2>5. End(e) <= new.base
    BY <1>2, <2>2, <2>4
  <2>6. QED BY <1>4, <2>1, <2>5
<1>7. \A i \in at .. n : i \in 1 .. n /\ End(new) <= t[i].base
  <2> TAKE i \in at .. n
  <2>1. PICK e \in Entry : e = t[i] /\ new.base < e.base /\ Outside(e, new.base, new.count)
    BY <1>1, <1>4
  <2>2. PICK b, c, d, m \in Nat : b = e.base /\ c = e.count /\ d = new.base /\ m = new.count
    BY <1>2
  <2>4. d < b /\ (b + c <= d \/ b >= d + m)
    BY <1>2, <2>1, <2>2 DEF Outside
  <2>5. End(new) <= e.base
    BY <1>2, <2>2, <2>4
  <2>6. QED BY <1>4, <2>1, <2>5
<1>8. /\ r \in Seq(Entry) /\ Len(r) = n + 1 /\ r[at] = new
      /\ \A i \in 1 .. at - 1 : r[i] = t[i]
      /\ \A i \in at + 1 .. n + 1 : r[i] = t[i - 1] /\ i - 1 \in at .. n
  <2>1. t \in Seq(Entry) /\ new \in Entry /\ at \in 1 .. Len(t) + 1 /\ r = InsertAt(t, at, new)
    BY <1>1, <1>4
  <2> HIDE DEF n
  <2>2. /\ r \in Seq(Entry) /\ Len(r) = Len(t) + 1 /\ r[at] = new
        /\ \A i \in 1 .. at - 1 : r[i] = t[i]
        /\ \A i \in at + 1 .. Len(t) + 1 : r[i] = t[i - 1] /\ i - 1 \in at .. Len(t)
    BY <2>1, Inserted
  <2>3. QED BY <2>2 DEF n
<1>9. InOrder(r)
  <2> SUFFICES ASSUME NEW i \in 1 .. n + 1, NEW j \in 1 .. n + 1, i < j
               PROVE  End(r[i]) <= r[j].base
    BY <1>8 DEF InOrder
  <2>1. i \in 1 .. at - 1 \/ i = at \/ i \in at + 1 .. n + 1
    BY <1>1, <1>5
  <2>2. j \in 1 .. at - 1 \/ j = at \/ j \in at + 1 .. n + 1
    BY <1>1, <1>5
  <2>3. CASE i \in 1 .. at - 1 /\ j \in 1 .. at - 1
    BY <1>3, <1>6, <1>8, <2>3
  <2>4. CASE i \in 1 .. at - 1 /\ j = at
    BY <1>6, <1>8, <2>4
  <2>5. CASE i \in 1 .. at - 1 /\ j \in at + 1 .. n + 1
    <3>1. i \in 1 .. n /\ j - 1 \in 1 .. n /\ i < j - 1
      BY <1>1, <1>5, <2>5
    <3>2. End(t[i]) <= t[j - 1].base
      BY <1>3, <3>1
    <3>3. QED BY <1>8, <2>5, <3>2
  <2>6. CASE i = at /\ j \in at + 1 .. n + 1
    BY <1>7, <1>8, <2>6
  <2>7. CASE i \in at + 1 .. n + 1 /\ j \in at + 1 .. n + 1
    <3>1. i - 1 \in 1 .. n /\ j - 1 \in 1 .. n /\ i - 1 < j - 1
      BY <1>1, <1>5, <2>7
    <3>2. End(t[i - 1]) <= t[j - 1].base
      BY <1>3, <3>1
    <3>3. QED BY <1>8, <2>7, <3>2
  <2>8. ~(i \in at .. n + 1 /\ j \in 1 .. at)
    BY <1>1, <1>5
  <2>9. /\ i = at => i \in at .. n + 1
        /\ i \in at + 1 .. n + 1 => i \in at .. n + 1
        /\ j = at => j \in 1 .. at
        /\ j \in 1 .. at - 1 => j \in 1 .. at
    BY <1>1, <1>5
  <2>10. QED BY <2>1, <2>2, <2>3, <2>4, <2>5, <2>6, <2>7, <2>8, <2>9
<1>10. ASSUME NEW p \in Nat, NEW x \in Entry
       PROVE  Shows(r, p, x) <=> Shows(t, p, x) \/ (p \in Frames(new) /\ SaysTheSame(new, x))
  <2> DEFINE Says(e) == p \in Frames(e) /\ SaysTheSame(e, x)
  <2>1. Shows(r, p, x) <=> \E i \in 1 .. n + 1 : Says(r[i])
    BY <1>8 DEF Shows
  <2>2. Shows(t, p, x) <=> \E i \in 1 .. n : Says(t[i])
    BY DEF Shows
  <2> HIDE DEF Says
  <2>3. \A i \in 1 .. n + 1 : i \in 1 .. at - 1 \/ i = at \/ i \in at + 1 .. n + 1
    BY <1>1, <1>5
  <2>4. ASSUME NEW i \in 1 .. n + 1, Says(r[i])
        PROVE  Says(new) \/ \E k \in 1 .. n : Says(t[k])
    <3>1. CASE i \in 1 .. at - 1
      BY <1>6, <1>8, <2>4, <3>1
    <3>2. CASE i = at
      BY <1>8, <2>4, <3>2
    <3>3. CASE i \in at + 1 .. n + 1
      BY <1>7, <1>8, <2>4, <3>3
    <3>4. QED BY <2>3, <3>1, <3>2, <3>3
  <2>5. ASSUME NEW i \in 1 .. n, Says(t[i])
        PROVE  \E k \in 1 .. n + 1 : Says(r[k])
    <3>1. CASE i < at
      <4>1. i \in 1 .. at - 1 /\ i \in 1 .. n + 1
        BY <1>1, <1>5, <3>1
      <4>2. QED BY <1>8, <2>5, <4>1
    <3>2. CASE i >= at
      <4>1. i + 1 \in at + 1 .. n + 1 /\ i + 1 \in 1 .. n + 1 /\ i + 1 - 1 = i
        BY <1>1, <1>5, <3>2
      <4>2. r[i + 1] = t[i]
        BY <1>8, <4>1
      <4>3. QED BY <2>5, <4>1, <4>2
    <3>3. QED BY <1>1, <1>5, <3>1, <3>2
  <2>6. Says(new) => \E k \in 1 .. n + 1 : Says(r[k])
    BY <1>4, <1>8
  <2>7. QED BY <2>1, <2>2, <2>4, <2>5, <2>6 DEF Says
<1>11. QED BY <1>8, <1>9, <1>10

LEMMA InsertedEntry ==
  ASSUME NEW t, Tidy(Entry, t), NEW new \in Entry, new.count > 0,
         \A i \in 1 .. Len(t) : Outside(t[i], new.base, new.count),
         NEW u, u = InsertEntry(t, new)
  PROVE  /\ u \in Results(Entry) /\ Tidy(Entry, u.table)
         /\ u.ok => \A p \in Nat, x \in Entry :
              Shows(u.table, p, x) <=> Shows(t, p, x) \/ (p \in Frames(new) /\ SaysTheSame(new, x))
<1>1. PICK at : at = Place(t, new)
  OBVIOUS
<1>2. PICK r : r = InsertAt(t, at, new)
  OBVIOUS
<1>3. PICK scratch : scratch = AppendAll(r)
  OBVIOUS
<1>4. u = IF scratch.ok /\ Len(t) < MaxEntries THEN scratch ELSE Failed(t)
  BY <1>1, <1>2, <1>3 DEF InsertEntry, Place
<1>5. /\ r \in Seq(Entry) /\ InOrder(r)
      /\ \A p \in Nat, x \in Entry :
           Shows(r, p, x) <=> Shows(t, p, x) \/ (p \in Frames(new) /\ SaysTheSame(new, x))
  <2>1. Splits(t, new, at)
    BY <1>1, InsertionPoint
  <2>2. QED BY <1>2, <2>1, InsertedInOrder
<1>6. /\ scratch \in Results(Entry) /\ Tidy(Entry, scratch.table)
      /\ scratch.ok => \A p \in Nat, x \in Entry : Shows(scratch.table, p, x) <=> Shows(r, p, x)
  BY <1>3, <1>5, EntriesAreItems, AppendAllTidies
<1>7. CASE scratch.ok /\ Len(t) < MaxEntries
  BY <1>4, <1>5, <1>6, <1>7
<1>8. CASE ~(scratch.ok /\ Len(t) < MaxEntries)
  <2>1. ~u.ok /\ u.table = t /\ u \in Results(Entry)
    BY <1>4, <1>8 DEF Failed, Results, Tidy
  <2>2. QED BY <2>1
<1>9. QED BY <1>7, <1>8

-----------------------------------------------------------------------------
(* The search for a run of free frames.                                    *)

LEMMA AlignedUp ==
  ASSUME NEW frame \in Nat, NEW align \in Nat, align > 0
  PROVE  AlignUp(frame, align) \in Nat /\ AlignUp(frame, align) >= frame
<1>1. PICK n \in Nat : n = frame + align - 1
  OBVIOUS
<1>2. n \div align \in Nat /\ (n \div align) * align > n - align
  BY <1>1
<1>3. PICK q \in Nat : q = n \div align
  BY <1>2
<1>4. q * align \in Nat
  OBVIOUS
<1>5. PICK m \in Nat : m = q * align
  BY <1>4
<1>6. m > n - align /\ AlignUp(frame, align) = m
  BY <1>1, <1>2, <1>3, <1>5 DEF AlignUp
<1>7. QED BY <1>1, <1>6

LEMMA MultipleBounds ==
  ASSUME NEW a \in Nat, a > 0, NEW z \in Int
  PROVE  /\ z > 0 => a * z >= a
         /\ z < 0 => a * z < 0
         /\ z >= 0 => a * z >= 0
OBVIOUS

LEMMA Division ==
  ASSUME NEW x \in Nat, NEW a \in Nat, a > 0
  PROVE  /\ x \div a \in Nat /\ x % a \in Nat /\ x % a < a
         /\ x = a * (x \div a) + (x % a)
OBVIOUS

LEMMA MultiplesDivide ==
  ASSUME NEW q \in Nat, NEW a \in Nat, a > 0
  PROVE  (q * a) % a = 0
<1>1. PICK x \in Nat : x = q * a
  OBVIOUS
<1>2. PICK d \in Nat, r \in Nat : d = x \div a /\ r = x % a /\ r < a /\ x = a * d + r
  BY Division
<1>3. PICK z \in Int : z = q - d
  OBVIOUS
<1>4. a * z = r
  BY <1>1, <1>2, <1>3
<1>5. z = 0
  BY <1>2, <1>3, <1>4, MultipleBounds
<1>6. QED BY <1>1, <1>2, <1>4, <1>5

LEMMA AlignedUpDivides ==
  ASSUME NEW frame \in Nat, NEW align \in Nat, align > 0
  PROVE  AlignUp(frame, align) % align = 0
<1>1. PICK n \in Nat : n = frame + align - 1
  OBVIOUS
<1>2. PICK q \in Nat : q = n \div align
  BY Division
<1>3. QED BY <1>1, <1>2, MultiplesDivide DEF AlignUp

(* No multiple lies between a frame and what it is aligned up to.          *)
LEMMA NextMultiple ==
  ASSUME NEW frame \in Nat, NEW align \in Nat, align > 0,
         NEW b \in Nat, b % align = 0, b >= frame
  PROVE  b >= AlignUp(frame, align)
<1>1. PICK n \in Nat : n = frame + align - 1
  OBVIOUS
<1>2. PICK q \in Nat, r \in Nat : q = n \div align /\ n = align * q + r
  BY Division
<1>3. PICK d \in Nat : b = align * d
  <2>1. b \div align \in Nat /\ b = align * (b \div align) + (b % align)
    BY Division
  <2>2. QED BY <2>1
<1>4. PICK z \in Int : z = d + 1 - q
  OBVIOUS
<1>5. align * z = b + align - align * q
  BY <1>3, <1>4
<1>6. align * z > 0
  BY <1>1, <1>2, <1>5
<1>7. z > 0
  BY <1>6, MultipleBounds
<1>8. align * (d - q) >= 0
  BY <1>4, <1>7, MultipleBounds
<1>9. align * (d - q) = b - q * align
  BY <1>3
<1>10. QED BY <1>1, <1>2, <1>8, <1>9 DEF AlignUp

Runs == [open : BOOLEAN, found : BOOLEAN, base : Nat, end : Nat]
FreeAt(t, p) == \E i \in 1 .. Len(t) : p \in Frames(t[i]) /\ t[i].state = "free"

(* The open run is made of free frames, and a found one is long enough.    *)
FreeRun(t, run, count) ==
  /\ run.open => \A p \in Nat : run.base <= p /\ p < run.end => FreeAt(t, p)
  /\ run.found => run.open /\ run.end - run.base >= count

LEMMA RunStepStaysFree ==
  ASSUME NEW t \in Seq(Entry), NEW i \in 1 .. Len(t), NEW e \in Entry, e = t[i],
         NEW run \in Runs, NEW count \in Nat, FreeRun(t, run, count),
         NEW lowest \in Nat, NEW limit \in Nat, NEW align \in Nat, align > 0,
         NEW next, next = RunStep(run, e, lowest, limit, align, count)
  PROVE  next \in Runs /\ FreeRun(t, next, count)
<1> DEFINE low == Larger(e.base, lowest)
           high == Smaller(End(e), limit)
           start == AlignUp(low, align)
           fresh == ~run.open \/ low > run.end
           grown == IF fresh THEN [run EXCEPT !.base = start, !.end = high]
                             ELSE [run EXCEPT !.end = Larger(run.end, high)]
<1>1. e.base \in Nat /\ e.count \in Nat /\ End(e) = e.base + e.count
  BY DEF Entry, End
<1>2. low \in Nat /\ high \in Nat /\ low >= e.base /\ high <= e.base + e.count
  BY <1>1 DEF Larger, Smaller
<1>3. start \in Nat /\ start >= low
  BY <1>2, AlignedUp
<1> DEFINE last == [grown EXCEPT !.open = TRUE, !.found = grown.end - grown.base >= count]
<1>4. next = CASE run.found \/ e.state # "free" \/ high <= low -> run
               [] ~run.found /\ e.state = "free" /\ high > low /\ fresh /\ start >= high ->
                    [run EXCEPT !.open = FALSE]
               [] OTHER -> last
  BY DEF RunStep
<1>5. run.open \in BOOLEAN /\ run.found \in BOOLEAN /\ run.base \in Nat /\ run.end \in Nat
  BY DEF Runs
<1>6. CASE run.found \/ e.state # "free" \/ high <= low
  <2>1. next = run
    <3> HIDE DEF last, low, high, fresh, start
    <3>1. QED BY <1>2, <1>4, <1>6
  <2>2. QED BY <2>1
<1>7. CASE ~run.found /\ e.state = "free" /\ high > low /\ fresh /\ start >= high
  <2>1. next = [run EXCEPT !.open = FALSE]
    BY <1>2, <1>4, <1>7
  <2>2. next \in Runs /\ next.open = FALSE /\ next.found = FALSE
    BY <1>5, <1>7, <2>1 DEF Runs
  <2>3. QED BY <2>2 DEF FreeRun
<1>8. CASE ~run.found /\ e.state = "free" /\ high > low /\ ~(fresh /\ start >= high)
  <2>1. next = [grown EXCEPT !.open = TRUE, !.found = grown.end - grown.base >= count]
    BY <1>2, <1>4, <1>8
  <2> DEFINE b == IF fresh THEN start ELSE run.base
             f == IF fresh THEN high ELSE Larger(run.end, high)
  <2>2. b \in Nat /\ f \in Nat
    BY <1>2, <1>3, <1>5 DEF Larger
  <2>3. grown \in Runs /\ grown.base = b /\ grown.end = f
    BY <1>2, <1>3, <1>5, <2>2 DEF Runs
  <2> HIDE DEF grown
  <2>4. /\ next \in Runs /\ next.base = b /\ next.end = f /\ next.open = TRUE
        /\ next.found <=> f - b >= count
    <3>1. PICK found \in BOOLEAN : found <=> f - b >= count
      OBVIOUS
    <3>2. (grown.end - grown.base >= count) = found
      BY <2>3, <3>1
    <3>3. next = [grown EXCEPT !.open = TRUE, !.found = found]
      BY <2>1, <3>2
    <3> HIDE DEF b, f
    <3>4. QED BY <2>2, <2>3, <3>1, <3>3 DEF Runs
  <2>5. \A p \in Nat : low <= p /\ p < high => FreeAt(t, p)
    <3> SUFFICES ASSUME NEW p \in Nat, low <= p, p < high PROVE FreeAt(t, p)
      OBVIOUS
    <3>1. PICK a, c, d, h \in Nat : a = e.base /\ c = e.count /\ d = low /\ h = high
      BY <1>1, <1>2
    <3>2. a <= p /\ p < a + c
      <4>1. d >= a /\ h <= a + c
        BY <1>2, <3>1
      <4>2. d <= p /\ p < h
        BY <3>1
      <4> HIDE DEF low, high
      <4>3. QED BY <4>1, <4>2
    <3>3. p \in a .. a + c - 1
      BY <3>2
    <3>4. p \in Frames(e)
      BY <3>1, <3>3 DEF Frames, Span
    <3>5. QED BY <1>8, <3>4 DEF FreeAt
  <2>6. ASSUME NEW p \in Nat, b <= p, p < f
        PROVE  FreeAt(t, p)
    <3>1. CASE fresh
      <4>1. low <= p /\ p < high
        BY <1>2, <1>3, <2>6, <3>1
      <4>2. QED BY <2>5, <4>1
    <3>2. CASE ~fresh
      <4>1. run.open /\ run.base <= p /\ low <= run.end
        BY <1>2, <1>5, <2>6, <3>2
      <4>2. p < run.end \/ p < high
        BY <1>2, <1>5, <2>6, <3>2 DEF Larger
      <4>3. CASE p < run.end
        BY <4>1, <4>3 DEF FreeRun
      <4>4. CASE ~(p < run.end)
        <5>1. low <= p /\ p < high
          BY <1>2, <1>5, <4>1, <4>2, <4>4
        <5>2. QED BY <2>5, <5>1
      <4>5. QED BY <4>3, <4>4
    <3>3. QED BY <3>1, <3>2
  <2>7. QED
    <3> HIDE DEF b, f
    <3>1. QED BY <2>4, <2>6 DEF FreeRun
<1>9. QED
  <2>1. high <= low \/ high > low
    BY <1>2
  <2>2. QED BY <1>6, <1>7, <1>8, <2>1

(* The runs the search goes through, one for each entry it has looked at.  *)
SearchRun(t, lowest, limit, align, count, f) ==
  /\ f \in [0 .. Len(t) -> Runs]
  /\ f[0] = [open |-> FALSE, found |-> FALSE, base |-> 0, end |-> 0]
  /\ \A k \in 1 .. Len(t) : f[k] = RunStep(f[k - 1], t[k], lowest, limit, align, count)
  /\ \A k \in 0 .. Len(t) : FreeRun(t, f[k], count)
  /\ FindClaimableContiguousRange(t, lowest, limit, align, count) = f[Len(t)]

LEMMA SearchRuns ==
  ASSUME NEW t \in Seq(Entry), NEW count \in Nat, NEW lowest \in Nat, NEW limit \in Nat,
         NEW align \in Nat, align > 0
  PROVE  \E f : SearchRun(t, lowest, limit, align, count, f)
<1> DEFINE n == Len(t)
           start == [open |-> FALSE, found |-> FALSE, base |-> 0, end |-> 0]
           R == {r \in Runs : FreeRun(t, r, count)}
           D == {t[i] : i \in 1 .. n}
           F == [r \in R |-> [e \in D |-> RunStep(r, e, lowest, limit, align, count)]]
           Folded(it) == it = [x \in SUBSET (DOMAIN t) |->
                                 IF x = {} THEN start
                                 ELSE RunStep(it[x \ {Max(x)}], t[Max(x)], lowest, limit, align, count)]
           fold == CHOOSE it : Folded(it)
<1>1. n \in Nat /\ DOMAIN t = 1 .. n /\ t \in Seq(D) /\ \A i \in 1 .. n : t[i] \in Entry
  <2>1. n \in Nat /\ DOMAIN t = 1 .. n /\ \A i \in 1 .. n : t[i] \in Entry
    OBVIOUS
  <2>2. t \in [1 .. n -> D]
    BY <2>1
  <2>3. t \in Seq(D)
    BY <2>1, <2>2
  <2>4. QED BY <2>1, <2>3
<1>2. start \in R
  <2>1. start \in Runs /\ start.open = FALSE /\ start.found = FALSE
    BY DEF Runs
  <2>2. FreeRun(t, start, count)
    BY <2>1 DEF FreeRun
  <2>3. QED BY <2>1, <2>2
<1>3. \A r \in R, e \in D : RunStep(r, e, lowest, limit, align, count) \in R
  <2> SUFFICES ASSUME NEW r \in R, NEW e \in D
               PROVE  RunStep(r, e, lowest, limit, align, count) \in R
    OBVIOUS
  <2>1. PICK i \in 1 .. n : e = t[i]
    OBVIOUS
  <2>2. e \in Entry
    BY <1>1, <2>1
  <2>3. QED BY <2>1, <2>2, RunStepStaysFree
<1>4. F \in [R -> [D -> R]]
  BY <1>3
<1> HIDE DEF R, D, start
<1>5. \E it : Folded(it)
  <2>1. PICK it : FoldsWithin(R, D, F, start, t, it)
    <3> HIDE DEF F
    <3>1. QED BY <1>1, <1>2, <1>4, FoldValues
  <2>2. \A x \in SUBSET (DOMAIN t) : x # {} =>
          F[it[x \ {Max(x)}]][t[Max(x)]]
            = RunStep(it[x \ {Max(x)}], t[Max(x)], lowest, limit, align, count)
    BY <2>1 DEF FoldsWithin
  <2>3. Folded(it)
    <3> HIDE DEF F
    <3>1. QED BY <2>1, <2>2 DEF Folds, FoldsWithin
  <2>4. QED BY <2>3
<1>6. Folded(fold)
  <2> HIDE DEF Folded
  <2>1. QED BY <1>5
<1>7. FindClaimableContiguousRange(t, lowest, limit, align, count) = fold[1 .. n]
  BY <1>1, Zenon DEF FindClaimableContiguousRange, FoldLeft, MapThenFoldSet, start
<1>8. fold[{}] = start /\ \A k \in 1 .. n :
        fold[1 .. k] = RunStep(fold[1 .. k - 1], t[k], lowest, limit, align, count)
  <2> HIDE DEF fold
  <2>1. fold[{}] = start
    BY <1>6
  <2>2. ASSUME NEW k \in 1 .. n
        PROVE  fold[1 .. k] = RunStep(fold[1 .. k - 1], t[k], lowest, limit, align, count)
    <3>1. 1 .. k \in SUBSET (DOMAIN t) /\ 1 .. k # {}
          /\ Max(1 .. k) = k /\ (1 .. k) \ {k} = 1 .. k - 1
      BY <1>1, FoldPrefixes
    <3>2. QED BY <1>6, <3>1
  <2>3. QED BY <2>1, <2>2
<1> HIDE DEF fold, Folded
<1>9. \A k \in 0 .. n : fold[1 .. k] \in R
  <2> DEFINE Sound == {k \in 0 .. n : fold[1 .. k] \in R}
  <2>1. 0 \in Sound
    BY <1>1, <1>2, <1>8, FoldPrefixes
  <2>2. \A k \in 1 .. n : k - 1 \in Sound => k \in Sound
    BY <1>1, <1>3, <1>8 DEF D
  <2>3. \A k \in 0 .. n : k \in Sound
    <3> HIDE DEF Sound
    <3>1. QED BY <1>1, <2>1, <2>2, NatInductionSet
  <2>4. QED BY <2>3
<1>10. SearchRun(t, lowest, limit, align, count, [k \in 0 .. n |-> fold[1 .. k]])
  <2> DEFINE f == [k \in 0 .. n |-> fold[1 .. k]]
  <2>1. \A k \in 1 .. n : k \in 0 .. n /\ k - 1 \in 0 .. n
    BY <1>1
  <2>2. 0 \in 0 .. n /\ n \in 0 .. n /\ fold[1 .. 0] = start
    BY <1>1, <1>8, FoldPrefixes
  <2>3. \A k \in 0 .. n : f[k] = fold[1 .. k] /\ f[k] \in Runs /\ FreeRun(t, f[k], count)
    BY <1>9 DEF R
  <2>4. f \in [0 .. n -> Runs]
    BY <2>3
  <2> HIDE DEF f
  <2>5. f[0] = start /\ f[n] = fold[1 .. n]
    BY <2>2, <2>3
  <2>6. \A k \in 1 .. n : f[k] = RunStep(f[k - 1], t[k], lowest, limit, align, count)
    BY <1>8, <2>1, <2>3
  <2>7. QED BY <1>7, <2>3, <2>4, <2>5, <2>6 DEF SearchRun, start, f
<1>11. QED BY <1>10

LEMMA SearchFindsFree ==
  ASSUME NEW t \in Seq(Entry), NEW count \in Nat, NEW lowest \in Nat, NEW limit \in Nat,
         NEW align \in Nat, align > 0,
         NEW run, run = FindClaimableContiguousRange(t, lowest, limit, align, count)
  PROVE  /\ run.base \in Nat /\ run.found \in BOOLEAN
         /\ run.found => \A p \in Span(run.base, count) : FreeAt(t, p)
<1>1. PICK f : SearchRun(t, lowest, limit, align, count, f)
  BY SearchRuns
<1>2. run \in Runs /\ FreeRun(t, run, count)
  <2>1. Len(t) \in 0 .. Len(t)
    OBVIOUS
  <2>2. QED BY <1>1, <2>1 DEF SearchRun
<1>3. ASSUME run.found, NEW p \in Span(run.base, count)
      PROVE  FreeAt(t, p)
  <2>1. PICK b, f1 \in Nat : b = run.base /\ f1 = run.end /\ f1 - b >= count
    BY <1>2, <1>3 DEF Runs, FreeRun
  <2>2. p \in Nat /\ b <= p /\ p < f1
    <3>1. p \in b .. b + count - 1
      BY <1>3, <2>1 DEF Span
    <3>2. QED BY ONLY <2>1, <3>1, count \in Nat
  <2>3. QED BY <1>2, <1>3, <2>1, <2>2 DEF FreeRun
<1>4. QED BY <1>2, <1>3 DEF Runs

-----------------------------------------------------------------------------
(* The search finds the lowest aligned range of free frames.               *)

SearchWindows == [lowest : Nat, limit : Nat, align : Nat \ {0}, count : Nat \ {0}]

Fitting(t, w, b) ==
  /\ b % w.align = 0 /\ w.lowest <= b /\ b + w.count <= w.limit
  /\ \A p \in Span(b, w.count) : FreeAt(t, p)

(* Frame p lies behind the first k entries.                                *)
Past(t, k, p) == \A j \in 1 .. k : End(t[j]) <= p

(* An open run that is still too short: nothing fits before its base, and  *)
(* its end is where the free frames met so far end.                        *)
OpenRun(t, w, k, run) ==
  /\ run.base % w.align = 0 /\ w.lowest <= run.base
  /\ run.base <= run.end /\ run.end <= w.limit /\ run.end < run.base + w.count
  /\ \A b \in Nat : Fitting(t, w, b) => run.base <= b
  /\ \A p \in Nat : FreeAt(t, p) /\ run.end <= p /\ p < w.limit => Past(t, k, p)

SoundRun(t, w, k, run) ==
  /\ run.found => Fitting(t, w, run.base) /\ \A b \in Nat : Fitting(t, w, b) => run.base <= b
  /\ ~run.found /\ ~run.open => \A b \in Nat : Fitting(t, w, b) => Past(t, k, b)
  /\ ~run.found /\ run.open => OpenRun(t, w, k, run)

LEMMA WindowFields ==
  ASSUME NEW w \in SearchWindows
  PROVE  /\ w.lowest \in Nat /\ w.limit \in Nat
         /\ w.align \in Nat /\ w.align > 0 /\ w.count \in Nat /\ w.count > 0
BY DEF SearchWindows

LEMMA TidyEntries ==
  ASSUME NEW t, Tidy(Entry, t)
  PROVE  /\ t \in Seq(Entry) /\ Len(t) \in Nat
         /\ \A j \in 1 .. Len(t) : /\ t[j] \in Entry /\ t[j].base \in Nat /\ End(t[j]) \in Nat
                                   /\ t[j].base < End(t[j])
                                   /\ \A p \in Nat : p \in Frames(t[j]) <=> t[j].base <= p /\ p < End(t[j])
         /\ \A i, j \in 1 .. Len(t) : i < j => End(t[i]) <= t[j].base
<1>1. t \in Seq(Entry) /\ Len(t) \in Nat /\ \A j \in 1 .. Len(t) : t[j] \in Entry
  BY DEF Tidy
<1>2. ASSUME NEW j \in 1 .. Len(t), NEW e \in Entry, e = t[j]
      PROVE  /\ e.base \in Nat /\ End(e) \in Nat /\ e.base < End(e)
             /\ \A p \in Nat : p \in Frames(e) <=> e.base <= p /\ p < End(e)
  <2>1. e.count > 0
    BY <1>2 DEF Tidy
  <2>2. PICK b, c \in Nat : b = e.base /\ c = e.count
    BY DEF Entry
  <2>3. End(e) = b + c /\ Frames(e) = b .. b + c - 1 /\ c > 0
    BY <2>1, <2>2 DEF End, Frames, Span
  <2>4. PICK d \in Nat : d = b + c
    OBVIOUS
  <2>5. b < d /\ \A p \in Nat : p \in b .. b + c - 1 <=> b <= p /\ p < d
    BY <2>3, <2>4
  <2>6. End(e) = d /\ e.base = b
    BY <2>2, <2>3, <2>4
  <2>7. QED BY <2>3, <2>5, <2>6
<1>3. \A i, j \in 1 .. Len(t) : i < j => End(t[i]) <= t[j].base
  BY DEF Tidy
<1>4. QED BY <1>1, <1>2, <1>3

(* A free frame behind the first k - 1 entries is in entry k or behind it. *)
LEMMA FreeAhead ==
  ASSUME NEW t, Tidy(Entry, t), NEW k \in 1 .. Len(t), NEW p \in Nat,
         FreeAt(t, p), Past(t, k - 1, p)
  PROVE  /\ t[k].base <= p
         /\ (p \in Frames(t[k]) /\ t[k].state = "free") \/ Past(t, k, p)
<1>1. PICK i \in 1 .. Len(t) : p \in Frames(t[i]) /\ t[i].state = "free"
  BY DEF FreeAt
<1>2. /\ t[i].base <= p /\ p < End(t[i]) /\ End(t[i]) \in Nat /\ t[i].base \in Nat
      /\ t[k].base \in Nat /\ End(t[k]) \in Nat /\ t[k].base < End(t[k])
  BY <1>1, TidyEntries
<1>3. ~(i < k)
  <2>1. Len(t) \in Nat
    BY TidyEntries
  <2>2. i < k => i \in 1 .. k - 1
    BY <2>1
  <2>3. QED BY <1>2, <2>2 DEF Past
<1>4. CASE i = k
  BY <1>1, <1>2, <1>4
<1>5. CASE k < i
  <2>1. End(t[k]) <= t[i].base
    BY <1>5, TidyEntries
  <2>2. PICK a, b, c \in Nat : a = t[k].base /\ b = End(t[k]) /\ c = t[i].base
    BY <1>2
  <2>3. t[k].base <= p /\ End(t[k]) <= p
    BY <1>2, <2>1, <2>2
  <2>4. \A j \in 1 .. k : j \in 1 .. k - 1 \/ j = k
    BY TidyEntries
  <2>5. QED BY <2>3, <2>4 DEF Past
<1>6. QED BY <1>3, <1>4, <1>5

LEMMA BehindEntry ==
  ASSUME NEW t, Tidy(Entry, t), NEW k \in 1 .. Len(t), NEW p \in Nat, End(t[k]) <= p
  PROVE  Past(t, k, p)
<1> SUFFICES ASSUME NEW j \in 1 .. k PROVE End(t[j]) <= p
  BY DEF Past
<1>1. j \in 1 .. Len(t) /\ (j < k \/ j = k)
  BY TidyEntries
<1>2. CASE j = k
  BY <1>2
<1>3. CASE j < k
  <2>1. End(t[j]) <= t[k].base /\ t[k].base < End(t[k])
    BY <1>1, <1>3, TidyEntries
  <2>2. PICK a, b, c \in Nat : a = End(t[j]) /\ b = t[k].base /\ c = End(t[k])
    BY <1>1, TidyEntries
  <2>3. QED BY <2>1, <2>2
<1>4. QED BY <1>1, <1>2, <1>3

LEMMA NothingBehind ==
  ASSUME NEW t, Tidy(Entry, t), NEW p \in Nat, FreeAt(t, p)
  PROVE  ~Past(t, Len(t), p)
<1>1. PICK i \in 1 .. Len(t) : p \in Frames(t[i])
  BY DEF FreeAt
<1>2. p < End(t[i]) /\ End(t[i]) \in Nat
  BY <1>1, TidyEntries
<1>3. QED BY <1>2 DEF Past

LEMMA FittingIsFree ==
  ASSUME NEW t, NEW w \in SearchWindows, NEW b \in Nat, Fitting(t, w, b)
  PROVE  /\ FreeAt(t, b) /\ w.lowest <= b /\ b < w.limit /\ b % w.align = 0
         /\ \A p \in Nat : b <= p /\ p < b + w.count => FreeAt(t, p) /\ p < w.limit
<1>1. PICK c, l \in Nat : c = w.count /\ c > 0 /\ l = w.limit
  BY WindowFields
<1>2. b + c <= l /\ \A p \in Span(b, c) : FreeAt(t, p)
  BY <1>1 DEF Fitting
<1>3. \A p \in Nat : b <= p /\ p < b + c => p \in Span(b, c) /\ p < l
  BY <1>2 DEF Span
<1>4. QED BY <1>1, <1>2, <1>3 DEF Fitting

(* An entry that is not free or lies outside the window hides no frame.    *)
LEMMA PastSkipped ==
  ASSUME NEW t, Tidy(Entry, t), NEW w \in SearchWindows, NEW k \in 1 .. Len(t),
         NEW low, low = Larger(t[k].base, w.lowest), NEW high, high = Smaller(End(t[k]), w.limit),
         t[k].state # "free" \/ high <= low,
         NEW p \in Nat, w.lowest <= p, p < w.limit, FreeAt(t, p), Past(t, k - 1, p)
  PROVE  Past(t, k, p)
<1>1. t[k].state # "free" \/ p \notin Frames(t[k])
  <2> SUFFICES ASSUME high <= low, p \in Frames(t[k]) PROVE FALSE
    OBVIOUS
  <2>1. t[k].base <= p /\ p < End(t[k]) /\ t[k].base \in Nat /\ End(t[k]) \in Nat
    BY TidyEntries
  <2>2. PICK a, b, c, d \in Nat : a = t[k].base /\ b = End(t[k]) /\ c = w.lowest /\ d = w.limit
    BY <2>1, WindowFields
  <2>3. low <= p /\ p < high /\ low \in Nat /\ high \in Nat
    BY <2>1, <2>2 DEF Larger, Smaller
  <2>4. QED BY <2>3
<1>2. QED BY <1>1, FreeAhead

LEMMA FreshIsPast ==
  ASSUME NEW t, Tidy(Entry, t), NEW w \in SearchWindows, NEW k \in 1 .. Len(t),
         NEW run \in Runs, ~run.found, SoundRun(t, w, k - 1, run),
         NEW low, low = Larger(t[k].base, w.lowest), ~run.open \/ low > run.end,
         NEW b \in Nat, Fitting(t, w, b)
  PROVE  Past(t, k - 1, b)
<1>1. CASE ~run.open
  BY <1>1 DEF SoundRun
<1>2. CASE run.open
  <2>1. OpenRun(t, w, k - 1, run)
    BY <1>2 DEF SoundRun
  <2>2. PICK s, f, l, c, m \in Nat : s = run.base /\ f = run.end /\ l = w.limit /\ c = w.count /\ m = w.lowest
    BY WindowFields DEF Runs
  <2>3. s <= b /\ f < s + c /\ m <= s /\ s <= f
    BY <2>1, <2>2 DEF OpenRun
  <2>4. /\ FreeAt(t, b) /\ b < l
        /\ \A p \in Nat : b <= p /\ p < b + c => FreeAt(t, p) /\ p < l
    BY <2>2, FittingIsFree
  <2>5. \A p \in Nat : FreeAt(t, p) /\ f <= p /\ p < l => Past(t, k - 1, p)
    BY <2>1, <2>2 DEF OpenRun
  <2>6. ~(b <= f)
    <3> SUFFICES ASSUME b <= f PROVE FALSE
      OBVIOUS
    <3>1. f < b + c
      BY <2>3
    <3>2. FreeAt(t, f) /\ Past(t, k - 1, f)
      BY <2>4, <2>5, <3>1
    <3>3. PICK a \in Nat : a = t[k].base
      BY TidyEntries
    <3>4. a <= f
      BY <3>2, <3>3, FreeAhead
    <3>5. low = Larger(a, m) /\ low > f
      BY <1>2, <2>2, <3>3
    <3>6. QED BY <2>3, <3>4, <3>5 DEF Larger
  <2>7. QED BY <2>4, <2>5, <2>6
<1>3. QED BY <1>1, <1>2

LEMMA FreshStart ==
  ASSUME NEW t, Tidy(Entry, t), NEW w \in SearchWindows, NEW k \in 1 .. Len(t),
         NEW low, low = Larger(t[k].base, w.lowest),
         NEW b \in Nat, Fitting(t, w, b), Past(t, k - 1, b)
  PROVE  AlignUp(low, w.align) <= b
<1>1. FreeAt(t, b) /\ w.lowest <= b /\ b % w.align = 0
  BY FittingIsFree
<1>2. t[k].base <= b
  BY <1>1, FreeAhead
<1>3. PICK a, m, al \in Nat : a = t[k].base /\ m = w.lowest /\ al = w.align /\ al > 0
  BY TidyEntries, WindowFields
<1>4. low \in Nat /\ low <= b
  BY <1>1, <1>2, <1>3 DEF Larger
<1>5. AlignUp(low, al) \in Nat /\ b >= AlignUp(low, al)
  BY <1>1, <1>3, <1>4, NextMultiple, AlignedUp
<1>6. QED BY <1>3, <1>5

(* A run that has become long enough fits.                                 *)
LEMMA LongRunFits ==
  ASSUME NEW t, NEW w \in SearchWindows, NEW run \in Runs, FreeRun(t, run, w.count), run.open,
         run.base % w.align = 0, w.lowest <= run.base, run.end <= w.limit,
         run.end - run.base >= w.count
  PROVE  Fitting(t, w, run.base)
<1>1. PICK b, f, c, l \in Nat : b = run.base /\ f = run.end /\ c = w.count /\ l = w.limit
  BY WindowFields DEF Runs
<1>2. f - b >= c /\ f <= l /\ b + c <= l
  BY <1>1
<1>3. \A p \in Span(b, c) : p \in Nat /\ b <= p /\ p < f
  BY <1>2 DEF Span
<1>4. \A p \in Span(b, c) : FreeAt(t, p)
  BY <1>1, <1>3 DEF FreeRun
<1>5. QED BY <1>1, <1>2, <1>4 DEF Fitting

(* Frames behind the clipped end of an entry are behind the entry.         *)
LEMMA BehindHigh ==
  ASSUME NEW t, Tidy(Entry, t), NEW w \in SearchWindows, NEW k \in 1 .. Len(t),
         NEW high, high = Smaller(End(t[k]), w.limit),
         NEW p \in Nat, high <= p, p < w.limit
  PROVE  Past(t, k, p)
<1>1. PICK b, l \in Nat : b = End(t[k]) /\ l = w.limit
  BY TidyEntries, WindowFields
<1>2. b <= p
  BY <1>1 DEF Smaller
<1>3. QED BY <1>1, <1>2, BehindEntry

LEMMA SkipStaysSound ==
  ASSUME NEW t, Tidy(Entry, t), NEW w \in SearchWindows, NEW k \in 1 .. Len(t),
         NEW run \in Runs, SoundRun(t, w, k - 1, run),
         NEW low, low = Larger(t[k].base, w.lowest), NEW high, high = Smaller(End(t[k]), w.limit),
         t[k].state # "free" \/ high <= low
  PROVE  SoundRun(t, w, k, run)
<1>1. ASSUME ~run.found, ~run.open, NEW b \in Nat, Fitting(t, w, b) PROVE Past(t, k, b)
  <2>1. Past(t, k - 1, b) /\ FreeAt(t, b) /\ w.lowest <= b /\ b < w.limit
    BY <1>1, FittingIsFree DEF SoundRun
  <2>2. QED BY <2>1, PastSkipped
<1>2. ASSUME ~run.found, run.open PROVE OpenRun(t, w, k, run)
  <2>1. OpenRun(t, w, k - 1, run)
    BY <1>2 DEF SoundRun
  <2>2. ASSUME NEW p \in Nat, FreeAt(t, p), run.end <= p, p < w.limit PROVE Past(t, k, p)
    <3>1. Past(t, k - 1, p)
      BY <2>1, <2>2 DEF OpenRun
    <3>2. PICK m, s, f \in Nat : m = w.lowest /\ s = run.base /\ f = run.end
      BY WindowFields DEF Runs
    <3>3. m <= s /\ s <= f
      BY <2>1, <3>2 DEF OpenRun
    <3>4. w.lowest <= p
      BY <2>2, <3>2, <3>3
    <3>5. QED BY <2>2, <3>1, <3>4, PastSkipped
  <2>3. QED BY <2>1, <2>2 DEF OpenRun
<1>3. QED BY <1>1, <1>2 DEF SoundRun

LEMMA MissedStartStaysSound ==
  ASSUME NEW t, Tidy(Entry, t), NEW w \in SearchWindows, NEW k \in 1 .. Len(t),
         NEW run \in Runs, ~run.found, SoundRun(t, w, k - 1, run),
         NEW low, low = Larger(t[k].base, w.lowest), NEW high, high = Smaller(End(t[k]), w.limit),
         ~run.open \/ low > run.end, AlignUp(low, w.align) >= high,
         NEW next, next \in Runs, ~next.open, ~next.found
  PROVE  SoundRun(t, w, k, next)
<1> SUFFICES ASSUME NEW b \in Nat, Fitting(t, w, b) PROVE Past(t, k, b)
  BY DEF SoundRun
<1>1. Past(t, k - 1, b)
  BY FreshIsPast
<1>2. AlignUp(low, w.align) <= b
  BY <1>1, FreshStart
<1>3. b < w.limit
  BY FittingIsFree
<1>4. PICK a, m, al, e, l \in Nat : /\ a = t[k].base /\ m = w.lowest /\ al = w.align /\ al > 0
                                    /\ e = End(t[k]) /\ l = w.limit
  BY TidyEntries, WindowFields
<1>5. low \in Nat /\ high \in Nat
  BY <1>4 DEF Larger, Smaller
<1>6. PICK s \in Nat : s = AlignUp(low, w.align)
  BY <1>4, <1>5, AlignedUp
<1>7. high <= b
  BY <1>2, <1>5, <1>6
<1>8. QED BY <1>3, <1>7, BehindHigh

LEMMA FreshStaysSound ==
  ASSUME NEW t, Tidy(Entry, t), NEW w \in SearchWindows, NEW k \in 1 .. Len(t),
         NEW run \in Runs, ~run.found, SoundRun(t, w, k - 1, run),
         NEW low, low = Larger(t[k].base, w.lowest), NEW high, high = Smaller(End(t[k]), w.limit),
         ~run.open \/ low > run.end, AlignUp(low, w.align) < high,
         NEW next, next \in Runs, FreeRun(t, next, w.count), next.open,
         next.base = AlignUp(low, w.align), next.end = high,
         next.found <=> next.end - next.base >= w.count
  PROVE  SoundRun(t, w, k, next)
<1>1. PICK a, m, al, e, l, c \in Nat : /\ a = t[k].base /\ m = w.lowest /\ al = w.align /\ al > 0
                                       /\ e = End(t[k]) /\ l = w.limit /\ c = w.count
  BY TidyEntries, WindowFields
<1>2. low \in Nat /\ high \in Nat /\ m <= low /\ high <= l
  BY <1>1 DEF Larger, Smaller
<1>3. PICK s \in Nat : s = AlignUp(low, al) /\ s >= low /\ s % al = 0
  <2>1. AlignUp(low, al) \in Nat /\ AlignUp(low, al) >= low
    BY <1>1, <1>2, AlignedUp
  <2>2. AlignUp(low, al) % al = 0
    BY <1>1, <1>2, AlignedUpDivides
  <2>3. QED BY <2>1, <2>2
<1>4. /\ next.base = s /\ next.end = high /\ s < high /\ m <= s
      /\ next.base % w.align = 0 /\ w.lowest <= next.base /\ next.end <= w.limit
  <2>1. next.base = s /\ next.end = high /\ s < high
    BY <1>1, <1>3
  <2>2. m <= s
    BY <1>2, <1>3
  <2>3. QED BY <1>1, <1>2, <1>3, <2>1, <2>2
<1>5. ASSUME NEW b \in Nat, Fitting(t, w, b) PROVE next.base <= b
  <2>1. Past(t, k - 1, b)
    BY <1>5, FreshIsPast
  <2>2. QED BY <1>5, <2>1, FreshStart
<1>6. ASSUME next.found PROVE Fitting(t, w, next.base)
  BY <1>4, <1>6, LongRunFits
<1>7. ASSUME ~next.found PROVE OpenRun(t, w, k, next)
  <2>1. next.base <= next.end /\ next.end < next.base + w.count
    <3>1. ~(next.end - next.base >= w.count)
      BY <1>7
    <3>2. PICK h \in Nat : h = high
      BY <1>2
    <3>3. ~(h - s >= c)
      BY <1>1, <1>4, <3>1, <3>2
    <3>4. s <= h /\ h < s + c
      BY <1>4, <3>2, <3>3
    <3>5. QED BY <1>1, <1>4, <3>2, <3>4
  <2>2. ASSUME NEW p \in Nat, next.end <= p, p < w.limit PROVE Past(t, k, p)
    BY <2>2, BehindHigh
  <2>3. QED BY <1>4, <1>5, <2>1, <2>2 DEF OpenRun
<1>8. QED BY <1>5, <1>6, <1>7 DEF SoundRun

LEMMA GrownStaysSound ==
  ASSUME NEW t, Tidy(Entry, t), NEW w \in SearchWindows, NEW k \in 1 .. Len(t),
         NEW run \in Runs, ~run.found, run.open, SoundRun(t, w, k - 1, run),
         NEW high, high = Smaller(End(t[k]), w.limit),
         NEW next, next \in Runs, FreeRun(t, next, w.count), next.open,
         next.base = run.base, next.end = Larger(run.end, high),
         next.found <=> next.end - next.base >= w.count
  PROVE  SoundRun(t, w, k, next)
<1>1. OpenRun(t, w, k - 1, run)
  BY DEF SoundRun
<1>2. PICK m, e, l, c, s, f \in Nat : /\ m = w.lowest /\ e = End(t[k]) /\ l = w.limit
                                      /\ c = w.count /\ s = run.base /\ f = run.end
  BY TidyEntries, WindowFields DEF Runs
<1>3. high \in Nat /\ high <= l
  BY <1>2 DEF Smaller
<1>4. m <= s /\ s <= f /\ f <= l /\ s % w.align = 0
  BY <1>1, <1>2 DEF OpenRun
<1>5. PICK g \in Nat : g = next.end /\ f <= g /\ high <= g /\ g <= l
  <2>1. next.end = Larger(f, high)
    BY <1>2
  <2>2. f <= l /\ high <= l /\ f \in Nat /\ high \in Nat
    BY <1>3, <1>4
  <2>3. /\ Larger(f, high) \in Nat /\ f <= Larger(f, high)
        /\ high <= Larger(f, high) /\ Larger(f, high) <= l
    BY ONLY <1>2, <2>2 DEF Larger
  <2>4. QED BY <2>1, <2>3
<1>6. next.base % w.align = 0 /\ w.lowest <= next.base /\ next.base <= next.end /\ next.end <= w.limit
  BY <1>2, <1>4, <1>5
<1>7. \A b \in Nat : Fitting(t, w, b) => next.base <= b
  BY <1>1 DEF OpenRun
<1>8. ASSUME next.found PROVE Fitting(t, w, next.base)
  BY <1>6, <1>8, LongRunFits
<1>9. ASSUME ~next.found PROVE OpenRun(t, w, k, next)
  <2>1. next.end < next.base + w.count
    <3>1. ~(next.end - next.base >= w.count)
      BY <1>9
    <3>2. ~(g - s >= c)
      BY <1>2, <1>5, <3>1
    <3>3. g < s + c
      BY <3>2
    <3>4. QED BY <1>2, <1>5, <3>3
  <2>2. ASSUME NEW p \in Nat, next.end <= p, p < w.limit PROVE Past(t, k, p)
    <3>1. high <= p
      BY <1>3, <1>5, <2>2
    <3>2. QED BY <2>2, <3>1, BehindHigh
  <2>3. QED BY <1>6, <1>7, <2>1, <2>2 DEF OpenRun
<1>10. QED BY <1>7, <1>8, <1>9 DEF SoundRun

LEMMA RunStepStaysSound ==
  ASSUME NEW t, Tidy(Entry, t), NEW w \in SearchWindows, NEW k \in 1 .. Len(t),
         NEW run \in Runs, SoundRun(t, w, k - 1, run),
         NEW next, next = RunStep(run, t[k], w.lowest, w.limit, w.align, w.count),
         next \in Runs, FreeRun(t, next, w.count)
  PROVE  SoundRun(t, w, k, next)
<1>1. PICK e, low, high, start : /\ e = t[k] /\ low = Larger(e.base, w.lowest)
                                 /\ high = Smaller(End(e), w.limit) /\ start = AlignUp(low, w.align)
  OBVIOUS
<1>2. PICK a, m, al, f, l, c \in Nat : /\ a = e.base /\ m = w.lowest /\ al = w.align /\ al > 0
                                       /\ f = End(e) /\ l = w.limit /\ c = w.count
  BY <1>1, TidyEntries, WindowFields
<1>3. low \in Nat /\ high \in Nat
  BY <1>1, <1>2 DEF Larger, Smaller
<1>4. start \in Nat
  BY <1>1, <1>2, <1>3, AlignedUp
<1>5. run.open \in BOOLEAN /\ run.found \in BOOLEAN /\ run.base \in Nat /\ run.end \in Nat
  BY DEF Runs
<1> DEFINE fresh == ~run.open \/ low > run.end
           grown == IF fresh THEN [run EXCEPT !.base = start, !.end = high]
                             ELSE [run EXCEPT !.end = Larger(run.end, high)]
           last == [grown EXCEPT !.open = TRUE, !.found = grown.end - grown.base >= w.count]
<1>6. next = CASE run.found \/ e.state # "free" \/ high <= low -> run
               [] ~run.found /\ e.state = "free" /\ high > low /\ fresh /\ start >= high ->
                    [run EXCEPT !.open = FALSE]
               [] OTHER -> last
  BY <1>1 DEF RunStep
<1>7. CASE run.found \/ e.state # "free" \/ high <= low
  <2>1. next = run
    <3> HIDE DEF last, fresh
    <3>1. QED BY <1>3, <1>6, <1>7
  <2>2. CASE run.found
    BY <2>1, <2>2 DEF SoundRun
  <2>3. CASE e.state # "free" \/ high <= low
    BY <1>1, <2>1, <2>3, SkipStaysSound
  <2>4. QED BY <1>7, <2>2, <2>3
<1>8. CASE ~run.found /\ e.state = "free" /\ high > low /\ fresh /\ start >= high
  <2>1. next = [run EXCEPT !.open = FALSE]
    <3> HIDE DEF last, fresh
    <3>1. QED BY <1>3, <1>6, <1>8
  <2>2. ~next.open /\ ~next.found
    BY <1>8, <2>1 DEF Runs
  <2>3. QED BY <1>1, <1>8, <2>2, MissedStartStaysSound
<1>9. CASE ~run.found /\ e.state = "free" /\ high > low /\ ~(fresh /\ start >= high)
  <2>1. next = last
    <3> HIDE DEF last, fresh
    <3>1. QED BY <1>3, <1>6, <1>9
  <2>2. PICK b, g \in Nat : /\ b = (IF fresh THEN start ELSE run.base)
                            /\ g = (IF fresh THEN high ELSE Larger(run.end, high))
    BY <1>3, <1>4, <1>5 DEF Larger
  <2>3. grown \in Runs /\ grown.base = b /\ grown.end = g
    BY <1>3, <1>4, <1>5, <2>2 DEF Runs, Larger
  <2> HIDE DEF grown
  <2>0. PICK long \in BOOLEAN : long <=> g - b >= c
    OBVIOUS
  <2>4. PICK found \in BOOLEAN : found = (grown.end - grown.base >= w.count) /\ (found <=> g - b >= c)
    <3>1. (grown.end - grown.base >= w.count) = long
      BY <1>2, <2>0, <2>3
    <3>2. QED BY <2>0, <3>1
  <2>5. next = [grown EXCEPT !.open = TRUE, !.found = found]
    BY <2>1, <2>4
  <2>6. next.open /\ next.base = b /\ next.end = g /\ next.found = found
    BY <2>3, <2>5 DEF Runs
  <2>7. next.found <=> next.end - next.base >= w.count
    BY <1>2, <2>4, <2>6
  <2>8. CASE fresh
    <3>1. start < high
      BY <1>3, <1>4, <1>9, <2>8
    <3>2. next.base = AlignUp(low, w.align) /\ next.end = high
      BY <1>1, <2>2, <2>6, <2>8
    <3>3. QED BY <1>1, <1>9, <2>6, <2>7, <2>8, <3>1, <3>2, FreshStaysSound
  <2>9. CASE ~fresh
    <3>1. run.open /\ next.base = run.base /\ next.end = Larger(run.end, high)
      BY <2>2, <2>6, <2>9
    <3>2. QED BY <1>1, <1>9, <2>6, <2>7, <3>1, GrownStaysSound
  <2>10. QED BY <2>8, <2>9
<1>10. QED BY <1>3, <1>5, <1>7, <1>8, <1>9

LEMMA ShortRunsFindNothing ==
  ASSUME NEW t, Tidy(Entry, t), NEW w \in SearchWindows,
         NEW run \in Runs, ~run.found, SoundRun(t, w, Len(t), run),
         NEW b \in Nat, Fitting(t, w, b)
  PROVE  FALSE
<1>1. /\ FreeAt(t, b) /\ b < w.limit
      /\ \A p \in Nat : b <= p /\ p < b + w.count => FreeAt(t, p) /\ p < w.limit
  BY FittingIsFree
<1>2. ~Past(t, Len(t), b)
  BY <1>1, NothingBehind
<1>3. OpenRun(t, w, Len(t), run)
  BY <1>2 DEF SoundRun
<1>4. PICK s, f, c \in Nat : s = run.base /\ f = run.end /\ c = w.count
  BY WindowFields DEF Runs
<1>5. s <= b /\ f < s + c
  BY <1>3, <1>4 DEF OpenRun
<1>6. b < f
  <2>1. ~(f <= b)
    BY <1>1, <1>2, <1>3, <1>4 DEF OpenRun
  <2>2. QED BY <2>1
<1>7. FreeAt(t, f) /\ f < w.limit
  <2>1. f \in Nat /\ b <= f /\ f < b + c
    <3>1. f \in Nat /\ s \in Nat /\ c \in Nat
      BY <1>4
    <3>2. QED BY ONLY <1>5, <1>6, <3>1, b \in Nat
  <2>2. f < b + w.count
    BY <1>4, <2>1
  <2>3. QED BY <1>1, <2>1, <2>2
<1>8. Past(t, Len(t), f)
  BY <1>3, <1>4, <1>7 DEF OpenRun
<1>9. QED BY <1>7, <1>8, NothingBehind

(* First fit is the lowest fit: the search answers with the lowest aligned *)
(* range of free frames in its window, and fails only when there is none.  *)
LEMMA SearchFindsLowest ==
  ASSUME NEW t, Tidy(Entry, t), NEW w \in SearchWindows,
         NEW run, run = FindClaimableContiguousRange(t, w.lowest, w.limit, w.align, w.count)
  PROVE  /\ run \in Runs
         /\ run.found => Fitting(t, w, run.base) /\ \A b \in Nat : Fitting(t, w, b) => run.base <= b
         /\ ~run.found => \A b \in Nat : ~Fitting(t, w, b)
<1>1. PICK n \in Nat : n = Len(t) /\ t \in Seq(Entry)
  BY TidyEntries
<1>2. PICK lowest, limit, align, count \in Nat :
        lowest = w.lowest /\ limit = w.limit /\ align = w.align /\ count = w.count /\ align > 0
  BY WindowFields
<1>3. PICK f : SearchRun(t, lowest, limit, align, count, f)
  BY <1>1, <1>2, SearchRuns
<1>4. /\ \A k \in 0 .. n : f[k] \in Runs /\ FreeRun(t, f[k], w.count)
      /\ f[0] = [open |-> FALSE, found |-> FALSE, base |-> 0, end |-> 0]
      /\ \A k \in 1 .. n : f[k] = RunStep(f[k - 1], t[k], w.lowest, w.limit, w.align, w.count)
      /\ run = f[n]
  BY <1>1, <1>2, <1>3 DEF SearchRun
<1> DEFINE Sound == {k \in 0 .. n : SoundRun(t, w, k, f[k])}
<1>5. 0 \in Sound
  <2>1. ~f[0].found /\ ~f[0].open
    BY <1>4
  <2>2. \A b : Past(t, 0, b)
    BY DEF Past
  <2>3. QED BY <2>1, <2>2 DEF SoundRun
<1>6. ASSUME NEW k \in 1 .. n, k - 1 \in Sound PROVE k \in Sound
  <2>1. PICK last, next :
          /\ last \in Runs /\ next \in Runs /\ last = f[k - 1] /\ next = f[k] /\ FreeRun(t, next, w.count)
          /\ next = RunStep(last, t[k], w.lowest, w.limit, w.align, w.count)
          /\ SoundRun(t, w, k - 1, last)
    BY <1>4, <1>6
  <2> HIDE DEF Sound
  <2>2. k \in 1 .. Len(t)
    BY <1>1
  <2>3. SoundRun(t, w, k, next)
    BY ONLY Tidy(Entry, t), w \in SearchWindows, <2>1, <2>2, RunStepStaysSound
  <2>4. SoundRun(t, w, k, f[k])
    BY <2>1, <2>3
  <2>5. k \in 0 .. n
    OBVIOUS
  <2>6. QED BY <2>4, <2>5 DEF Sound
<1>7. \A k \in 0 .. n : k \in Sound
  <2> HIDE DEF Sound
  <2>1. QED BY <1>5, <1>6, NatInductionSet
<1>8. run \in Runs /\ SoundRun(t, w, Len(t), run)
  BY <1>1, <1>4, <1>7
<1>9. QED BY <1>8, ShortRunsFindNothing DEF SoundRun

-----------------------------------------------------------------------------
(* The tables a view is built from.                                        *)

LEMMA NeighboursInOrder ==
  ASSUME NEW s \in Seq(Entry), \A i \in 2 .. Len(s) : End(s[i - 1]) <= s[i].base
  PROVE  InOrder(s)
<1> DEFINE n == Len(s)
           Sound == {k \in 0 .. n : \A i, j \in 1 .. k : i < j => End(s[i]) <= s[j].base}
<1>1. n \in Nat /\ \A i \in 1 .. n : s[i] \in Entry
  OBVIOUS
<1>2. \A i \in 1 .. n : s[i].base \in Nat /\ End(s[i]) \in Nat /\ s[i].base <= End(s[i])
  <2>1. \A e \in Entry : e.base \in Nat /\ End(e) \in Nat /\ e.base <= End(e)
    BY DEF Entry, End
  <2>2. QED BY <1>1, <2>1
<1>3. 0 \in Sound
  BY <1>1
<1>4. ASSUME NEW k \in 1 .. n, k - 1 \in Sound
      PROVE  k \in Sound
  <2>0. k \in Nat /\ k >= 1 /\ k <= n /\ k \in 0 .. n
    BY <1>1
  <2> SUFFICES ASSUME NEW i \in 1 .. k, NEW j \in 1 .. k, i < j
               PROVE  End(s[i]) <= s[j].base
    BY <2>0
  <2>1. CASE j < k
    <3>1. i \in 1 .. k - 1 /\ j \in 1 .. k - 1
      BY <2>0, <2>1
    <3>2. QED BY <1>4, <3>1
  <2>2. CASE j = k /\ i = k - 1
    <3>1. k \in 2 .. n
      BY <2>0, <2>2
    <3>2. QED BY <2>2, <3>1
  <2>3. CASE j = k /\ i < k - 1
    <3>1. /\ i \in 1 .. k - 1 /\ k - 1 \in 1 .. k - 1 /\ k \in 2 .. n
          /\ i \in 1 .. n /\ k - 1 \in 1 .. n /\ j \in 1 .. n
      BY <2>0, <2>3
    <3>2. PICK a, b, c, d \in Nat : /\ a = End(s[i]) /\ b = s[k - 1].base
                                    /\ c = End(s[k - 1]) /\ d = s[j].base
      BY <1>2, <3>1
    <3>3. a <= b /\ b <= c /\ c <= d
      BY <1>2, <1>4, <2>3, <3>1, <3>2
    <3>4. a <= d
      BY <3>3
    <3>5. QED BY <3>2, <3>4
  <2>4. QED BY <2>0, <2>1, <2>2, <2>3
<1>5. \A k \in 0 .. n : k \in Sound
  <2> HIDE DEF Sound
  <2>1. QED BY <1>1, <1>3, <1>4, NatInductionSet
<1>6. QED BY <1>1, <1>5 DEF InOrder

LEMMA IngestedTable ==
  ASSUME NEW t \in RegionTables, OverlapAt(t) = {}
  PROVE  IngestedRegions(t) \in Results(Entry) /\ Tidy(Entry, IngestedRegions(t).table)
<1> DEFINE s == [i \in DOMAIN t |-> FrameEntry(t[i])]
<1>1. /\ t \in Seq(Regions) /\ Len(t) \in Nat /\ DOMAIN t = 1 .. Len(t)
      /\ \A i \in 1 .. Len(t) : t[i] \in Regions
  BY RegionTablesAssumption
<1>2. \A r \in Regions : FrameEntry(r) \in Entry /\ FrameEntry(r).base = r.base /\ End(FrameEntry(r)) = End(r)
  <2> SUFFICES ASSUME NEW r \in Regions
               PROVE  FrameEntry(r) \in Entry /\ FrameEntry(r).base = r.base /\ End(FrameEntry(r)) = End(r)
    OBVIOUS
  <2>1. FrameState(r.type) \in States
    BY DEF Regions, RegionTypes, FrameState, States
  <2>2. FrameUsage(r.type) \in Usages
    BY FieldsAssumption DEF Regions, RegionTypes, FrameUsage
  <2>3. PICK st \in States, us \in Usages : st = FrameState(r.type) /\ us = FrameUsage(r.type)
    BY <2>1, <2>2
  <2>4. FrameEntry(r) = [base |-> r.base, count |-> r.count, state |-> st, usage |-> us,
                         owner |-> r.owner, source |-> r.source]
    BY <2>3 DEF FrameEntry
  <2>5. QED BY <2>4 DEF Regions, Entry, End
<1>3. s \in Seq(Entry) /\ Len(s) = Len(t) /\ \A i \in 1 .. Len(t) : s[i] = FrameEntry(t[i])
  BY <1>1, <1>2
<1>4. \A i \in 2 .. Len(t) : End(t[i - 1]) <= t[i].base
  <2> SUFFICES ASSUME NEW i \in 2 .. Len(t) PROVE End(t[i - 1]) <= t[i].base
    OBVIOUS
  <2>1. i \in 1 .. Len(t) /\ i - 1 \in 1 .. Len(t)
    BY <1>1
  <2>2. ~(t[i].base < End(t[i - 1]))
    BY DEF OverlapAt
  <2>3. PICK a \in Regions, b \in Regions : a = t[i] /\ b = t[i - 1]
    BY <1>1, <2>1
  <2>4. a.base \in Nat /\ End(b) \in Nat
    BY DEF Regions, End
  <2>5. QED BY <2>2, <2>3, <2>4
<1>5. \A i \in 2 .. Len(s) : End(s[i - 1]) <= s[i].base
  <2> SUFFICES ASSUME NEW i \in 2 .. Len(s) PROVE End(s[i - 1]) <= s[i].base
    OBVIOUS
  <2>1. i \in 1 .. Len(t) /\ i - 1 \in 1 .. Len(t) /\ i \in 2 .. Len(t)
    BY <1>1, <1>3
  <2>2. QED BY <1>1, <1>2, <1>3, <1>4, <2>1
<1>6. InOrder(s)
  <2> HIDE DEF s
  <2>1. QED BY <1>3, <1>5, NeighboursInOrder
<1>7. IngestedRegions(t) = AppendAll(s)
  BY DEF IngestedRegions
<1>8. QED
  <2> HIDE DEF s
  <2>1. QED BY <1>3, <1>6, <1>7, EntriesAreItems, AppendAllTidies

LEMMA OverlaidTable ==
  ASSUME NEW start \in Results(Entry), Tidy(Entry, start.table)
  PROVE  ReservedOverlays(start) \in Results(Entry) /\ Tidy(Entry, ReservedOverlays(start).table)
<1> DEFINE seq == Overlays
           n == Len(seq)
           D == [base : Nat, count : Nat, usage : Usages]
           R == {r \in Results(Entry) : Tidy(Entry, r.table)}
           Step(t, o) == IF ~t.ok \/ o.count = 0 THEN t
                         ELSE RewriteFrameDatabaseRange(t.table, o.base, o.count, "reserved", o.usage, "claimed")
           F == [t \in R |-> [o \in D |-> Step(t, o)]]
           Folded(it) == it = [x \in SUBSET (DOMAIN seq) |->
                                 IF x = {} THEN start ELSE Step(it[x \ {Max(x)}], seq[Max(x)])]
           fold == CHOOSE it : Folded(it)
<1>1. n \in Nat /\ DOMAIN seq = 1 .. n /\ seq \in Seq(D) /\ \A i \in 1 .. n : seq[i] \in D
  <2>1. seq \in Seq(D)
    BY OverlaysAssumption
  <2> HIDE DEF seq, D
  <2>2. QED BY <2>1
<1>2. start \in R
  OBVIOUS
<1>3. ASSUME NEW t \in R, NEW o \in D
      PROVE  Step(t, o) \in R
  <2>1. CASE ~t.ok \/ o.count = 0
    BY <2>1
  <2>2. CASE ~(~t.ok \/ o.count = 0)
    <3>1. /\ o.base \in Nat /\ o.count \in Nat /\ o.usage \in Usages
          /\ "reserved" \in States /\ "claimed" \in Owners
      BY FieldsAssumption DEF States
    <3>2. PICK u : u = RewriteFrameDatabaseRange(t.table, o.base, o.count, "reserved", o.usage, "claimed")
      OBVIOUS
    <3>3. u \in Results(Entry) /\ Tidy(Entry, u.table)
      BY <3>1, <3>2, RewriteRange
    <3>4. QED BY <2>2, <3>2, <3>3
  <2>3. QED BY <2>1, <2>2
<1>4. F \in [R -> [D -> R]]
  BY <1>3
<1> HIDE DEF R, D, Step, seq
<1>5. \E it : Folded(it)
  <2>1. PICK it : FoldsWithin(R, D, F, start, seq, it)
    <3> HIDE DEF F
    <3>1. QED BY <1>1, <1>2, <1>4, FoldValues
  <2>2. \A x \in SUBSET (DOMAIN seq) : x # {} =>
          F[it[x \ {Max(x)}]][seq[Max(x)]] = Step(it[x \ {Max(x)}], seq[Max(x)])
    BY <2>1 DEF FoldsWithin
  <2>3. Folded(it)
    <3> HIDE DEF F
    <3>1. QED BY <2>1, <2>2 DEF Folds, FoldsWithin
  <2>4. QED BY <2>3
<1>6. Folded(fold)
  <2> HIDE DEF Folded
  <2>1. QED BY <1>5
<1>7. ReservedOverlays(start) = fold[1 .. n]
  BY <1>1, Zenon DEF ReservedOverlays, FoldLeft, MapThenFoldSet, Step, seq
<1>8. fold[{}] = start /\ \A k \in 1 .. n : fold[1 .. k] = Step(fold[1 .. k - 1], seq[k])
  <2> HIDE DEF fold
  <2>1. fold[{}] = start
    BY <1>6
  <2>2. ASSUME NEW k \in 1 .. n
        PROVE  fold[1 .. k] = Step(fold[1 .. k - 1], seq[k])
    <3>1. 1 .. k \in SUBSET (DOMAIN seq) /\ 1 .. k # {}
          /\ Max(1 .. k) = k /\ (1 .. k) \ {k} = 1 .. k - 1
      BY <1>1, FoldPrefixes
    <3>2. QED BY <1>6, <3>1
  <2>3. QED BY <2>1, <2>2
<1> HIDE DEF fold, Folded
<1>9. \A k \in 0 .. n : fold[1 .. k] \in R
  <2> DEFINE Sound == {k \in 0 .. n : fold[1 .. k] \in R}
  <2>1. 0 \in Sound
    BY <1>1, <1>2, <1>8, FoldPrefixes
  <2>2. \A k \in 1 .. n : k - 1 \in Sound => k \in Sound
    BY <1>1, <1>3, <1>8
  <2>3. \A k \in 0 .. n : k \in Sound
    <3> HIDE DEF Sound
    <3>1. QED BY <1>1, <2>1, <2>2, NatInductionSet
  <2>4. QED BY <2>3
<1>10. QED BY <1>1, <1>7, <1>9 DEF R

-----------------------------------------------------------------------------
(* Descriptors: as many as the array has room for.                         *)

Categories == {"usable", "boot_reserved", "firmware", "acpi", "unusable", "runtime", "mmio"}
Descriptor == [base : Nat, count : Nat, category : Categories, claimed : BOOLEAN,
               owner : Owners \cup {"none"}, source : Sources]

LEMMA DescriptorsAreItems == Items(Descriptor)
<1> DEFINE Others == {"category", "claimed", "owner", "source"}
<1>1. \A d \in Descriptor : /\ d.base \in Nat /\ d.count \in Nat
                            /\ DOMAIN d \ {"base", "count"} = Others
  <2> SUFFICES ASSUME NEW d \in Descriptor
               PROVE  d.base \in Nat /\ d.count \in Nat /\ DOMAIN d \ {"base", "count"} = Others
    OBVIOUS
  <2>1. d.base \in Nat /\ d.count \in Nat
    BY DEF Descriptor
  <2>2. DOMAIN d = {"base", "count", "category", "claimed", "owner", "source"}
    BY DEF Descriptor
  <2>3. QED BY <2>1, <2>2
<1>2. \A d, e \in Descriptor : SaysTheSame(d, e) <=> \A f \in Others : d[f] = e[f]
  <2> HIDE DEF Others
  <2>1. QED BY <1>1 DEF SaysTheSame
<1>3. \A d \in Descriptor, n \in Nat : /\ [d EXCEPT !.count = n] \in Descriptor
                                       /\ [d EXCEPT !.count = n].base = d.base
                                       /\ [d EXCEPT !.count = n].count = n
  BY DEF Descriptor
<1>4. ASSUME NEW d \in Descriptor, NEW n \in Nat, NEW f \in Others
      PROVE  [d EXCEPT !.count = n][f] = d[f]
  <2>1. f \in DOMAIN d /\ f # "count"
    BY <1>1
  <2>2. QED BY <2>1
<1> HIDE DEF Others
<1>5. \A d \in Descriptor, n \in Nat : SaysTheSame([d EXCEPT !.count = n], d)
  BY <1>2, <1>3, <1>4
<1>6. \A e, f, g \in Descriptor : /\ SaysTheSame(e, e)
                                  /\ SaysTheSame(e, f) => SaysTheSame(f, e)
                                  /\ SaysTheSame(e, f) /\ SaysTheSame(f, g) => SaysTheSame(e, g)
  BY <1>2
<1>7. QED BY <1>1, <1>3, <1>5, <1>6 DEF Items

LEMMA DescribedEntry ==
  ASSUME NEW e \in Entry
  PROVE  /\ DescriptorOf(e) \in Descriptor /\ DescriptorOf(e).base = e.base
         /\ End(DescriptorOf(e)) = End(e) /\ Frames(DescriptorOf(e)) = Frames(e)
         /\ DescriptorOf(e).category = "usable" <=> e.state = "free"
<1>1. Category(e) \in Categories /\ (Category(e) = "usable" <=> e.state = "free")
  BY DEF Category, Categories, Entry, States
<1>2. ClaimedFlag(e) \in BOOLEAN
  BY DEF ClaimedFlag
<1>3. PICK c \in Categories, b \in BOOLEAN, o \in Owners \cup {"none"} :
        /\ c = Category(e) /\ b = ClaimedFlag(e)
        /\ o = IF e.state = "free" THEN "none" ELSE e.owner
  BY <1>1, <1>2 DEF Entry
<1>4. DescriptorOf(e) = [base |-> e.base, count |-> e.count, category |-> c, claimed |-> b,
                         owner |-> o, source |-> e.source]
  BY <1>3 DEF DescriptorOf
<1>5. QED BY <1>1, <1>3, <1>4 DEF Descriptor, Entry, End, Frames

LEMMA SameCategory ==
  ASSUME NEW x \in Descriptor, NEW y \in Descriptor, SaysTheSame(x, y)
  PROVE  x.category = y.category
<1>1. DOMAIN x = {"base", "count", "category", "claimed", "owner", "source"}
  BY DEF Descriptor
<1>2. QED BY <1>1 DEF SaysTheSame

LEMMA RefreshedDescriptors ==
  ASSUME NEW t, Tidy(Entry, t)
  PROVE  Tidy(Descriptor, RefreshInternalDescriptors(t))
<1> DEFINE s == [i \in DOMAIN t |-> DescriptorOf(t[i])]
<1>1. /\ t \in Seq(Entry) /\ Len(t) \in Nat /\ DOMAIN t = 1 .. Len(t)
      /\ \A i \in 1 .. Len(t) : t[i] \in Entry
  BY DEF Tidy
<1>2. \A e \in Entry : /\ DescriptorOf(e) \in Descriptor /\ DescriptorOf(e).base = e.base
                       /\ End(DescriptorOf(e)) = End(e)
  BY DescribedEntry
<1>3. s \in Seq(Descriptor) /\ Len(s) = Len(t) /\ \A i \in 1 .. Len(t) : s[i] = DescriptorOf(t[i])
  BY <1>1, <1>2
<1> HIDE DEF s
<1>4. InOrder(s)
  BY <1>1, <1>2, <1>3 DEF InOrder, Tidy
<1>5. RefreshInternalDescriptors(t) = AppendAll(s).table
  BY DEF RefreshInternalDescriptors, s
<1>6. QED BY <1>3, <1>4, <1>5, DescriptorsAreItems, AppendAllTidies

-----------------------------------------------------------------------------
(* The rebuild: the baseline, rewritten by every allocation of the list.   *)

ListedAt(list, k, p) == \E i \in 1 .. k : p \in Frames(list[i])

RebuiltSays(table, list, k, p, x) ==
  IF ListedAt(list, k, p)
  THEN /\ \E i \in 1 .. k : /\ p \in Frames(list[i]) /\ x.state = list[i].state
                            /\ x.usage = list[i].usage /\ x.owner = list[i].owner
       /\ \E y \in Entry : Shows(table, p, y) /\ x.source = y.source
  ELSE Shows(table, p, x)

LEMMA RebuildStep ==
  ASSUME NEW table, NEW list, Tidy(Entry, list), NEW k \in 1 .. Len(list),
         NEW t, NEW u, NEW a \in Entry, a = list[k],
         \A p \in Nat, x \in Entry : Shows(t, p, x) <=> RebuiltSays(table, list, k - 1, p, x),
         \A p \in Nat, x \in Entry : Shows(u, p, x) <=> SaysAs(t, a, p, x)
  PROVE  \A p \in Nat, x \in Entry : Shows(u, p, x) <=> RebuiltSays(table, list, k, p, x)
<1>1. /\ k \in Nat /\ k >= 1 /\ k <= Len(list) /\ Len(list) \in Nat
      /\ \A i \in 1 .. Len(list) : list[i] \in Entry
  BY DEF Tidy
<1>4. \A i \in 1 .. k : i = k \/ i \in 1 .. k - 1
  BY <1>1
<1>5. k \in 1 .. k /\ \A i \in 1 .. k - 1 : i \in 1 .. k
  BY <1>1
<1> SUFFICES ASSUME NEW p \in Nat, NEW x \in Entry
             PROVE  Shows(u, p, x) <=> RebuiltSays(table, list, k, p, x)
  OBVIOUS
<1>6. CASE p \in Frames(a)
  <2>1. p \in Span(a.base, a.count)
    BY <1>6 DEF Frames
  <2>2. \A i \in 1 .. k - 1 : p \notin Frames(list[i])
    <3> SUFFICES ASSUME NEW i \in 1 .. k - 1, p \in Frames(list[i]) PROVE FALSE
      OBVIOUS
    <3>1. i \in 1 .. Len(list) /\ i < k
      BY <1>1
    <3>2. PICK e \in Entry : e = list[i]
      BY <1>1, <3>1
    <3>3. e.base \in Nat /\ e.count \in Nat /\ a.base \in Nat /\ a.count \in Nat
      BY DEF Entry
    <3>4. e.base + e.count <= a.base
      BY <1>1, <3>1, <3>2 DEF Tidy, End
    <3>5. p <= e.base + e.count - 1 /\ p >= a.base
      BY <1>6, <3>2, <3>3 DEF Frames, Span
    <3>6. QED BY ONLY <3>3, <3>4, <3>5, p \in Nat
  <2>3. ~ListedAt(list, k - 1, p)
    BY <2>2 DEF ListedAt
  <2>4. \A y \in Entry : Shows(t, p, y) <=> Shows(table, p, y)
    BY <2>3 DEF RebuiltSays
  <2>5. ListedAt(list, k, p)
    BY <1>5, <1>6 DEF ListedAt
  <2>6. RebuiltSays(table, list, k, p, x) <=>
          /\ \E i \in 1 .. k : /\ p \in Frames(list[i]) /\ x.state = list[i].state
                               /\ x.usage = list[i].usage /\ x.owner = list[i].owner
          /\ \E y \in Entry : Shows(table, p, y) /\ x.source = y.source
    BY <2>5 DEF RebuiltSays
  <2>7. (\E i \in 1 .. k : /\ p \in Frames(list[i]) /\ x.state = list[i].state
                           /\ x.usage = list[i].usage /\ x.owner = list[i].owner)
          <=> x.state = a.state /\ x.usage = a.usage /\ x.owner = a.owner
    BY <1>4, <1>5, <1>6, <2>2
  <2>8. Shows(u, p, x) <=>
               /\ x.state = a.state /\ x.usage = a.usage /\ x.owner = a.owner
               /\ \E y \in Entry : Shows(t, p, y) /\ x.source = y.source
    BY <2>1 DEF RangeSays, SaysAs
  <2>9. QED BY <2>4, <2>6, <2>7, <2>8
<1>7. CASE p \notin Frames(a)
  <2>1. Shows(u, p, x) <=> Shows(t, p, x)
    BY <1>7 DEF Frames, RangeSays, SaysAs
  <2>2. RebuiltSays(table, list, k, p, x) <=> RebuiltSays(table, list, k - 1, p, x)
    <3>1. ListedAt(list, k, p) <=> ListedAt(list, k - 1, p)
      BY <1>4, <1>5, <1>7 DEF ListedAt
    <3>2. (\E i \in 1 .. k : /\ p \in Frames(list[i]) /\ x.state = list[i].state
                             /\ x.usage = list[i].usage /\ x.owner = list[i].owner)
            <=> \E i \in 1 .. k - 1 : /\ p \in Frames(list[i]) /\ x.state = list[i].state
                                      /\ x.usage = list[i].usage /\ x.owner = list[i].owner
      BY <1>4, <1>5, <1>7
    <3>3. QED BY <3>1, <3>2 DEF RebuiltSays
  <2>3. QED BY <2>1, <2>2
<1>8. QED BY <1>6, <1>7

LEMMA RebuiltTable ==
  ASSUME Tidy(Entry, baseline), NEW list, Tidy(Entry, list),
         NEW u, u = RebuildCurrentPageFrameDatabase(list)
  PROVE  /\ u \in Results(Entry) /\ Tidy(Entry, u.table)
         /\ FramesOf(u.table) = FramesOf(baseline)
         /\ u.ok => \A p \in Nat, x \in Entry :
              Shows(u.table, p, x) <=> RebuiltSays(baseline, list, Len(list), p, x)
<1> DEFINE n == Len(list)
           start == Done(baseline)
           R == {r \in Results(Entry) : Tidy(Entry, r.table) /\ FramesOf(r.table) = FramesOf(baseline)}
           Step(t, a) == IF t.ok THEN RewriteFrameDatabaseRange(t.table, a.base, a.count,
                                                                a.state, a.usage, a.owner)
                         ELSE t
           F == [t \in R |-> [a \in Entry |-> Step(t, a)]]
           Folded(it) == it = [x \in SUBSET (DOMAIN list) |->
                                 IF x = {} THEN start ELSE Step(it[x \ {Max(x)}], list[Max(x)])]
           fold == CHOOSE it : Folded(it)
<1>1. n \in Nat /\ DOMAIN list = 1 .. n /\ list \in Seq(Entry) /\ \A i \in 1 .. n : list[i] \in Entry
  BY DEF Tidy
<1>2. start \in R /\ start.ok /\ start.table = baseline
  <2>1. start.ok /\ start.table = baseline /\ start \in Results(Entry)
    BY DEF Done, Results, Tidy
  <2>2. QED BY <2>1
<1>3. ASSUME NEW t \in R, NEW a \in Entry
      PROVE  /\ Step(t, a) \in R
             /\ Step(t, a).ok => t.ok
             /\ t.ok => Step(t, a) = RewriteAs(t.table, a)
  <2>1. CASE ~t.ok
    BY <2>1
  <2>2. CASE t.ok
    <3>1. Step(t, a) = RewriteAs(t.table, a)
      BY <2>2 DEF RewriteAs
    <3>2. PICK tt : tt = t.table /\ Tidy(Entry, tt) /\ FramesOf(tt) = FramesOf(baseline)
      OBVIOUS
    <3>3. PICK v : v = RewriteAs(tt, a)
      OBVIOUS
    <3>4. v \in Results(Entry) /\ Tidy(Entry, v.table) /\ FramesOf(v.table) = FramesOf(tt)
      BY <3>2, <3>3, RewrittenAs
    <3>5. QED BY <2>2, <3>1, <3>2, <3>3, <3>4
  <2>3. QED BY <2>1, <2>2 DEF Results
<1>4. F \in [R -> [Entry -> R]]
  BY <1>3
<1> HIDE DEF R, Step, start
<1>5. \E it : Folded(it)
  <2>1. PICK it : FoldsWithin(R, Entry, F, start, list, it)
    <3> HIDE DEF F
    <3>1. QED BY <1>1, <1>2, <1>4, FoldValues
  <2>2. \A x \in SUBSET (DOMAIN list) : x # {} =>
          F[it[x \ {Max(x)}]][list[Max(x)]] = Step(it[x \ {Max(x)}], list[Max(x)])
    BY <2>1 DEF FoldsWithin
  <2>3. Folded(it)
    <3> HIDE DEF F
    <3>1. QED BY <2>1, <2>2 DEF Folds, FoldsWithin
  <2>4. QED BY <2>3
<1>6. Folded(fold)
  <2> HIDE DEF Folded
  <2>1. QED BY <1>5
<1>7. u = fold[1 .. n]
  BY <1>1, Zenon DEF RebuildCurrentPageFrameDatabase, FoldLeft, MapThenFoldSet, Step, start
<1>8. fold[{}] = start /\ \A k \in 1 .. n : fold[1 .. k] = Step(fold[1 .. k - 1], list[k])
  <2> HIDE DEF fold
  <2>1. fold[{}] = start
    BY <1>6
  <2>2. ASSUME NEW k \in 1 .. n
        PROVE  fold[1 .. k] = Step(fold[1 .. k - 1], list[k])
    <3>1. 1 .. k \in SUBSET (DOMAIN list) /\ 1 .. k # {}
          /\ Max(1 .. k) = k /\ (1 .. k) \ {k} = 1 .. k - 1
      BY <1>1, FoldPrefixes
    <3>2. QED BY <1>6, <3>1
  <2>3. QED BY <2>1, <2>2
<1> HIDE DEF fold, Folded
<1> DEFINE Sound(k) == /\ fold[1 .. k] \in R
                       /\ fold[1 .. k].ok => \A p \in Nat, x \in Entry :
                            Shows(fold[1 .. k].table, p, x) <=> RebuiltSays(baseline, list, k, p, x)
           SoundUpTo == {k \in 0 .. n : Sound(k)}
<1>9. 0 \in SoundUpTo
  <2>1. fold[1 .. 0] = start /\ 0 \in 0 .. n
    BY <1>1, <1>8, FoldPrefixes
  <2>2. \A p \in Nat, x \in Entry : Shows(baseline, p, x) <=> RebuiltSays(baseline, list, 0, p, x)
    BY DEF RebuiltSays, ListedAt
  <2>3. QED BY <1>2, <2>1, <2>2
<1>10. ASSUME NEW k \in 1 .. n, Sound(k - 1)
       PROVE  Sound(k)
  <2>1. PICK a \in Entry, t \in R : a = list[k] /\ t = fold[1 .. k - 1]
    BY <1>1, <1>10
  <2>2. PICK v : v = fold[1 .. k] /\ v = Step(t, a)
    BY <1>8, <2>1
  <2>3. v \in R
    BY <1>3, <2>2
  <2>4. ASSUME v.ok
        PROVE  \A p \in Nat, x \in Entry : Shows(v.table, p, x) <=> RebuiltSays(baseline, list, k, p, x)
    <3>1. t.ok /\ v = RewriteAs(t.table, a)
      BY <1>3, <2>2, <2>4
    <3>2. PICK tt : tt = t.table /\ Tidy(Entry, tt)
      BY DEF R
    <3>3. \A p \in Nat, x \in Entry : Shows(tt, p, x) <=> RebuiltSays(baseline, list, k - 1, p, x)
      BY <1>10, <2>1, <3>1, <3>2
    <3>4. v = RewriteAs(tt, a)
      BY <3>1, <3>2
    <3>5. \A p \in Nat, x \in Entry : Shows(v.table, p, x) <=> SaysAs(tt, a, p, x)
      BY <2>4, <3>2, <3>4, RewrittenAs
    <3>6. QED BY <2>1, <3>3, <3>5, RebuildStep
  <2>5. QED BY <2>2, <2>3, <2>4
<1>11. \A k \in 1 .. n : k - 1 \in SoundUpTo => k \in SoundUpTo
  <2> HIDE DEF Sound
  <2>1. \A k \in 1 .. n : k \in 0 .. n
    BY <1>1
  <2>2. QED BY <1>10, <2>1
<1>12. \A k \in 0 .. n : k \in SoundUpTo
  <2> HIDE DEF SoundUpTo
  <2>1. QED BY <1>1, <1>9, <1>11, NatInductionSet
<1>13. Sound(n)
  <2> HIDE DEF Sound
  <2>1. QED BY <1>1, <1>12
<1>14. QED BY <1>7, <1>13 DEF R

-----------------------------------------------------------------------------
(* The answers the handlers record.                                        *)

Grants == [base : Nat, count : Pages, usage : Usages, owner : Owners]

LEMMA RequestFields ==
  /\ \A r \in ClaimRequests : /\ r.count \in Pages /\ r.min \in Nat /\ r.max \in Nat /\ r.align \in Nat
                              /\ r.desired \in Nat /\ r.owner \in Owners /\ r.below4G \in BOOLEAN
                              /\ EffectiveOwner(r.owner) \in Owners
                              /\ EffectiveAlignment(r.align) \in Nat /\ EffectiveAlignment(r.align) > 0
  /\ \A r \in ReserveRequests : /\ r.base \in Nat /\ r.count \in Pages
                                /\ EffectiveOwner(r.owner) \in Owners
  /\ \A r \in TrackedRequests : /\ r.count \in Pages /\ r.align \in Nat /\ r.below4G \in BOOLEAN
                                /\ r.usage \in Usages \ {"dynamic_reserved", "dynamic_claimed"}
                                /\ EffectiveAlignment(r.align) \in Nat /\ EffectiveAlignment(r.align) > 0
  /\ \A r \in FreeRanges : r.base \in Nat /\ r.count \in Pages
<1>1. ASSUME NEW r \in ClaimRequests
      PROVE  /\ r.count \in Pages /\ r.min \in Nat /\ r.max \in Nat /\ r.align \in Nat
             /\ r.desired \in Nat /\ r.owner \in Owners /\ r.below4G \in BOOLEAN
  BY RequestsAssumption
<1>2. ASSUME NEW r \in ReserveRequests
      PROVE  r.base \in Nat /\ r.count \in Pages /\ r.owner \in Owners
  BY RequestsAssumption
<1>3. ASSUME NEW r \in TrackedRequests
      PROVE  /\ r.count \in Pages /\ r.align \in Nat /\ r.below4G \in BOOLEAN
             /\ r.usage \in Usages \ {"dynamic_reserved", "dynamic_claimed"}
  BY RequestsAssumption
<1>4. ASSUME NEW r \in FreeRanges
      PROVE  r.base \in Nat /\ r.count \in Pages
  BY RequestsAssumption
<1>5. \A o \in Owners : EffectiveOwner(o) \in Owners
  BY FieldsAssumption DEF EffectiveOwner
<1>6. \A a \in Nat : EffectiveAlignment(a) \in Nat /\ EffectiveAlignment(a) > 0
  BY DEF EffectiveAlignment
<1>7. QED BY <1>1, <1>2, <1>3, <1>4, <1>5, <1>6

LEMMA LimitsAreNaturals ==
  ASSUME Tidy(Entry, database)
  PROVE  /\ DatabaseLimit \in Nat
         /\ \A l \in Nat, b \in BOOLEAN : Below4G(l, b) \in Nat
         /\ \A r \in ClaimRequests : ClaimLimit(r) \in Nat
<1>1. DatabaseLimit \in Nat
  <2>1. CASE database = <<>>
    BY <2>1 DEF DatabaseLimit
  <2>2. CASE database # <<>>
    <3>1. database \in Seq(Entry) /\ Len(database) \in 1 .. Len(database)
      BY <2>2 DEF Tidy
    <3>2. database[Len(database)] \in Entry
      BY <3>1
    <3>3. QED BY <2>2, <3>2 DEF DatabaseLimit, Last, End, Entry
  <2>3. QED BY <2>1, <2>2
<1>2. \A l \in Nat, b \in BOOLEAN : Below4G(l, b) \in Nat
  BY FourGigabytesAssumption DEF Below4G, Smaller
<1>3. \A r \in ClaimRequests : ClaimLimit(r) \in Nat
  <2> TAKE r \in ClaimRequests
  <2>1. r.max \in Nat /\ r.below4G \in BOOLEAN
    BY RequestFields
  <2>2. PICK l \in Nat : l = IF r.max = 0 THEN DatabaseLimit ELSE Smaller(r.max, DatabaseLimit)
    BY <1>1, <2>1 DEF Smaller
  <2>3. ClaimLimit(r) = Below4G(l, r.below4G)
    BY <2>2 DEF ClaimLimit
  <2>4. QED BY <1>2, <2>1, <2>3
<1>4. QED BY <1>1, <1>2, <1>3

FreeSpan(base, count) == base \in Nat /\ \A p \in Span(base, count) : FreeAt(database, p)

LEMMA CoveredIsFree ==
  ASSUME Tidy(Entry, database), NEW base \in Nat, NEW count \in Nat,
         CoversWithState(database, base, count, "free")
  PROVE  FreeSpan(base, count)
<1>1. ToSet(database) = {database[i] : i \in 1 .. Len(database)}
  BY DEF ToSet, Tidy
<1>2. QED BY <1>1 DEF CoversWithState, FreeSpan, FreeAt

LEMMA SearchFindsFreeSpan ==
  ASSUME NEW table, table = database, table \in Seq(Entry), NEW count \in Nat,
         NEW lowest \in Nat, NEW limit \in Nat, NEW align \in Nat, align > 0,
         NEW run, run = FindClaimableContiguousRange(table, lowest, limit, align, count), run.found
  PROVE  FreeSpan(run.base, count)
<1>1. run.base \in Nat /\ (run.found => \A p \in Span(run.base, count) : FreeAt(table, p))
  BY SearchFindsFree
<1>2. QED BY <1>1 DEF FreeSpan

(* A claim that succeeds names free frames of the database.                *)
LEMMA ClaimsAnswerFree ==
  ASSUME Tidy(Entry, database), NEW r \in ClaimRequests, ClaimAnswer(r).status = "success"
  PROVE  FreeSpan(ClaimAnswer(r).base, r.count)
<1>1. r.min \in Nat /\ r.desired \in Nat /\ r.count \in Nat /\ r.count \in Pages
  BY RequestFields DEF Pages
<1>2. CASE ClaimAnswer(r) = ExactAnswer(r.desired, r.count)
  <2>1. ExactAnswer(r.desired, r.count).status = "success"
    BY <1>2
  <2>2. /\ CoversWithState(database, r.desired, r.count, "free")
        /\ ExactAnswer(r.desired, r.count) = Granted(r.desired)
    <3>1. CASE ~Covers(database, r.desired, r.count)
      BY <2>1, <3>1 DEF ExactAnswer, Refused
    <3>2. CASE /\ Covers(database, r.desired, r.count)
               /\ CoversWithState(database, r.desired, r.count, "free")
      BY <3>2 DEF ExactAnswer
    <3>3. CASE /\ Covers(database, r.desired, r.count)
               /\ ~CoversWithState(database, r.desired, r.count, "free")
      BY <2>1, <3>3 DEF ExactAnswer, Refused
    <3>4. QED BY <3>1, <3>2, <3>3
  <2>3. FreeSpan(r.desired, r.count)
    BY <1>1, <2>2, CoveredIsFree
  <2>4. QED BY <1>2, <2>2, <2>3 DEF Granted
<1>3. CASE ClaimAnswer(r) = SearchAnswer(r)
  <2>1. SearchAnswer(r).status = "success"
    BY <1>3
  <2>2. Found(r).found /\ SearchAnswer(r) = Granted(Found(r).base)
    BY <2>1 DEF SearchAnswer, Refused
  <2>3. PICK lo, hi, al, c \in Nat :
          /\ lo = r.min /\ hi = ClaimLimit(r) /\ al = EffectiveAlignment(r.align) /\ c = r.count /\ al > 0
    BY <1>1, RequestFields, LimitsAreNaturals
  <2>4. PICK run : run = FindClaimableContiguousRange(database, lo, hi, al, c)
    OBVIOUS
  <2>5. database \in Seq(Entry) /\ run = Found(r)
    BY <2>3, <2>4 DEF Tidy, Found
  <2>6. FreeSpan(run.base, c)
    BY <2>2, <2>3, <2>4, <2>5, SearchFindsFreeSpan
  <2>7. QED BY <1>3, <2>2, <2>3, <2>5, <2>6 DEF Granted
<1>4. CASE \E s \in {"invalid", "out_of_range"} : ClaimAnswer(r) = Refused(s)
  BY <1>4 DEF Refused
<1>5. QED BY <1>2, <1>3, <1>4 DEF ClaimAnswer

LEMMA TrackedClaimsFindFree ==
  ASSUME Tidy(Entry, database), NEW r \in TrackedRequests, TrackedFound(r).found
  PROVE  FreeSpan(TrackedFound(r).base, r.count)
<1>1. PICK hi, al, c \in Nat :
        /\ hi = Below4G(DatabaseLimit, r.below4G) /\ al = EffectiveAlignment(r.align)
        /\ c = r.count /\ al > 0
  BY RequestFields, LimitsAreNaturals DEF Pages
<1>2. PICK run : run = FindClaimableContiguousRange(database, 1, hi, al, c)
  OBVIOUS
<1>3. database \in Seq(Entry) /\ run = TrackedFound(r)
  BY <1>1, <1>2 DEF Tidy, TrackedFound
<1>4. FreeSpan(run.base, c)
  BY <1>1, <1>2, <1>3, SearchFindsFreeSpan
<1>5. QED BY <1>1, <1>3, <1>4

-----------------------------------------------------------------------------
(* The arrays stay tidy.                                                   *)

(* The inductive invariant: every array is tidy whether or not the view is *)
(* ready, whatever a failed operation left behind, and a rebuild keeps the *)
(* frames of the baseline.                                                 *)
Tables ==
  /\ Tidy(Entry, baseline) /\ Tidy(Entry, database) /\ Tidy(Entry, allocations)
  /\ Tidy(Descriptor, descriptors)
  /\ grants \subseteq Grants
  /\ view = "ready" => FramesOf(database) = FramesOf(baseline)

tableVars == <<view, baseline, database, allocations, descriptors, grants>>

LEMMA TablesStutter ==
  ASSUME Tables, UNCHANGED tableVars
  PROVE  Tables'
BY DEF Tables, tableVars

LEMMA EmptyIsTidy ==
  ASSUME NEW E
  PROVE  Tidy(E, <<>>)
BY MaxEntriesAssumption DEF Tidy

LEMMA HaltKeepsTables ==
  ASSUME Tables, NEW rule, NEW base, NEW count, Halt(rule, base, count)
  PROVE  Tables'
BY TablesStutter DEF Halt, tableVars

LEMMA PublishKeepsTables ==
  ASSUME Tables, NEW list, Tidy(Entry, list), Publish(list), grants' \subseteq Grants
  PROVE  Tables'
<1>1. Tidy(Entry, baseline)
  BY DEF Tables
<1>2. PICK u : u = RebuildCurrentPageFrameDatabase(list)
  OBVIOUS
<1>3. Tidy(Entry, u.table) /\ FramesOf(u.table) = FramesOf(baseline)
  BY <1>1, <1>2, RebuiltTable
<1>4. Tidy(Descriptor, RefreshInternalDescriptors(u.table))
  BY <1>3, RefreshedDescriptors
<1>5. /\ allocations' = list /\ database' = u.table /\ baseline' = baseline
      /\ descriptors' = descriptors \/ descriptors' = RefreshInternalDescriptors(u.table)
  BY <1>2 DEF Publish
<1>6. QED BY <1>1, <1>3, <1>4, <1>5 DEF Tables

LEMMA AllocationIsEntry ==
  ASSUME NEW base \in Nat, NEW count \in Nat, NEW usage \in Usages, NEW owner \in Owners,
         NEW a, a = Allocation(base, count, usage, owner)
  PROVE  /\ a \in Entry /\ a.base = base /\ a.count = count /\ a.state = "reserved"
         /\ a.usage = usage /\ a.owner = owner /\ a.source = "runtime"
BY FieldsAssumption DEF Allocation, Entry, States

LEMMA InsertedAllocation ==
  ASSUME Tidy(Entry, allocations), NEW base \in Nat, NEW count \in Pages,
         NEW usage \in Usages, NEW owner \in Owners,
         ~Overlapping(base, count),
         NEW a, a = Allocation(base, count, usage, owner), NEW u, u = InsertEntry(allocations, a)
  PROVE  /\ Tidy(Entry, u.table)
         /\ u.ok => \A p \in Nat, x \in Entry :
              Shows(u.table, p, x) <=> Shows(allocations, p, x) \/ (p \in Frames(a) /\ SaysTheSame(a, x))
<1>1. count \in Nat /\ count > 0
  BY DEF Pages
<1>2. a \in Entry /\ a.base = base /\ a.count = count
  BY <1>1, AllocationIsEntry
<1>3. \A i \in 1 .. Len(allocations) : allocations[i] \in ToSet(allocations)
  BY DEF ToSet, Tidy
<1>4. \A i \in 1 .. Len(allocations) : Outside(allocations[i], a.base, a.count)
  BY <1>2, <1>3 DEF Overlapping
<1>5. QED BY <1>1, <1>2, <1>4, InsertedEntry

LEMMA RecordKeepsTables ==
  ASSUME Tables, NEW base \in Nat, NEW count \in Pages, NEW usage \in Usages, NEW owner \in Owners,
         Record(base, count, usage, owner)
  PROVE  Tables'
<1>1. PICK a : a = Allocation(base, count, usage, owner)
  OBVIOUS
<1>2. PICK u : u = InsertEntry(allocations, a)
  OBVIOUS
<1>3. PICK g : g = [base |-> base, count |-> count, usage |-> usage, owner |-> owner]
  OBVIOUS
<1>4. g \in Grants /\ grants \subseteq Grants /\ Tidy(Entry, allocations)
  BY <1>3 DEF Grants, Tables
<1>5. CASE Halt("overlapping-physical-ranges", base, count)
  BY <1>5, HaltKeepsTables
<1>6. CASE ~Overlapping(base, count) /\ Publish(u.table)
           /\ grants' = IF Published(u.table) THEN grants \cup {g} ELSE grants
  <2>1. Tidy(Entry, u.table)
    BY <1>1, <1>2, <1>4, <1>6, InsertedAllocation
  <2>2. grants' \subseteq Grants
    BY <1>4, <1>6
  <2>3. QED BY <1>6, <2>1, <2>2, PublishKeepsTables
<1>7. CASE UNCHANGED vars
  BY <1>7, TablesStutter DEF vars, tableVars
<1>8. QED BY <1>1, <1>2, <1>3, <1>5, <1>6, <1>7 DEF Record

LEMMA ReleaseKeepsTables ==
  ASSUME Tables, NEW base \in Nat, NEW count \in Nat, Release(base, count)
  PROVE  Tables'
<1>1. PICK u : u = RemoveRange(allocations, base, count)
  OBVIOUS
<1>2. grants \subseteq Grants /\ Tidy(Entry, allocations)
  BY DEF Tables
<1>3. Tidy(Entry, u.table)
  BY <1>1, <1>2, RemovedRange
<1>4. Publish(u.table) /\ grants' \subseteq Grants
  BY <1>1, <1>2 DEF Release
<1>5. QED BY <1>3, <1>4, PublishKeepsTables

LEMMA BuildKeepsTables ==
  ASSUME Tables, NEW table \in RegionTables, BuildMemoryView(table)
  PROVE  Tables'
<1>1. CASE OverlapAt(table) # {}
  <2>1. \E rule, base, count : Halt(rule, base, count)
    BY <1>1 DEF BuildMemoryView
  <2>2. QED BY <2>1, HaltKeepsTables
<1>2. CASE OverlapAt(table) = {}
  <2>1. PICK ingested : ingested = IngestedRegions(table)
    OBVIOUS
  <2>2. ingested \in Results(Entry) /\ Tidy(Entry, ingested.table)
    BY <1>2, <2>1, IngestedTable
  <2>3. PICK built : built = ReservedOverlays(ingested)
    OBVIOUS
  <2>4. built \in Results(Entry) /\ Tidy(Entry, built.table)
    BY <2>2, <2>3, OverlaidTable
  <2>5. /\ Tidy(Descriptor, RefreshInternalDescriptors(built.table))
        /\ Tidy(Descriptor, RefreshInternalDescriptors(ingested.table))
        /\ Tidy(Entry, <<>>)
    BY <2>2, <2>4, RefreshedDescriptors, EmptyIsTidy
  <2>6. /\ view' = IF built.ok THEN "ready" ELSE "rejected"
        /\ database' = built.table
        /\ baseline' = IF built.ok THEN built.table ELSE <<>>
        /\ descriptors' = RefreshInternalDescriptors(IF built.ok THEN built.table ELSE ingested.table)
        /\ UNCHANGED <<allocations, grants>>
    BY <1>2, <2>1, <2>3 DEF BuildMemoryView
  <2>7. CASE built.ok
    BY <2>4, <2>5, <2>6, <2>7 DEF Tables
  <2>8. CASE ~built.ok
    BY <2>4, <2>5, <2>6, <2>8 DEF Tables
  <2>9. QED BY <2>7, <2>8
<1>3. QED BY <1>1, <1>2

LEMMA ClaimKeepsTables ==
  ASSUME Tables, NEW r \in ClaimRequests, ClaimFrames(r)
  PROVE  Tables'
<1>1. CASE \E rule, base, count : Halt(rule, base, count)
  BY <1>1, HaltKeepsTables
<1>2. CASE /\ ClaimAnswer(r).status = "success"
           /\ Record(ClaimAnswer(r).base, r.count, "dynamic_claimed", EffectiveOwner(r.owner))
  <2>1. Tidy(Entry, database)
    BY DEF Tables
  <2>2. ClaimAnswer(r).base \in Nat
    BY <1>2, <2>1, ClaimsAnswerFree DEF FreeSpan
  <2>3. r.count \in Pages /\ EffectiveOwner(r.owner) \in Owners /\ "dynamic_claimed" \in Usages
    BY RequestFields, FieldsAssumption
  <2>4. QED BY <1>2, <2>2, <2>3, RecordKeepsTables
<1>3. QED BY <1>1, <1>2 DEF ClaimFrames

LEMMA ReserveKeepsTables ==
  ASSUME Tables, NEW r \in ReserveRequests, ReserveFrames(r)
  PROVE  Tables'
<1>1. CASE \E rule, base, count : Halt(rule, base, count)
  BY <1>1, HaltKeepsTables
<1>2. CASE Record(r.base, r.count, "dynamic_reserved", EffectiveOwner(r.owner))
  <2>1. /\ r.base \in Nat /\ r.count \in Pages /\ EffectiveOwner(r.owner) \in Owners
        /\ "dynamic_reserved" \in Usages
    BY RequestFields, FieldsAssumption
  <2>2. QED BY <1>2, <2>1, RecordKeepsTables
<1>3. QED BY <1>1, <1>2 DEF ReserveFrames

LEMMA TrackedClaimKeepsTables ==
  ASSUME Tables, NEW r \in TrackedRequests, ClaimTrackedFrames(r)
  PROVE  Tables'
<1>1. CASE \E rule, base, count : Halt(rule, base, count)
  BY <1>1, HaltKeepsTables
<1>2. CASE TrackedFound(r).found /\ Record(TrackedFound(r).base, r.count, r.usage, "claimed")
  <2>1. Tidy(Entry, database)
    BY DEF Tables
  <2>2. TrackedFound(r).base \in Nat
    BY <1>2, <2>1, TrackedClaimsFindFree DEF FreeSpan
  <2>3. r.count \in Pages /\ r.usage \in Usages /\ "claimed" \in Owners
    BY RequestFields, FieldsAssumption
  <2>4. QED BY <1>2, <2>2, <2>3, RecordKeepsTables
<1>3. QED BY <1>1, <1>2 DEF ClaimTrackedFrames

LEMMA FreeKeepsTables ==
  ASSUME Tables, NEW base \in Nat, NEW count \in Pages, FreeFrames(base, count)
  PROVE  Tables'
<1>1. CASE \E rule : Halt(rule, base, count)
  BY <1>1, HaltKeepsTables
<1>2. CASE Release(base, count)
  BY <1>2, ReleaseKeepsTables DEF Pages
<1>3. QED BY <1>1, <1>2 DEF FreeFrames

LEMMA TrackedFreeKeepsTables ==
  ASSUME Tables, NEW g \in grants, FreeTrackedFrames(g)
  PROVE  Tables'
<1>1. g.base \in Nat /\ g.count \in Nat
  BY DEF Tables, Grants, Pages
<1>2. QED BY <1>1, ReleaseKeepsTables DEF FreeTrackedFrames

LEMMA TablesInductive ==
  ASSUME Tables, [Next]_vars
  PROVE  Tables'
<1>1. CASE \E t \in RegionTables : BuildMemoryView(t)
  BY <1>1, BuildKeepsTables
<1>2. CASE \E r \in ClaimRequests : ClaimFrames(r)
  BY <1>2, ClaimKeepsTables
<1>3. CASE \E r \in ClaimRequests : AllocateFrames(r)
  BY <1>3, ClaimKeepsTables DEF AllocateFrames
<1>4. CASE \E r \in ReserveRequests : ReserveFrames(r)
  BY <1>4, ReserveKeepsTables
<1>5. CASE \E r \in TrackedRequests : ClaimTrackedFrames(r)
  BY <1>5, TrackedClaimKeepsTables
<1>6. CASE \E r \in FreeRanges : FreeFrames(r.base, r.count)
  BY <1>6, RequestFields, FreeKeepsTables
<1>7. CASE \E g \in grants : FreeFrames(g.base, g.count)
  <2>1. \A g \in grants : g.base \in Nat /\ g.count \in Pages
    BY DEF Tables, Grants
  <2>2. QED BY <1>7, <2>1, FreeKeepsTables
<1>8. CASE \E g \in grants : FreeTrackedFrames(g)
  BY <1>8, TrackedFreeKeepsTables
<1>9. CASE UNCHANGED vars
  BY <1>9, TablesStutter DEF vars, tableVars
<1>10. QED BY <1>1, <1>2, <1>3, <1>4, <1>5, <1>6, <1>7, <1>8, <1>9 DEF Next

LEMMA TablesInitially == Init => Tables
<1>1. Tidy(Entry, <<>>) /\ Tidy(Descriptor, <<>>)
  BY EmptyIsTidy
<1>2. QED BY <1>1 DEF Init, Tables

LEMMA TidyIsCanonical ==
  ASSUME NEW t, Tidy(Entry, t)
  PROVE  Canonical(t) /\ Len(t) <= MaxEntries
<1>1. \A i \in 1 .. Len(t) - 1 : i \in 1 .. Len(t) /\ i + 1 \in 1 .. Len(t) /\ i < i + 1
  BY DEF Tidy
<1>2. QED BY <1>1 DEF Tidy, Canonical

LEMMA AlwaysTables == Spec => []Tables
<1>1. Init => Tables
  BY TablesInitially
<1>2. Tables /\ [Next]_vars => Tables'
  BY TablesInductive
<1>3. QED BY <1>1, <1>2, PTL DEF Spec

(* After any sequence of cuts, insertions and removals, whatever of them   *)
(* failed, every array is ordered, disjoint and as short as it can be, and *)
(* the current database describes the frames of the baseline.              *)
THEOREM TablesAlwaysCanonical == Spec => []TablesStayCanonical
<1>1. Tables => TablesStayCanonical
  <2> SUFFICES ASSUME Tables, view = "ready" PROVE TablesStayCanonical
    BY DEF TablesStayCanonical
  <2>1. \A t \in {baseline, database, allocations} : Canonical(t) /\ Len(t) <= MaxEntries
    BY TidyIsCanonical DEF Tables
  <2>2. Len(descriptors) <= MaxEntries
    BY DEF Tables, Tidy
  <2>3. QED BY <2>1, <2>2 DEF TablesStayCanonical, Tables
<1>2. QED BY <1>1, AlwaysTables, PTL

-----------------------------------------------------------------------------
(* What the arrays say of the grants in force.                             *)

(* What a held frame is said to be in the list of allocations.             *)
Takes(g, p, x) ==
  /\ p \in Frames(g) /\ x.state = "reserved" /\ x.source = "runtime"
  /\ x.usage = g.usage /\ x.owner = g.owner

GrantsListed ==
  \A p \in Nat, x \in Entry : Shows(allocations, p, x) <=> \E g \in grants : Takes(g, p, x)

GrantsApart ==
  \A g, h \in grants : (\E p \in Nat : p \in Frames(g) /\ p \in Frames(h)) => g = h

DatabaseRebuilt ==
  view = "ready" =>
    \A p \in Nat, x \in Entry :
      Shows(database, p, x) <=> RebuiltSays(baseline, allocations, Len(allocations), p, x)

NothingYet == view # "ready" => baseline = <<>> /\ allocations = <<>> /\ grants = {}

(* The inductive invariant: the list says what the grants say, no frame is *)
(* granted twice, and the database is the baseline rewritten by the list,  *)
(* until a rebuild runs out of entries.                                    *)
Explained == NothingYet /\ (~ranOut => GrantsListed /\ GrantsApart /\ DatabaseRebuilt)

(* A span whose frames all say the same lies in one entry of a tidy array. *)
LEMMA TidySpan ==
  ASSUME NEW t, Tidy(Entry, t), NEW base \in Nat, NEW count \in Nat, NEW x \in Entry,
         \A p \in Span(base, count) : Shows(t, p, x),
         NEW i \in 1 .. Len(t), NEW q \in Span(base, count), q \in Frames(t[i])
  PROVE  Span(base, count) \subseteq Frames(t[i])
<1>1. /\ t \in Seq(Entry) /\ Len(t) \in Nat
      /\ \A j \in 1 .. Len(t) : t[j] \in Entry
  BY DEF Tidy
<1>2. \A e \in Entry : e.base \in Nat /\ End(e) \in Nat
  BY DEF Entry, End
<1>3. \A j \in 1 .. Len(t) : /\ t[j].base \in Nat /\ End(t[j]) \in Nat
                             /\ t[j].base < End(t[j])
                             /\ \A p \in Nat : p \in Frames(t[j]) <=> t[j].base <= p /\ p < End(t[j])
  <2> SUFFICES ASSUME NEW j \in 1 .. Len(t), NEW e \in Entry, e = t[j]
               PROVE  /\ e.base \in Nat /\ End(e) \in Nat /\ e.base < End(e)
                      /\ \A p \in Nat : p \in Frames(e) <=> e.base <= p /\ p < End(e)
    BY <1>1
  <2>1. e.count > 0
    BY DEF Tidy
  <2>2. PICK b, c \in Nat : b = e.base /\ c = e.count
    BY DEF Entry
  <2>3. End(e) = b + c /\ Frames(e) = b .. b + c - 1 /\ c > 0
    BY <2>1, <2>2 DEF End, Frames, Span
  <2>4. PICK d \in Nat : d = b + c
    OBVIOUS
  <2>5. b < d /\ \A p \in Nat : p \in b .. b + c - 1 <=> b <= p /\ p < d
    BY <2>3, <2>4
  <2>6. End(e) = d /\ e.base = b
    BY <2>2, <2>3, <2>4
  <2>7. QED BY <2>3, <2>5, <2>6
<1>4. \A j, k \in 1 .. Len(t) : j < k => End(t[j]) <= t[k].base
  BY DEF Tidy
<1>5. q \in Nat /\ base <= q /\ q < base + count
  BY DEF Span
<1>6. \A j \in 1 .. Len(t) : q \in Frames(t[j]) => j = i
  <2> SUFFICES ASSUME NEW j \in 1 .. Len(t), q \in Frames(t[j]), j # i PROVE FALSE
    OBVIOUS
  <2>1. /\ t[i].base <= q /\ q < End(t[i]) /\ t[j].base <= q /\ q < End(t[j])
    BY <1>3, <1>5
  <2>2. PICK a, b, c, d \in Nat : a = t[i].base /\ b = End(t[i]) /\ c = t[j].base /\ d = End(t[j])
    BY <1>3
  <2>3. b <= c \/ d <= a
    <3>1. j < i \/ i < j
      BY <1>1
    <3>2. QED BY <3>1, <2>2, <1>4
  <2>4. QED BY <2>1, <2>2, <2>3, <1>5
<1>7. SaysTheSame(t[i], x)
  BY <1>6 DEF Shows
<1>8. \A j \in 1 .. Len(t) : SaysTheSame(t[j], x) => SaysTheSame(t[i], t[j]) /\ SaysTheSame(t[j], t[i])
  BY <1>1, <1>7, SameEntry
<1>9. base + count <= End(t[i])
  <2> SUFFICES ASSUME End(t[i]) < base + count PROVE FALSE
    BY <1>3
  <2>1. PICK e \in Nat : e = End(t[i])
    BY <1>3
  <2>2. q < e /\ e < base + count
    BY <1>3, <1>5, <2>1
  <2>3. e \in Span(base, count)
    BY <1>5, <2>2 DEF Span
  <2>4. PICK j \in 1 .. Len(t) : e \in Frames(t[j]) /\ SaysTheSame(t[j], x)
    BY <2>3 DEF Shows
  <2>5. t[j].base <= e /\ e < End(t[j])
    BY <1>3, <2>4
  <2>6. j # i
    BY <2>1, <2>5
  <2>7. ~(j < i)
    <3> SUFFICES ASSUME j < i PROVE FALSE
      OBVIOUS
    <3>1. End(t[j]) <= t[i].base /\ t[i].base < End(t[i])
      BY <1>3, <1>4
    <3>2. PICK a, d \in Nat : a = t[i].base /\ d = End(t[j])
      BY <1>3
    <3>3. QED BY <3>1, <3>2, <2>1, <2>5
  <2>8. ~(i + 1 < j)
    <3> SUFFICES ASSUME i + 1 < j PROVE FALSE
      OBVIOUS
    <3>1. i + 1 \in 1 .. Len(t) /\ i < i + 1
      BY <1>1
    <3>2. End(t[i]) <= t[i + 1].base /\ t[i + 1].base < End(t[i + 1]) /\ End(t[i + 1]) <= t[j].base
      BY <1>3, <1>4, <3>1
    <3>3. PICK a, b, c \in Nat : a = t[i + 1].base /\ b = End(t[i + 1]) /\ c = t[j].base
      BY <1>3, <3>1
    <3>4. QED BY <3>2, <3>3, <2>1, <2>5
  <2>9. j = i + 1 /\ i \in 1 .. Len(t) - 1
    BY <1>1, <2>6, <2>7, <2>8
  <2>10. End(t[i]) = t[i + 1].base
    <3>1. e <= t[j].base
      BY <1>4, <2>1, <2>9
    <3>2. PICK c \in Nat : c = t[j].base
      BY <1>3
    <3>3. QED BY <3>1, <3>2, <2>1, <2>5, <2>9
  <2>11. Continues(t[i], t[i + 1])
    BY <1>8, <2>4, <2>9, <2>10 DEF Continues
  <2>12. QED BY <2>9, <2>11 DEF Tidy
<1>10. t[i].base <= base
  <2> SUFFICES ASSUME base < t[i].base PROVE FALSE
    BY <1>3
  <2>1. PICK f \in Nat : f = t[i].base
    BY <1>3
  <2>2. PICK e \in Nat : e = f - 1
    BY <2>1
  <2>3. base <= e /\ e < q /\ e < f
    BY <1>3, <1>5, <2>1, <2>2
  <2>4. e \in Span(base, count)
    BY <1>5, <2>3 DEF Span
  <2>5. PICK j \in 1 .. Len(t) : e \in Frames(t[j]) /\ SaysTheSame(t[j], x)
    BY <2>4 DEF Shows
  <2>6. t[j].base <= e /\ e < End(t[j])
    BY <1>3, <2>5
  <2>7. PICK c, d \in Nat : c = t[j].base /\ d = End(t[j])
    BY <1>3
  <2>8. j # i
    BY <2>1, <2>3, <2>6, <2>7
  <2>9. ~(i < j)
    <3> SUFFICES ASSUME i < j PROVE FALSE
      OBVIOUS
    <3>1. End(t[i]) <= c /\ t[i].base < End(t[i])
      BY <1>3, <1>4, <2>7
    <3>2. PICK b \in Nat : b = End(t[i])
      BY <1>3
    <3>3. QED BY <3>1, <3>2, <2>1, <2>3, <2>6, <2>7
  <2>10. ~(j + 1 < i)
    <3> SUFFICES ASSUME j + 1 < i PROVE FALSE
      OBVIOUS
    <3>1. j + 1 \in 1 .. Len(t) /\ j < j + 1
      BY <1>1
    <3>2. d <= t[j + 1].base /\ t[j + 1].base < End(t[j + 1]) /\ End(t[j + 1]) <= f
      BY <1>3, <1>4, <2>1, <2>7, <3>1
    <3>3. PICK a, b \in Nat : a = t[j + 1].base /\ b = End(t[j + 1])
      BY <1>3, <3>1
    <3>4. QED BY <3>2, <3>3, <2>2, <2>6, <2>7
  <2>11. i = j + 1 /\ j \in 1 .. Len(t) - 1
    BY <1>1, <2>8, <2>9, <2>10
  <2>12. End(t[j]) = t[j + 1].base
    <3>1. d <= f
      BY <1>4, <2>1, <2>7, <2>11
    <3>2. QED BY <3>1, <2>1, <2>2, <2>6, <2>7, <2>11
  <2>13. Continues(t[j], t[j + 1])
    BY <1>8, <2>5, <2>11, <2>12 DEF Continues
  <2>14. QED BY <2>11, <2>13 DEF Tidy
<1>11. PICK a, b \in Nat : a = t[i].base /\ b = End(t[i])
  BY <1>3
<1>12. \A p \in Span(base, count) : p \in Nat /\ a <= p /\ p < b
  BY <1>9, <1>10, <1>11 DEF Span
<1>13. QED BY <1>3, <1>11, <1>12

explainedVars == <<view, baseline, database, allocations, grants, ranOut>>

LEMMA ExplainedStutter ==
  ASSUME Explained, UNCHANGED explainedVars
  PROVE  Explained'
BY DEF Explained, NothingYet, GrantsListed, GrantsApart, DatabaseRebuilt, explainedVars

LEMMA HaltKeepsExplained ==
  ASSUME Explained, NEW rule, NEW base, NEW count, Halt(rule, base, count)
  PROVE  Explained'
BY ExplainedStutter DEF Halt, explainedVars

LEMMA AllocationSays ==
  ASSUME NEW g \in Grants, NEW a, a = Allocation(g.base, g.count, g.usage, g.owner)
  PROVE  /\ a \in Entry /\ Frames(a) = Frames(g)
         /\ \A p \in Nat, x \in Entry : (p \in Frames(a) /\ SaysTheSame(a, x)) <=> Takes(g, p, x)
         /\ \A p \in Nat : p \in Frames(g) => Takes(g, p, a)
<1>1. g.base \in Nat /\ g.count \in Nat /\ g.usage \in Usages /\ g.owner \in Owners
  BY DEF Grants, Pages
<1>2. /\ a \in Entry /\ a.base = g.base /\ a.count = g.count /\ a.state = "reserved"
      /\ a.usage = g.usage /\ a.owner = g.owner /\ a.source = "runtime"
  BY <1>1, AllocationIsEntry
<1>3. Frames(a) = Frames(g)
  BY <1>2 DEF Frames
<1>4. \A x \in Entry : SaysTheSame(a, x) <=> /\ x.state = "reserved" /\ x.usage = g.usage
                                             /\ x.owner = g.owner /\ x.source = "runtime"
  BY <1>2, SameEntry
<1>5. QED BY <1>2, <1>3, <1>4 DEF Takes

(* A frame is held just when an allocation covers it.                      *)
LEMMA HeldIsListed ==
  ASSUME Tidy(Entry, allocations), grants \subseteq Grants, GrantsListed
  PROVE  /\ \A g \in grants, p \in Nat : p \in Frames(g) =>
              \E i \in 1 .. Len(allocations) : p \in Frames(allocations[i])
         /\ \A i \in 1 .. Len(allocations), p \in Nat : p \in Frames(allocations[i]) =>
              \E g \in grants : Takes(g, p, allocations[i])
<1>1. ASSUME NEW g \in grants, NEW p \in Nat, p \in Frames(g)
      PROVE  \E i \in 1 .. Len(allocations) : p \in Frames(allocations[i])
  <2>1. PICK a : a = Allocation(g.base, g.count, g.usage, g.owner)
    OBVIOUS
  <2>2. a \in Entry /\ Takes(g, p, a)
    BY <1>1, <2>1, AllocationSays
  <2>3. Shows(allocations, p, a)
    BY <2>2 DEF GrantsListed
  <2>4. QED BY <2>3 DEF Shows
<1>2. ASSUME NEW i \in 1 .. Len(allocations), NEW p \in Nat, p \in Frames(allocations[i])
      PROVE  \E g \in grants : Takes(g, p, allocations[i])
  <2>1. PICK a \in Entry : a = allocations[i]
    BY DEF Tidy
  <2>2. SaysTheSame(a, a)
    BY SameEntry
  <2>3. Shows(allocations, p, a)
    BY <1>2, <2>1, <2>2 DEF Shows
  <2>4. QED BY <2>1, <2>3 DEF GrantsListed
<1>3. QED BY <1>1, <1>2

(* Publishing a list that is what the grants say it is.                    *)
LEMMA PublishKeepsExplained ==
  ASSUME Tables, Explained, view = "ready", NEW list, Tidy(Entry, list), Publish(list),
         Published(list) /\ ~ranOut => GrantsListed' /\ GrantsApart'
  PROVE  Explained'
<1>1. Tidy(Entry, baseline)
  BY DEF Tables
<1>2. PICK u : u = RebuildCurrentPageFrameDatabase(list)
  OBVIOUS
<1>3. u.ok => \A p \in Nat, x \in Entry :
                Shows(u.table, p, x) <=> RebuiltSays(baseline, list, Len(list), p, x)
  BY <1>1, <1>2, RebuiltTable
<1>4. /\ allocations' = list /\ database' = u.table /\ baseline' = baseline /\ view' = view
      /\ ranOut' = (ranOut \/ ~u.ok)
  BY <1>2 DEF Publish
<1>5. NothingYet'
  BY <1>4 DEF NothingYet
<1>6. ASSUME ~ranOut' PROVE GrantsListed' /\ GrantsApart' /\ DatabaseRebuilt'
  <2>1. u.ok /\ ~ranOut
    BY <1>4, <1>6
  <2>2. Published(list)
    BY <1>2, <2>1 DEF Published
  <2>3. DatabaseRebuilt'
    BY <1>3, <1>4, <2>1 DEF DatabaseRebuilt
  <2>4. QED BY <2>1, <2>2, <2>3
<1>7. QED BY <1>5, <1>6 DEF Explained

LEMMA GrantIsListed ==
  ASSUME Tidy(Entry, allocations), grants \subseteq Grants, GrantsListed, GrantsApart,
         NEW g \in Grants, ~Overlapping(g.base, g.count),
         NEW a, a = Allocation(g.base, g.count, g.usage, g.owner),
         NEW u, u = InsertEntry(allocations, a), u.ok,
         allocations' = u.table, grants' = grants \cup {g}
  PROVE  GrantsListed' /\ GrantsApart'
<1>1. g.base \in Nat /\ g.count \in Pages /\ g.usage \in Usages /\ g.owner \in Owners
  BY DEF Grants
<1>2. \A p \in Nat, x \in Entry :
        Shows(u.table, p, x) <=> Shows(allocations, p, x) \/ (p \in Frames(a) /\ SaysTheSame(a, x))
  BY <1>1, InsertedAllocation
<1>3. \A p \in Nat, x \in Entry : (p \in Frames(a) /\ SaysTheSame(a, x)) <=> Takes(g, p, x)
  BY AllocationSays
<1>4. GrantsListed'
  BY <1>2, <1>3 DEF GrantsListed
<1>5. ASSUME NEW h \in grants, NEW p \in Nat, p \in Frames(h), p \in Frames(g) PROVE FALSE
  <2>1. PICK i \in 1 .. Len(allocations) : p \in Frames(allocations[i])
    BY <1>5, HeldIsListed
  <2>2. PICK e \in Entry : e = allocations[i]
    BY DEF Tidy
  <2>3. e \in ToSet(allocations)
    BY <2>2 DEF ToSet, Tidy
  <2>4. Outside(e, g.base, g.count)
    BY <2>3 DEF Overlapping
  <2>5. PICK b, c, d, f \in Nat : b = g.base /\ c = g.count /\ d = e.base /\ f = e.count
    BY <1>1 DEF Entry, Pages
  <2>6. p \in b .. b + c - 1 /\ p \in d .. d + f - 1 /\ (d + f <= b \/ d >= b + c)
    BY <1>5, <2>1, <2>2, <2>4, <2>5 DEF Frames, Span, Outside, End
  <2>7. QED BY <2>6
<1>6. GrantsApart'
  BY <1>5 DEF GrantsApart
<1>7. QED BY <1>4, <1>6

LEMMA RecordKeepsExplained ==
  ASSUME Tables, Explained, view = "ready", NEW base \in Nat, NEW count \in Pages,
         NEW usage \in Usages, NEW owner \in Owners, Record(base, count, usage, owner)
  PROVE  Explained'
<1>1. PICK g : g = [base |-> base, count |-> count, usage |-> usage, owner |-> owner]
  OBVIOUS
<1>2. PICK a : a = Allocation(g.base, g.count, g.usage, g.owner)
  OBVIOUS
<1>3. PICK u : u = InsertEntry(allocations, a)
  OBVIOUS
<1>4. /\ g \in Grants /\ g.base = base /\ g.count = count /\ g.usage = usage /\ g.owner = owner
      /\ grants \subseteq Grants /\ Tidy(Entry, allocations)
  BY <1>1 DEF Grants, Tables
<1>5. CASE Halt("overlapping-physical-ranges", base, count)
  BY <1>5, HaltKeepsExplained
<1>6. CASE ~Overlapping(base, count) /\ u.ok /\ Publish(u.table)
           /\ grants' = IF Published(u.table) THEN grants \cup {g} ELSE grants
  <2>1. Tidy(Entry, u.table)
    BY <1>2, <1>3, <1>4, <1>6, InsertedAllocation
  <2>2. ASSUME Published(u.table), ~ranOut PROVE GrantsListed' /\ GrantsApart'
    <3>1. GrantsListed /\ GrantsApart
      BY <2>2 DEF Explained
    <3>2. allocations' = u.table
      BY <1>6 DEF Publish
    <3>3. QED BY <1>2, <1>3, <1>4, <1>6, <2>2, <3>1, <3>2, GrantIsListed
  <2>3. QED BY <1>6, <2>1, <2>2, PublishKeepsExplained
<1>7. CASE UNCHANGED vars
  BY <1>7, ExplainedStutter DEF vars, explainedVars
<1>8. QED BY <1>1, <1>2, <1>3, <1>4, <1>5, <1>6, <1>7 DEF Record

(* What is given back is whole grants.                                     *)
NoneCut(base, count) ==
  \A g \in grants : \/ Frames(g) \subseteq Span(base, count)
                    \/ \A p \in Nat : ~(p \in Frames(g) /\ p \in Span(base, count))

LEMMA ReleaseKeepsExplained ==
  ASSUME Tables, Explained, view = "ready", NEW base \in Nat, NEW count \in Nat,
         ~ranOut => NoneCut(base, count), Release(base, count)
  PROVE  Explained'
<1>1. PICK u : u = RemoveRange(allocations, base, count)
  OBVIOUS
<1>2. grants \subseteq Grants /\ Tidy(Entry, allocations)
  BY DEF Tables
<1>3. /\ Tidy(Entry, u.table)
      /\ u.ok => \A p \in Nat, x \in Entry :
           Shows(u.table, p, x) <=> Shows(allocations, p, x) /\ p \notin Span(base, count)
  BY <1>1, <1>2, RemovedRange
<1>4. /\ u.ok /\ Publish(u.table) /\ allocations' = u.table
      /\ grants' = IF Published(u.table) THEN grants \ GrantsWithin(base, count) ELSE grants
  BY <1>1 DEF Release, Publish
<1>5. ASSUME Published(u.table), ~ranOut PROVE GrantsListed' /\ GrantsApart'
  <2>1. GrantsListed /\ GrantsApart /\ NoneCut(base, count)
    BY <1>5 DEF Explained
  <2>2. \A g \in grants, p \in Nat :
          p \in Frames(g) => (g \in grants' <=> p \notin Span(base, count))
    BY <1>4, <1>5, <2>1 DEF NoneCut, GrantsWithin
  <2>3. grants' \subseteq grants
    BY <1>4, <1>5
  <2>4. GrantsListed'
    BY <1>3, <1>4, <2>1, <2>2, <2>3 DEF GrantsListed, Takes
  <2>5. GrantsApart'
    BY <2>1, <2>3 DEF GrantsApart
  <2>6. QED BY <2>4, <2>5
<1>6. QED BY <1>3, <1>4, <1>5, PublishKeepsExplained

LEMMA BuildKeepsExplained ==
  ASSUME Explained, NEW table \in RegionTables, BuildMemoryView(table)
  PROVE  Explained'
<1>1. CASE OverlapAt(table) # {}
  <2>1. \E rule, base, count : Halt(rule, base, count)
    BY <1>1 DEF BuildMemoryView
  <2>2. QED BY <2>1, HaltKeepsExplained
<1>2. CASE OverlapAt(table) = {}
  <2>1. PICK built : built = ReservedOverlays(IngestedRegions(table))
    OBVIOUS
  <2>2. /\ view = "unbuilt"
        /\ view' = IF built.ok THEN "ready" ELSE "rejected"
        /\ database' = built.table
        /\ baseline' = IF built.ok THEN built.table ELSE <<>>
        /\ UNCHANGED <<allocations, grants, ranOut>>
    BY <1>2, <2>1 DEF BuildMemoryView
  <2>3. allocations = <<>> /\ grants = {} /\ baseline = <<>>
    BY <2>2 DEF Explained, NothingYet
  <2>4. NothingYet'
    BY <2>2, <2>3 DEF NothingYet
  <2>5. DatabaseRebuilt'
    <3> SUFFICES ASSUME built.ok
                 PROVE  \A p \in Nat, x \in Entry : Shows(database', p, x) <=>
                          RebuiltSays(baseline', allocations', Len(allocations'), p, x)
      BY <2>2 DEF DatabaseRebuilt
    <3>1. database' = baseline' /\ allocations' = <<>>
      BY <2>2, <2>3
    <3>2. Len(allocations') = 0
      BY <3>1
    <3>3. \A p : ~ListedAt(allocations', 0, p)
      BY DEF ListedAt
    <3>4. QED BY <3>1, <3>2, <3>3 DEF RebuiltSays
  <2>6. ~ranOut' => GrantsListed' /\ GrantsApart'
    BY <2>2 DEF Explained, GrantsListed, GrantsApart
  <2>7. QED BY <2>4, <2>5, <2>6 DEF Explained
<1>3. QED BY <1>1, <1>2

(* A free of an exact entry takes back every grant merged into it.         *)
LEMMA ExactEntryCutsNoGrant ==
  ASSUME Tables, GrantsListed, NEW base \in Nat, NEW count \in Pages,
         FindExactDynamicAllocation(base, count) # {}
  PROVE  NoneCut(base, count)
<1>1. Tidy(Entry, allocations) /\ grants \subseteq Grants
  BY DEF Tables
<1>2. PICK i \in 1 .. Len(allocations) : allocations[i].base = base /\ allocations[i].count = count
  BY <1>1 DEF FindExactDynamicAllocation, ToSet, Tidy
<1>3. Frames(allocations[i]) = Span(base, count)
  BY <1>2 DEF Frames
<1>4. ASSUME NEW g \in grants, NEW q \in Nat, q \in Frames(g), q \in Span(base, count)
      PROVE  Frames(g) \subseteq Span(base, count)
  <2>1. g \in Grants /\ g.base \in Nat /\ g.count \in Nat /\ Frames(g) = Span(g.base, g.count)
    BY <1>1 DEF Grants, Frames, Pages
  <2>2. PICK a : a = Allocation(g.base, g.count, g.usage, g.owner)
    OBVIOUS
  <2>3. a \in Entry /\ \A p \in Nat : p \in Frames(g) => Takes(g, p, a)
    BY <2>1, <2>2, AllocationSays
  <2>4. \A p \in Span(g.base, g.count) : p \in Nat
    BY <2>1 DEF Span
  <2>5. \A p \in Span(g.base, g.count) : Shows(allocations, p, a)
    BY <2>1, <2>3, <2>4 DEF GrantsListed
  <2>6. q \in Span(g.base, g.count) /\ q \in Frames(allocations[i])
    BY <1>3, <1>4, <2>1
  <2>7. Span(g.base, g.count) \subseteq Frames(allocations[i])
    BY <1>1, <2>1, <2>3, <2>5, <2>6, TidySpan
  <2>8. QED BY <1>3, <2>1, <2>7
<1>5. QED BY <1>4 DEF NoneCut

LEMMA ClaimKeepsExplained ==
  ASSUME Tables, Explained, NEW r \in ClaimRequests, ClaimFrames(r)
  PROVE  Explained'
<1>1. CASE \E rule, base, count : Halt(rule, base, count)
  BY <1>1, HaltKeepsExplained
<1>2. CASE /\ ClaimAnswer(r).status = "success"
           /\ Record(ClaimAnswer(r).base, r.count, "dynamic_claimed", EffectiveOwner(r.owner))
  <2>1. Tidy(Entry, database) /\ view = "ready"
    BY DEF Tables, ClaimFrames, Serving
  <2>2. ClaimAnswer(r).base \in Nat
    BY <1>2, <2>1, ClaimsAnswerFree DEF FreeSpan
  <2>3. r.count \in Pages /\ EffectiveOwner(r.owner) \in Owners /\ "dynamic_claimed" \in Usages
    BY RequestFields, FieldsAssumption
  <2>4. QED BY <1>2, <2>1, <2>2, <2>3, RecordKeepsExplained
<1>3. QED BY <1>1, <1>2 DEF ClaimFrames

LEMMA ReserveKeepsExplained ==
  ASSUME Tables, Explained, NEW r \in ReserveRequests, ReserveFrames(r)
  PROVE  Explained'
<1>1. CASE \E rule, base, count : Halt(rule, base, count)
  BY <1>1, HaltKeepsExplained
<1>2. CASE Record(r.base, r.count, "dynamic_reserved", EffectiveOwner(r.owner))
  <2>1. /\ r.base \in Nat /\ r.count \in Pages /\ EffectiveOwner(r.owner) \in Owners
        /\ "dynamic_reserved" \in Usages /\ view = "ready"
    BY RequestFields, FieldsAssumption DEF ReserveFrames, Serving
  <2>2. QED BY <1>2, <2>1, RecordKeepsExplained
<1>3. QED BY <1>1, <1>2 DEF ReserveFrames

LEMMA TrackedClaimKeepsExplained ==
  ASSUME Tables, Explained, NEW r \in TrackedRequests, ClaimTrackedFrames(r)
  PROVE  Explained'
<1>1. CASE \E rule, base, count : Halt(rule, base, count)
  BY <1>1, HaltKeepsExplained
<1>2. CASE TrackedFound(r).found /\ Record(TrackedFound(r).base, r.count, r.usage, "claimed")
  <2>1. Tidy(Entry, database) /\ view = "ready"
    BY DEF Tables, ClaimTrackedFrames, Serving
  <2>2. TrackedFound(r).base \in Nat
    BY <1>2, <2>1, TrackedClaimsFindFree DEF FreeSpan
  <2>3. r.count \in Pages /\ r.usage \in Usages /\ "claimed" \in Owners
    BY RequestFields, FieldsAssumption
  <2>4. QED BY <1>2, <2>1, <2>2, <2>3, RecordKeepsExplained
<1>3. QED BY <1>1, <1>2 DEF ClaimTrackedFrames

LEMMA FreeKeepsExplained ==
  ASSUME Tables, Explained, NEW base \in Nat, NEW count \in Pages, FreeFrames(base, count)
  PROVE  Explained'
<1>1. CASE \E rule : Halt(rule, base, count)
  BY <1>1, HaltKeepsExplained
<1>2. CASE Release(base, count) /\ FindExactDynamicAllocation(base, count) # {}
  <2>1. ~ranOut => NoneCut(base, count)
    BY <1>2, ExactEntryCutsNoGrant DEF Explained
  <2>2. view = "ready" /\ count \in Nat
    BY DEF FreeFrames, Serving, Pages
  <2>3. QED BY <1>2, <2>1, <2>2, ReleaseKeepsExplained
<1>3. QED BY <1>1, <1>2 DEF FreeFrames

LEMMA TrackedFreeKeepsExplained ==
  ASSUME Tables, Explained, NEW g \in grants, FreeTrackedFrames(g)
  PROVE  Explained'
<1>1. g.base \in Nat /\ g.count \in Nat /\ Frames(g) = Span(g.base, g.count)
  BY DEF Tables, Grants, Pages, Frames
<1>2. ~ranOut => NoneCut(g.base, g.count)
  BY <1>1 DEF Explained, GrantsApart, NoneCut
<1>3. view = "ready" /\ Release(g.base, g.count)
  BY DEF FreeTrackedFrames, Serving
<1>4. QED BY <1>1, <1>2, <1>3, ReleaseKeepsExplained

LEMMA ExplainedInductive ==
  ASSUME Tables, Explained, [Next]_vars
  PROVE  Explained'
<1>1. CASE \E t \in RegionTables : BuildMemoryView(t)
  BY <1>1, BuildKeepsExplained
<1>2. CASE \E r \in ClaimRequests : ClaimFrames(r)
  BY <1>2, ClaimKeepsExplained
<1>3. CASE \E r \in ClaimRequests : AllocateFrames(r)
  BY <1>3, ClaimKeepsExplained DEF AllocateFrames
<1>4. CASE \E r \in ReserveRequests : ReserveFrames(r)
  BY <1>4, ReserveKeepsExplained
<1>5. CASE \E r \in TrackedRequests : ClaimTrackedFrames(r)
  BY <1>5, TrackedClaimKeepsExplained
<1>6. CASE \E r \in FreeRanges : FreeFrames(r.base, r.count)
  BY <1>6, RequestFields, FreeKeepsExplained
<1>7. CASE \E g \in grants : FreeFrames(g.base, g.count)
  <2>1. \A g \in grants : g.base \in Nat /\ g.count \in Pages
    BY DEF Tables, Grants
  <2>2. QED BY <1>7, <2>1, FreeKeepsExplained
<1>8. CASE \E g \in grants : FreeTrackedFrames(g)
  BY <1>8, TrackedFreeKeepsExplained
<1>9. CASE UNCHANGED vars
  BY <1>9, ExplainedStutter DEF vars, explainedVars
<1>10. QED BY <1>1, <1>2, <1>3, <1>4, <1>5, <1>6, <1>7, <1>8, <1>9 DEF Next

LEMMA ExplainedInitially == Init => Explained
<1> SUFFICES ASSUME Init PROVE Explained
  OBVIOUS
<1>1. allocations = <<>> /\ grants = {} /\ baseline = <<>> /\ view = "unbuilt"
  BY DEF Init
<1>2. Len(allocations) = 0
  BY <1>1
<1>3. GrantsListed
  BY <1>1, <1>2 DEF GrantsListed, Shows
<1>4. QED BY <1>1, <1>3 DEF Explained, NothingYet, GrantsApart, DatabaseRebuilt

LEMMA AlwaysExplained == Spec => [](Tables /\ Explained)
<1>1. Init => Tables /\ Explained
  BY TablesInitially, ExplainedInitially
<1>2. (Tables /\ Explained) /\ [Next]_vars => (Tables /\ Explained)'
  BY TablesInductive, ExplainedInductive
<1>3. QED BY <1>1, <1>2, PTL DEF Spec

-----------------------------------------------------------------------------
(* What the current database says, and the ledger it implements.           *)

LEMMA DatabaseFollows ==
  ASSUME Tables, GrantsListed, DatabaseRebuilt, view = "ready",
         NEW e \in ToSet(database), NEW p \in Frames(e)
  PROVE  /\ e \in Entry /\ p \in Nat
         /\ p \in HeldFrames => \E g \in grants : /\ p \in Frames(g) /\ e.state = "reserved"
                                                  /\ e.usage = g.usage /\ e.owner = g.owner
         /\ p \notin HeldFrames => \E b \in ToSet(baseline) :
              p \in Frames(b) /\ e.state = b.state /\ e.usage = b.usage /\ e.owner = b.owner
<1>1. /\ Tidy(Entry, database) /\ Tidy(Entry, baseline) /\ Tidy(Entry, allocations)
      /\ grants \subseteq Grants
  BY DEF Tables
<1>2. PICK i \in 1 .. Len(database) : e = database[i]
  BY <1>1 DEF ToSet, Tidy
<1>3. e \in Entry
  BY <1>1, <1>2 DEF Tidy
<1>4. p \in Nat
  BY <1>3 DEF Frames, Span, Entry
<1>5. SaysTheSame(e, e)
  BY <1>3, SameEntry
<1>6. Shows(database, p, e)
  BY <1>2, <1>5 DEF Shows
<1>7. RebuiltSays(baseline, allocations, Len(allocations), p, e)
  BY <1>3, <1>4, <1>6 DEF DatabaseRebuilt
<1>8. /\ \A g \in grants : p \in Frames(g) =>
           \E k \in 1 .. Len(allocations) : p \in Frames(allocations[k])
      /\ \A k \in 1 .. Len(allocations) : p \in Frames(allocations[k]) =>
           \E g \in grants : Takes(g, p, allocations[k])
  BY <1>1, <1>4, HeldIsListed
<1>9. p \in HeldFrames <=> \E g \in grants : p \in Frames(g)
  BY DEF HeldFrames
<1>10. p \in HeldFrames <=> ListedAt(allocations, Len(allocations), p)
  BY <1>8, <1>9 DEF ListedAt, Takes
<1>11. ASSUME p \in HeldFrames
       PROVE  \E g \in grants : /\ p \in Frames(g) /\ e.state = "reserved"
                                /\ e.usage = g.usage /\ e.owner = g.owner
  <2>1. PICK k \in 1 .. Len(allocations) :
          /\ p \in Frames(allocations[k]) /\ e.state = allocations[k].state
          /\ e.usage = allocations[k].usage /\ e.owner = allocations[k].owner
    BY <1>7, <1>10, <1>11 DEF RebuiltSays
  <2>2. PICK g \in grants : Takes(g, p, allocations[k])
    BY <1>8, <2>1
  <2>3. QED BY <2>1, <2>2 DEF Takes
<1>12. ASSUME p \notin HeldFrames
       PROVE  \E b \in ToSet(baseline) :
                p \in Frames(b) /\ e.state = b.state /\ e.usage = b.usage /\ e.owner = b.owner
  <2>1. Shows(baseline, p, e)
    BY <1>7, <1>10, <1>12 DEF RebuiltSays
  <2>2. PICK k \in 1 .. Len(baseline) : p \in Frames(baseline[k]) /\ SaysTheSame(baseline[k], e)
    BY <2>1 DEF Shows
  <2>3. baseline[k] \in Entry /\ baseline[k] \in ToSet(baseline)
    BY <1>1 DEF ToSet, Tidy
  <2>4. QED BY <1>3, <2>2, <2>3, SameEntry
<1>13. QED BY <1>3, <1>4, <1>11, <1>12

(* After any history of claims, reservations and frees the database says   *)
(* of every frame what its holder was granted, and of a frame nobody holds *)
(* what the baseline said, until a rebuild runs out of entries.            *)
THEOREM DatabaseAlwaysShowsGrants == Spec => []DatabaseShowsGrants
<1>1. Tables /\ Explained => DatabaseShowsGrants
  <2> SUFFICES ASSUME Tables, Explained, view = "ready", ~ranOut,
                      NEW e \in ToSet(database), NEW p \in Frames(e)
               PROVE  IF p \in HeldFrames
                      THEN \E g \in grants :
                             /\ p \in Frames(g)
                             /\ <<e.state, e.usage, e.owner>> = <<"reserved", g.usage, g.owner>>
                      ELSE \E b \in ToSet(baseline) :
                             /\ p \in Frames(b)
                             /\ <<e.state, e.usage, e.owner>> = <<b.state, b.usage, b.owner>>
    BY DEF DatabaseShowsGrants
  <2>1. GrantsListed /\ DatabaseRebuilt
    BY DEF Explained
  <2>2. QED BY <2>1, DatabaseFollows
<1>2. QED BY <1>1, AlwaysExplained, PTL

UsableFrames == {p \in FramesOf(baseline) : CoversWithState(baseline, p, 1, "free")}
HeldRanges == {Frames(g) : g \in grants}

(* What the database calls free is usable and nobody's.                    *)
LEMMA FreeIsClaimable ==
  ASSUME Tables, GrantsListed, DatabaseRebuilt, view = "ready",
         NEW base, NEW count, FreeSpan(base, count)
  PROVE  Span(base, count) \subseteq UsableFrames /\ Span(base, count) \cap HeldFrames = {}
<1> SUFFICES ASSUME NEW p \in Span(base, count) PROVE p \in UsableFrames /\ p \notin HeldFrames
  OBVIOUS
<1>1. FreeAt(database, p)
  BY DEF FreeSpan
<1>2. PICK e \in ToSet(database) : p \in Frames(e) /\ e.state = "free"
  BY <1>1 DEF FreeAt, ToSet, Tables, Tidy
<1>3. /\ e \in Entry /\ p \in Nat
      /\ p \in HeldFrames => e.state = "reserved"
      /\ p \notin HeldFrames => \E b \in ToSet(baseline) : p \in Frames(b) /\ e.state = b.state
  BY <1>2, DatabaseFollows
<1>4. p \notin HeldFrames
  BY <1>2, <1>3
<1>5. PICK b \in ToSet(baseline) : p \in Frames(b) /\ b.state = "free"
  BY <1>2, <1>3, <1>4
<1>6. Span(p, 1) = {p}
  BY <1>3 DEF Span
<1>7. QED BY <1>4, <1>5, <1>6 DEF UsableFrames, FramesOf, CoversWithState

LEMMA LedgerGrants ==
  ASSUME halted = NotHalted, halted' = halted, UsableFrames' = UsableFrames,
         NEW s \in SUBSET UsableFrames, s # {}, \A h \in HeldRanges : s \cap h = {},
         HeldRanges' = HeldRanges \cup {s}
  PROVE  Ledger!Grant
BY DEF Ledger!Grant, UsableFrames, HeldRanges

LEMMA LedgerReturns ==
  ASSUME halted = NotHalted, halted' = halted, UsableFrames' = UsableFrames,
         HeldRanges' \subseteq HeldRanges
  PROVE  Ledger!Return
BY DEF Ledger!Return, UsableFrames, HeldRanges

LEMMA LedgerStutters ==
  ASSUME halted' = halted, UsableFrames' = UsableFrames, HeldRanges' = HeldRanges
  PROVE  UNCHANGED Ledger!ledgerVars
BY DEF Ledger!ledgerVars, UsableFrames, HeldRanges

LedgerStep == Ledger!LedgerNext \/ UNCHANGED Ledger!ledgerVars

LEMMA HaltStopsLedger ==
  ASSUME NEW rule, rule # "none", NEW base, NEW count, Halt(rule, base, count)
  PROVE  LedgerStep
<1>1. halted' # NotHalted
  BY DEF Halt, NotHalted
<1>2. UsableFrames' = UsableFrames /\ HeldRanges' = HeldRanges
  BY DEF Halt, UsableFrames, HeldRanges
<1>3. Ledger!Stop
  BY <1>1, <1>2 DEF Ledger!Stop, UsableFrames, HeldRanges
<1>4. QED BY <1>3 DEF LedgerStep, Ledger!LedgerNext

LEMMA PublishKeepsUsable ==
  ASSUME NEW list, Publish(list)
  PROVE  halted' = halted /\ UsableFrames' = UsableFrames
BY DEF Publish, UsableFrames

LEMMA RecordIsLedgerStep ==
  ASSUME Tables, Explained, ~ranOut, Serving, NEW base, NEW count \in Pages,
         NEW usage, NEW owner, FreeSpan(base, count), Record(base, count, usage, owner)
  PROVE  LedgerStep
<1>1. PICK u : u = InsertEntry(allocations, Allocation(base, count, usage, owner))
  OBVIOUS
<1>2. PICK g : g = [base |-> base, count |-> count, usage |-> usage, owner |-> owner]
  OBVIOUS
<1>3. CASE Halt("overlapping-physical-ranges", base, count)
  BY <1>3, HaltStopsLedger
<1>4. CASE Publish(u.table) /\ grants' = IF Published(u.table) THEN grants \cup {g} ELSE grants
  <2>1. halted = NotHalted /\ halted' = halted /\ UsableFrames' = UsableFrames
    BY <1>4, PublishKeepsUsable DEF Serving, Running
  <2>2. CASE grants' = grants
    <3>1. HeldRanges' = HeldRanges
      BY <2>2 DEF HeldRanges
    <3>2. QED BY <2>1, <3>1, LedgerStutters DEF LedgerStep
  <2>3. CASE grants' = grants \cup {g}
    <3>1. Frames(g) = Span(base, count)
      BY <1>2 DEF Frames
    <3>2. Frames(g) \subseteq UsableFrames /\ Frames(g) \cap HeldFrames = {}
      BY <3>1, FreeIsClaimable DEF Explained, Serving
    <3>3. Frames(g) # {}
      <4>1. base \in Nat /\ count \in Nat /\ count > 0
        BY DEF FreeSpan, Pages
      <4>2. base \in Span(base, count)
        BY <4>1 DEF Span
      <4>3. QED BY <3>1, <4>2
    <3>4. \A h \in HeldRanges : Frames(g) \cap h = {}
      BY <3>2 DEF HeldRanges, HeldFrames
    <3>5. HeldRanges' = HeldRanges \cup {Frames(g)}
      BY <2>3 DEF HeldRanges
    <3>6. Ledger!Grant
      BY <2>1, <3>2, <3>3, <3>4, <3>5, LedgerGrants
    <3>7. QED BY <3>6 DEF LedgerStep, Ledger!LedgerNext
  <2>4. QED BY <1>4, <2>2, <2>3
<1>5. CASE UNCHANGED vars
  <2>1. halted' = halted /\ UsableFrames' = UsableFrames /\ HeldRanges' = HeldRanges
    BY <1>5 DEF vars, UsableFrames, HeldRanges
  <2>2. QED BY <2>1, LedgerStutters DEF LedgerStep
<1>6. QED BY <1>1, <1>2, <1>3, <1>4, <1>5 DEF Record

LEMMA ReleaseIsLedgerStep ==
  ASSUME Serving, NEW base, NEW count, Release(base, count)
  PROVE  LedgerStep
<1>1. halted = NotHalted /\ halted' = halted /\ UsableFrames' = UsableFrames
  BY PublishKeepsUsable DEF Release, Serving, Running
<1>2. grants' \subseteq grants
  BY DEF Release
<1>3. HeldRanges' \subseteq HeldRanges
  BY <1>2 DEF HeldRanges
<1>4. Ledger!Return
  BY <1>1, <1>3, LedgerReturns
<1>5. QED BY <1>4 DEF LedgerStep, Ledger!LedgerNext

LEMMA BuildIsLedgerStep ==
  ASSUME Explained, NEW table \in RegionTables, BuildMemoryView(table)
  PROVE  LedgerStep
<1>1. CASE OverlapAt(table) # {}
  <2>1. \E base, count : Halt("overlapping-physical-ranges", base, count)
    BY <1>1 DEF BuildMemoryView
  <2>2. QED BY <2>1, HaltStopsLedger
<1>2. CASE OverlapAt(table) = {}
  <2>1. view = "unbuilt" /\ halted = NotHalted /\ UNCHANGED <<grants, halted>>
    BY <1>2 DEF BuildMemoryView, Running
  <2>2. baseline = <<>> /\ grants = {}
    BY <2>1 DEF Explained, NothingYet
  <2>3. UsableFrames = {} /\ HeldRanges = {} /\ HeldRanges' = HeldRanges
    BY <2>1, <2>2 DEF UsableFrames, HeldRanges, FramesOf, ToSet
  <2>4. CASE UsableFrames' = {}
    BY <2>1, <2>3, <2>4, LedgerStutters DEF LedgerStep
  <2>5. CASE UsableFrames' # {}
    <3>1. Ledger!Open
      BY <2>1, <2>3, <2>5 DEF Ledger!Open, UsableFrames, HeldRanges
    <3>2. QED BY <3>1 DEF LedgerStep, Ledger!LedgerNext
  <2>6. QED BY <2>4, <2>5
<1>3. QED BY <1>1, <1>2

LEMMA ClaimIsLedgerStep ==
  ASSUME Tables, Explained, ~ranOut, NEW r \in ClaimRequests, ClaimFrames(r)
  PROVE  LedgerStep
<1>1. CASE \E base, count : \/ Halt("page-count-overflow", base, count)
                            \/ Halt("base-plus-size-wrap", base, count)
  BY <1>1, HaltStopsLedger
<1>2. CASE /\ ClaimAnswer(r).status = "success"
           /\ Record(ClaimAnswer(r).base, r.count, "dynamic_claimed", EffectiveOwner(r.owner))
  <2>1. FreeSpan(ClaimAnswer(r).base, r.count)
    BY <1>2, ClaimsAnswerFree DEF Tables
  <2>2. r.count \in Pages /\ Serving
    BY RequestFields DEF ClaimFrames
  <2>3. QED BY <1>2, <2>1, <2>2, RecordIsLedgerStep
<1>3. QED BY <1>1, <1>2 DEF ClaimFrames

LEMMA ReserveIsLedgerStep ==
  ASSUME Tables, Explained, ~ranOut, NEW r \in ReserveRequests, ReserveFrames(r)
  PROVE  LedgerStep
<1>1. CASE Halt("base-plus-size-wrap", r.base, r.count)
  BY <1>1, HaltStopsLedger
<1>2. CASE /\ CoversWithState(database, r.base, r.count, "free")
           /\ Record(r.base, r.count, "dynamic_reserved", EffectiveOwner(r.owner))
  <2>1. r.base \in Nat /\ r.count \in Nat /\ r.count \in Pages /\ Serving
    BY RequestFields DEF ReserveFrames, Pages
  <2>2. FreeSpan(r.base, r.count)
    BY <1>2, <2>1, CoveredIsFree DEF Tables
  <2>3. QED BY <1>2, <2>1, <2>2, RecordIsLedgerStep
<1>3. QED BY <1>1, <1>2 DEF ReserveFrames

LEMMA TrackedClaimIsLedgerStep ==
  ASSUME Tables, Explained, ~ranOut, NEW r \in TrackedRequests, ClaimTrackedFrames(r)
  PROVE  LedgerStep
<1>1. CASE \E base, count : \/ Halt("claim-selected-range-missing", base, count)
                            \/ Halt("claim-selected-range-not-free", base, count)
  BY <1>1, HaltStopsLedger
<1>2. CASE TrackedFound(r).found /\ Record(TrackedFound(r).base, r.count, r.usage, "claimed")
  <2>1. FreeSpan(TrackedFound(r).base, r.count)
    BY <1>2, TrackedClaimsFindFree DEF Tables
  <2>2. r.count \in Pages /\ Serving
    BY RequestFields DEF ClaimTrackedFrames
  <2>3. QED BY <1>2, <2>1, <2>2, RecordIsLedgerStep
<1>3. QED BY <1>1, <1>2 DEF ClaimTrackedFrames

LEMMA FreeIsLedgerStep ==
  ASSUME NEW base, NEW count, FreeFrames(base, count)
  PROVE  LedgerStep
<1>1. CASE Halt("page-count-overflow", base, count) \/ Halt("freeing-unowned-pages", base, count)
  BY <1>1, HaltStopsLedger
<1>2. CASE Serving /\ Release(base, count)
  BY <1>2, ReleaseIsLedgerStep
<1>3. QED BY <1>1, <1>2 DEF FreeFrames

LEMMA NextIsLedgerStep ==
  ASSUME Tables, Explained, ~ranOut, [Next]_vars
  PROVE  LedgerStep
<1>1. CASE \E t \in RegionTables : BuildMemoryView(t)
  BY <1>1, BuildIsLedgerStep
<1>2. CASE \E r \in ClaimRequests : ClaimFrames(r)
  BY <1>2, ClaimIsLedgerStep
<1>3. CASE \E r \in ClaimRequests : AllocateFrames(r)
  BY <1>3, ClaimIsLedgerStep DEF AllocateFrames
<1>4. CASE \E r \in ReserveRequests : ReserveFrames(r)
  BY <1>4, ReserveIsLedgerStep
<1>5. CASE \E r \in TrackedRequests : ClaimTrackedFrames(r)
  BY <1>5, TrackedClaimIsLedgerStep
<1>6. CASE \E r \in FreeRanges : FreeFrames(r.base, r.count)
  BY <1>6, FreeIsLedgerStep
<1>7. CASE \E g \in grants : FreeFrames(g.base, g.count)
  BY <1>7, FreeIsLedgerStep
<1>8. CASE \E g \in grants : FreeTrackedFrames(g)
  BY <1>8, ReleaseIsLedgerStep DEF FreeTrackedFrames
<1>9. CASE UNCHANGED vars
  <2>1. halted' = halted /\ UsableFrames' = UsableFrames /\ HeldRanges' = HeldRanges
    BY <1>9 DEF vars, UsableFrames, HeldRanges
  <2>2. QED BY <2>1, LedgerStutters DEF LedgerStep
<1>10. QED BY <1>1, <1>2, <1>3, <1>4, <1>5, <1>6, <1>7, <1>8, <1>9 DEF Next

(* The allocator implements the ledger of frames: every grant is of usable *)
(* frames nobody holds, and only granted frames come back, as long as no   *)
(* rebuild has run out of entries.                                         *)
THEOREM AllocatorKeepsLedger == Spec => KeepsLedger
<1>1. Init => Ledger!LedgerInit
  BY DEF Init, Ledger!LedgerInit, FramesOf, ToSet
<1>2. Tables /\ Explained /\ [Next]_vars => [~ranOut => Ledger!LedgerNext]_(Ledger!ledgerVars)
  BY NextIsLedgerStep DEF LedgerStep
<1>3. QED BY <1>1, <1>2, AlwaysExplained, PTL DEF Spec, KeepsLedger

-----------------------------------------------------------------------------
(* What a claim is answered.                                               *)

(* What the database calls free is exactly what a claim may be given.      *)
LEMMA FreeMeansClaimable ==
  ASSUME Tables, GrantsListed, DatabaseRebuilt, view = "ready", NEW p \in Nat
  PROVE  FreeAt(database, p) <=> p \in Claimable
<1>1. Tidy(Entry, database) /\ Tidy(Entry, baseline) /\ FramesOf(database) = FramesOf(baseline)
  BY DEF Tables
<1>2. /\ ToSet(database) = {database[i] : i \in 1 .. Len(database)}
      /\ ToSet(baseline) = {baseline[i] : i \in 1 .. Len(baseline)}
  <2>1. database \in Seq(Entry) /\ baseline \in Seq(Entry)
    BY <1>1 DEF Tidy
  <2>2. DOMAIN database = 1 .. Len(database) /\ DOMAIN baseline = 1 .. Len(baseline)
    BY ONLY <2>1
  <2>3. QED BY ONLY <2>2 DEF ToSet
<1>3. Span(p, 1) = {p}
  BY DEF Span
<1>4. ASSUME FreeAt(database, p) PROVE p \in Claimable
  <2>1. FreeSpan(p, 1)
    BY <1>3, <1>4 DEF FreeSpan
  <2>2. Span(p, 1) \subseteq UsableFrames /\ Span(p, 1) \cap HeldFrames = {}
    BY <2>1, FreeIsClaimable
  <2>3. QED BY <1>3, <2>2 DEF Claimable, UsableFrames
<1>5. ASSUME p \in Claimable PROVE FreeAt(database, p)
  <2>1. p \in FramesOf(baseline) /\ CoversWithState(baseline, p, 1, "free") /\ p \notin HeldFrames
    BY <1>5 DEF Claimable
  <2>2. PICK i \in 1 .. Len(baseline) : p \in Frames(baseline[i]) /\ baseline[i].state = "free"
    BY <1>2, <1>3, <2>1 DEF CoversWithState
  <2>3. PICK k \in 1 .. Len(database) : p \in Frames(database[k])
    BY <1>1, <1>2, <2>1 DEF FramesOf
  <2>4. PICK e \in ToSet(database) : e = database[k] /\ p \in Frames(e)
    BY <1>2, <2>3
  <2>5. PICK b \in ToSet(baseline) : p \in Frames(b) /\ e.state = b.state
    BY <2>1, <2>4, DatabaseFollows
  <2>6. PICK j \in 1 .. Len(baseline) : b = baseline[j]
    BY <1>2, <2>5
  <2>7. /\ baseline[i].base <= p /\ p < End(baseline[i])
        /\ baseline[j].base <= p /\ p < End(baseline[j])
    BY <1>1, <2>2, <2>5, <2>6, TidyEntries
  <2>8. i = j
    <3>1. ASSUME NEW m \in 1 .. Len(baseline), NEW n \in 1 .. Len(baseline), m < n,
                 p < End(baseline[m]), baseline[n].base <= p
          PROVE  FALSE
      <4>1. PICK x, y \in Nat : x = End(baseline[m]) /\ y = baseline[n].base /\ x <= y
        BY <1>1, <3>1, TidyEntries
      <4>2. QED BY <3>1, <4>1
    <3>2. ~(i < j) /\ ~(j < i)
      BY <2>7, <3>1
    <3>3. QED BY <1>1, <3>2, TidyEntries
  <2>9. QED BY <2>2, <2>4, <2>5, <2>6, <2>8 DEF FreeAt
<1>6. QED BY <1>4, <1>5

LEMMA ClaimableFrames ==
  ASSUME Tidy(Entry, baseline)
  PROVE  Claimable \subseteq Nat
<1>1. ASSUME NEW e \in ToSet(baseline) PROVE Frames(e) \subseteq Nat
  <2>1. e \in Entry
    BY DEF ToSet, Tidy
  <2>2. QED BY <2>1 DEF Entry, Frames, Span
<1>2. QED BY <1>1 DEF Claimable, FramesOf

(* No frame of the database lies at or above its limit.                    *)
LEMMA FreeBelowLimit ==
  ASSUME Tidy(Entry, database), NEW p \in Nat, FreeAt(database, p)
  PROVE  p < DatabaseLimit
<1>1. PICK n \in Nat : n = Len(database)
  BY TidyEntries
<1>2. PICK i \in 1 .. n : p \in Frames(database[i])
  BY <1>1 DEF FreeAt
<1>3. PICK x, y, z \in Nat : /\ x = End(database[i]) /\ y = End(database[n]) /\ z = database[n].base
                             /\ p < x /\ z < y
  <2>1. n \in 1 .. Len(database) /\ i \in 1 .. Len(database)
    BY <1>1, <1>2
  <2>2. p < End(database[i])
    BY <1>2, <2>1, TidyEntries
  <2>3. /\ End(database[i]) \in Nat /\ End(database[n]) \in Nat /\ database[n].base \in Nat
        /\ database[n].base < End(database[n])
    BY <2>1, TidyEntries
  <2>4. QED BY <2>2, <2>3
<1>4. i < n => x <= z
  <2>1. n \in 1 .. Len(database) /\ i \in 1 .. Len(database)
    BY <1>1, <1>2
  <2>2. i < n => End(database[i]) <= database[n].base
    BY <2>1, TidyEntries
  <2>3. QED BY <1>3, <2>2
<1>5. p < y
  <2>1. CASE i < n
    BY <1>3, <1>4, <2>1
  <2>2. CASE i = n
    BY <1>3, <2>2
  <2>3. QED BY <1>2, <2>1, <2>2
<1>6. database # <<>> /\ DatabaseLimit = y
  BY <1>1, <1>2, <1>3 DEF DatabaseLimit, Last
<1>7. QED BY <1>5, <1>6

(* A range of free frames lies in the window of a claim just when it lies  *)
(* between the lowest frame asked for and the limit the service computes.  *)
LEMMA WindowMeansLimit ==
  ASSUME Tidy(Entry, database), NEW r \in ClaimRequests, NEW b \in Nat,
         \A p \in Span(b, r.count) : FreeAt(database, p)
  PROVE  WithinWindow(r, b) <=> r.min <= b /\ b + r.count <= ClaimLimit(r)
<1>1. PICK m, x, c \in Nat : m = r.min /\ x = r.max /\ c = r.count /\ c > 0
  BY RequestFields DEF Pages
<1>2. PICK last \in Nat : last + 1 = b + c
  BY <1>1
<1>3. last \in Span(b, c)
  BY <1>1, <1>2 DEF Span
<1>4. PICK d, g \in Nat : d = DatabaseLimit /\ g = FourGigabytes
  BY LimitsAreNaturals, FourGigabytesAssumption
<1>5. last < d
  BY <1>1, <1>3, <1>4, FreeBelowLimit
<1>6. b + c <= d
  BY <1>1, <1>2, <1>4, <1>5
<1>7. PICK l \in Nat : l = IF x = 0 THEN d ELSE Smaller(x, d)
  BY <1>1, <1>4 DEF Smaller
<1>8. ClaimLimit(r) = IF r.below4G THEN Smaller(l, g) ELSE l
  BY <1>1, <1>4, <1>7 DEF ClaimLimit, Below4G
<1>9. b + c <= l <=> (x # 0 => b + c <= x)
  BY <1>1, <1>4, <1>6, <1>7 DEF Smaller
<1>10. b + c <= ClaimLimit(r) <=> b + c <= l /\ (r.below4G => b + c <= g)
  <2>1. CASE r.below4G
    BY <1>1, <1>4, <1>7, <1>8, <2>1 DEF Smaller
  <2>2. CASE ~r.below4G
    BY <1>8, <2>2
  <2>3. QED BY <2>1, <2>2
<1>11. QED BY <1>1, <1>4, <1>9, <1>10 DEF WithinWindow

(* An exact claim succeeds just when nobody holds the range.               *)
LEMMA ExactFollowsGrants ==
  ASSUME Tables, GrantsListed, DatabaseRebuilt, view = "ready",
         NEW r \in ClaimRequests, ValidAlignment(EffectiveAlignment(r.align)), r.exact
  PROVE  ClaimAnswer(r).status = "success" <=> Fits(r, r.desired)
<1>1. Tidy(Entry, database)
  BY DEF Tables
<1>2. PICK m, c, b, l \in Nat : /\ m = r.min /\ c = r.count /\ c > 0 /\ b = r.desired
                                /\ l = ClaimLimit(r)
  <2>1. r.min \in Nat /\ r.count \in Pages /\ r.desired \in Nat
    BY RequestFields
  <2>2. ClaimLimit(r) \in Nat
    BY <1>1, LimitsAreNaturals
  <2>3. QED BY <2>1, <2>2 DEF Pages
<1>3. \A p \in Span(b, c) : p \in Nat /\ (FreeAt(database, p) <=> p \in Claimable)
  BY FreeMeansClaimable DEF Span
<1>4. ToSet(database) = {database[i] : i \in 1 .. Len(database)}
  BY <1>1 DEF ToSet, Tidy
<1>5. CoversWithState(database, b, c, "free") <=> \A p \in Span(b, c) : FreeAt(database, p)
  BY <1>4 DEF CoversWithState, FreeAt
<1>6. CoversWithState(database, b, c, "free") => Covers(database, b, c)
  BY DEF CoversWithState, Covers, FramesOf
<1>7. CoversWithState(database, b, c, "free") <=> Span(b, c) \subseteq Claimable
  BY <1>3, <1>5
<1>8. Fits(r, b) <=> /\ m <= b /\ b + c <= l /\ CoversWithState(database, b, c, "free")
  <2>1. CASE CoversWithState(database, b, c, "free")
    <3>1. WithinWindow(r, b) <=> m <= b /\ b + c <= l
      BY <1>1, <1>2, <1>5, <2>1, WindowMeansLimit
    <3>2. QED BY <1>2, <1>7, <2>1, <3>1 DEF Fits
  <2>2. CASE ~CoversWithState(database, b, c, "free")
    BY <1>2, <1>7, <2>2 DEF Fits
  <2>3. QED BY <2>1, <2>2
<1>9. (ExactAnswer(b, c).status = "success") <=> CoversWithState(database, b, c, "free")
  <2>1. CASE CoversWithState(database, b, c, "free")
    BY <1>6, <2>1 DEF ExactAnswer, Granted
  <2>2. CASE ~CoversWithState(database, b, c, "free")
    BY <2>2 DEF ExactAnswer, Refused
  <2>3. QED BY <2>1, <2>2
<1>10. CASE l <= m \/ b < m \/ b + c > l
  <2>1. ClaimAnswer(r) = Refused("out_of_range")
    BY <1>2, <1>10 DEF ClaimAnswer
  <2>2. ~(m <= b /\ b + c <= l)
    BY <1>2, <1>10
  <2>3. QED BY <1>2, <1>8, <2>1, <2>2 DEF Refused
<1>11. CASE ~(l <= m \/ b < m \/ b + c > l)
  <2>1. ClaimAnswer(r) = ExactAnswer(b, c)
    BY <1>2, <1>11 DEF ClaimAnswer
  <2>2. m <= b /\ b + c <= l
    BY <1>11
  <2>3. QED BY <1>2, <1>8, <1>9, <2>1, <2>2
<1>12. QED BY <1>10, <1>11

(* A search is answered with the lowest range nobody holds.                *)
LEMMA SearchFollowsGrants ==
  ASSUME Tables, GrantsListed, DatabaseRebuilt, view = "ready",
         NEW r \in ClaimRequests, ValidAlignment(EffectiveAlignment(r.align)), ~r.exact,
         NEW fitting, fitting = {b \in Claimable : b % EffectiveAlignment(r.align) = 0 /\ Fits(r, b)}
  PROVE  IF fitting = {} THEN ClaimAnswer(r).status # "success"
                         ELSE ClaimAnswer(r) = Granted(Min(fitting))
<1>1. Tidy(Entry, database) /\ Tidy(Entry, baseline)
  BY DEF Tables
<1>2. PICK m, c, al, l \in Nat : /\ m = r.min /\ c = r.count /\ c > 0 /\ l = ClaimLimit(r)
                                 /\ al = EffectiveAlignment(r.align) /\ al > 0
  <2>1. r.min \in Nat /\ r.count \in Pages /\ EffectiveAlignment(r.align) \in Nat /\ EffectiveAlignment(r.align) > 0
    BY RequestFields
  <2>2. ClaimLimit(r) \in Nat
    BY <1>1, LimitsAreNaturals
  <2>3. QED BY <2>1, <2>2 DEF Pages
<1>3. PICK w \in SearchWindows : w.lowest = m /\ w.limit = l /\ w.align = al /\ w.count = c
  <2>1. [lowest |-> m, limit |-> l, align |-> al, count |-> c] \in SearchWindows
    BY <1>2 DEF SearchWindows
  <2>2. QED BY <2>1
<1>4. \A b \in Nat : \A p \in Span(b, c) : p \in Nat /\ (FreeAt(database, p) <=> p \in Claimable)
  BY FreeMeansClaimable DEF Span
<1>5. \A b \in Nat : b \in Span(b, c)
  BY <1>2 DEF Span
<1>6. fitting \in SUBSET Nat
  BY <1>1, ClaimableFrames
<1>7. ASSUME NEW b \in Nat PROVE b \in fitting <=> Fitting(database, w, b)
  <2>1. CASE \A p \in Span(b, c) : FreeAt(database, p)
    <3>1. WithinWindow(r, b) <=> m <= b /\ b + c <= l
      BY <1>1, <1>2, <2>1, WindowMeansLimit
    <3>2. Span(b, c) \subseteq Claimable /\ b \in Claimable
      BY <1>4, <1>5, <2>1
    <3>3. b \in fitting <=> b % al = 0 /\ WithinWindow(r, b)
      BY <1>2, <3>2 DEF Fits
    <3>4. Fitting(database, w, b) <=> b % al = 0 /\ m <= b /\ b + c <= l
      BY <1>3, <2>1 DEF Fitting
    <3>5. QED BY <3>1, <3>3, <3>4
  <2>2. CASE ~\A p \in Span(b, c) : FreeAt(database, p)
    BY <1>2, <1>3, <1>4, <2>2 DEF Fitting, Fits
  <2>3. QED BY <2>1, <2>2
<1>8. PICK run : run = FindClaimableContiguousRange(database, w.lowest, w.limit, w.align, w.count)
  OBVIOUS
<1>9. /\ run \in Runs
      /\ run.found => /\ Fitting(database, w, run.base)
                      /\ \A b \in Nat : Fitting(database, w, b) => run.base <= b
      /\ ~run.found => \A b \in Nat : ~Fitting(database, w, b)
  BY <1>1, <1>8, SearchFindsLowest
<1>10. Found(r) = run
  BY <1>2, <1>3, <1>8 DEF Found
<1>11. CASE l <= m
  <2>1. ClaimAnswer(r) = Refused("out_of_range")
    BY <1>2, <1>11 DEF ClaimAnswer
  <2>2. \A b \in Nat : ~(m <= b /\ b + c <= l)
    BY <1>2, <1>11
  <2>3. \A b \in Nat : ~Fitting(database, w, b)
    BY <1>3, <2>2 DEF Fitting
  <2>4. fitting = {}
    BY <1>6, <1>7, <2>3
  <2>5. QED BY <2>1, <2>4 DEF Refused
<1>12. CASE ~(l <= m)
  <2>1. ClaimAnswer(r) = SearchAnswer(r)
    BY <1>2, <1>12 DEF ClaimAnswer
  <2>2. CASE ~run.found
    <3>1. fitting = {}
      BY <1>6, <1>7, <1>9, <2>2
    <3>2. QED BY <1>10, <2>1, <2>2, <3>1 DEF SearchAnswer, Refused
  <2>3. CASE run.found
    <3>1. run.base \in Nat /\ run.base \in fitting /\ \A b \in fitting : run.base <= b
      BY <1>6, <1>7, <1>9, <2>3 DEF Runs
    <3>2. Min(fitting) \in fitting /\ Min(fitting) <= run.base
      BY <1>6, <3>1, MinOfNaturals
    <3>3. Min(fitting) = run.base
      BY <1>6, <3>1, <3>2
    <3>4. QED BY <1>10, <2>1, <2>3, <3>1, <3>3 DEF SearchAnswer
  <2>4. QED BY <2>2, <2>3
<1>13. QED BY <1>11, <1>12

(* After any history of claims, reservations and frees a claim gets what   *)
(* the grants in force leave: an exact one its range if nobody holds any   *)
(* of it, any other the lowest aligned range in its window.                *)
THEOREM AnswersAlwaysFollowGrants == Spec => []AnswersFollowGrants
<1>1. Tables /\ Explained => AnswersFollowGrants
  <2> SUFFICES ASSUME Tables, Explained, Serving, ~ranOut,
                      NEW r \in ClaimRequests, ValidAlignment(EffectiveAlignment(r.align)),
                      NEW fitting,
                      fitting = {b \in Claimable : b % EffectiveAlignment(r.align) = 0 /\ Fits(r, b)}
               PROVE  IF r.exact
                      THEN ClaimAnswer(r).status = "success" <=> Fits(r, r.desired)
                      ELSE IF fitting = {} THEN ClaimAnswer(r).status # "success"
                           ELSE ClaimAnswer(r) = Granted(Min(fitting))
    BY DEF AnswersFollowGrants, Granted
  <2>1. GrantsListed /\ DatabaseRebuilt /\ view = "ready"
    BY DEF Explained, Serving
  <2>2. CASE r.exact
    BY <2>1, <2>2, ExactFollowsGrants
  <2>3. CASE ~r.exact
    BY <2>1, <2>3, SearchFollowsGrants
  <2>4. QED BY <2>2, <2>3
<1>2. QED BY <1>1, AlwaysExplained, PTL

-----------------------------------------------------------------------------
(* What is published about the database.                                   *)

PagesRun(t, states, f) ==
  /\ f \in [0 .. Len(t) -> Nat] /\ f[0] = 0
  /\ \A k \in 1 .. Len(t) :
       f[k] = IF t[k].state \in states THEN f[k - 1] + t[k].count ELSE f[k - 1]
  /\ PagesIn(t, states) = f[Len(t)]

LEMMA PagesRuns ==
  ASSUME NEW t \in Seq(Entry), NEW states
  PROVE  \E f : PagesRun(t, states, f)
<1> DEFINE n == Len(t)
           Add(m, e) == IF e.state \in states THEN m + e.count ELSE m
           F == [m \in Nat |-> [e \in Entry |-> Add(m, e)]]
           Folded(it) == it = [x \in SUBSET (DOMAIN t) |->
                                 IF x = {} THEN 0 ELSE Add(it[x \ {Max(x)}], t[Max(x)])]
           fold == CHOOSE it : Folded(it)
<1>1. n \in Nat /\ DOMAIN t = 1 .. n /\ \A i \in 1 .. n : t[i] \in Entry
  OBVIOUS
<1>2. \A m \in Nat, e \in Entry : Add(m, e) \in Nat
  BY DEF Entry
<1>3. F \in [Nat -> [Entry -> Nat]]
  BY <1>2
<1>4. \E it : Folded(it)
  <2>1. PICK it : FoldsWithin(Nat, Entry, F, 0, t, it)
    <3> HIDE DEF F
    <3>1. QED BY <1>3, FoldValues
  <2>2. \A x \in SUBSET (DOMAIN t) : x # {} =>
          F[it[x \ {Max(x)}]][t[Max(x)]] = Add(it[x \ {Max(x)}], t[Max(x)])
    <3> HIDE DEF Add
    <3>1. QED BY <2>1 DEF FoldsWithin
  <2>3. Folded(it)
    <3> HIDE DEF F, Add
    <3>1. QED BY <2>1, <2>2 DEF Folds, FoldsWithin
  <2>4. QED BY <2>3
<1>5. Folded(fold)
  <2> HIDE DEF Folded
  <2>1. QED BY <1>4
<1>6. PagesIn(t, states) = fold[1 .. n]
  BY <1>1, Zenon DEF PagesIn, FoldLeft, MapThenFoldSet
<1>7. fold[{}] = 0 /\ \A k \in 1 .. n : fold[1 .. k] = Add(fold[1 .. k - 1], t[k])
  <2> HIDE DEF fold, Add
  <2>1. fold[{}] = 0
    BY <1>5
  <2>2. ASSUME NEW k \in 1 .. n
        PROVE  fold[1 .. k] = Add(fold[1 .. k - 1], t[k])
    <3>1. 1 .. k \in SUBSET (DOMAIN t) /\ 1 .. k # {}
          /\ Max(1 .. k) = k /\ (1 .. k) \ {k} = 1 .. k - 1
      BY <1>1, FoldPrefixes
    <3>2. QED BY <1>5, <3>1
  <2>3. QED BY <2>1, <2>2
<1> HIDE DEF fold, Folded
<1>8. \A k \in 0 .. n : fold[1 .. k] \in Nat
  <2> DEFINE Typed == {k \in 0 .. n : fold[1 .. k] \in Nat}
  <2>1. 0 \in Typed
    BY <1>1, <1>7, FoldPrefixes
  <2>2. ASSUME NEW k \in 1 .. n, k - 1 \in Typed PROVE k \in Typed
    <3>1. PICK m \in Nat, e \in Entry : m = fold[1 .. k - 1] /\ e = t[k]
      BY <1>1, <2>2
    <3>2. fold[1 .. k] = Add(m, e)
      BY <1>7, <3>1
    <3>3. Add(m, e) \in Nat
      BY <1>2
    <3>4. QED BY <1>1, <3>2, <3>3
  <2>3. \A k \in 0 .. n : k \in Typed
    <3> HIDE DEF Typed
    <3>1. QED BY <1>1, <2>1, <2>2, NatInductionSet
  <2>4. QED BY <2>3
<1> DEFINE f == [k \in 0 .. n |-> fold[1 .. k]]
<1>9. /\ f \in [0 .. n -> Nat] /\ f[0] = 0 /\ f[n] = fold[1 .. n]
      /\ \A k \in 1 .. n : f[k] = Add(f[k - 1], t[k])
  <2>1. \A k \in 1 .. n : k \in 0 .. n /\ k - 1 \in 0 .. n
    BY <1>1
  <2>2. 0 \in 0 .. n /\ n \in 0 .. n /\ fold[1 .. 0] = 0
    BY <1>1, <1>7, FoldPrefixes
  <2>3. f \in [0 .. n -> Nat]
    BY <1>8
  <2>4. f[0] = 0 /\ f[n] = fold[1 .. n]
    BY <2>2
  <2>5. \A k \in 1 .. n : f[k] = Add(f[k - 1], t[k])
    <3> HIDE DEF Add
    <3>1. QED BY <1>7, <2>1
  <2>6. QED BY <2>3, <2>4, <2>5
<1> HIDE DEF f
<1>10. PagesRun(t, states, f)
  BY <1>6, <1>9 DEF PagesRun
<1>11. QED BY <1>10

FreeTo(t, k) == {p \in Nat : \E i \in 1 .. k : p \in Frames(t[i]) /\ t[i].state = "free"}

(* The pages counted free are the free frames.                             *)
LEMMA FreePagesCounted ==
  ASSUME NEW t, Tidy(Entry, t)
  PROVE  PagesIn(t, {"free"}) = Cardinality({p \in Nat : FreeAt(t, p)})
<1>1. PICK n \in Nat : n = Len(t) /\ t \in Seq(Entry)
  BY TidyEntries
<1>2. PICK f : PagesRun(t, {"free"}, f)
  BY <1>1, PagesRuns
<1>3. /\ \A k \in 0 .. n : f[k] \in Nat
      /\ f[0] = 0 /\ PagesIn(t, {"free"}) = f[n]
      /\ \A k \in 1 .. n : f[k] = IF t[k].state = "free" THEN f[k - 1] + t[k].count ELSE f[k - 1]
  BY <1>1, <1>2 DEF PagesRun
<1> DEFINE Counted == {k \in 0 .. n : IsFiniteSet(FreeTo(t, k)) /\ Cardinality(FreeTo(t, k)) = f[k]}
<1>4. 0 \in Counted
  <2>1. FreeTo(t, 0) = {}
    <3>1. 1 .. 0 = {}
      OBVIOUS
    <3>2. QED BY <3>1 DEF FreeTo
  <2>2. IsFiniteSet(FreeTo(t, 0)) /\ Cardinality(FreeTo(t, 0)) = 0
    BY <2>1, FS_EmptySet
  <2>3. 0 \in 0 .. n /\ f[0] = 0
    BY <1>1, <1>3
  <2>4. QED BY <2>2, <2>3
<1>5. ASSUME NEW k \in 1 .. n, k - 1 \in Counted PROVE k \in Counted
  <2>1. /\ k \in 1 .. Len(t) /\ k - 1 \in 0 .. n /\ k \in 0 .. n /\ k \in 1 .. k
        /\ \A i \in 1 .. k : (i = k \/ i \in 1 .. k - 1)
        /\ \A i \in 1 .. k - 1 : i \in 1 .. k /\ i < k /\ i \in 1 .. Len(t)
    BY <1>1
  <2>2. PICK old : old = FreeTo(t, k - 1) /\ IsFiniteSet(old) /\ Cardinality(old) = f[k - 1]
    BY <1>5
  <2>3. CASE t[k].state # "free"
    <3>1. FreeTo(t, k) = old
      BY <2>1, <2>2, <2>3 DEF FreeTo
    <3>2. QED BY <1>3, <2>1, <2>2, <2>3, <3>1
  <2>4. CASE t[k].state = "free"
    <3>1. PICK b, c \in Nat : b = t[k].base /\ c = t[k].count /\ c > 0
      <4>1. t[k] \in Entry /\ t[k].count > 0
        BY <1>1, <2>1 DEF Tidy
      <4>2. QED BY <4>1 DEF Entry
    <3>2. PICK new : new = b .. (b + c - 1) /\ new = Frames(t[k])
      BY <3>1 DEF Frames, Span
    <3>3. new \subseteq Nat /\ FreeTo(t, k) = old \cup new
      <4>1. new \subseteq Nat
        BY <3>1, <3>2
      <4>2. \A p : p \in FreeTo(t, k) <=> p \in old \/ p \in new
        BY <2>1, <2>2, <2>4, <3>2, <4>1 DEF FreeTo
      <4>3. QED BY <4>1, <4>2
    <3>4. old \cap new = {}
      <4> SUFFICES ASSUME NEW p \in old, p \in new PROVE FALSE
        OBVIOUS
      <4>1. PICK i \in 1 .. k - 1 : p \in Frames(t[i])
        BY <2>2 DEF FreeTo
      <4>2. p \in Nat /\ p < End(t[i]) /\ End(t[i]) <= t[k].base /\ End(t[i]) \in Nat
        BY <2>1, <3>2, <3>3, <4>1, TidyEntries
      <4>3. b <= p
        BY <3>1, <3>2
      <4>4. QED BY <3>1, <4>2, <4>3
    <3>5. IsFiniteSet(new) /\ Cardinality(new) = c
      <4>1. b \in Int /\ b + c - 1 \in Int /\ ~(b > b + c - 1) /\ (b + c - 1) - b + 1 = c
        BY <3>1
      <4>2. QED BY <3>2, <4>1, FS_Interval
    <3>6. IsFiniteSet(old \cup new) /\ Cardinality(old \cup new) = Cardinality(old) + Cardinality(new) - 0
      <4>1. IsFiniteSet(old) /\ IsFiniteSet(new)
        BY <2>2, <3>5
      <4>2. /\ IsFiniteSet(old \cup new)
            /\ Cardinality(old \cup new) = Cardinality(old) + Cardinality(new) - Cardinality(old \cap new)
        BY ONLY <4>1, FS_Union
      <4>3. Cardinality(old \cap new) = 0
        BY <3>4, FS_EmptySet
      <4>4. QED BY <4>2, <4>3
    <3>7. f[k] = f[k - 1] + c /\ f[k - 1] \in Nat
      BY <1>3, <2>1, <2>4, <3>1
    <3>8. Cardinality(FreeTo(t, k)) = f[k]
      BY <2>2, <3>1, <3>3, <3>5, <3>6, <3>7
    <3>9. QED BY <2>1, <3>3, <3>6, <3>8
  <2>5. QED BY <2>3, <2>4
<1>6. \A k \in 0 .. n : k \in Counted
  <2> HIDE DEF Counted
  <2>1. QED BY <1>4, <1>5, NatInductionSet
<1>7. FreeTo(t, n) = {p \in Nat : FreeAt(t, p)}
  BY <1>1 DEF FreeTo, FreeAt
<1>8. n \in Counted
  BY <1>6
<1>9. QED BY <1>3, <1>7, <1>8

(* The totals add up.                                                      *)
LEMMA PagesAddUp ==
  ASSUME NEW t \in Seq(Entry)
  PROVE  PagesIn(t, States) = PagesIn(t, {"free"}) + PagesIn(t, {"reserved"})
                                + PagesIn(t, {"runtime"}) + PagesIn(t, {"mmio"})
<1>1. PICK n \in Nat : n = Len(t) /\ \A k \in 1 .. n : t[k] \in Entry
  OBVIOUS
<1>2. PICK all, f, s, r, m : /\ PagesRun(t, States, all)
                             /\ PagesRun(t, {"free"}, f) /\ PagesRun(t, {"reserved"}, s)
                             /\ PagesRun(t, {"runtime"}, r) /\ PagesRun(t, {"mmio"}, m)
  BY PagesRuns
<1>3. \A k \in 0 .. n : all[k] \in Nat /\ f[k] \in Nat /\ s[k] \in Nat /\ r[k] \in Nat /\ m[k] \in Nat
  BY <1>1, <1>2 DEF PagesRun
<1> DEFINE Summed == {k \in 0 .. n : all[k] = f[k] + s[k] + r[k] + m[k]}
<1>4. 0 \in Summed
  BY <1>2 DEF PagesRun
<1>5. ASSUME NEW k \in 1 .. n, k - 1 \in Summed PROVE k \in Summed
  <2>1. PICK c \in Nat : c = t[k].count /\ t[k].state \in States
    BY <1>1 DEF Entry
  <2>2. k \in 1 .. Len(t) /\ k - 1 \in 0 .. n /\ k \in 0 .. n
    BY <1>1
  <2>3. PICK a0, f0, s0, r0, m0 \in Nat :
          /\ a0 = all[k - 1] /\ f0 = f[k - 1] /\ s0 = s[k - 1] /\ r0 = r[k - 1] /\ m0 = m[k - 1]
          /\ a0 = f0 + s0 + r0 + m0
    BY <1>3, <1>5, <2>2
  <2>4. /\ all[k] = a0 + c
        /\ f[k] = IF t[k].state = "free" THEN f0 + c ELSE f0
        /\ s[k] = IF t[k].state = "reserved" THEN s0 + c ELSE s0
        /\ r[k] = IF t[k].state = "runtime" THEN r0 + c ELSE r0
        /\ m[k] = IF t[k].state = "mmio" THEN m0 + c ELSE m0
    BY <1>2, <2>1, <2>2, <2>3 DEF PagesRun
  <2>5. a0 = f0 + s0 + r0 + m0
    BY <2>3
  <2>6. a0 + c = f[k] + s[k] + r[k] + m[k]
    <3>1. CASE t[k].state = "free"
      <4>1. f[k] = f0 + c /\ s[k] = s0 /\ r[k] = r0 /\ m[k] = m0
        BY <2>4, <3>1
      <4>2. a0 + c = (f0 + c) + s0 + r0 + m0
        BY ONLY <2>5, a0 \in Nat, f0 \in Nat, s0 \in Nat, r0 \in Nat, m0 \in Nat, c \in Nat
      <4>3. QED BY <4>1, <4>2
    <3>2. CASE t[k].state = "reserved"
      <4>1. f[k] = f0 /\ s[k] = s0 + c /\ r[k] = r0 /\ m[k] = m0
        BY <2>4, <3>2
      <4>2. a0 + c = f0 + (s0 + c) + r0 + m0
        BY ONLY <2>5, a0 \in Nat, f0 \in Nat, s0 \in Nat, r0 \in Nat, m0 \in Nat, c \in Nat
      <4>3. QED BY <4>1, <4>2
    <3>3. CASE t[k].state = "runtime"
      <4>1. f[k] = f0 /\ s[k] = s0 /\ r[k] = r0 + c /\ m[k] = m0
        BY <2>4, <3>3
      <4>2. a0 + c = f0 + s0 + (r0 + c) + m0
        BY ONLY <2>5, a0 \in Nat, f0 \in Nat, s0 \in Nat, r0 \in Nat, m0 \in Nat, c \in Nat
      <4>3. QED BY <4>1, <4>2
    <3>4. CASE t[k].state = "mmio"
      <4>1. f[k] = f0 /\ s[k] = s0 /\ r[k] = r0 /\ m[k] = m0 + c
        BY <2>4, <3>4
      <4>2. a0 + c = f0 + s0 + r0 + (m0 + c)
        BY ONLY <2>5, a0 \in Nat, f0 \in Nat, s0 \in Nat, r0 \in Nat, m0 \in Nat, c \in Nat
      <4>3. QED BY <4>1, <4>2
    <3>5. QED BY <2>1, <3>1, <3>2, <3>3, <3>4 DEF States
  <2>7. QED BY <2>2, <2>4, <2>6
<1>6. \A k \in 0 .. n : k \in Summed
  <2> HIDE DEF Summed
  <2>1. QED BY <1>4, <1>5, NatInductionSet
<1>7. QED BY <1>1, <1>2, <1>6 DEF PagesRun

(* The descriptors call usable the frames the table calls free.            *)
LEMMA UsableDescriptors ==
  ASSUME NEW t, Tidy(Entry, t), NEW d, d = RefreshInternalDescriptors(t)
  PROVE  /\ d \in Seq(Descriptor) /\ Len(d) <= MaxEntries
         /\ \A p \in Nat : FreeAt(t, p) <=> \E j \in 1 .. Len(d) : p \in Frames(d[j]) /\ d[j].category = "usable"
<1> DEFINE s == [i \in DOMAIN t |-> DescriptorOf(t[i])]
<1>1. /\ t \in Seq(Entry) /\ Len(t) \in Nat /\ DOMAIN t = 1 .. Len(t) /\ Len(t) <= MaxEntries
      /\ \A i \in 1 .. Len(t) : t[i] \in Entry
  BY DEF Tidy
<1>2. \A e \in Entry : /\ DescriptorOf(e) \in Descriptor /\ DescriptorOf(e).base = e.base
                       /\ End(DescriptorOf(e)) = End(e) /\ Frames(DescriptorOf(e)) = Frames(e)
                       /\ DescriptorOf(e).category = "usable" <=> e.state = "free"
  BY DescribedEntry
<1>3. s \in Seq(Descriptor) /\ Len(s) = Len(t) /\ \A i \in 1 .. Len(t) : s[i] = DescriptorOf(t[i])
  BY <1>1, <1>2
<1> HIDE DEF s
<1>4. InOrder(s)
  BY <1>1, <1>2, <1>3 DEF InOrder, Tidy
<1>5. AppendAll(s).ok /\ AppendAll(s).table = d
  BY <1>1, <1>3, DescriptorsAreItems, AppendAllFits DEF RefreshInternalDescriptors, s
<1>6. /\ Tidy(Descriptor, d)
      /\ \A p \in Nat, x \in Descriptor : Shows(d, p, x) <=> Shows(s, p, x)
  BY <1>3, <1>4, <1>5, DescriptorsAreItems, AppendAllTidies
<1>7. d \in Seq(Descriptor) /\ Len(d) <= MaxEntries /\ \A j \in 1 .. Len(d) : d[j] \in Descriptor
  BY <1>6 DEF Tidy
<1>8. \A x, y \in Descriptor : SaysTheSame(x, y) => x.category = y.category
  BY SameCategory
<1>9. \A x \in Descriptor : SaysTheSame(x, x)
  BY DescriptorsAreItems DEF Items
<1>10. ASSUME NEW p \in Nat, FreeAt(t, p)
       PROVE  \E j \in 1 .. Len(d) : p \in Frames(d[j]) /\ d[j].category = "usable"
  <2>1. PICK i \in 1 .. Len(t) : p \in Frames(t[i]) /\ t[i].state = "free"
    BY <1>10 DEF FreeAt
  <2>2. PICK x \in Descriptor : x = s[i] /\ p \in Frames(x) /\ x.category = "usable"
    BY <1>1, <1>2, <1>3, <2>1
  <2>3. Shows(s, p, x)
    BY <1>3, <1>9, <2>2 DEF Shows
  <2>4. PICK j \in 1 .. Len(d) : p \in Frames(d[j]) /\ SaysTheSame(d[j], x)
    BY <1>6, <2>3 DEF Shows
  <2>5. QED BY <1>7, <1>8, <2>2, <2>4
<1>11. ASSUME NEW p \in Nat, NEW j \in 1 .. Len(d), p \in Frames(d[j]), d[j].category = "usable"
       PROVE  FreeAt(t, p)
  <2>1. PICK x \in Descriptor : x = d[j]
    BY <1>7
  <2>2. Shows(d, p, x)
    BY <1>9, <1>11, <2>1 DEF Shows
  <2>3. PICK i \in 1 .. Len(t) : p \in Frames(s[i]) /\ SaysTheSame(s[i], x)
    BY <1>3, <1>6, <2>2 DEF Shows
  <2>4. s[i] = DescriptorOf(t[i]) /\ t[i] \in Entry /\ s[i] \in Descriptor /\ s[i].category = "usable"
    BY <1>1, <1>2, <1>3, <1>8, <1>11, <2>1, <2>3
  <2>5. p \in Frames(t[i]) /\ t[i].state = "free"
    BY <1>2, <2>3, <2>4
  <2>6. QED BY <2>5 DEF FreeAt
<1>12. QED BY <1>7, <1>10, <1>11

(* The inductive invariant: what is published is what a refresh would      *)
(* publish now.                                                            *)
Reported ==
  view = "ready" /\ ~ranOut =>
    totals = RefreshPageTotals(database) /\ descriptors = RefreshInternalDescriptors(database)

reportedVars == <<view, database, totals, descriptors, ranOut>>

LEMMA PublishKeepsReported ==
  ASSUME NEW list, Publish(list)
  PROVE  Reported'
<1>1. PICK u : u = RebuildCurrentPageFrameDatabase(list)
  OBVIOUS
<1>2. /\ database' = u.table /\ ranOut' = (ranOut \/ ~u.ok)
      /\ u.ok => totals' = RefreshPageTotals(u.table) /\ descriptors' = RefreshInternalDescriptors(u.table)
  BY <1>1 DEF Publish
<1>3. QED BY <1>2 DEF Reported

LEMMA BuildKeepsReported ==
  ASSUME Reported, NEW table, BuildMemoryView(table)
  PROVE  Reported'
<1>1. CASE OverlapAt(table) # {}
  BY <1>1 DEF BuildMemoryView, Halt, Reported
<1>2. CASE OverlapAt(table) = {}
  <2>1. PICK built : built = ReservedOverlays(IngestedRegions(table))
    OBVIOUS
  <2>2. /\ view' = IF built.ok THEN "ready" ELSE "rejected"
        /\ database' = built.table
        /\ built.ok => totals' = RefreshPageTotals(built.table)
        /\ built.ok => descriptors' = RefreshInternalDescriptors(built.table)
    BY <1>2, <2>1 DEF BuildMemoryView
  <2>3. QED BY <2>2 DEF Reported
<1>3. QED BY <1>1, <1>2

LEMMA RecordPublishes ==
  ASSUME NEW base, NEW count, NEW usage, NEW owner, Record(base, count, usage, owner)
  PROVE  (\E list : Publish(list)) \/ UNCHANGED reportedVars
BY DEF Record, Halt, vars, reportedVars

LEMMA FreePublishes ==
  ASSUME NEW base, NEW count, FreeFrames(base, count)
  PROVE  (\E list : Publish(list)) \/ UNCHANGED reportedVars
BY DEF FreeFrames, Release, Halt, reportedVars

LEMMA ReportedInductive ==
  ASSUME Reported, [Next]_vars
  PROVE  Reported'
<1>1. CASE \E t \in RegionTables : BuildMemoryView(t)
  BY <1>1, BuildKeepsReported
<1>2. CASE (\E list : Publish(list)) \/ UNCHANGED reportedVars
  BY <1>2, PublishKeepsReported DEF Reported, reportedVars
<1>3. ASSUME NEW r \in ClaimRequests, ClaimFrames(r)
      PROVE  (\E list : Publish(list)) \/ UNCHANGED reportedVars
  BY <1>3, RecordPublishes DEF ClaimFrames, Halt, reportedVars
<1>4. ASSUME NEW r \in ReserveRequests, ReserveFrames(r)
      PROVE  (\E list : Publish(list)) \/ UNCHANGED reportedVars
  BY <1>4, RecordPublishes DEF ReserveFrames, Halt, reportedVars
<1>5. ASSUME NEW r \in TrackedRequests, ClaimTrackedFrames(r)
      PROVE  (\E list : Publish(list)) \/ UNCHANGED reportedVars
  BY <1>5, RecordPublishes DEF ClaimTrackedFrames, Halt, reportedVars
<1>6. CASE (\E r \in FreeRanges : FreeFrames(r.base, r.count)) \/ \E g \in grants : FreeFrames(g.base, g.count)
  BY <1>2, <1>6, FreePublishes
<1>7. CASE \E g \in grants : FreeTrackedFrames(g)
  BY <1>2, <1>7 DEF FreeTrackedFrames, Release
<1>8. CASE UNCHANGED vars
  BY <1>2, <1>8 DEF vars, reportedVars
<1>9. QED BY <1>1, <1>2, <1>3, <1>4, <1>5, <1>6, <1>7, <1>8 DEF Next, AllocateFrames

(* After any history the frames reported usable are those a claim may be   *)
(* given, their number is the count of free pages, and the totals add up,  *)
(* until a rebuild runs out of entries.                                    *)
THEOREM ReportsAlwaysFollowGrants == Spec => []ReportsFollowGrants
<1>1. ASSUME Tables, Explained, Reported, view = "ready", ~ranOut
      PROVE  /\ ReportedUsable = Claimable
             /\ totals["free"] = Cardinality(Claimable)
             /\ totals["total"] = totals["free"] + totals["reserved"] + totals["runtime"] + totals["mmio"]
  <2>1. Tidy(Entry, database) /\ Tidy(Entry, baseline) /\ database \in Seq(Entry)
    BY <1>1 DEF Tables, Tidy
  <2>2. GrantsListed /\ DatabaseRebuilt
    BY <1>1 DEF Explained
  <2>3. Claimable \subseteq Nat
    BY <2>1, ClaimableFrames
  <2>4. Claimable = {p \in Nat : FreeAt(database, p)}
    BY <1>1, <2>2, <2>3, FreeMeansClaimable
  <2>5. totals = RefreshPageTotals(database) /\ descriptors = RefreshInternalDescriptors(database)
    BY <1>1 DEF Reported
  <2>6. /\ totals["total"] = PagesIn(database, States)
        /\ totals["free"] = PagesIn(database, {"free"})
        /\ totals["reserved"] = PagesIn(database, {"reserved"})
        /\ totals["runtime"] = PagesIn(database, {"runtime"})
        /\ totals["mmio"] = PagesIn(database, {"mmio"})
    BY <2>5 DEF RefreshPageTotals, States
  <2>7. totals["free"] = Cardinality(Claimable)
    BY <2>1, <2>4, <2>6, FreePagesCounted
  <2>8. totals["total"] = totals["free"] + totals["reserved"] + totals["runtime"] + totals["mmio"]
    BY <2>1, <2>6, PagesAddUp
  <2>9. ReportedUsable = Claimable
    <3>1. /\ descriptors \in Seq(Descriptor) /\ Len(descriptors) <= MaxEntries
          /\ \A p \in Nat : FreeAt(database, p) <=>
               \E j \in 1 .. Len(descriptors) : p \in Frames(descriptors[j]) /\ descriptors[j].category = "usable"
      BY <2>1, <2>5, UsableDescriptors
    <3>2. QueryMemoryRegions(MaxEntries) = descriptors
      <4>1. Smaller(MaxEntries, Len(descriptors)) = Len(descriptors)
        BY <3>1, MaxEntriesAssumption DEF Smaller
      <4>2. QED BY <3>1, <4>1 DEF QueryMemoryRegions
    <3>3. ToSet(descriptors) = {descriptors[j] : j \in 1 .. Len(descriptors)}
      BY <3>1 DEF ToSet
    <3>4. \A p : p \in ReportedUsable <=>
            \E j \in 1 .. Len(descriptors) : p \in Frames(descriptors[j]) /\ descriptors[j].category = "usable"
      BY <3>2, <3>3 DEF ReportedUsable
    <3>5. \A p : p \in ReportedUsable => p \in Nat
      <4>1. \A d \in Descriptor : Frames(d) \subseteq Nat
        BY DEF Descriptor, Frames, Span
      <4>2. \A j \in 1 .. Len(descriptors) : descriptors[j] \in Descriptor
        BY <3>1
      <4>3. QED BY <3>4, <4>1, <4>2
    <3>6. QED BY <2>4, <3>1, <3>4, <3>5
  <2>10. QED BY <2>7, <2>8, <2>9
<1>2. Tables /\ Explained /\ Reported => ReportsFollowGrants
  BY <1>1 DEF ReportsFollowGrants
<1>3. Init => Reported
  BY DEF Init, Reported
<1>4. Reported /\ [Next]_vars => Reported'
  BY ReportedInductive
<1>5. Spec => []Reported
  BY <1>3, <1>4, PTL DEF Spec
<1>6. QED BY <1>2, <1>5, AlwaysExplained, PTL

=============================================================================
