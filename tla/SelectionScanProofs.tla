------------------------- MODULE SelectionScanProofs -------------------------
(***************************************************************************)
(* Proofs about SelectionScan, for every number of tasks, priority, aging  *)
(* rule and waiting time, wherever the ticks land in the scan.             *)
(***************************************************************************)
EXTENDS SelectionScan, TLAPS

LEMMA ConstantFacts ==
  /\ MaxTasks \in Nat /\ MaxTasks > 0
  /\ IdleTask \in Tasks /\ IdleTask \notin UserTasks
  /\ Tasks \subseteq Nat /\ InvalidTask \notin Tasks
  /\ Priority \in [Tasks -> Nat]
  /\ AgingInterval \in Nat /\ AgingInterval > 0
  /\ MaxAgingBoost \in Nat /\ WakeBoostAge \in Nat /\ WaitCap \in Nat
BY TableAssumption, PolicyAssumption DEF Tasks, InvalidTask

-----------------------------------------------------------------------------
(* The order of the scan: after lastSelected, modulo the number of tasks.  *)

LEMMA ModOnce ==
  ASSUME NEW n \in Nat, n > 0, NEW x \in Int
  PROVE  /\ x \in 0 .. n - 1 => x % n = x
         /\ x \in n .. 2 * n - 1 => x % n = x - n
         /\ x \in (-n) .. -1 => x % n = x + n
<1>1. x \in 0 .. n - 1 => x % n = x
  OBVIOUS
<1>2. x \in n .. 2 * n - 1 => x % n = x - n
  OBVIOUS
<1>3. x \in (-n) .. -1 => x % n = x + n
  OBVIOUS
<1>4. QED BY <1>1, <1>2, <1>3

(* The cursor meets every task once, at its own offset.                    *)
LEMMA CursorMeetsTask ==
  ASSUME lastSelected \in Tasks \cup {InvalidTask}, offset \in 0 .. MaxTasks - 1
  PROVE  CursorTask \in Tasks /\ ScanOffset(CursorTask) = offset
<1> USE ConstantFacts DEF Tasks, InvalidTask
<1>1. CASE lastSelected = InvalidTask
  BY <1>1, ModOnce DEF CursorTask, ScanOffset
<1>2. CASE lastSelected \in Tasks
  <2>1. CASE lastSelected + 1 + offset < MaxTasks
    <3>1. CursorTask = lastSelected + 1 + offset
      BY <1>2, <2>1, ModOnce DEF CursorTask
    <3>2. QED BY <1>2, <2>1, <3>1, ModOnce DEF ScanOffset
  <2>2. CASE lastSelected + 1 + offset >= MaxTasks
    <3>1. CursorTask = lastSelected + 1 + offset - MaxTasks
      <4>1. lastSelected + 1 + offset \in MaxTasks .. 2 * MaxTasks - 1
        BY <1>2, <2>2
      <4>2. (lastSelected + 1 + offset) % MaxTasks = lastSelected + 1 + offset - MaxTasks
        BY <4>1, ModOnce
      <4>3. QED BY <1>2, <4>2 DEF CursorTask
    <3>2. CursorTask - lastSelected - 1 = offset - MaxTasks
      BY <1>2, <3>1
    <3>3. QED BY <1>2, <2>2, <3>1, <3>2, ModOnce DEF ScanOffset
  <2>3. QED BY <1>2, <2>1, <2>2
<1>3. QED BY <1>1, <1>2

LEMMA OffsetsDiffer ==
  ASSUME lastSelected \in Tasks \cup {InvalidTask}, NEW t \in Tasks, NEW u \in Tasks
  PROVE  /\ ScanOffset(t) \in 0 .. MaxTasks - 1
         /\ ScanOffset(t) = ScanOffset(u) => t = u
<1> USE ConstantFacts DEF Tasks, InvalidTask
<1> DEFINE at(v) == IF v > lastSelected THEN v - lastSelected - 1
                    ELSE v - lastSelected - 1 + MaxTasks
<1>1. ASSUME NEW v \in Tasks
      PROVE  ScanOffset(v) = at(v)
  <2>1. CASE v > lastSelected
    BY <2>1, ModOnce DEF ScanOffset
  <2>2. CASE v <= lastSelected
    <3>1. v - lastSelected - 1 \in (-MaxTasks) .. -1
      BY <2>2
    <3>2. QED BY <2>2, <3>1, ModOnce DEF ScanOffset
  <2>3. QED BY <2>1, <2>2
<1>2. ASSUME NEW v \in Tasks
      PROVE  at(v) \in 0 .. MaxTasks - 1
  OBVIOUS
<1>3. at(t) = at(u) => t = u
  OBVIOUS
<1>4. QED BY <1>1, <1>2, <1>3

-----------------------------------------------------------------------------
(* The parts of an effective priority.                                     *)

Aged(w) == Least(w \div AgingInterval, MaxAgingBoost)

WakeBonus(t, w) ==
  IF WakePending(t) /\ w <= WakeBoostAge THEN WakePriorityBoost ELSE 0

PriorityAt(t, w) == Priority[t] + Aged(w) + WakeBonus(t, w)

LEMMA PriorityNow ==
  ASSUME NEW t
  PROVE  EffectivePriority(t) = PriorityAt(t, waited[t])
BY DEF EffectivePriority, PriorityAt, Aged, WakeBonus

LEMMA PriorityTypes ==
  ASSUME NEW t \in Tasks, NEW w \in Nat
  PROVE  Aged(w) \in Nat /\ WakeBonus(t, w) \in {0, 2} /\ PriorityAt(t, w) \in Nat
<1>1. w \div AgingInterval \in Nat
  BY ConstantFacts
<1>2. Aged(w) \in Nat
  BY <1>1, ConstantFacts DEF Aged, Least
<1>3. WakeBonus(t, w) \in {0, 2}
  BY DEF WakeBonus, WakePriorityBoost
<1>4. Priority[t] \in Nat
  BY ConstantFacts
<1>5. QED BY <1>2, <1>3, <1>4 DEF PriorityAt

(* Waiting longer never lowers the aging boost, and raises it by at most   *)
(* one for each interval begun.                                            *)
LEMMA AgingGrows ==
  ASSUME NEW v \in Nat, NEW w \in Nat, v <= w
  PROVE  Aged(v) <= Aged(w)
<1>1. /\ v \div AgingInterval \in Nat /\ w \div AgingInterval \in Nat
      /\ v \div AgingInterval <= w \div AgingInterval
  BY ConstantFacts
<1>2. QED BY <1>1, ConstantFacts DEF Aged, Least

LEMMA DivisionOfSum ==
  ASSUME NEW a \in Nat, a > 0, NEW v \in Nat, NEW k \in Nat
  PROVE  (v + k) \div a <= (v \div a) + ((k + a - 1) \div a)
<1> DEFINE p == v \div a
           q == (k + a - 1) \div a
           r == (v + k) \div a
<1>1. p \in Nat /\ v < a * p + a
  OBVIOUS
<1>2. q \in Nat /\ k + a - 1 < a * q + a
  OBVIOUS
<1>3. r \in Nat /\ a * r <= v + k
  OBVIOUS
<1> HIDE DEF p, q, r
<1>4. v <= a * p + a - 1 /\ k <= a * q
  BY <1>1, <1>2
<1>5. a * r < a * p + a * q + a
  BY <1>1, <1>2, <1>3, <1>4
<1>6. a * (p + q + 1) = a * p + a * q + a
  BY <1>1, <1>2
<1>7. r < p + q + 1
  BY <1>1, <1>2, <1>3, <1>5, <1>6
<1>8. r <= p + q
  BY <1>1, <1>2, <1>3, <1>7
<1>9. QED BY <1>8 DEF p, q, r

LEMMA AgingBounded ==
  ASSUME NEW v \in Nat, NEW w \in Nat, NEW k \in Nat, w <= v + k
  PROVE  Aged(w) <= Aged(v) + ((k + AgingInterval - 1) \div AgingInterval)
<1>1. w \div AgingInterval <= (v + k) \div AgingInterval
  BY ConstantFacts
<1>2. (v + k) \div AgingInterval
        <= (v \div AgingInterval) + ((k + AgingInterval - 1) \div AgingInterval)
  BY ConstantFacts, DivisionOfSum
<1>3. /\ v \div AgingInterval \in Nat /\ w \div AgingInterval \in Nat
      /\ (v + k) \div AgingInterval \in Nat
      /\ (k + AgingInterval - 1) \div AgingInterval \in Nat
  BY ConstantFacts
<1>4. QED BY <1>1, <1>2, <1>3, ConstantFacts DEF Aged, Least

-----------------------------------------------------------------------------
(* The inductive invariant.                                                *)

(* The table: the idle task is always ready, a ready task that was woken   *)
(* can be selected, and no user task sleeps.                               *)
TableInv ==
  /\ state \in [Tasks -> TaskStates]
  /\ sleepLeft \in [Tasks -> (Nat \ {0}) \cup {NoWake}]
  /\ waited \in [Tasks -> 0 .. WaitCap]
  /\ boost \in [Tasks -> {0, WakeResumeBoost, LiveResumeBoost}]
  /\ userState \in [Tasks -> UserStates]
  /\ lastSelected \in Tasks \cup {InvalidTask}
  /\ state[IdleTask] = "ready"
  /\ \A t \in Tasks :
       /\ state[t] = "ready" /\ WakePending(t) => Eligible(t)
       /\ t \in UserTasks \/ state[t] # "blocked" => sleepLeft[t] = NoWake

ScanTypes ==
  /\ pc \in {"start", "scan", "chosen"}
  /\ offset \in 0 .. MaxTasks
  /\ best \in Tasks \cup {InvalidTask}
  /\ bestPriority \in Nat /\ bestWait \in 0 .. WaitCap
  /\ preferWake \in BOOLEAN
  /\ ticks \in Nat
  /\ pc = "start" => offset = 0 /\ best = InvalidTask /\ ticks = 0
  /\ pc = "chosen" => offset = MaxTasks /\ best # InvalidTask

Seen(t) == ScanOffset(t) < offset

(* Some task the scan has to consider is ahead of the cursor as long as it *)
(* has found none.                                                         *)
SomeoneAhead ==
  pc # "start" =>
    \E t \in Tasks : /\ state[t] = "ready" /\ (preferWake => WakePending(t))
                     /\ Eligible(t)
                     /\ Seen(t) => best # InvalidTask

(* The best task was considered, and is compared by what it had waited     *)
(* when the scan met it.                                                   *)
BestWasMet ==
  best # InvalidTask =>
    /\ Considered(best) /\ Seen(best)
    /\ bestWait <= waited[best]
    /\ bestPriority = PriorityAt(best, bestWait)
    /\ ticks = 0 => bestWait = waited[best]

(* Whatever the scan has met and that was ready all along ranked no higher *)
(* than the best one, at the time it was met.                              *)
MetNoHigher ==
  \A t \in Tasks :
    Seen(t) /\ Considered(t) /\ waited[t] >= ticks =>
      /\ best # InvalidTask
      /\ \E w \in 0 .. WaitCap : /\ w <= waited[t] /\ waited[t] <= w + ticks
                                 /\ PriorityAt(t, w) <= bestPriority

(* In a quiet scan the best one is the first of the foremost so far.       *)
QuietOrder ==
  ticks = 0 =>
    /\ pc # "start" => preferWake = SomeWakePending
    /\ \A t \in Tasks : Seen(t) /\ Considered(t) /\ best # InvalidTask =>
         /\ ~Outranks(t, best)
         /\ ScanOffset(t) < ScanOffset(best) => Outranks(best, t)

ScanInv ==
  TableInv /\ ScanTypes /\ SomeoneAhead /\ BestWasMet /\ MetNoHigher /\ QuietOrder

-----------------------------------------------------------------------------
(* The invariant holds initially, and every action keeps it.               *)

LEMMA EntryFacts ==
  ASSUME NEW t \in Tasks, NEW e \in Entries(t)
  PROVE  /\ e.state \in {"ready", "blocked", "unused"}
         /\ e.left \in (Nat \ {0}) \cup {NoWake}
         /\ e.wait \in 0 .. WaitCap
         /\ e.boost \in {0, WakeResumeBoost, LiveResumeBoost}
         /\ e.user \in UserStates
         /\ t = IdleTask => e.state = "ready"
         /\ e.state = "ready" /\ e.boost # 0 /\ t \in UserTasks => e.user = "live"
         /\ t \in UserTasks \/ e.state # "blocked" => e.left = NoWake
<1> USE ScanAssumption, ConstantFacts DEF NoWake, WakeResumeBoost, LiveResumeBoost, UserStates
<1>1. CASE t = IdleTask
  BY <1>1 DEF Entries
<1>2. CASE t \in UserTasks
  BY <1>2 DEF Entries
<1>3. CASE t # IdleTask /\ t \notin UserTasks
  BY <1>3 DEF Entries
<1>4. QED BY <1>1, <1>2, <1>3

LEMMA InitScanInv == Init => ScanInv
<1> SUFFICES ASSUME Init
             PROVE  ScanInv
  OBVIOUS
<1> USE ConstantFacts
<1>1. PICK table \in [Tasks -> Table] :
        /\ \A t \in Tasks : table[t] \in Entries(t)
        /\ state = [t \in Tasks |-> table[t].state]
        /\ sleepLeft = [t \in Tasks |-> table[t].left]
        /\ waited = [t \in Tasks |-> table[t].wait]
        /\ boost = [t \in Tasks |-> table[t].boost]
        /\ userState = [t \in Tasks |-> table[t].user]
  BY DEF Init
<1>2. TableInv
  <2>1. /\ state \in [Tasks -> TaskStates]
        /\ sleepLeft \in [Tasks -> (Nat \ {0}) \cup {NoWake}]
        /\ waited \in [Tasks -> 0 .. WaitCap]
        /\ boost \in [Tasks -> {0, WakeResumeBoost, LiveResumeBoost}]
        /\ userState \in [Tasks -> UserStates]
    BY <1>1, EntryFacts DEF TaskStates
  <2>2. state[IdleTask] = "ready"
    BY <1>1, EntryFacts
  <2>3. ASSUME NEW t \in Tasks
        PROVE  /\ state[t] = "ready" /\ WakePending(t) => Eligible(t)
               /\ t \in UserTasks \/ state[t] # "blocked" => sleepLeft[t] = NoWake
    BY <1>1, EntryFacts DEF WakePending, Eligible
  <2>4. lastSelected \in Tasks \cup {InvalidTask}
    BY DEF Init
  <2>5. QED BY <2>1, <2>2, <2>3, <2>4 DEF TableInv
<1>3. ScanTypes
  <2>1. /\ pc = "start" /\ offset = 0 /\ best = InvalidTask /\ bestPriority = 0
        /\ bestWait = 0 /\ preferWake = FALSE /\ ticks = 0
    BY DEF Init
  <2>2. 0 \in 0 .. MaxTasks /\ 0 \in 0 .. WaitCap
    OBVIOUS
  <2>3. QED BY <2>1, <2>2 DEF ScanTypes
<1>4. \A t \in Tasks : ~Seen(t)
  BY <1>2, OffsetsDiffer DEF Init, Seen, TableInv
<1>5. SomeoneAhead /\ BestWasMet /\ MetNoHigher /\ QuietOrder
  BY <1>4 DEF Init, SomeoneAhead, BestWasMet, MetNoHigher, QuietOrder
<1>6. QED BY <1>2, <1>3, <1>5 DEF ScanInv

LEMMA UntouchedTable ==
  ASSUME TableInv, UNCHANGED tableVars
  PROVE  TableInv'
BY DEF TableInv, tableVars, WakePending, Eligible

(* What the scan reads of a table that a step leaves alone stays as it is. *)
LEMMA SameTable ==
  ASSUME UNCHANGED tableVars
  PROVE  /\ \A t : /\ ScanOffset(t)' = ScanOffset(t)
                  /\ Eligible(t)' = Eligible(t)
                  /\ WakePending(t)' = WakePending(t)
                  /\ EffectivePriority(t)' = EffectivePriority(t)
         /\ \A t, w : PriorityAt(t, w)' = PriorityAt(t, w)
         /\ \A t, u : Outranks(t, u)' = Outranks(t, u)
         /\ SomeWakePending' = SomeWakePending
<1>1. \A t : /\ ScanOffset(t)' = ScanOffset(t)
             /\ Eligible(t)' = Eligible(t)
             /\ WakePending(t)' = WakePending(t)
             /\ EffectivePriority(t)' = EffectivePriority(t)
  BY DEF tableVars, ScanOffset, Eligible, WakePending, EffectivePriority
<1>2. \A t, w : PriorityAt(t, w)' = PriorityAt(t, w)
  BY <1>1 DEF PriorityAt, WakeBonus
<1>3. \A t, u : Outranks(t, u)' = Outranks(t, u)
  BY <1>1 DEF Outranks, tableVars
<1>4. SomeWakePending' = SomeWakePending
  BY <1>1 DEF SomeWakePending, tableVars
<1>5. QED BY <1>1, <1>2, <1>3, <1>4

LEMMA BeginKeepsInv ==
  ASSUME ScanInv, BeginScan
  PROVE  ScanInv'
<1> USE ConstantFacts DEF ScanInv
<1>1. /\ pc = "start" /\ pc' = "scan" /\ preferWake' = SomeWakePending
      /\ UNCHANGED <<tableVars, offset, best, bestPriority, bestWait, ticks>>
  BY DEF BeginScan
<1>2. TableInv'
  BY <1>1, UntouchedTable
<1>3. offset = 0 /\ best = InvalidTask /\ ticks = 0
  BY <1>1 DEF ScanTypes
<1>4. ScanTypes'
  BY <1>1 DEF ScanTypes, SomeWakePending
<1>5. \A t \in Tasks : ~Seen(t)'
  BY <1>1, <1>3, OffsetsDiffer DEF Seen, TableInv, tableVars, ScanOffset
<1>6. SomeoneAhead'
  <2>1. CASE SomeWakePending
    <3>1. PICK t \in Tasks : state[t] = "ready" /\ WakePending(t)
      BY <2>1 DEF SomeWakePending
    <3>2. Eligible(t)
      BY <3>1 DEF TableInv
    <3>3. QED BY <1>1, <1>5, <3>1, <3>2 DEF SomeoneAhead, tableVars, WakePending, Eligible
  <2>2. CASE ~SomeWakePending
    <3>1. state[IdleTask] = "ready" /\ Eligible(IdleTask)
      BY DEF TableInv, Eligible
    <3>2. QED BY <1>1, <1>5, <2>2, <3>1 DEF SomeoneAhead, tableVars, Eligible
  <2>3. QED BY <2>1, <2>2
<1>7. SomeWakePending' = SomeWakePending
  BY <1>1 DEF SomeWakePending, tableVars, WakePending
<1>8. BestWasMet' /\ MetNoHigher' /\ QuietOrder'
  BY <1>1, <1>3, <1>5, <1>7 DEF BestWasMet, MetNoHigher, QuietOrder
<1>9. QED BY <1>2, <1>4, <1>6, <1>8

LEMMA EndKeepsInv ==
  ASSUME ScanInv, EndScan
  PROVE  ScanInv'
<1> USE ConstantFacts DEF ScanInv
<1>1. /\ pc = "scan" /\ pc' = "chosen" /\ offset = MaxTasks
      /\ UNCHANGED <<tableVars, offset, bestPriority, bestWait, preferWake, ticks>>
  BY DEF EndScan
<1>2. PICK t \in Tasks : Seen(t) => best # InvalidTask
  BY <1>1 DEF SomeoneAhead
<1>3. best # InvalidTask
  BY <1>1, <1>2, OffsetsDiffer DEF Seen, TableInv
<1>4. best' = best
  BY <1>3 DEF EndScan
<1>5. TableInv'
  BY <1>1, UntouchedTable
<1>6. ScanTypes'
  BY <1>1, <1>3, <1>4 DEF ScanTypes
<1>7. \A u : Seen(u)' = Seen(u) /\ Considered(u)' = Considered(u)
  BY <1>1, SameTable DEF Seen, Considered, tableVars
<1>8. SomeoneAhead'
  BY <1>1, <1>4, <1>7, SameTable DEF SomeoneAhead, tableVars
<1>9. BestWasMet'
  BY <1>1, <1>4, <1>7, SameTable DEF BestWasMet, tableVars
<1>10. MetNoHigher'
  BY <1>1, <1>4, <1>7, SameTable DEF MetNoHigher, tableVars
<1>11. QuietOrder'
  BY <1>1, <1>4, <1>7, SameTable DEF QuietOrder, tableVars
<1>12. QED BY <1>5, <1>6, <1>8, <1>9, <1>10, <1>11

(* The steps of the loop: the cursor's task is now met.                    *)

LEMMA CursorIsMet ==
  ASSUME ScanInv, pc = "scan", offset < MaxTasks, offset' = offset + 1,
         UNCHANGED <<tableVars, pc, preferWake, ticks>>
  PROVE  /\ CursorTask \in Tasks /\ ScanOffset(CursorTask) = offset
         /\ \A t \in Tasks : Seen(t)' <=> Seen(t) \/ t = CursorTask
         /\ \A t \in Tasks : Seen(t) => ScanOffset(t) < ScanOffset(CursorTask)
         /\ \A t : Considered(t)' = Considered(t)
<1> USE ConstantFacts DEF ScanInv
<1>1. offset \in 0 .. MaxTasks - 1 /\ lastSelected \in Tasks \cup {InvalidTask}
  BY DEF ScanTypes, TableInv
<1>2. CursorTask \in Tasks /\ ScanOffset(CursorTask) = offset
  BY <1>1, CursorMeetsTask
<1>3. ASSUME NEW t \in Tasks
      PROVE  /\ Seen(t)' <=> Seen(t) \/ t = CursorTask
             /\ Seen(t) => ScanOffset(t) < ScanOffset(CursorTask)
  <2>1. ScanOffset(t) \in 0 .. MaxTasks - 1
    BY <1>1, OffsetsDiffer
  <2>2. ScanOffset(t) = ScanOffset(CursorTask) => t = CursorTask
    BY <1>1, <1>2, OffsetsDiffer
  <2>3. ScanOffset(t)' = ScanOffset(t)
    BY SameTable
  <2>4. QED BY <1>1, <1>2, <2>1, <2>2, <2>3 DEF Seen
<1>4. \A t : Considered(t)' = Considered(t)
  BY SameTable DEF Considered, tableVars
<1>5. QED BY <1>2, <1>3, <1>4

LEMMA TakeKeepsInv ==
  ASSUME ScanInv, TakeEntry
  PROVE  ScanInv'
<1> USE ConstantFacts DEF ScanInv
<1>1. /\ pc = "scan" /\ offset < MaxTasks /\ offset' = offset + 1
      /\ Considered(CursorTask) /\ BetterThanBest(CursorTask)
      /\ best' = CursorTask
      /\ bestPriority' = EffectivePriority(CursorTask)
      /\ bestWait' = waited[CursorTask]
      /\ UNCHANGED <<tableVars, pc, preferWake, ticks>>
  BY DEF TakeEntry
<1>2. /\ CursorTask \in Tasks /\ ScanOffset(CursorTask) = offset
      /\ \A t \in Tasks : Seen(t)' <=> Seen(t) \/ t = CursorTask
      /\ \A t \in Tasks : Seen(t) => ScanOffset(t) < ScanOffset(CursorTask)
      /\ \A t : Considered(t)' = Considered(t)
  BY <1>1, CursorIsMet
<1>3. best' \in Tasks /\ best' # InvalidTask
  BY <1>1, <1>2
<1>4. waited \in [Tasks -> 0 .. WaitCap]
  BY DEF TableInv
<1>5. EffectivePriority(CursorTask) = PriorityAt(CursorTask, waited[CursorTask])
  BY PriorityNow
<1>6. EffectivePriority(CursorTask) \in Nat
  BY <1>2, <1>4, <1>5, PriorityTypes
<1>7. best # InvalidTask => EffectivePriority(CursorTask) >= bestPriority
  BY <1>1, <1>6 DEF BetterThanBest, ScanTypes
<1>8. TableInv'
  BY <1>1, UntouchedTable
<1>9. ScanTypes'
  <2>1. offset' \in 0 .. MaxTasks
    BY <1>1 DEF ScanTypes
  <2>2. bestPriority' \in Nat /\ bestWait' \in 0 .. WaitCap
    BY <1>1, <1>2, <1>4, <1>6
  <2>3. QED BY <1>1, <1>3, <2>1, <2>2 DEF ScanTypes
<1>10. SomeoneAhead'
  BY <1>1, <1>3, SameTable DEF SomeoneAhead, tableVars
<1>11. BestWasMet'
  <2>1. bestWait' = waited'[best'] /\ bestWait' <= waited'[best']
    BY <1>1, <1>2, <1>4 DEF tableVars
  <2>2. bestPriority' = PriorityAt(best, bestWait)'
    BY <1>1, <1>5 DEF PriorityAt, Aged, WakeBonus, WakePending, tableVars
  <2>3. Considered(best)' /\ Seen(best)'
    <3>1. \A t \in Tasks : t = CursorTask => Considered(t)' /\ Seen(t)'
      BY <1>1, <1>2
    <3>2. QED
      BY <1>1, <1>2, <3>1 DEF Considered, Eligible, WakePending, Seen, ScanOffset, tableVars
  <2>4. QED BY <2>1, <2>2, <2>3 DEF BestWasMet
<1>12. MetNoHigher'
  <2> SUFFICES ASSUME NEW t \in Tasks, Seen(t)', Considered(t)', waited'[t] >= ticks'
               PROVE  \E w \in 0 .. WaitCap :
                        /\ w <= waited[t] /\ waited[t] <= w + ticks
                        /\ PriorityAt(t, w) <= EffectivePriority(CursorTask)
    BY <1>1, <1>3, SameTable DEF MetNoHigher, tableVars
  <2>1. CASE t = CursorTask
    <3>1. /\ waited[t] \in 0 .. WaitCap /\ waited[t] <= waited[t]
          /\ waited[t] <= waited[t] + ticks
      BY <1>4 DEF ScanTypes
    <3>2. PriorityAt(t, waited[t]) <= EffectivePriority(CursorTask)
      BY <1>5, <1>6, <2>1
    <3>3. QED BY <3>1, <3>2
  <2>2. CASE t # CursorTask
    <3>1. Seen(t) /\ Considered(t) /\ waited[t] >= ticks
      BY <1>1, <1>2, <2>2 DEF tableVars
    <3>2. PICK w \in 0 .. WaitCap : /\ w <= waited[t] /\ waited[t] <= w + ticks
                                    /\ PriorityAt(t, w) <= bestPriority
      BY <3>1 DEF MetNoHigher
    <3>3. best # InvalidTask
      BY <3>1 DEF MetNoHigher
    <3>4. PriorityAt(t, w) \in Nat /\ bestPriority \in Nat
      BY PriorityTypes DEF ScanTypes
    <3>5. PriorityAt(t, w) <= EffectivePriority(CursorTask)
      BY <1>6, <1>7, <3>2, <3>3, <3>4
    <3>6. QED BY <3>2, <3>5
  <2>3. QED BY <2>1, <2>2
<1>13. QuietOrder'
  <2> SUFFICES ASSUME ticks = 0
               PROVE  QuietOrder'
    BY <1>1 DEF QuietOrder
  <2>1. preferWake' = SomeWakePending'
    BY <1>1, SameTable DEF QuietOrder
  <2>2. ASSUME NEW t \in Tasks, Seen(t)', Considered(t)
        PROVE  /\ ~Outranks(t, CursorTask)
               /\ ScanOffset(t) < ScanOffset(CursorTask) => Outranks(CursorTask, t)
    <3>1. CASE t = CursorTask
      BY <1>2, <1>4, <1>6, <3>1, OffsetsDiffer DEF Outranks, ScanTypes
    <3>2. CASE t # CursorTask
      <4>1. Seen(t)
        BY <1>2, <2>2, <3>2
      <4>2. best # InvalidTask
        BY <1>4, <2>2, <4>1 DEF MetNoHigher
      <4>3. best \in Tasks /\ bestWait = waited[best]
        BY <4>2 DEF BestWasMet, ScanTypes
      <4>4. bestPriority = EffectivePriority(best)
        BY <4>2, <4>3, PriorityNow DEF BestWasMet
      <4>5. Outranks(CursorTask, best)
        BY <1>1, <4>2, <4>3, <4>4 DEF BetterThanBest, Outranks
      <4>6. ~Outranks(t, best)
        BY <2>2, <4>1, <4>2 DEF QuietOrder
      <4>7. /\ EffectivePriority(t) \in Nat /\ EffectivePriority(best) \in Nat
            /\ waited[t] \in Nat /\ waited[best] \in Nat /\ waited[CursorTask] \in Nat
        BY <1>2, <1>4, <4>3, PriorityNow, PriorityTypes
      <4>8. QED BY <1>6, <4>5, <4>6, <4>7 DEF Outranks
    <3>3. QED BY <3>1, <3>2
  <2>3. ASSUME NEW t \in Tasks, Seen(t)', Considered(t)'
        PROVE  /\ ~Outranks(t, best)'
               /\ ScanOffset(t)' < ScanOffset(best)' => Outranks(best, t)'
    <3>1. Considered(t)
      BY <1>2, <2>3
    <3>2. /\ ~Outranks(t, CursorTask)
          /\ ScanOffset(t) < ScanOffset(CursorTask) => Outranks(CursorTask, t)
      BY <2>2, <2>3, <3>1
    <3>3. QED
      BY <1>1, <3>2 DEF Outranks, EffectivePriority, WakePending, ScanOffset, tableVars
  <2>4. QED BY <2>1, <2>3 DEF QuietOrder
<1>14. QED BY <1>8, <1>9, <1>10, <1>11, <1>12, <1>13

LEMMA PassKeepsInv ==
  ASSUME ScanInv, PassEntry
  PROVE  ScanInv'
<1> USE ConstantFacts DEF ScanInv
<1>1. /\ pc = "scan" /\ offset < MaxTasks /\ offset' = offset + 1
      /\ ~(Considered(CursorTask) /\ BetterThanBest(CursorTask))
      /\ UNCHANGED <<tableVars, pc, best, bestPriority, bestWait, preferWake, ticks>>
  BY DEF PassEntry
<1>2. /\ CursorTask \in Tasks /\ ScanOffset(CursorTask) = offset
      /\ \A t \in Tasks : Seen(t)' <=> Seen(t) \/ t = CursorTask
      /\ \A t \in Tasks : Seen(t) => ScanOffset(t) < ScanOffset(CursorTask)
      /\ \A t : Considered(t)' = Considered(t)
  BY <1>1, CursorIsMet
<1>3. waited \in [Tasks -> 0 .. WaitCap]
  BY DEF TableInv
<1>4. EffectivePriority(CursorTask) = PriorityAt(CursorTask, waited[CursorTask])
  BY PriorityNow
<1>5. EffectivePriority(CursorTask) \in Nat /\ bestPriority \in Nat
  BY <1>2, <1>3, <1>4, PriorityTypes DEF ScanTypes
<1>6. Considered(CursorTask) =>
        /\ best # InvalidTask
        /\ EffectivePriority(CursorTask) <= bestPriority
        /\ EffectivePriority(CursorTask) = bestPriority => waited[CursorTask] <= bestWait
  BY <1>1, <1>2, <1>3, <1>5 DEF BetterThanBest, ScanTypes
<1>7. TableInv'
  BY <1>1, UntouchedTable
<1>8. ScanTypes'
  <2>1. offset' \in 0 .. MaxTasks
    BY <1>1 DEF ScanTypes
  <2>2. QED BY <1>1, <2>1 DEF ScanTypes
<1>9. SomeoneAhead'
  <2>1. PICK t \in Tasks : /\ state[t] = "ready" /\ (preferWake => WakePending(t))
                           /\ Eligible(t)
                           /\ Seen(t) => best # InvalidTask
    BY <1>1 DEF SomeoneAhead
  <2>2. t = CursorTask => best # InvalidTask
    BY <1>6, <2>1 DEF Considered, Eligible, WakePending
  <2>3. Seen(t)' => best' # InvalidTask
    <3>1. Seen(t)' <=> Seen(t) \/ t = CursorTask
      BY <1>2
    <3>2. Seen(t) => best # InvalidTask
      BY <2>1
    <3>3. QED BY <1>1, <2>2, <3>1, <3>2
  <2>4. QED BY <1>1, <2>1, <2>3, SameTable DEF SomeoneAhead, tableVars
<1>10. BestWasMet'
  <2> SUFFICES ASSUME best # InvalidTask
               PROVE  BestWasMet'
    BY <1>1 DEF BestWasMet
  <2>1. best \in Tasks
    BY DEF ScanTypes
  <2>2. Considered(best)' /\ Seen(best)'
    <3>1. \A t \in Tasks : t = best => Considered(t)' /\ Seen(t)'
      BY <1>2 DEF BestWasMet
    <3>2. QED
      BY <1>1, <2>1, <3>1
      DEF Considered, Eligible, WakePending, Seen, ScanOffset, tableVars
  <2>3. bestPriority' = PriorityAt(best, bestWait)'
    BY <1>1 DEF BestWasMet, PriorityAt, Aged, WakeBonus, WakePending, tableVars
  <2>4. bestWait' <= waited'[best'] /\ (ticks' = 0 => bestWait' = waited'[best'])
    BY <1>1 DEF BestWasMet, tableVars
  <2>5. QED BY <2>2, <2>3, <2>4 DEF BestWasMet
<1>11. MetNoHigher'
  <2> SUFFICES ASSUME NEW t \in Tasks, Seen(t)', Considered(t)', waited'[t] >= ticks'
               PROVE  /\ best # InvalidTask
                      /\ \E w \in 0 .. WaitCap :
                           /\ w <= waited[t] /\ waited[t] <= w + ticks
                           /\ PriorityAt(t, w) <= bestPriority
    BY <1>1, SameTable DEF MetNoHigher, tableVars
  <2>1. CASE t = CursorTask
    <3>1. Considered(CursorTask)
      BY <1>2, <2>1
    <3>2. /\ waited[t] \in 0 .. WaitCap /\ waited[t] <= waited[t]
          /\ waited[t] <= waited[t] + ticks
      BY <1>3 DEF ScanTypes
    <3>3. PriorityAt(t, waited[t]) <= bestPriority
      BY <1>4, <1>6, <2>1, <3>1
    <3>4. QED BY <1>6, <3>1, <3>2, <3>3
  <2>2. CASE t # CursorTask
    BY <1>1, <1>2, <2>2 DEF MetNoHigher, tableVars
  <2>3. QED BY <2>1, <2>2
<1>12. QuietOrder'
  <2> SUFFICES ASSUME ticks = 0
               PROVE  QuietOrder'
    BY <1>1 DEF QuietOrder
  <2>1. preferWake' = SomeWakePending'
    BY <1>1, SameTable DEF QuietOrder
  <2>2. ASSUME NEW t \in Tasks, Seen(t)', Considered(t), best # InvalidTask
        PROVE  /\ ~Outranks(t, best)
               /\ ScanOffset(t) < ScanOffset(best) => Outranks(best, t)
    <3>1. CASE t = CursorTask
      <4>1. best \in Tasks /\ bestWait = waited[best] /\ Seen(best)
        BY <2>2 DEF BestWasMet, ScanTypes
      <4>2. bestPriority = EffectivePriority(best)
        BY <2>2, <4>1, PriorityNow DEF BestWasMet
      <4>3. ScanOffset(best) < ScanOffset(t) /\ ScanOffset(t) \in Nat
        BY <1>2, <3>1, <4>1 DEF ScanTypes
      <4>4. ScanOffset(best) \in Nat
        BY <4>1, OffsetsDiffer DEF TableInv
      <4>5. ~(ScanOffset(t) < ScanOffset(best))
        BY <4>3, <4>4
      <4>6. /\ EffectivePriority(t) <= bestPriority
            /\ EffectivePriority(t) = bestPriority => waited[t] <= bestWait
        BY <1>6, <2>2, <3>1
      <4>7. waited[t] \in Nat /\ waited[best] \in Nat /\ EffectivePriority(t) \in Nat
        BY <1>2, <1>3, <1>5, <3>1, <4>1
      <4>8. QED BY <1>5, <4>1, <4>2, <4>5, <4>6, <4>7 DEF Outranks
    <3>2. CASE t # CursorTask
      BY <1>2, <2>2, <3>2 DEF QuietOrder
    <3>3. QED BY <3>1, <3>2
  <2>3. ASSUME NEW t \in Tasks, Seen(t)', Considered(t)', best' # InvalidTask
        PROVE  /\ ~Outranks(t, best)'
               /\ ScanOffset(t)' < ScanOffset(best)' => Outranks(best, t)'
    <3>1. Considered(t) /\ best # InvalidTask
      BY <1>1, <1>2, <2>3
    <3>2. /\ ~Outranks(t, best)
          /\ ScanOffset(t) < ScanOffset(best) => Outranks(best, t)
      BY <2>2, <2>3, <3>1
    <3>3. QED
      BY <1>1, <3>2 DEF Outranks, EffectivePriority, WakePending, ScanOffset, tableVars
  <2>4. QED BY <2>1, <2>3 DEF QuietOrder
<1>13. QED BY <1>7, <1>8, <1>9, <1>10, <1>11, <1>12

(* A tick between two iterations.  A ready task stays ready, keeps its     *)
(* wake bonus and grows older by at most one; a task it wakes has waited   *)
(* for less time than the scan has taken.                                  *)
LEMMA TickKeepsInv ==
  ASSUME ScanInv, TickDuringScan
  PROVE  ScanInv'
<1> USE ConstantFacts DEF ScanInv
<1>1. /\ pc = "scan" /\ ticks' = ticks + 1
      /\ state' = StateAfterTick /\ sleepLeft' = SleepLeftAfterTick
      /\ waited' = WaitedAfterTick /\ boost' = BoostAfterTick
      /\ UNCHANGED <<userState, lastSelected, pc, offset, best, bestPriority, bestWait,
                     preferWake>>
  BY DEF TickDuringScan
<1>2. ticks \in Nat /\ ticks' \in Nat /\ ticks' # 0
  BY <1>1 DEF ScanTypes
<1>3. /\ state \in [Tasks -> TaskStates]
      /\ sleepLeft \in [Tasks -> (Nat \ {0}) \cup {NoWake}]
      /\ waited \in [Tasks -> 0 .. WaitCap]
      /\ boost \in [Tasks -> {0, WakeResumeBoost, LiveResumeBoost}]
  BY DEF TableInv
<1>4. ASSUME NEW t \in Tasks
      PROVE  /\ Eligible(t)' = Eligible(t)
             /\ ScanOffset(t)' = ScanOffset(t) /\ Seen(t)' = Seen(t)
  BY <1>1 DEF Eligible, ScanOffset, Seen
<1>5. ASSUME NEW t \in Tasks, state[t] = "ready"
      PROVE  /\ state'[t] = "ready"
             /\ WakePending(t)' = WakePending(t)
             /\ waited[t] <= waited'[t] /\ waited'[t] <= waited[t] + 1
  <2>1. t \notin DueTasks
    BY <1>5 DEF DueTasks
  <2>2. state'[t] = "ready" /\ boost'[t] = boost[t]
    BY <1>1, <1>5, <2>1 DEF StateAfterTick, BoostAfterTick
  <2>3. waited'[t] = Least(waited[t] + 1, WaitCap)
    BY <1>1, <1>5 DEF WaitedAfterTick
  <2>4. waited[t] \in 0 .. WaitCap
    BY <1>3
  <2>5. QED BY <2>2, <2>3, <2>4 DEF Least, WakePending
<1>6. ASSUME NEW t \in Tasks, state[t] # "ready"
      PROVE  waited'[t] = 0
  BY <1>1, <1>6 DEF WaitedAfterTick
<1>7. TableInv'
  <2>1. state' \in [Tasks -> TaskStates]
    BY <1>1, <1>3 DEF StateAfterTick, TaskStates
  <2>2. sleepLeft' \in [Tasks -> (Nat \ {0}) \cup {NoWake}]
    <3>1. ASSUME NEW t \in Tasks, t \notin DueTasks, sleepLeft[t] # NoWake
          PROVE  sleepLeft[t] - 1 \in Nat \ {0}
      <4>1. state[t] = "blocked"
        BY <3>1 DEF TableInv
      <4>2. sleepLeft[t] \in Nat \ {0}
        BY <1>3, <3>1
      <4>3. QED BY <3>1, <4>1, <4>2 DEF DueTasks
    <3>2. QED BY <1>1, <3>1 DEF SleepLeftAfterTick
  <2>3. waited' \in [Tasks -> 0 .. WaitCap]
    <3>1. ASSUME NEW t \in Tasks
          PROVE  Least(waited[t] + 1, WaitCap) \in 0 .. WaitCap
      BY <1>3 DEF Least
    <3>2. QED BY <1>1, <3>1 DEF WaitedAfterTick
  <2>4. boost' \in [Tasks -> {0, WakeResumeBoost, LiveResumeBoost}]
    BY <1>1, <1>3 DEF BoostAfterTick
  <2>5. ASSUME NEW t \in Tasks, state'[t] = "ready", WakePending(t)'
        PROVE  Eligible(t)'
    <3>1. CASE state[t] = "ready"
      BY <1>4, <1>5, <2>5, <3>1 DEF TableInv
    <3>2. CASE state[t] # "ready"
      <4>1. t \in DueTasks
        BY <1>1, <2>5, <3>2 DEF StateAfterTick
      <4>2. t \notin UserTasks
        BY <4>1 DEF DueTasks, TableInv, NoWake
      <4>3. QED BY <4>2 DEF Eligible
    <3>3. QED BY <3>1, <3>2
  <2>6. ASSUME NEW t \in Tasks, t \in UserTasks \/ state'[t] # "blocked"
        PROVE  sleepLeft'[t] = NoWake
    <3>1. CASE t \in DueTasks
      BY <1>1, <3>1 DEF SleepLeftAfterTick
    <3>2. CASE t \notin DueTasks
      <4>1. state'[t] = state[t]
        BY <1>1, <3>2 DEF StateAfterTick
      <4>2. sleepLeft[t] = NoWake
        BY <2>6, <4>1 DEF TableInv
      <4>3. QED BY <1>1, <4>2 DEF SleepLeftAfterTick
    <3>3. QED BY <3>1, <3>2
  <2>7. /\ userState' \in [Tasks -> UserStates]
        /\ lastSelected' \in Tasks \cup {InvalidTask}
        /\ state'[IdleTask] = "ready"
    BY <1>1, <1>5 DEF TableInv
  <2>8. QED BY <2>1, <2>2, <2>3, <2>4, <2>5, <2>6, <2>7 DEF TableInv
<1>8. ScanTypes'
  BY <1>1, <1>2 DEF ScanTypes
<1>9. ASSUME NEW t \in Tasks, state[t] = "ready"
      PROVE  Considered(t)' = Considered(t)
  BY <1>1, <1>4, <1>5, <1>9 DEF Considered
<1>10. SomeoneAhead'
  <2>1. PICK t \in Tasks : /\ state[t] = "ready" /\ (preferWake => WakePending(t))
                           /\ Eligible(t)
                           /\ Seen(t) => best # InvalidTask
    BY <1>1 DEF SomeoneAhead
  <2>2. /\ state'[t] = "ready" /\ (preferWake' => WakePending(t)')
        /\ Eligible(t)'
        /\ Seen(t)' => best' # InvalidTask
    BY <1>1, <1>4, <1>5, <2>1
  <2>3. QED BY <2>2 DEF SomeoneAhead
<1>11. BestWasMet'
  <2> SUFFICES ASSUME best # InvalidTask
               PROVE  BestWasMet'
    BY <1>1 DEF BestWasMet
  <2>1. best \in Tasks /\ state[best] = "ready"
    BY DEF ScanTypes, BestWasMet, Considered
  <2>2. state'[best] = "ready" /\ (boost'[best] # 0 <=> boost[best] # 0)
    BY <1>5, <2>1 DEF WakePending
  <2>3. Considered(best)' /\ Seen(best)'
    BY <1>1, <2>1, <2>2 DEF BestWasMet, Considered, Eligible, WakePending, Seen, ScanOffset
  <2>4. bestWait' <= waited'[best']
    <3>1. /\ bestWait <= waited[best] /\ waited[best] <= waited'[best]
          /\ bestWait \in Nat /\ waited[best] \in Nat /\ waited'[best] \in Nat
      BY <1>3, <1>5, <1>7, <2>1 DEF BestWasMet, ScanTypes, TableInv
    <3>2. QED BY <1>1, <3>1
  <2>5. bestPriority' = PriorityAt(best, bestWait)'
    BY <1>1, <2>2 DEF BestWasMet, PriorityAt, Aged, WakeBonus, WakePending
  <2>6. QED BY <1>2, <2>3, <2>4, <2>5 DEF BestWasMet
<1>12. MetNoHigher'
  <2> SUFFICES ASSUME NEW t \in Tasks, Seen(t)', Considered(t)', waited'[t] >= ticks'
               PROVE  /\ best' # InvalidTask
                      /\ \E w \in 0 .. WaitCap :
                           /\ w <= waited'[t] /\ waited'[t] <= w + ticks'
                           /\ PriorityAt(t, w)' <= bestPriority'
    BY DEF MetNoHigher
  <2>1. state[t] = "ready"
    BY <1>1, <1>2, <1>6
  <2>2. Seen(t) /\ Considered(t)
    BY <1>4, <1>9, <2>1
  <2>3. /\ waited[t] \in Nat /\ waited'[t] \in Nat
        /\ waited[t] <= waited'[t] /\ waited'[t] <= waited[t] + 1
    BY <1>3, <1>5, <1>7, <2>1 DEF TableInv
  <2>4. waited[t] >= ticks
    BY <1>1, <1>2, <2>3
  <2>5. PICK w \in 0 .. WaitCap : /\ w <= waited[t] /\ waited[t] <= w + ticks
                                  /\ PriorityAt(t, w) <= bestPriority
    BY <2>2, <2>4 DEF MetNoHigher
  <2>6. w <= waited'[t] /\ waited'[t] <= w + ticks'
    BY <1>1, <1>2, <2>3, <2>5
  <2>7. PriorityAt(t, w)' = PriorityAt(t, w)
    BY <1>5, <2>1 DEF PriorityAt, WakeBonus
  <2>8. QED BY <1>1, <2>2, <2>4, <2>5, <2>6, <2>7 DEF MetNoHigher
<1>13. QuietOrder'
  BY <1>2 DEF QuietOrder
<1>14. QED BY <1>7, <1>8, <1>10, <1>11, <1>12, <1>13

LEMMA NextKeepsScanInv == ScanInv /\ [Next]_vars => ScanInv'
<1> SUFFICES ASSUME ScanInv, [Next]_vars
             PROVE  ScanInv'
  OBVIOUS
<1>1. CASE BeginScan
  BY <1>1, BeginKeepsInv
<1>2. CASE TakeEntry
  BY <1>2, TakeKeepsInv
<1>3. CASE PassEntry
  BY <1>3, PassKeepsInv
<1>4. CASE EndScan
  BY <1>4, EndKeepsInv
<1>5. CASE TickDuringScan
  BY <1>5, TickKeepsInv
<1>6. CASE UNCHANGED vars
  <2>1. UNCHANGED <<tableVars, pc, offset, best, bestPriority, bestWait, preferWake, ticks>>
    BY <1>6 DEF vars, scanVars
  <2>2. \A t : Seen(t)' = Seen(t) /\ Considered(t)' = Considered(t)
    BY <2>1, SameTable DEF Seen, Considered, tableVars
  <2>3. TableInv'
    BY <2>1, UntouchedTable DEF ScanInv
  <2>4. ScanTypes'
    BY <2>1 DEF ScanInv, ScanTypes
  <2>5. SomeoneAhead'
    BY <2>1, <2>2, SameTable DEF ScanInv, SomeoneAhead, tableVars
  <2>6. BestWasMet'
    BY <2>1, <2>2, SameTable DEF ScanInv, BestWasMet, tableVars
  <2>7. MetNoHigher'
    BY <2>1, <2>2, SameTable DEF ScanInv, MetNoHigher, tableVars
  <2>8. QuietOrder'
    BY <2>1, <2>2, SameTable DEF ScanInv, QuietOrder, tableVars
  <2>9. QED BY <2>3, <2>4, <2>5, <2>6, <2>7, <2>8 DEF ScanInv
<1>7. QED BY <1>1, <1>2, <1>3, <1>4, <1>5, <1>6 DEF Next, Finished

(* The invariant of every reachable scan.                                  *)
LEMMA ScanInvariant == Spec => []ScanInv
BY InitScanInv, NextKeepsScanInv, PTL DEF Spec

-----------------------------------------------------------------------------
(* What the finished scan returns.                                         *)

LEMMA AllMet ==
  ASSUME ScanInv, pc = "chosen"
  PROVE  /\ best \in Tasks /\ Considered(best)
         /\ \A t \in Tasks : Seen(t)
<1>1. best # InvalidTask /\ offset = MaxTasks /\ best \in Tasks \cup {InvalidTask}
  BY DEF ScanInv, ScanTypes
<1>2. Considered(best)
  BY <1>1 DEF ScanInv, BestWasMet
<1>3. ASSUME NEW t \in Tasks
      PROVE  Seen(t)
  <2>1. ScanOffset(t) \in 0 .. MaxTasks - 1
    BY OffsetsDiffer DEF ScanInv, TableInv
  <2>2. QED BY <1>1, <2>1, ConstantFacts DEF Seen
<1>4. QED BY <1>1, <1>2, <1>3

(* The scan of LosKernelSchedulerSelectNextTaskIndex never ends empty      *)
(* handed, nor on a task that cannot be dispatched: wherever ticks land,   *)
(* what it returns is ready and eligible, and woken if it set out for a    *)
(* woken task.                                                             *)
THEOREM ScanHonoursWakePreference == Spec => []WakePreferenceHonoured
<1>1. ASSUME ScanInv
      PROVE  WakePreferenceHonoured
  BY <1>1, AllMet DEF WakePreferenceHonoured, Considered
<1>2. QED BY <1>1, ScanInvariant, PTL

(* A scan that no timer tick disturbed returns the task that the policy    *)
(* names, for every table, priority and number of tasks: the step-by-step  *)
(* loop computes the declarative Selection.                                *)
THEOREM QuietScanSelects == Spec => []QuietScanFollowsPolicy
<1>1. ASSUME ScanInv, pc = "chosen", ticks = 0
      PROVE  best \in Selection
  <2>1. /\ best \in Tasks /\ Considered(best)
        /\ \A t \in Tasks : Seen(t)
    BY <1>1, AllMet
  <2>2. preferWake = SomeWakePending
    BY <1>1 DEF ScanInv, QuietOrder
  <2>3. \A t \in Tasks : Considered(t) <=> t \in Candidates
    BY <2>2 DEF Considered, Candidates
  <2>4. best \in Candidates
    BY <2>1, <2>3
  <2>5. ASSUME NEW u \in Candidates
        PROVE  /\ ~Outranks(u, best)
               /\ ScanOffset(u) < ScanOffset(best) => Outranks(best, u)
    <3>1. u \in Tasks
      BY DEF Candidates
    <3>2. Seen(u) /\ Considered(u) /\ best # InvalidTask
      BY <2>1, <2>3, <3>1, ConstantFacts
    <3>3. QED BY <1>1, <3>1, <3>2 DEF ScanInv, QuietOrder
  <2>6. best \in Foremost
    BY <2>4, <2>5 DEF Foremost
  <2>7. ASSUME NEW u \in Foremost
        PROVE  ScanOffset(best) <= ScanOffset(u)
    <3>1. u \in Candidates /\ ~Outranks(best, u)
      BY <2>4 DEF Foremost
    <3>2. ~(ScanOffset(u) < ScanOffset(best))
      BY <2>5, <3>1
    <3>3. u \in Tasks
      BY <3>1 DEF Candidates
    <3>4. ScanOffset(best) \in Int /\ ScanOffset(u) \in Int
      BY <1>1, <2>1, <3>3, OffsetsDiffer, ConstantFacts DEF ScanInv, TableInv
    <3>5. QED BY <3>2, <3>4
  <2>8. best \in SelectableTasks
    BY <2>6, <2>7 DEF SelectableTasks
  <2>9. QED BY <2>4, <2>8 DEF Selection
<1>2. ScanInv => QuietScanFollowsPolicy
  BY <1>1 DEF QuietScanFollowsPolicy
<1>3. QED BY <1>2, ScanInvariant, PTL

(* However many ticks land in the scan, a task it had to consider is ahead *)
(* of the chosen one by at most the wake bonus and the aging boosts of     *)
(* those ticks; with none, by nothing.                                     *)
THEOREM ScanInversionIsBounded == Spec => []InversionBoundedByTicks
<1> DEFINE moved == (ticks + AgingInterval - 1) \div AgingInterval
<1>1. ASSUME ScanInv, pc = "chosen",
             NEW u \in Tasks, state[u] = "ready", Eligible(u),
             WakePending(u) <=> WakePending(best), waited[u] >= ticks
      PROVE  EffectivePriority(u) <=
               EffectivePriority(best)
                 + (IF ticks = 0 THEN 0 ELSE WakePriorityBoost + moved)
  <2>1. best \in Tasks /\ best # InvalidTask /\ Considered(best) /\ Seen(u)
    BY <1>1, AllMet, ConstantFacts
  <2>2. Considered(u)
    BY <1>1, <2>1 DEF Considered
  <2>3. PICK w \in 0 .. WaitCap : /\ w <= waited[u] /\ waited[u] <= w + ticks
                                 /\ PriorityAt(u, w) <= bestPriority
    BY <1>1, <2>1, <2>2 DEF ScanInv, MetNoHigher
  <2>4. /\ bestPriority = PriorityAt(best, bestWait) /\ bestWait <= waited[best]
        /\ ticks = 0 => bestWait = waited[best]
    BY <1>1, <2>1 DEF ScanInv, BestWasMet
  <2>5. /\ w \in Nat /\ bestWait \in Nat /\ ticks \in Nat
        /\ waited[u] \in Nat /\ waited[best] \in Nat /\ WakeBoostAge \in Nat
    BY <1>1, <2>1, ConstantFacts DEF ScanInv, ScanTypes, TableInv
  <2>6. /\ EffectivePriority(u) = PriorityAt(u, waited[u])
        /\ EffectivePriority(best) = PriorityAt(best, waited[best])
    BY PriorityNow
  <2>7. CASE ticks = 0
    <3>1. w = waited[u]
      BY <2>3, <2>5, <2>7
    <3>2. PriorityAt(u, waited[u]) <= PriorityAt(best, waited[best])
      BY <2>3, <2>4, <2>7, <3>1
    <3>3. PriorityAt(best, waited[best]) \in Nat
      BY <2>1, <2>5, PriorityTypes
    <3>4. QED BY <2>6, <2>7, <3>2, <3>3
  <2>8. CASE ticks # 0
    <3> HIDE DEF moved
    <3>1. /\ Aged(w) \in Nat /\ Aged(waited[u]) \in Nat
          /\ Aged(bestWait) \in Nat /\ Aged(waited[best]) \in Nat
      BY <2>5, PriorityTypes, ConstantFacts
    <3>2. moved \in Nat
      BY <2>5, ConstantFacts DEF moved
    <3>3. Aged(waited[u]) <= Aged(w) + moved
      BY <2>3, <2>5, AgingBounded DEF moved
    <3>4. Aged(bestWait) <= Aged(waited[best])
      BY <2>4, <2>5, AgingGrows
    <3>5. WakeBonus(u, waited[u]) <= WakeBonus(u, w)
      BY <2>3, <2>5 DEF WakeBonus, WakePriorityBoost
    <3>6. /\ WakeBonus(u, waited[u]) \in {0, 2} /\ WakeBonus(u, w) \in {0, 2}
          /\ WakeBonus(best, bestWait) \in {0, 2}
          /\ WakeBonus(best, waited[best]) \in {0, 2}
      BY <2>1, <2>5, PriorityTypes
    <3>7. Priority[u] \in Nat /\ Priority[best] \in Nat
      BY <2>1, ConstantFacts
    <3>8. PriorityAt(u, waited[u]) <= PriorityAt(u, w) + moved
      BY <3>1, <3>2, <3>3, <3>5, <3>6, <3>7 DEF PriorityAt
    <3>9. PriorityAt(best, bestWait) <= PriorityAt(best, waited[best]) + 2
      BY <3>1, <3>4, <3>6, <3>7 DEF PriorityAt
    <3>10. /\ PriorityAt(u, waited[u]) \in Nat /\ PriorityAt(u, w) \in Nat
           /\ PriorityAt(best, bestWait) \in Nat
           /\ PriorityAt(best, waited[best]) \in Nat
      BY <2>1, <2>5, PriorityTypes
    <3>11. PriorityAt(u, waited[u]) <= PriorityAt(best, waited[best]) + (2 + moved)
      BY <2>3, <2>4, <3>2, <3>8, <3>9, <3>10
    <3>12. QED BY <2>6, <2>8, <3>11 DEF WakePriorityBoost
  <2>9. QED BY <2>7, <2>8
<1>2. ScanInv => InversionBoundedByTicks
  BY <1>1 DEF InversionBoundedByTicks
<1>3. QED BY <1>2, ScanInvariant, PTL

=============================================================================
