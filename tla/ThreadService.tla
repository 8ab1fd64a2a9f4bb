---------------------------- MODULE ThreadService ----------------------------
(***************************************************************************)
(* What the kernel scheduler promises its threads: one of them runs at a   *)
(* time, a thread loses the processor by its own call or to a clock tick,  *)
(* a sleeper wakes at exactly the tick it asked for, and nothing else ever *)
(* changes the state of a thread except the lifecycle thread.  There is no *)
(* dispatch loop here, no quantum, no priority and no saved context.       *)
(*                                                                         *)
(* The clock may ring when a thread is about to get the processor or to    *)
(* leave it, and take the processor there.  Such a thread is forsaken: it  *)
(* may be left running without the processor, and when the processor is    *)
(* granted to it the machine may be wrecked.  Whatever becomes of it, the  *)
(* promises hold for every other thread until then.                        *)
(***************************************************************************)
EXTENDS Integers

CONSTANTS
  Threads,
  BootThreads,   \* the threads that exist from the beginning
  Creator,       \* the thread that creates, holds and releases others
  Naps           \* for each thread, how many ticks it may ask to sleep

VARIABLES
  status,   \* what each thread is doing
  alarm,    \* ticks until a sleeping thread wakes, or NoAlarm
  forsaken, \* the threads the clock interrupted at a bad moment
  machine   \* "works", or "wrecked": it executes no thread any more

serviceVars == <<status, alarm, forsaken, machine>>

NoAlarm == -1

Running == {t \in Threads : status[t] = "running"}

Begin ==
  /\ status = [t \in Threads |-> IF t \in BootThreads THEN "ready" ELSE "unused"]
  /\ alarm = [t \in Threads |-> NoAlarm]
  /\ forsaken = {}
  /\ machine = "works"

Grant(t) ==
  /\ Running \subseteq forsaken
  /\ status[t] = "ready"
  /\ status' = [status EXCEPT ![t] = "running"]
  /\ UNCHANGED <<alarm, forsaken, machine>>

GiveUp(t) ==
  /\ status[t] = "running"
  /\ status' = [status EXCEPT ![t] = "ready"]
  /\ UNCHANGED <<alarm, forsaken, machine>>

Nap(t) ==
  /\ status[t] = "running"
  /\ status' = [status EXCEPT ![t] = "blocked"]
  /\ \E n \in Naps[t] \ {0} : alarm' = [alarm EXCEPT ![t] = n]
  /\ UNCHANGED <<forsaken, machine>>

Finish(t) ==
  /\ status[t] = "running"
  /\ status' = [status EXCEPT ![t] = "terminated"]
  /\ UNCHANGED <<alarm, forsaken, machine>>

(* The clock rings for the sleepers whose time has come and may take the   *)
(* processor from the running thread.  It may forsake the thread it stops, *)
(* or one that has gone to sleep or come to its end, never one that waits  *)
(* for the processor or goes on running, and only then wreck the machine.  *)
Ringing == {t \in Threads : status[t] = "blocked" /\ alarm[t] = 1}

Exposed(stopped) ==
  stopped \cup {t \in Threads \ Ringing : status[t] \in {"blocked", "terminated"}}

Tick ==
  \E stopped \in SUBSET Running :
  \E victims \in {{}} \cup {{t} : t \in Exposed(stopped)} :
    /\ status' = [t \in Threads |->
                    IF t \in stopped \cup Ringing THEN "ready" ELSE status[t]]
    /\ alarm' = [t \in Threads |->
                   IF t \in Ringing \/ alarm[t] = NoAlarm THEN NoAlarm ELSE alarm[t] - 1]
    /\ forsaken' = forsaken \cup victims
    /\ machine' = "works" \/ (victims # {} /\ machine' = "wrecked")

(* The processor is granted to a forsaken thread for the last time.        *)
Wreck ==
  /\ Running \cap forsaken # {}
  /\ machine' = "wrecked"
  /\ UNCHANGED <<status, alarm, forsaken>>

(* The creator starts a thread in a free slot, and may hold it back until  *)
(* it is prepared; a thread it holds has no alarm.                         *)
Start(t) ==
  /\ Creator \in Running
  /\ status[t] = "unused"
  /\ status' = [status EXCEPT ![t] = "ready"]
  /\ UNCHANGED <<alarm, forsaken, machine>>

Hold(t) ==
  /\ Creator \in Running
  /\ t \notin BootThreads
  /\ status[t] = "ready"
  /\ status' = [status EXCEPT ![t] = "blocked"]
  /\ UNCHANGED <<alarm, forsaken, machine>>

Release(t) ==
  /\ Creator \in Running
  /\ t \notin BootThreads
  /\ status[t] = "blocked"
  /\ alarm[t] = NoAlarm
  /\ status' = [status EXCEPT ![t] = "ready"]
  /\ UNCHANGED <<alarm, forsaken, machine>>

Reap ==
  /\ status' = [t \in Threads |-> IF status[t] = "terminated" THEN "unused" ELSE status[t]]
  /\ forsaken' = {t \in forsaken : status[t] # "terminated"}
  /\ UNCHANGED <<alarm, machine>>

ThreadChange(t) ==
  \/ Grant(t) \/ GiveUp(t) \/ Nap(t) \/ Finish(t)
  \/ Start(t) \/ Hold(t) \/ Release(t)

ServiceNext ==
  /\ machine = "works"
  /\ Tick \/ Wreck \/ Reap \/ \E t \in Threads : ThreadChange(t)

ServiceSpec == Begin /\ [][ServiceNext]_serviceVars

=============================================================================
