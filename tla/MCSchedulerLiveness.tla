------------------------ MODULE MCSchedulerLiveness -------------------------
(* Slot 0 is the idle task.  Slot 1 stands for the heartbeat and the       *)
(* lifecycle thread, slot 2 is the busy worker, which never calls the      *)
(* scheduler, and slot 3 an ephemeral worker.  As in the code, the periods *)
(* of the sleepers exceed the time that they keep the processor.           *)
EXTENDS SchedulerLiveness, TLC

MCBootTasks == {0, 1}

MCExitingTasks == {3}

NoUserTasks == {}

MCPriority == (0 :> 0) @@ (1 :> 4) @@ (2 :> 2) @@ (3 :> 1)

MCSleepLengths == (0 :> {}) @@ (1 :> {3}) @@ (2 :> {}) @@ (3 :> {4})

NoWindows == {}
=============================================================================
