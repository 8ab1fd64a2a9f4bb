------------------------ MODULE MCSchedulerDispatch -------------------------
(* Slot 0 is the idle task, 1 the lifecycle thread, 2 an ephemeral worker  *)
(* and 3 the first user task.                                              *)
EXTENDS SchedulerDispatch, TLC

MCUserTasks == {3}

MCBootTasks == {0, 1}

MCPriority == (0 :> 0) @@ (1 :> 3) @@ (2 :> 1) @@ (3 :> 1)

MCSleepLengths == (0 :> {}) @@ (1 :> {0, 2}) @@ (2 :> {1}) @@ (3 :> {})

MCExitingTasks == {2}

ContextWindows == {"dispatch", "return"}

AllWindows == {"dispatch", "return", "switch"}

=============================================================================
