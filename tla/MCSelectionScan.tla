--------------------------- MODULE MCSelectionScan ---------------------------
(* Four slots: the idle task, two kernel threads and one user task.        *)
EXTENDS SelectionScan, TLC

MCUserTasks == {3}

MCPriority == (0 :> 0) @@ (1 :> 3) @@ (2 :> 1) @@ (3 :> 1)

MCWaits == {0, 1, 4}

MCSleeps == {1, 2}

=============================================================================
