------------------------ MODULE MCSchedulerLifecycle ------------------------
(* One slot more than the boot fills, so that the task table is full while *)
(* a worker is alive, and one address space for each process.              *)
EXTENDS SchedulerLifecycle

CONSTANTS s1, s2, s3

ThreeSpaces == {s1, s2, s3}

=============================================================================
