---------------------------- MODULE MC_Scheduler ----------------------------
(***************************************************************************)
(* Instances of the task subsystem for TLC: the idle and kernel processes  *)
(* with their three boot threads, three more Process objects and two more *)
(* Thread objects for what callers create later, four pid values.          *)
(***************************************************************************)
EXTENDS Scheduler

CONSTANTS ip, kp, p1, p2, p3, im, it, km, t1, t2

MCProcs == {ip, kp, p1, p2, p3}
MCTids == {im, it, km, t1, t2}

\* One fresh Process and one fresh Thread.
MCProcsSmall == {ip, kp, p1}
MCTidsSmall == {im, it, km, t1}
=============================================================================
