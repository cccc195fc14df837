-------------------------- MODULE MCSchedulerLock --------------------------
(* Instances of SchedulerLock for TLC. *)
EXTENDS SchedulerLock

CONSTANTS p1, p2, p3, p4

\* Processes that live and overlap, or that die and call one at a time.
Undisturbed ==
    {[faults |-> {}, overlap |-> TRUE],
     [faults |-> {"crash"}, overlap |-> FALSE],
     [faults |-> {"crash", "torn"}, overlap |-> FALSE]}

\* Processes that die and overlap.
Disturbed == {[faults |-> {"crash"}, overlap |-> TRUE]}
=============================================================================
