----------------------------- MODULE MCHaCluster -----------------------------
(***************************************************************************)
(* Instances of HaCluster for model checking.  Three plans share one run;  *)
(* Init picks one of them and nothing changes it:                          *)
(*   failover  one member is killed while stages are dispatched;           *)
(*   calls     nobody is killed, every client call, two open dispatches;   *)
(*   fair      a kill and four terms with one call, for the liveness.      *)
(***************************************************************************)
EXTENDS Naturals, Sequences

CONSTANTS n1, n2, n3, worker1, worker2, stage1, hash1, hash2, job1, None

VARIABLES plan, raft, state, reachable, queue, down, tickets, decided, frames, work

Order           == <<n1, n2, n3>>
ElectionTimeout == 2
Stage           == {stage1}
Job             == {job1}
Silence         == {None}

Failover ==
    INSTANCE HaCluster WITH MaxLog <- 3, MaxTerm <- 3, MaxDown <- 1,
        Worker <- {worker1, worker2}, Hash <- {hash1}, Expectation <- {None}, MaxTickets <- 1,
        Offered <- {"request_dispatch", "record_complete", "reconcile"}

Calls ==
    INSTANCE HaCluster WITH MaxLog <- 3, MaxTerm <- 2, MaxDown <- 0,
        Worker <- {worker1, worker2}, Hash <- {hash1, hash2}, Expectation <- {hash1},
        MaxTickets <- 2,
        Offered <- {"enqueue", "request_dispatch", "record_running", "record_complete",
                    "record_cloud_job", "reconcile"}

Fair ==
    INSTANCE HaCluster WITH MaxLog <- 1, MaxTerm <- 4, MaxDown <- 1,
        Worker <- {worker1}, Hash <- {hash1}, Expectation <- {None}, MaxTickets <- 1,
        Offered <- {"request_dispatch"}

vars == <<plan, Failover!vars>>

Init ==
    \/ plan = "failover" /\ Failover!Init
    \/ plan = "calls" /\ Calls!Init
    \/ plan = "fair" /\ Fair!Init

Next ==
    /\ UNCHANGED plan
    /\ \/ plan = "failover" /\ Failover!Next
       \/ plan = "calls" /\ Calls!Next
       \/ plan = "fair" /\ Fair!Next

\* The harness keeps running its rounds.
Spec ==
    /\ Init /\ [][Next]_vars
    /\ WF_vars(plan = "fair" /\ Fair!tick_all /\ UNCHANGED plan)
    /\ WF_vars(plan = "fair" /\ Fair!deliver_one /\ UNCHANGED plan)

\* The properties of HaCluster, whose statements do not depend on the plan's
\* bounds.

\* committed_entries and the heartbeats of a live member never index past its log.
NeverPanics == Failover!NeverPanics

\* A member's scheduler state is the replay of its committed log, each entry once.
Replayed == Failover!Replayed

\* No committed command is lost across a failover: a later leader holds it.
NothingCommittedLost == Failover!NothingCommittedLost

\* A task frame leaves only when a majority holds the decision to dispatch it.
CommitBeforeDispatch == Failover!CommitBeforeDispatch

\* A leader appends a Dispatch only for a stage whose committed history is free of
\* a live dispatch and of a result.
RedispatchOnlyVoided == Failover!RedispatchOnlyVoided

\* "a leader kill mid-DAG must not double-dispatch".
NoDoubleDispatch == Failover!NoDoubleDispatch

\* With distinct timeouts and a majority alive, a leader keeps emerging.
LeaderEmerges == plan = "fair" => Fair!LeaderEmerges

\* What a leader has committed reaches every live member, unless it is killed first.
CommitsSpread == plan = "fair" => Fair!CommitsSpread
=============================================================================
