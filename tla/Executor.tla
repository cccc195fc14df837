------------------------------ MODULE Executor ------------------------------
(***************************************************************************)
(* The parallel executor of src/framework/executor.rs (execute_prepared):  *)
(* one coordinator that spawns ready nodes, joins their tasks, resolves a  *)
(* boolean gate, speculates on its target, prunes branches and injects     *)
(* runtime nodes, beside the tasks that run on other threads.              *)
(*                                                                         *)
(* Data abstracted: an artifact is that its node completed; an invocation  *)
(* key is Key[n]; next_ready's hints are a free choice from the ready set. *)
(* The coordinator's local variables are the record "sched"; indeg is      *)
(* derived from the completed nodes, with which it agrees until the first  *)
(* error, after which nothing reads it.                                    *)
(***************************************************************************)
EXTENDS Integers, FiniteSets, FiniteSetsExt

CONSTANTS
    Plans,               \* the plans, run options and policies that may be executed
    MAX_RUNTIME_SPAWNS

VARIABLES
    plan,       \* what execute_prepared was given; it never changes
    sched,      \* the coordinator
    task,       \* ordinary tasks of the JoinSet: running, or their result
    private,    \* the speculative task
    decision,   \* the BranchDecision the selector produced
    cache,      \* keys in the cache
    missed,     \* nodes that computed what they published (n_misses)
    cancelled,  \* env.cancel
    stop        \* what the caller did: "none", "cancel", "deadline"

vars == <<plan, sched, task, private, decision, cache, missed, cancelled, stop>>

Node       == plan.nodes       \* all nodes, those injected at run time included
Plan       == plan.compiled    \* the nodes of the compiled plan
Edge       == plan.edges       \* the data edges, pairs of nodes
Key        == plan.key         \* the invocation key of each node
Gated      == plan.gated       \* there is a gate: Selector decides whether Target runs
Selector   == plan.selector
Target     == plan.target
Speculates == plan.speculates  \* Target is a speculation candidate
Control    == plan.control     \* a control policy is set: kills, trials
Advisory   == plan.advisory    \* nodes whose failure prunes their branch only
MapParent  == plan.map_parent  \* the node whose output fans out into the sub-plans of Shard
Shard      == plan.shards      \* a sub-plan is the set of its nodes
Trial      == plan.trials      \* the sub-plans a control policy may spawn
MaxInFlight == plan.max_in_flight
Bypass     == plan.bypass_cache
Faults     == plan.faults      \* what may go wrong, see the actions

ASSUME ExecutorAssumption ==
    /\ MAX_RUNTIME_SPAWNS \in Nat
    /\ \A p \in Plans :
          /\ IsFiniteSet(p.nodes) /\ p.compiled \subseteq p.nodes
          /\ p.edges \subseteq UNION {d \X d : d \in {p.compiled} \cup p.shards \cup p.trials}
          /\ p.shards \cup p.trials \subseteq SUBSET (p.nodes \ p.compiled)
          /\ p.shards \cap p.trials = {}
          /\ {p.selector, p.target, p.map_parent} \subseteq p.compiled
          /\ {p.gated, p.speculates, p.control, p.bypass_cache} \subseteq BOOLEAN
          /\ p.speculates => p.gated /\ ~ p.control
          /\ p.max_in_flight \in Nat \ {0}

Parents(n) == {e[1] : e \in {e \in Edge : e[2] = n}}

Children(n) == {e[2] : e \in {e \in Edge : e[1] = n}}

Results == {"hit", "miss", "fail", "other", "killed", "cancelled", "withdrawn", "deadline", "panic"}

SpecStates == {"none", "eligible", "pending", "selected", "rejecting", "superseded",
               "prepared", "declined", "rejected"}

\* PlanError::Cancelled is "withdrawn" where a stage answered Cancelled of itself.
Errors == {"none", "stage", "cancelled", "withdrawn", "deadline", "panic", "spawn", "publish",
           "cleanup"}

\* Runtime nodes there can be: the cap is looked at before each sub-plan.
SpawnBound ==
    MAX_RUNTIME_SPAWNS + Max({1} \cup {Cardinality(d) : d \in Shard \cup Trial}) - 1

\* The coordinator's and the tasks' state stays within its types, and the runtime
\* nodes exceed MAX_RUNTIME_SPAWNS by less than one sub-plan.
TypeOK ==
    /\ sched \in [pc : {"start", "top", "inject", "spawn", "speculate", "wait", "done"},
                  order : SUBSET Node, ready : SUBSET Node, deferred : SUBSET Node,
                  inflight_keys : SUBSET {Key[n] : n \in Node},
                  completed : SUBSET Node, pruned : SUBSET Node, enabled : BOOLEAN,
                  speculation : SpecStates, speculative_key : BOOLEAN,
                  pending_spawns : SUBSET (Shard \cup Trial), spawns_total : 0 .. SpawnBound,
                  first_error : Errors]
    /\ task \in [Node -> {"none", "start", "run"} \cup Results]
    /\ private \in {"none", "run", "ok", "err", "cleanup"}
    /\ decision \in {"none", "match", "lose"}
    /\ cache \subseteq {Key[n] : n \in Node}
    /\ missed \subseteq Node
    /\ cancelled \in BOOLEAN
    /\ stop \in {"none", "cancel", "deadline"}
    /\ plan \in Plans

\* Mutant: the gate is forgotten when the first ready set is built.
InitSchedUngated ==
    [pc |-> "start", order |-> Plan, ready |-> {n \in Plan : Parents(n) = {}},
     deferred |-> {}, inflight_keys |-> {}, completed |-> {}, pruned |-> {}, enabled |-> FALSE,
     speculation |-> IF Speculates THEN "eligible" ELSE "none",
     speculative_key |-> FALSE, pending_spawns |-> {}, spawns_total |-> 0,
     first_error |-> "none"]

InitSched ==
    [pc |-> "start", order |-> Plan,
     ready |-> {n \in Plan : Parents(n) = {} /\ ~ (Gated /\ n = Target)},
     deferred |-> {}, inflight_keys |-> {}, completed |-> {}, pruned |-> {},
     enabled |-> FALSE,
     speculation |-> IF Speculates THEN "eligible" ELSE "none",
     speculative_key |-> FALSE, pending_spawns |-> {}, spawns_total |-> 0,
     first_error |-> "none"]

Init ==
    /\ plan \in Plans
    /\ sched = InitSched
    /\ task = [n \in Node |-> "none"]
    /\ private = "none" /\ decision = "none"
    /\ cache \in {{}, {Key[Target]}} /\ missed = {}
    /\ cancelled = FALSE /\ stop = "none"

-----------------------------------------------------------------------------
InFlight == {n \in Node : task[n] # "none"}

in_flight == Cardinality(InFlight) + IF private # "none" THEN 1 ELSE 0

DataReady(s, n) == Parents(n) \subseteq s.completed

Failing(s) == s.first_error # "none"

\* The first error is kept; a cleanup failure is reported with it.
Fail(s, error) ==
    [s EXCEPT !.first_error = IF @ = "none" \/ error = "cleanup" THEN error ELSE @]

\* plan_stop_error.
StopError == IF stop = "deadline" THEN "deadline" ELSE "cancelled"

Stopped == stop = "deadline" \/ cancelled

\* Nodes reached from n over data edges, n included.
Descendants(n) ==
    LET reach[i \in 0 .. Cardinality(Node)] ==
          IF i = 0 THEN {n}
          ELSE reach[i - 1] \cup UNION {Children(m) : m \in reach[i - 1]}
    IN reach[Cardinality(Node)]

\* What a kill or an advisory failure prunes: the gate is followed too.
Controlled(n) ==
    Descendants(n) \cup (IF Gated /\ Selector \in Descendants(n) THEN Descendants(Target) ELSE {})

\* The key of a node leaves the single-flight table and its waiters are ready.
Freed(s, n, skip) ==
    LET waiters == {w \in s.deferred : Key[w] = Key[n]}
    IN [s EXCEPT !.inflight_keys = @ \ {Key[n]},
                 !.deferred = @ \ waiters,
                 !.ready = @ \cup (waiters \ skip)]

Pruned(s, nodes) == [s EXCEPT !.pruned = @ \cup nodes, !.ready = @ \ nodes]

-----------------------------------------------------------------------------
\* Mutant: a completed input readies the gate's target undecided.
LandedUngated(s, n) ==
    LET done == [Freed(s, n, {}) EXCEPT !.completed = @ \cup {n}]
    IN IF Failing(s) THEN done
       ELSE [done EXCEPT !.ready = @ \cup {m \in Children(n) : DataReady(done, m)},
                         !.pending_spawns = @ \cup (IF n = MapParent THEN Shard ELSE {})]

\* The Ok branch for one outcome: the node is completed, its key freed, its
\* successors readied and its fan-out queued.
Landed(s, n) ==
    LET done == [Freed(s, n, {}) EXCEPT !.completed = @ \cup {n}]
        allowed(m) == ~ (Gated /\ m = Target) \/ s.enabled
        next == {m \in Children(n) : DataReady(done, m) /\ allowed(m)}
    IN IF Failing(s) THEN done
       ELSE [done EXCEPT !.ready = @ \cup next,
                         !.pending_spawns = @ \cup (IF n = MapParent THEN Shard ELSE {})]

Scheduled(s) ==
    IF DataReady(s, Target) /\ Target \notin s.pruned
    THEN [s EXCEPT !.ready = @ \cup {Target}] ELSE s

\* The selector chose the target: what each state of its speculation becomes.
Selected(s) ==
    LET on == [s EXCEPT !.enabled = TRUE] IN
    CASE s.speculation = "pending" -> [on EXCEPT !.speculation = "selected"]
      [] s.speculation \in {"superseded", "none"} -> Scheduled(on)
      [] s.speculation \in {"selected", "rejecting"} -> on
      [] OTHER -> Scheduled([on EXCEPT !.speculation = "declined"])

\* The selector chose otherwise: the target's branch is pruned, its private
\* work cancelled or discarded.
Rejected(s) ==
    Pruned([s EXCEPT !.speculation = CASE @ = "none" -> "none"
                                       [] @ \in {"pending", "selected", "superseded"} -> "rejecting"
                                       [] OTHER -> "rejected",
                     !.speculative_key = @ /\ s.speculation # "prepared"],
           Descendants(Target))

\* The coordinator publishes the prepared result of the target: it lands as a
\* miss, or the plan fails.
Publish(s) ==
    LET taken == [s EXCEPT !.speculation = "none", !.speculative_key = FALSE] IN
    \/ /\ ~ Stopped
       /\ sched' = Landed(taken, Target)
       /\ cache' = cache \cup {Key[Target]} /\ missed' = missed \cup {Target}
       /\ UNCHANGED cancelled
    \/ /\ \E error \in Errors :
            /\ \/ Stopped /\ error = StopError
               \/ error \in Faults \cap {"publish", "cleanup"}
            /\ sched' = Fail(taken, error)
       /\ cancelled' = TRUE
       /\ UNCHANGED <<cache, missed>>

\* The Ok branch of the join, with the gate when the selector is done.
Outcome(n) ==
    LET s == Landed([sched EXCEPT !.pc = "top"], n)
        gate == Gated /\ n = Selector /\ ~ Failing(s)
    IN /\ task' = [task EXCEPT ![n] = "none"]
       /\ UNCHANGED <<private, decision, stop>>
       /\ IF gate /\ decision = "match" /\ s.speculation = "prepared"
          THEN Publish([s EXCEPT !.enabled = TRUE])
          ELSE /\ UNCHANGED <<cache, missed>>
               /\ \/ /\ sched' = IF ~ gate THEN s
                                 ELSE IF decision = "match" THEN Selected(s) ELSE Rejected(s)
                     /\ UNCHANGED cancelled
                  \/ /\ gate /\ decision = "lose" /\ s.speculation = "prepared"
                     /\ "cleanup" \in Faults
                     /\ sched' = Fail([s EXCEPT !.speculation = "none",
                                                !.speculative_key = FALSE], "cleanup")
                     /\ cancelled' = TRUE

\* Mutant: the branch goes back to the ready set.
PruneRetries(n) ==
    /\ sched' = [Freed([sched EXCEPT !.pc = "top"], n, sched.pruned) EXCEPT !.ready = @ \cup {n}]
    /\ UNCHANGED cancelled

\* The prune of a killed node or a failed advisory one: the plan goes on.
PruneBranch(n) ==
    /\ sched' = Pruned(Freed([sched EXCEPT !.pc = "top"], n, sched.pruned), Controlled(n))
    /\ UNCHANGED cancelled

\* Mutant: a node's failure cancels its siblings and is not recorded.
FailPlanSilently(error) ==
    /\ sched' = [sched EXCEPT !.pc = "top"]
    /\ cancelled' = TRUE

\* Any other failure: the first one is recorded, and the siblings cancelled.
FailPlan(error) ==
    /\ sched' = Fail([sched EXCEPT !.pc = "top"], error)
    /\ cancelled' = (cancelled \/ ~ Failing(sched) \/ error \in {"panic", "cleanup"})

\* join_next returns the task of an ordinary node.
Join(n) ==
    /\ sched.pc = "wait"
    /\ task[n] \in Results
    /\ \/ task[n] \in {"hit", "miss"} /\ Outcome(n)
       \/ /\ task[n] \notin {"hit", "miss"}
          /\ \/ /\ task[n] = "killed" \/ (task[n] = "fail" /\ n \in Advisory)
                /\ PruneBranch(n)
             \/ /\ task[n] = "other" \/ (task[n] = "fail" /\ n \notin Advisory)
                /\ FailPlan("stage")
             \/ /\ task[n] \in {"cancelled", "withdrawn", "deadline", "panic"}
                /\ FailPlan(task[n])
          /\ task' = [task EXCEPT ![n] = "none"]
          /\ UNCHANGED <<private, decision, cache, missed, stop>>

\* What becomes of a speculation whose task returned and is not published.
AfterPrivate(s) ==
    CASE s.speculation = "pending" ->
            IF private = "ok" THEN [s EXCEPT !.speculation = "prepared"]
            ELSE [s EXCEPT !.speculation = "declined", !.speculative_key = FALSE]
      [] s.speculation = "selected" ->
            Scheduled([s EXCEPT !.speculation = "declined", !.speculative_key = FALSE])
      [] s.speculation = "superseded" ->
            [s EXCEPT !.speculation = "declined", !.speculative_key = FALSE]
      [] OTHER -> [s EXCEPT !.speculation = "rejected", !.speculative_key = FALSE]

\* join_next returns the speculative task; a failed cleanup of its scratch
\* fails the plan.
JoinPrivate ==
    /\ sched.pc = "wait"
    /\ private \in {"ok", "err", "cleanup"}
    /\ private' = "none"
    /\ UNCHANGED <<task, decision, stop>>
    /\ IF private = "ok" /\ sched.speculation = "selected"
       THEN Publish([sched EXCEPT !.pc = "top"])
       ELSE /\ UNCHANGED <<cache, missed>>
            /\ IF private = "cleanup" THEN FailPlan("cleanup")
               ELSE /\ sched' = AfterPrivate([sched EXCEPT !.pc = "top"])
                    /\ UNCHANGED cancelled

-----------------------------------------------------------------------------
\* A token fired before the first spawn ends the plan.
Begin ==
    /\ sched.pc = "start"
    /\ sched' = IF cancelled THEN Fail([sched EXCEPT !.pc = "done"], "cancelled")
                ELSE [sched EXCEPT !.pc = "top"]
    /\ UNCHANGED <<task, private, decision, cache, missed, cancelled, stop>>

\* The top of the loop: the deadline, then the queued spawns.
Top ==
    /\ sched.pc = "top"
    /\ LET s == [sched EXCEPT !.pc = "spawn"] IN
       \/ /\ ~ Failing(s) /\ stop = "deadline"
          /\ sched' = Fail(s, "deadline") /\ cancelled' = TRUE
       \/ /\ Failing(s) \/ stop # "deadline"
          /\ sched' = IF Failing(s) \/ s.pending_spawns = {} THEN s ELSE [s EXCEPT !.pc = "inject"]
          /\ UNCHANGED cancelled
    /\ UNCHANGED <<task, private, decision, cache, missed, stop>>

\* Sub-plan d leaves the queue, or the whole queue does; the last one ends the drain.
Taken(d) ==
    [sched EXCEPT !.pending_spawns = @ \ {d},
                  !.pc = IF sched.pending_spawns = {d} THEN "spawn" ELSE @]

Drained == [sched EXCEPT !.pending_spawns = {}, !.pc = "spawn"]

\* inject_spawn: d's nodes join the schedule, its roots are ready.
Injected(d) ==
    [Taken(d) EXCEPT !.order = @ \cup d, !.ready = @ \cup {n \in d : Parents(n) = {}},
                     !.spawns_total = @ + Cardinality(d)]

\* Shards are taken before trials.
Due(d) == d \in sched.pending_spawns /\ (d \in Trial => sched.pending_spawns \cap Shard = {})

Capped == sched.spawns_total >= MAX_RUNTIME_SPAWNS

\* Mutant: the cap on runtime nodes is not looked at.
InjectUncapped(d) ==
    /\ sched.pc = "inject" /\ Due(d)
    /\ sched' = Injected(d)
    /\ UNCHANGED <<task, private, decision, cache, missed, cancelled, stop>>

\* Mutant: a shard that meets the cap is dropped like a trial.
InjectDropsShard(d) ==
    /\ sched.pc = "inject" /\ Due(d)
    /\ sched' = IF Capped THEN Drained ELSE Injected(d)
    /\ UNCHANGED <<task, private, decision, cache, missed, cancelled, stop>>

\* One queued sub-plan.  At the cap a shard fails the plan, a trial ends the drain.
\* A malformed trial is ignored; a malformed shard, or a sub-plan whose profile is
\* refused, fails the plan.
Inject(d) ==
    /\ sched.pc = "inject" /\ Due(d)
    /\ \/ /\ sched' = IF ~ Capped THEN Injected(d)
                       ELSE IF d \in Shard THEN Fail(Drained, "spawn") ELSE Drained
          /\ UNCHANGED cancelled
       \/ /\ ~ Capped /\ "inject" \in Faults /\ d \in Trial
          /\ sched' = Taken(d) /\ UNCHANGED cancelled
       \/ /\ ~ Capped /\ "inject" \in Faults
          /\ sched' = Fail(Drained, "spawn") /\ cancelled' = TRUE
    /\ UNCHANGED <<task, private, decision, cache, missed, stop>>

\* Mutant: ordinary work runs beside the private copy of it.
SupersedesNothing(s, n) == s

\* Ordinary work with the key of the private attempt takes it over; a selected
\* target goes back to the ready set.
Supersedes(s, n) ==
    IF ~ s.speculative_key \/ Key[n] # Key[Target] THEN s
    ELSE LET taken == [s EXCEPT !.speculative_key = FALSE] IN
         CASE s.speculation = "selected" ->
                Scheduled([taken EXCEPT !.speculation = "superseded"])
           [] s.speculation \in {"pending", "rejecting", "superseded"} ->
                [taken EXCEPT !.speculation = "superseded"]
           [] s.speculation = "prepared" -> [taken EXCEPT !.speculation = "declined"]
           [] OTHER -> taken

\* Mutant: a key in flight does not defer the node.
DefersNothing(s, n) == FALSE

Defers(s, n) == Key[n] \in s.inflight_keys

\* One turn of the spawn loop: a node leaves the ready set and is skipped,
\* deferred or spawned.
Spawn(n) ==
    /\ sched.pc = "spawn" /\ ~ Failing(sched) /\ in_flight < MaxInFlight /\ ~ Stopped
    /\ n \in sched.ready
    /\ LET left == [sched EXCEPT !.ready = @ \ {n}]
           s == Supersedes(left, n)
       IN \/ /\ n \in sched.pruned
             /\ sched' = left /\ UNCHANGED <<task, cancelled>>
          \/ /\ n \notin sched.pruned /\ Defers(s, n)
             /\ sched' = [s EXCEPT !.deferred = @ \cup {n}] /\ UNCHANGED <<task, cancelled>>
          \/ /\ n \notin sched.pruned /\ ~ Defers(s, n)
             /\ sched' = [s EXCEPT !.inflight_keys = @ \cup {Key[n]}]
             /\ task' = [task EXCEPT ![n] = "start"] /\ UNCHANGED cancelled
          \/ /\ n \notin sched.pruned
             /\ \/ "build" \in Faults /\ sched' = Fail(left, "spawn")
                \/ /\ "cleanup" \in Faults /\ s # left /\ left.speculation = "prepared"
                   /\ sched' = Fail(s, "cleanup")
             /\ cancelled' = TRUE /\ UNCHANGED task
    /\ UNCHANGED <<private, decision, cache, missed, stop>>

\* The spawn loop ends: a stopped plan fails here.
SpawnDone ==
    /\ sched.pc = "spawn"
    /\ LET halted == ~ Failing(sched) /\ in_flight < MaxInFlight /\ Stopped
           s == [sched EXCEPT !.pc = "speculate"]
       IN /\ Failing(sched) \/ in_flight >= MaxInFlight \/ Stopped \/ sched.ready = {}
          /\ sched' = IF halted THEN Fail(s, StopError) ELSE s
          /\ cancelled' = (cancelled \/ halted)
    /\ UNCHANGED <<task, private, decision, cache, missed, stop>>

Candidate ==
    /\ ~ Failing(sched) /\ in_flight < MaxInFlight
    /\ sched.speculation = "eligible" /\ DataReady(sched, Target)
    /\ Target \notin sched.pruned /\ ~ sched.enabled

\* A data-ready candidate gets a spare slot: declined (its key is busy, no spare
\* admission, the cache has it), launched in private, or the plan has stopped.
Speculate ==
    /\ sched.pc = "speculate" /\ Candidate
    /\ LET declined == [sched EXCEPT !.speculation = "declined"]
           busy == Key[Target] \in sched.inflight_keys
       IN \/ /\ sched' = declined
             /\ UNCHANGED <<private, cancelled>>
          \/ /\ ~ busy /\ Stopped
             /\ sched' = Fail([declined EXCEPT !.pc = "top"], StopError)
             /\ cancelled' = TRUE /\ UNCHANGED private
          \/ /\ ~ busy /\ ~ Stopped /\ Key[Target] \notin cache
             /\ sched' = [sched EXCEPT !.speculation = "pending", !.speculative_key = TRUE]
             /\ private' = "run" /\ UNCHANGED cancelled
    /\ UNCHANGED <<task, decision, cache, missed, stop>>

\* Nothing to speculate on: wait for a task, or finish when none is left,
\* discarding a prepared result nobody selected.
Settle ==
    /\ sched.pc = "speculate" /\ ~ Candidate
    /\ \/ /\ sched' = [sched EXCEPT !.pc = IF in_flight = 0 THEN "done" ELSE "wait"]
       \/ /\ in_flight = 0 /\ sched.speculation = "prepared" /\ "cleanup" \in Faults
          /\ sched' = Fail([sched EXCEPT !.pc = "done"], "cleanup")
    /\ UNCHANGED <<task, private, decision, cache, missed, cancelled, stop>>

\* The control policy answers a step with a trial, while the coordinator waits.
SpawnTrial(t) ==
    /\ Control /\ sched.pc = "wait" /\ ~ Failing(sched)
    /\ t \in Trial \ sched.pending_spawns /\ t \cap sched.order = {}
    /\ sched.spawns_total + Cardinality(sched.pending_spawns) < MAX_RUNTIME_SPAWNS
    /\ sched' = [sched EXCEPT !.pending_spawns = @ \cup {t}]
    /\ UNCHANGED <<task, private, decision, cache, missed, cancelled, stop>>

-----------------------------------------------------------------------------
\* A selector's output carries its decision.
Decides(n, result) ==
    decision' \in IF Gated /\ n = Selector /\ result \in {"hit", "miss"}
                  THEN {"match", "lose"} ELSE {decision}

\* run_node, the cache lookup, unless the cache is bypassed.
Lookup(n) ==
    /\ task[n] = "start"
    /\ LET next == IF Key[n] \in cache /\ ~ Bypass THEN "hit" ELSE "run"
       IN task' = [task EXCEPT ![n] = next] /\ Decides(n, next)
    /\ UNCHANGED <<sched, private, cache, missed, cancelled, stop>>

\* run_node, its end: the output is promoted and cached; or the stage failed, or what
\* surrounds it did ("other", never advisory); or the node was killed, saw the plan's
\* cancellation or deadline, answered Cancelled of itself, or panicked.
Finish(n, result) ==
    /\ task[n] = "run"
    /\ \/ result = "miss" /\ ~ cancelled
       \/ result = "fail" /\ ~ cancelled /\ "stage" \in Faults
       \/ result = "other" /\ "other" \in Faults
       \/ result = "killed" /\ ~ cancelled /\ Control
       \/ result = "cancelled" /\ cancelled
       \/ result = "withdrawn" /\ ~ cancelled /\ "withdraw" \in Faults
       \/ result = "deadline" /\ stop = "deadline"
       \/ result = "panic" /\ "panic" \in Faults
    /\ task' = [task EXCEPT ![n] = result] /\ Decides(n, result)
    /\ cache' \in {c \in {cache, cache \cup {Key[n]}} :
                     /\ result # "miss" => c = cache
                     /\ result = "miss" /\ "cache" \notin Faults => Key[n] \in c}
    /\ missed' = IF result = "miss" THEN missed \cup {n} ELSE missed
    /\ UNCHANGED <<sched, private, cancelled, stop>>

\* prepare_speculative ends, in its scratch directory: nothing is published.
FinishPrivate(result) ==
    /\ private = "run"
    /\ \/ result = "ok"
       \/ /\ result = "err"
          /\ "stage" \in Faults \/ cancelled \/ sched.speculation \in {"rejecting", "superseded"}
       \/ result = "cleanup" /\ "cleanup" \in Faults
    /\ private' = result
    /\ UNCHANGED <<sched, task, decision, cache, missed, cancelled, stop>>

\* The caller cancels the plan, or its deadline passes.
Stop(why) ==
    /\ sched.pc # "done" /\ stop = "none" /\ why \in Faults
    /\ stop' = why
    /\ cancelled' = (cancelled \/ why = "cancel")
    /\ UNCHANGED <<sched, task, private, decision, cache, missed>>

Returned == sched.pc = "done" /\ UNCHANGED vars

Coordinate ==
    \/ Begin \/ Top \/ SpawnDone \/ Speculate \/ Settle \/ JoinPrivate
    \/ \E n \in Node : Spawn(n) \/ Join(n)
    \/ \E d \in Shard \cup Trial : Inject(d)

Task(n) == Lookup(n) \/ \E result \in Results : Finish(n, result)

Private == \E result \in {"ok", "err", "cleanup"} : FinishPrivate(result)

Next ==
    /\ \/ Coordinate \/ Private \/ Returned
       \/ \E n \in Node : Task(n)
       \/ \E t \in Trial : SpawnTrial(t)
       \/ \E why \in {"cancel", "deadline"} : Stop(why)
    /\ UNCHANGED plan

Spec == Init /\ [][Next]_vars

\* The coordinator runs, and every stage returns in the end.
FairSpec ==
    /\ Spec
    /\ WF_vars(Coordinate /\ UNCHANGED plan) /\ WF_vars(Private /\ UNCHANGED plan)
    /\ \A n \in UNION {p.nodes : p \in Plans} :
          WF_vars(n \in Node /\ Task(n) /\ UNCHANGED plan)

-----------------------------------------------------------------------------
\* A plan that returns without an error has accounted for every node, its
\* runtime nodes included: each completed or was pruned, and none is both; and no
\* shard of a completed fan-out was dropped (a dropped shard is a wrong answer).
Accounted ==
    sched.pc = "done" /\ ~ Failing(sched) =>
        /\ sched.completed \cup sched.pruned = sched.order
        /\ sched.completed \cap sched.pruned = {}
        /\ MapParent \in sched.completed => UNION Shard \subseteq sched.order

\* Single-flight: no two tasks with one key are in flight, and none beside a
\* private attempt that may still be published.
SingleFlight ==
    \A n \in InFlight :
        /\ \A m \in InFlight : Key[m] = Key[n] => m = n
        /\ private # "none" /\ sched.speculation \in {"pending", "selected"} => Key[n] # Key[Target]

\* With a cache that is read and keeps what it is given, one key is computed once:
\* of the nodes that share it, one misses and the others hit.
ComputedOnce ==
    "cache" \notin Faults /\ ~ Bypass => \A n, m \in missed : Key[n] = Key[m] => n = m

\* A node runs or has run only on completed inputs, and the gate's target only
\* if the selector's decision selects it; a speculation changes neither.
RunsOnInputs ==
    \A n \in InFlight \cup sched.completed :
        /\ Parents(n) \subseteq sched.completed
        /\ Gated /\ n = Target => Selector \in sched.completed /\ decision = "match"

\* A node pruned by a kill, an advisory failure or a losing branch neither runs
\* nor has run.
PrunedNeverRuns == sched.pruned \cap (InFlight \cup sched.completed) = {}

\* A plan reports Cancelled only when its caller cancelled it or a stage answered
\* Cancelled of itself: the cancellation that a failure, a deadline or such a stage
\* sends to the others is never what is reported (NodeFailure::Cancelled, "never
\* the PRIMARY error").
CancelIsCallers == sched.first_error = "cancelled" => stop = "cancel"

\* Every plan returns: no waiter, target or private attempt keeps it alive.
Returns == <>(sched.pc = "done")
=============================================================================
