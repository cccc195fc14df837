----------------------------- MODULE CloudQueue -----------------------------
(***************************************************************************)
(* The leased job queue of src/cloud/queue.rs (MemQueue), the worker loop  *)
(* of src/cloud/worker.rs (run_one) and the cost ledger of                 *)
(* src/cloud/cost.rs.                                                      *)
(*                                                                         *)
(* Every call of the queue holds its mutex throughout, so a call is one    *)
(* step.  The clock is an environment: Elapse makes one lease's `until`    *)
(* pass, and the next call that reclaims finds it.                         *)
(*                                                                         *)
(* A member of Worker is one run of the worker loop; WorkerId gives the    *)
(* name it claims under, and two loops may use one name.                   *)
(***************************************************************************)
EXTENDS Integers, Sequences, SequencesExt, FiniteSets

CONSTANTS Job, Worker, WorkerId, Priority, None,
          MaxClaims   \* bound: leases stop elapsing once this many were granted

ASSUME CloudAssumption ==
    /\ IsFiniteSet(Job)
    /\ MaxClaims \in Nat
    /\ Priority \in [Job -> Int]

VARIABLES
    queue,    \* Inner: pending, leased, done, next_generation
    worker,   \* what each worker loop holds in its locals
    billed    \* CostLedger: the number of rows of each job

vars == <<queue, worker, billed>>

Outcome == {"Succeeded", "Failed", "Cancelled", "TimedOut"}

Owner == {WorkerId[w] : w \in Worker}

Assignment == [owner : Owner, generation : Nat]

\* A lease and whether its `until` has passed.
Leased == [assignment : Assignment, elapsed : BOOLEAN]

CloudResult == [outcome : Outcome, assignment : Assignment \cup {None}]

Idle == [pc |-> "idle", job |-> None, assignment |-> None, cancelled |-> FALSE,
         outcome |-> None]

TypeOK ==
    /\ queue \in [pending : Seq(Job), leased : [Job -> Leased \cup {None}],
                  done : [Job -> CloudResult \cup {None}], next_generation : Nat]
    /\ worker \in [Worker -> [pc : {"idle", "executing", "completing", "billing"},
                              job : Job \cup {None}, assignment : Assignment \cup {None},
                              cancelled : BOOLEAN, outcome : Outcome \cup {None}]]
    /\ billed \in [Job -> Nat]

Init ==
    /\ queue = [pending |-> <<>>, leased |-> [j \in Job |-> None],
                done |-> [j \in Job |-> None], next_generation |-> 0]
    /\ worker = [w \in Worker |-> Idle]
    /\ billed = [j \in Job |-> 0]

-----------------------------------------------------------------------------
(* The queue's calls, on a value of Inner. *)

Pending(q) == Range(q.pending)

Elapsed(q) == {j \in Job : q.leased[j] # None /\ q.leased[j].elapsed}

\* Mutant: the job goes back to pending while its lease stays.
ReclaimKeepsLease(q, order) == [q EXCEPT !.pending = @ \o order]

\* Inner::reclaim: elapsed leases go to the back of pending, in the order in
\* which the hash map yields them.
reclaim(q, order) ==
    [q EXCEPT !.pending = @ \o order,
              !.leased = [j \in Job |-> IF j \in Range(order) THEN None ELSE @[j]]]

\* Mutant: elapsed leases are left where they are.
ReclaimsNothing(q) == {q}

\* The values reclaim may leave.
Reclaims(q) ==
    {reclaim(q, order) : order \in Bijection(1 .. Cardinality(Elapsed(q)), Elapsed(q))}

Known(q, j) == q.leased[j] # None \/ q.done[j] # None \/ j \in Pending(q)

\* Mutant: a job that is leased may be enqueued a second time.
EnqueueLeased(q, j) ==
    IF q.done[j] # None \/ j \in Pending(q) THEN q
    ELSE [q EXCEPT !.pending = Append(@, j)]

\* enqueue: a job the queue already knows is refused (DuplicateJob).
enqueue(q, j) == IF Known(q, j) THEN q ELSE [q EXCEPT !.pending = Append(@, j)]

\* The index claim picks: highest priority, first inserted among equals.
Picks(q, i) ==
    \A k \in DOMAIN q.pending :
        \/ Priority[q.pending[k]] < Priority[q.pending[i]]
        \/ Priority[q.pending[k]] = Priority[q.pending[i]] /\ k >= i

\* claim, once elapsed leases are back: lease the pick under a new generation.
claim(q, i, w) ==
    LET a == [owner |-> WorkerId[w], generation |-> q.next_generation + 1]
    IN  [q EXCEPT !.pending = RemoveAt(@, i),
                  !.leased[q.pending[i]] = [assignment |-> a, elapsed |-> FALSE],
                  !.next_generation = @ + 1]

\* Mutant: a late worker is recognised by its name alone.
HoldsByName(q, j, a) == q.leased[j] # None /\ q.leased[j].assignment.owner = a.owner

\* The fence of complete: the caller holds the current lease.
Holds(q, j, a) == q.leased[j] # None /\ q.leased[j].assignment = a

\* complete, past the fence.
complete(q, j, a, outcome) ==
    [q EXCEPT !.leased[j] = None,
              !.done[j] = [outcome |-> outcome, assignment |-> a]]

\* Mutant: a cancellation replaces a result that is already there.
CancelDone(q, j) ==
    IF ~ Known(q, j) THEN q
    ELSE [q EXCEPT !.pending = RemoveFirst(@, j), !.leased[j] = None,
                   !.done[j] = [outcome |-> "Cancelled", assignment |-> None]]

\* Mutant: a cancelled job gets a result without an outcome.
CancelNoOutcome(q, j) ==
    IF q.done[j] # None \/ ~ Known(q, j) THEN q
    ELSE [q EXCEPT !.pending = RemoveFirst(@, j), !.leased[j] = None,
                   !.done[j] = [outcome |-> None, assignment |-> None]]

\* Whether cancel finds live work to end; its return value.
Cancels(q, j) == q.done[j] = None /\ Known(q, j)

\* cancel: out of pending and out of leased, with one terminal result.
cancel(q, j) ==
    IF ~ Cancels(q, j) THEN q
    ELSE [q EXCEPT !.pending = RemoveFirst(@, j), !.leased[j] = None,
                   !.done[j] = [outcome |-> "Cancelled", assignment |-> None]]

-----------------------------------------------------------------------------
(* The callers.  Clients enqueue, cancel and ask for the status. *)

Enqueue(j) ==
    /\ queue' = enqueue(queue, j)
    /\ UNCHANGED <<worker, billed>>

Cancel(j) ==
    /\ queue' = cancel(queue, j)
    /\ UNCHANGED <<worker, billed>>

\* status and reclaim_expired change the queue by reclaiming only.
Reclaim ==
    /\ queue' \in Reclaims(queue)
    /\ UNCHANGED <<worker, billed>>

\* run_one up to the claim; with nothing pending it returns.
RunOne(w) ==
    /\ worker[w].pc = "idle"
    /\ \E q \in Reclaims(queue) : \E i \in DOMAIN q.pending :
        /\ Picks(q, i)
        /\ queue' = claim(q, i, w)
        /\ worker' = [worker EXCEPT ![w] =
               [Idle EXCEPT !.pc = "executing", !.job = q.pending[i],
                            !.assignment = queue'.leased[q.pending[i]].assignment]]
    /\ UNCHANGED billed

\* execute_with_lease polls the queue: a lease that is no longer this one
\* cancels the execution.  A failed poll changes nothing.
PollAssignment(w) ==
    /\ worker[w].pc = "executing"
    /\ queue' \in Reclaims(queue)
    /\ worker' = [worker EXCEPT ![w].cancelled =
                      @ \/ ~ Holds(queue', worker[w].job, worker[w].assignment)]
    /\ UNCHANGED billed

\* The execution yields a result: the gates, the stage and the uploads may
\* fail it and the deadline may end it, whether or not it was cancelled.
Executed(w) ==
    /\ worker[w].pc = "executing"
    /\ \E o \in {"Succeeded", "Failed", "TimedOut"} :
           worker' = [worker EXCEPT ![w].pc = "completing", ![w].outcome = o]
    /\ UNCHANGED <<queue, billed>>

\* A cancelled execution that notices returns without completing.
Stopped(w) ==
    /\ worker[w].pc = "executing" /\ worker[w].cancelled
    /\ worker' = [worker EXCEPT ![w] = Idle]
    /\ UNCHANGED <<queue, billed>>

\* The ledger is written only after the queue has taken a success.
AfterComplete(w) ==
    IF worker[w].outcome = "Succeeded" THEN [worker[w] EXCEPT !.pc = "billing"] ELSE Idle

\* Mutant: a success is billed whether or not the queue took it.
CompleteBillsAnyway(w) ==
    /\ worker[w].pc = "completing"
    /\ \E q \in Reclaims(queue) :
           queue' = IF Holds(q, worker[w].job, worker[w].assignment)
                    THEN complete(q, worker[w].job, worker[w].assignment, worker[w].outcome)
                    ELSE q
    /\ worker' = [worker EXCEPT ![w] = AfterComplete(w)]
    /\ UNCHANGED billed

\* complete_if_current: a lost lease drops the result.
Complete(w) ==
    LET j == worker[w].job
        a == worker[w].assignment
    IN  /\ worker[w].pc = "completing"
        /\ \E q \in Reclaims(queue) :
               IF Holds(q, j, a)
               THEN /\ queue' = complete(q, j, a, worker[w].outcome)
                    /\ worker' = [worker EXCEPT ![w] = AfterComplete(w)]
               ELSE /\ queue' = q
                    /\ worker' = [worker EXCEPT ![w] = Idle]
        /\ UNCHANGED billed

\* CostLedger::record.
Bill(w) ==
    /\ worker[w].pc = "billing"
    /\ billed' = [billed EXCEPT ![worker[w].job] = @ + 1]
    /\ worker' = [worker EXCEPT ![w] = Idle]
    /\ UNCHANGED queue

Holders(j) == {w \in Worker : /\ worker[w].pc # "idle"
                              /\ Holds(queue, j, worker[w].assignment)
                              /\ worker[w].job = j}

\* A worker loop is dropped while it awaits the execution.
Abandon(w) ==
    /\ worker[w].pc = "executing"
    /\ queue.next_generation < MaxClaims
    /\ worker' = [worker EXCEPT ![w] = Idle]
    /\ UNCHANGED <<queue, billed>>

\* Time passes the end of a lease.  Nothing renews a lease, so that of a
\* worker still executing elapses too (bounded by MaxClaims).
Elapse(j) ==
    /\ queue.leased[j] # None /\ ~ queue.leased[j].elapsed
    /\ queue.next_generation < MaxClaims \/ Holders(j) = {}
    /\ queue' = [queue EXCEPT !.leased[j].elapsed = TRUE]
    /\ UNCHANGED <<worker, billed>>

Work(w) ==
    \/ RunOne(w)
    \/ PollAssignment(w)
    \/ Executed(w)
    \/ Stopped(w)
    \/ Complete(w)
    \/ Bill(w)
    \/ Abandon(w)

QueueNext ==
    \/ Reclaim
    \/ \E j \in Job : Elapse(j)
    \/ \E w \in Worker : Work(w)

Next ==
    \/ \E j \in Job : Enqueue(j) \/ Cancel(j)
    \/ QueueNext

Spec == Init /\ [][Next]_vars

\* A worker process keeps calling run_one and goes on until it returns, and
\* the clock goes on.
FairSpec ==
    /\ Spec
    /\ \A w \in Worker :
          WF_vars(RunOne(w) \/ Executed(w) \/ Complete(w) \/ Bill(w))
    /\ \A j \in Job : WF_vars(Elapse(j))

-----------------------------------------------------------------------------
\* A job is in one place: once in pending, or leased, or done.  A job in two
\* would be run for nothing, or come back after its result was recorded
\* (reclaim, cancel and complete move jobs between the three collections).
OnePlace ==
    /\ \A i, k \in DOMAIN queue.pending : queue.pending[i] = queue.pending[k] => i = k
    /\ \A j \in Job :
          /\ ~ (j \in Pending(queue) /\ queue.leased[j] # None)
          /\ ~ (j \in Pending(queue) /\ queue.done[j] # None)
          /\ ~ (queue.leased[j] # None /\ queue.done[j] # None)

\* The recorded result never comes from a lease older than one that a worker
\* still works under, even when both workers use one name (the fence of
\* complete).
NoStaleResult ==
    \A j \in Job, w \in Worker :
        (/\ queue.done[j] # None /\ queue.done[j].assignment # None
         /\ worker[w].job = j)
        => worker[w].assignment.generation <= queue.done[j].assignment.generation

Succeeded(j) == queue.done[j] # None /\ queue.done[j].outcome = "Succeeded"

Billing(w, j) == worker[w].pc = "billing" /\ worker[w].job = j

\* A job has one ledger row exactly when the queue recorded its success, or
\* else one worker is about to write it: a lease that was lost, a retry or a
\* cancellation bills nothing, and nothing is billed twice (run_one).
BilledOnce ==
    \A j \in Job :
        /\ billed[j] \in {0, 1}
        /\ Succeeded(j) <=> billed[j] = 1 \/ \E w \in Worker : Billing(w, j)
        /\ \A w \in Worker : Billing(w, j) =>
              billed[j] = 0 /\ \A v \in Worker : Billing(v, j) => v = w

Place(j) ==
    IF queue.done[j] # None THEN "done"
    ELSE IF queue.leased[j] # None THEN "held"
    ELSE IF j \in Pending(queue) THEN "waiting" ELSE "absent"

Jobs == INSTANCE CloudJobs WITH
    place   <- [j \in Job |-> Place(j)],
    outcome <- [j \in Job |-> IF queue.done[j] = None THEN None ELSE queue.done[j].outcome],
    rows    <- billed

\* The queue, the workers and the ledger keep the contract of CloudJobs.
Contract == Jobs!Spec

\* A job that was enqueued is eventually done, although its leases elapse and
\* the workers that hold it are abandoned: the crashed worker's job is offered
\* again.
JobsResolve == \A j \in Job : j \in Pending(queue) ~> queue.done[j] # None

=============================================================================
