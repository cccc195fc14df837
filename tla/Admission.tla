----------------------------- MODULE Admission -----------------------------
(***************************************************************************)
(* How a stage is admitted before it runs: acquire_admission of            *)
(* src/framework/executor.rs (resource permits, then GPU devices, then     *)
(* memory) over the device scheduler of src/broker/gpu.rs.                 *)
(*                                                                         *)
(* The executor's tasks run on several threads, so every semaphore         *)
(* operation is a step of its own; grab tries one device per step.  The    *)
(* semaphores are tokio's: fair, and a waiter keeps what it has been       *)
(* given so far.  Every task asks once.                                    *)
(***************************************************************************)
EXTENDS Integers, Sequences, SequencesExt, FiniteSets, FiniteSetsExt

CONSTANTS Task, None,
          Resource,  \* the resources that have a semaphore
          Device,    \* number of devices; their positions are 1 .. Device
          Vram,      \* free VRAM of each device in the one-shot inventory
          Limit,     \* permits of each of these resources
          Budget,    \* permits of the memory semaphore (memory_budget_gib)
          Rank,      \* the order of the Resource enum
          Crowd      \* bound: what the tasks' stages may declare in one run, each
                     \* resources, gpu, memory and whether it has a profile

ASSUME AdmissionAssumption ==
    /\ Device \in Nat \ {0} /\ Budget \in Nat
    /\ Vram \in [1 .. Device -> Nat] /\ Limit \in [Resource -> Nat \ {0}]
    /\ \A crowd \in Crowd : DOMAIN crowd = Task

VARIABLES
    sem,         \* the counting semaphores: permits left, and the waiters in order
    task,        \* the locals of acquire_admission and of GpuScheduler::acquire
    cancelled    \* env.cancel is set, or env.deadline has passed

vars == <<sem, task, cancelled>>

Sem == Resource \cup {"avail", "memory"}

Capacity(s) == IF s = "avail" THEN Device ELSE IF s = "memory" THEN Budget ELSE Limit[s]

-----------------------------------------------------------------------------
(* tokio's semaphore, on the value of one. *)

\* acquire_many: all at once if they are there, else what is there and a place in the queue.
Acquired(s, t, n) ==
    IF s.free >= n THEN [s EXCEPT !.free = @ - n]
    ELSE [free |-> 0, queue |-> Append(s.queue, [task |-> t, need |-> n - s.free])]

\* Permits come back: the waiters are served in order, each up to what it needs.
Released(s, n) ==
    LET Serve(acc, w) ==
            IF w.need <= acc.free THEN [acc EXCEPT !.free = @ - w.need]
            ELSE [free |-> 0, queue |-> Append(acc.queue, [w EXCEPT !.need = @ - acc.free])]
    IN  FoldLeft(Serve, [free |-> s.free + n, queue |-> <<>>], s.queue)

\* What t still lacks.
Lacks(s, t) == FoldLeft(LAMBDA n, w : IF w.task = t THEN w.need ELSE n, 0, s.queue)

\* A waiter for n permits is dropped: it leaves the queue, and what it had comes back.
Dropped(s, t, n) ==
    Released([s EXCEPT !.queue = SelectSeq(@, LAMBDA w : w.task # t)], n - Lacks(s, t))

-----------------------------------------------------------------------------
(* What a task asks for. *)

\* Mutant: a stage's resources are taken in the order it lists them.
AsListed(t) == SelectSeq(task[t].asks.resources, LAMBDA r : r \in Resource)

\* for_stage sorts the resources; one without a semaphore is passed over.
Resources(t) ==
    SortSeq(SelectSeq(task[t].asks.resources, LAMBDA r : r \in Resource),
            LAMBDA a, b : Rank[a] < Rank[b])

\* effective_need: at least one device, at most the pool.
Need(t) == Min({Max({task[t].asks.gpu.count, 1}), Device})

candidates(t) == {d \in 1 .. Device : Vram[d] >= task[t].asks.gpu.min_vram}

\* A stage without a profile is clamped to the memory budget, one with a profile
\* is refused when it needs more.
Refused(t) == task[t].asks.profiled /\ task[t].asks.memory > Budget

Memory(t) == Min({task[t].asks.memory, Budget})

\* Where acquire_admission goes on once it has n resource permits.
AfterResources(t, n) ==
    IF n < Len(Resources(t)) THEN "resource"
    ELSE IF task[t].asks.gpu # None THEN "try"
    ELSE IF Memory(t) > 0 THEN "memory" ELSE "run"

AfterGpu(t) == IF Memory(t) > 0 THEN "memory" ELSE "run"

Init ==
    /\ sem = [s \in Sem |-> [free |-> Capacity(s), queue |-> <<>>]]
    /\ \E crowd \in Crowd :
         task = [t \in Task |->
             [asks |-> crowd[t], pc |-> "for_task", got |-> [s \in Sem |-> 0],
              devices |-> {}, pos |-> 1, blocking |-> FALSE, result |-> None]]
    /\ cancelled = FALSE

Goto(t, pc) == task' = [task EXCEPT ![t].pc = pc]

\* Ask semaphore s for n permits: go on at `pc`, or wait at `wait`.
Ask(t, s, n, pc, wait) ==
    /\ sem' = [sem EXCEPT ![s] = Acquired(@, t, n)]
    /\ task' = IF sem[s].free >= n
               THEN [task EXCEPT ![t].pc = pc, ![t].got[s] = @ + n]
               ELSE [task EXCEPT ![t].pc = wait]
    /\ UNCHANGED cancelled

\* The permits that were waited for are there.
Got(t, s, n, pc) ==
    /\ Lacks(sem[s], t) = 0
    /\ task' = [task EXCEPT ![t].pc = pc, ![t].got[s] = @ + n]
    /\ UNCHANGED <<sem, cancelled>>

-----------------------------------------------------------------------------
(* The request, then the resource permits, one after the other. *)

\* Everything goes back and the node fails without having run.
GiveUp(t, result) == task' = [task EXCEPT ![t].pc = "release", ![t].result = result]

for_task(t) ==
    /\ task[t].pc = "for_task"
    /\ IF Refused(t) THEN GiveUp(t, "refused") ELSE Goto(t, AfterResources(t, 0))
    /\ UNCHANGED <<sem, cancelled>>

\* How many resource permits t has, and the next one it asks for.
Count(t) == FoldFunctionOnSet(+, 0, task[t].got, Resource)

NextResource(t) == Resources(t)[Count(t) + 1]

AskResource(t) ==
    /\ task[t].pc = "resource"
    /\ Ask(t, NextResource(t), 1, AfterResources(t, Count(t) + 1), "resource_wait")

GotResource(t) ==
    /\ task[t].pc = "resource_wait"
    /\ Got(t, NextResource(t), 1, AfterResources(t, Count(t) + 1))

-----------------------------------------------------------------------------
(* The device scheduler. *)

\* GpuScheduler::try_acquire: no waiting.  A request no device set can satisfy
\* fails in the acquire that follows.
Try(t) ==
    /\ task[t].pc = "try"
    /\ IF Cardinality(candidates(t)) < Need(t) THEN
            /\ GiveUp(t, "unsatisfiable")
            /\ UNCHANGED sem
       ELSE IF sem["avail"].free >= Need(t) THEN
            /\ sem' = [sem EXCEPT !["avail"] = Acquired(@, t, Need(t))]
            /\ task' = [task EXCEPT ![t].pc = "grab", ![t].got["avail"] = Need(t)]
       ELSE /\ task' = [task EXCEPT ![t].pc = "avail", ![t].blocking = TRUE]
            /\ UNCHANGED sem
    /\ UNCHANGED cancelled

\* GpuScheduler::acquire: wait for as many devices as are needed to be free.
AskAvail(t) ==
    /\ task[t].pc = "avail"
    /\ Ask(t, "avail", Need(t), "grab", "avail_wait")

GotAvail(t) ==
    /\ task[t].pc = "avail_wait"
    /\ Got(t, "avail", Need(t), "grab")

Free(d) == \A t \in Task : d \notin task[t].devices

\* Mutant: a device below the floor fills the grant when none better is free.
GrabsAny(t) ==
    LET d == task[t].pos
    IN  /\ task[t].pc = "grab"
        /\ Cardinality(task[t].devices) < Need(t) /\ d <= Device
        /\ task' = [task EXCEPT ![t].devices = IF Free(d) THEN @ \cup {d} ELSE @,
                                ![t].pos = @ + 1]
        /\ UNCHANGED <<sem, cancelled>>

\* grab: try the device at the next position, if it qualifies.
Grab(t) ==
    LET d == task[t].pos
    IN  /\ task[t].pc = "grab"
        /\ Cardinality(task[t].devices) < Need(t) /\ d <= Device
        /\ task' = [task EXCEPT
                ![t].devices = IF d \in candidates(t) /\ Free(d) THEN @ \cup {d} ELSE @,
                ![t].pos = @ + 1]
        /\ UNCHANGED <<sem, cancelled>>

\* The grant is filled, or every position was tried and it is not.
Grabbed(t) ==
    /\ task[t].pc = "grab"
    /\ Cardinality(task[t].devices) = Need(t) \/ task[t].pos > Device
    /\ task' = [task EXCEPT ![t].pos = 1,
           ![t].pc = IF Cardinality(task[t].devices) = Need(t) THEN AfterGpu(t) ELSE "drop"]
    /\ UNCHANGED <<sem, cancelled>>

\* A miss releases the devices, then `avail`.
DropDevices(t) ==
    /\ task[t].pc = "drop"
    /\ task' = [task EXCEPT ![t].pc = "drop_avail", ![t].devices = {}]
    /\ UNCHANGED <<sem, cancelled>>

\* Then try_acquire falls through to acquire, and acquire goes to wait.
DropAvail(t) ==
    /\ task[t].pc = "drop_avail"
    /\ sem' = [sem EXCEPT !["avail"] = Released(@, Need(t))]
    /\ task' = [task EXCEPT ![t].pc = IF task[t].blocking THEN "register" ELSE "avail",
                            ![t].got["avail"] = 0, ![t].blocking = TRUE]
    /\ UNCHANGED cancelled

\* released.notified(): only a release after this one is noticed.
Register(t) ==
    /\ task[t].pc = "register"
    /\ Goto(t, "park")
    /\ UNCHANGED <<sem, cancelled>>

\* The retry tick.
Tick(t) ==
    /\ task[t].pc = "park"
    /\ Goto(t, "avail")
    /\ UNCHANGED <<sem, cancelled>>

-----------------------------------------------------------------------------
(* Memory, the run, and the drop of the lease. *)

AskMemory(t) ==
    /\ task[t].pc = "memory"
    /\ Ask(t, "memory", Memory(t), "run", "memory_wait")

GotMemory(t) ==
    /\ task[t].pc = "memory_wait"
    /\ Got(t, "memory", Memory(t), "run")

\* The stage ran; its lease is dropped.
Ran(t) ==
    /\ task[t].pc = "run"
    /\ GiveUp(t, "ran")
    /\ UNCHANGED <<sem, cancelled>>

\* The lease's fields drop in order: resources, the grant, memory.  (What an early
\* return had acquired drops in the opposite order, which no property tells apart.)
Release(t) ==
    /\ task[t].pc = "release"
    /\ sem' = [s \in Sem |-> IF s \in Resource THEN Released(sem[s], task[t].got[s]) ELSE sem[s]]
    /\ task' = [task EXCEPT
           ![t].pc = IF task[t].got["avail"] > 0 THEN "release_gpu" ELSE "release_memory",
           ![t].got = [s \in Sem |-> IF s \in Resource THEN 0 ELSE @[s]]]
    /\ UNCHANGED cancelled

\* GpuGrant::drop: the devices first, then avail, then the notification.
ReleaseGpu(t) ==
    /\ task[t].pc = "release_gpu"
    /\ task' = [task EXCEPT ![t].pc = "release_avail", ![t].devices = {}]
    /\ UNCHANGED <<sem, cancelled>>

ReleaseAvail(t) ==
    /\ task[t].pc = "release_avail"
    /\ sem' = [sem EXCEPT !["avail"] = Released(@, task[t].got["avail"])]
    /\ task' = [task EXCEPT ![t].pc = "notify", ![t].got["avail"] = 0]
    /\ UNCHANGED cancelled

\* notify_waiters wakes whoever is parked now.
Notify(t) ==
    /\ task[t].pc = "notify"
    /\ task' = [u \in Task |->
           IF u = t THEN [task[t] EXCEPT !.pc = "release_memory"]
           ELSE IF task[u].pc = "park" THEN [task[u] EXCEPT !.pc = "avail"] ELSE task[u]]
    /\ UNCHANGED <<sem, cancelled>>

ReleaseMemory(t) ==
    /\ task[t].pc = "release_memory"
    /\ sem' = [sem EXCEPT !["memory"] = Released(@, task[t].got["memory"])]
    /\ task' = [task EXCEPT ![t].pc = "done", ![t].got["memory"] = 0]
    /\ UNCHANGED cancelled

-----------------------------------------------------------------------------
(* Cancellation at the points where acquire_admission waits. *)

\* The semaphore a task waits on and for how much.
WaitsOn(t) == CASE task[t].pc = "resource_wait" -> [sem |-> NextResource(t), n |-> 1]
                [] task[t].pc = "avail_wait"    -> [sem |-> "avail", n |-> Need(t)]
                [] task[t].pc = "memory_wait"   -> [sem |-> "memory", n |-> Memory(t)]

Waiting(t) == task[t].pc \in {"resource_wait", "avail_wait", "memory_wait"}

\* Mutant: the permits a dropped waiter had been given are lost.
CancelForgets(t) ==
    /\ cancelled
    /\ Waiting(t)
    /\ sem' = [sem EXCEPT ![WaitsOn(t).sem].queue = SelectSeq(@, LAMBDA w : w.task # t)]
    /\ GiveUp(t, "cancelled")
    /\ UNCHANGED cancelled

\* The waiting future is dropped, even when its permits have just arrived.
CancelWaiting(t) ==
    /\ cancelled
    /\ Waiting(t)
    /\ sem' = [sem EXCEPT ![WaitsOn(t).sem] = Dropped(@, t, WaitsOn(t).n)]
    /\ GiveUp(t, "cancelled")
    /\ UNCHANGED cancelled

\* The select looks at the token first: before a semaphore is asked, or while the
\* task is parked.  The permits may be free.
CancelFirst(t) ==
    /\ cancelled
    /\ task[t].pc \in {"avail", "park", "memory"}
    /\ GiveUp(t, "cancelled")
    /\ UNCHANGED <<sem, cancelled>>

\* The run is cancelled, or its deadline passes.
Cancel ==
    /\ ~ cancelled
    /\ cancelled' = TRUE
    /\ UNCHANGED <<sem, task>>

Step(t) ==
    \/ for_task(t) \/ AskResource(t) \/ GotResource(t)
    \/ Try(t) \/ AskAvail(t) \/ GotAvail(t) \/ Grab(t) \/ Grabbed(t) \/ DropDevices(t)
    \/ DropAvail(t) \/ Register(t) \/ Tick(t)
    \/ AskMemory(t) \/ GotMemory(t) \/ Ran(t)
    \/ Release(t) \/ ReleaseGpu(t) \/ ReleaseAvail(t) \/ Notify(t) \/ ReleaseMemory(t)

AllDone == \A t \in Task : task[t].pc = "done"

Next ==
    \/ \E t \in Task : Step(t) \/ CancelWaiting(t) \/ CancelFirst(t)
    \/ Cancel

Spec == Init /\ [][Next]_vars

\* Every task's thread keeps running, and every stage ends.
FairSpec == Spec /\ \A t \in Task : WF_vars(Step(t))

-----------------------------------------------------------------------------
\* What t owns of a semaphore, the permits a wait has gathered so far included.
Owns(t, s) ==
    task[t].got[s] + IF Waiting(t) /\ WaitsOn(t).sem = s THEN WaitsOn(t).n - Lacks(sem[s], t) ELSE 0

\* No permit is lost or made up, whatever is cancelled while it waits: what is
\* free and what the tasks own make up the capacity.
PermitsKept ==
    \A s \in Sem : sem[s].free + MapThenSumSet(LAMBDA t : Owns(t, s), Task) = Capacity(s)

Granted(t) == task[t].got["avail"] > 0 /\ task[t].pc \in {"memory", "memory_wait", "run"}

\* A stage that runs with devices has as many as it needs, each above its VRAM
\* floor and none of them another stage's.
GrantExact ==
    \A t \in Task : Granted(t) =>
        /\ Cardinality(task[t].devices) = Need(t)
        /\ task[t].devices \subseteq candidates(t)
        /\ \A u \in Task \ {t} : task[t].devices \cap task[u].devices = {}

\* t holds some of the devices it needs, and not all.
Partial(t) == task[t].devices # {} /\ Cardinality(task[t].devices) < Need(t)

\* Two scans each hold a device the other may need.
Clash == \E t, u \in Task : t # u /\ Partial(t) /\ Partial(u)

\* Admission hangs on nothing but scans that clash for ever: every task runs, or
\* fails because it cannot be satisfied or was cancelled, and its lease is dropped
\* (acquire: a missed wake-up costs one tick, and nobody waits holding a device).
AllAdmitted == []<>Clash \/ <>AllDone
=============================================================================
