----------------------------- MODULE CloudSubmit ----------------------------
(***************************************************************************)
(* One cloud execution: the canonical driver (drive_execution of           *)
(* src/framework/execution.rs), the adapter's attempt task and handle      *)
(* (CloudAttempt, CloudExecutionHandle of src/cloud/submitter.rs) and the  *)
(* queue with its workers (CloudQueue).                                    *)
(*                                                                         *)
(* The driver and the attempt run on different threads and share the       *)
(* lifecycle, the `enqueued` flag, the cancellation token and the queue;   *)
(* each access of one of them is one step.  The queue is the in-process    *)
(* one, whose calls neither fail nor suspend; the only suspension points   *)
(* are the object store's transfers, the driver's sleep and the attempt's  *)
(* wait.  `late` says that the request's effective deadline (the soft one, *)
(* or the hard one without it) has passed.                                 *)
(***************************************************************************)
EXTENDS CloudQueue

CONSTANTS
    job,      \* the execution id
    Faults    \* what may go wrong: members of {"request", "input", "store"}

L == INSTANCE ExecutionLifecycle

VARIABLES
    life,      \* the ExecutionLifecycle
    attempt,   \* where CloudAttempt::run stands
    token,     \* the adapter's CancellationToken is cancelled
    enqueued,  \* the AtomicBool
    late,      \* the deadline has passed
    wanted,    \* the caller's own CancellationToken is cancelled
    client     \* the driver: its position and its locals

shared == <<life, token, enqueued>>
submitVars == <<vars, shared, attempt, late, wanted, client>>

AttemptPc ==
    {"none", "start", "upload", "gate", "enqueue", "publish", "mark", "watch",
     "revoke", "latch", "guard", "end"}

ClientPc ==
    {"submit", "poll", "status", "read", "requeue", "assign", "run", "terminal",
     "get", "decide", "restore", "cancel", "was", "qcancel", "cfinish", "drop",
     "dropcancel", "gone"}

JobStatus ==
    [is : {"Queued", "Unknown"}]
    \cup [is : {"Running"}, assignment : Assignment]
    \cup [is : {"Done"}, assignment : Assignment \cup {None}, outcome : Outcome]

Lifecycle ==
    [phase : L!ExecutionPhase, assignment : Assignment \cup {None},
     terminal : L!ExecutionTerminal \cup {None}, max_generation : Nat]

NewClient ==
    [pc |-> "submit", seen |-> [is |-> "Unknown"],
     was_enqueued |-> FALSE, won |-> FALSE, result |-> None]

SubmitTypeOK ==
    /\ TypeOK
    /\ life \in Lifecycle
    /\ attempt \in AttemptPc
    /\ {token, enqueued, late, wanted} \subseteq BOOLEAN
    /\ client \in [pc : ClientPc, seen : JobStatus,
                   was_enqueued : BOOLEAN, won : BOOLEAN,
                   result : L!ExecutionTerminal \cup {None}]

SubmitInit ==
    /\ Init
    /\ life = L!NewLifecycle /\ attempt = "none"
    /\ token = FALSE /\ enqueued = FALSE /\ late = FALSE /\ wanted = FALSE
    /\ client = NewClient

-----------------------------------------------------------------------------
(* CloudAttempt::run. *)

\* finish_cancel_or_timeout: the deadline explains a cancellation it caused.
StopOutcome == IF late THEN "TimedOut" ELSE "Cancelled"

Advance(pc) == attempt = pc /\ UNCHANGED <<vars, late, wanted, client>>

\* run_inner returns an error: run latches the failure.
Fails == /\ life' = L!finish(life, None, "Failed")
         /\ attempt' = "guard"

Stops == /\ life' = L!finish(life, None, StopOutcome)
         /\ attempt' = "guard"

Start ==
    /\ Advance("start")
    /\ LET l == L!transition(life, "UploadingInput", None) IN
       \/ life' = l /\ attempt' = "upload"
       \/ "input" \in Faults /\ life' = L!finish(l, None, "Failed") /\ attempt' = "guard"
    /\ UNCHANGED <<token, enqueued>>

\* The object store answers the upload, or it is given up.
Uploaded ==
    /\ Advance("upload")
    /\ \/ attempt' = "gate" /\ UNCHANGED life
       \/ "store" \in Faults /\ Fails
    /\ UNCHANGED <<token, enqueued>>

UploadStops ==
    /\ Advance("upload")
    /\ token \/ late
    /\ Stops
    /\ UNCHANGED <<token, enqueued>>

Gate ==
    /\ Advance("gate")
    /\ IF token THEN Stops ELSE attempt' = "enqueue" /\ UNCHANGED life
    /\ UNCHANGED <<token, enqueued>>

\* The select between the queue's enqueue, the token and the deadline: any
\* branch that is ready may win, and one that loses is never polled again.
EnqueueJob ==
    /\ attempt = "enqueue"
    /\ \/ IF Known(queue, job) THEN Fails /\ UNCHANGED queue
          ELSE queue' = enqueue(queue, job) /\ attempt' = "publish" /\ UNCHANGED life
       \/ (token \/ late) /\ Stops /\ UNCHANGED queue
    /\ UNCHANGED <<worker, billed, token, enqueued, late, wanted, client>>

Publish ==
    /\ Advance("publish")
    /\ enqueued' = TRUE /\ attempt' = "mark"
    /\ UNCHANGED <<life, token>>

\* transition(Queued) is refused with an error unless the attempt is over.
Mark ==
    /\ Advance("mark")
    /\ IF L!TransitionError(life, "Queued", None) \in {None, "AlreadyTerminal"}
       THEN life' = L!transition(life, "Queued", None) /\ attempt' = "watch"
       ELSE Fails
    /\ UNCHANGED <<token, enqueued>>

\* Mutant: nobody watches the token once the job is in the queue.
WatchNothing ==
    /\ Advance("watch")
    /\ attempt' = "guard"
    /\ UNCHANGED <<life, token, enqueued>>

\* The cancellation owner waits for the token or the deadline.
Watch ==
    /\ Advance("watch")
    /\ token \/ late
    /\ attempt' = "revoke"
    /\ UNCHANGED <<life, token, enqueued>>

Revoke ==
    /\ attempt = "revoke"
    /\ queue' = cancel(queue, job)
    /\ attempt' = IF Cancels(queue, job) THEN "latch" ELSE "guard"
    /\ UNCHANGED <<worker, billed, life, token, enqueued, late, wanted, client>>

Latch ==
    /\ Advance("latch")
    /\ Stops
    /\ UNCHANGED <<token, enqueued>>

\* CloudAttemptGuard::drop.
Guard ==
    /\ Advance("guard")
    /\ life' = IF enqueued THEN life ELSE L!finish(life, None, "Failed")
    /\ attempt' = "end"
    /\ UNCHANGED <<token, enqueued>>

Attempt ==
    Start \/ UploadStops \/ Gate \/ EnqueueJob \/ Publish \/ Mark \/ Watch \/ Revoke
    \/ Latch \/ Guard

-----------------------------------------------------------------------------
(* drive_execution and the handle it drives. *)

At(pc) == client.pc = pc /\ UNCHANGED <<late, wanted>>

Goto(pc) == client' = [client EXCEPT !.pc = pc]

\* The driver returns, which drops the handle.
Returns(outcome) == client' = [client EXCEPT !.pc = "drop", !.result = outcome]

\* Mutant: the deadline does not interrupt the driver.
InterruptedByCaller == wanted

\* The driver's other select branches: its caller's token and the deadline.
Interrupted == wanted \/ late

\* submit never suspends: it is refused, or spawns the attempt; the driver may
\* also be interrupted before it polls submit at all.
Submit ==
    /\ At("submit")
    /\ \/ /\ attempt' = "start" /\ Goto("poll")
       \/ /\ UNCHANGED attempt
          /\ \/ "request" \in Faults /\ client' = [client EXCEPT !.pc = "gone", !.result = "Failed"]
             \/ wanted /\ client' = [client EXCEPT !.pc = "gone", !.result = "Cancelled"]
             \/ late /\ client' = [client EXCEPT !.pc = "gone", !.result = "TimedOut"]
    /\ UNCHANGED <<vars, shared>>

\* snapshot reads the lifecycle first and asks the queue only about an attempt
\* that is enqueued and not over.
Snapshot ==
    /\ At("poll")
    /\ IF life.terminal # None \/ ~ enqueued THEN Goto("decide") ELSE Goto("status")
    /\ UNCHANGED <<vars, shared, attempt>>

StatusIn(q) ==
    CASE q.done[job] # None ->
           [is |-> "Done", assignment |-> q.done[job].assignment, outcome |-> q.done[job].outcome]
      [] q.done[job] = None /\ q.leased[job] # None ->
           [is |-> "Running", assignment |-> q.leased[job].assignment]
      [] OTHER -> [is |-> IF job \in Pending(q) THEN "Queued" ELSE "Unknown"]

Status ==
    /\ At("status")
    /\ queue' \in Reclaims(queue)
    /\ client' = [client EXCEPT !.pc = "read", !.seen = StatusIn(queue')]
    /\ UNCHANGED <<worker, billed, shared, attempt>>

Owned == client.seen.is \in {"Running", "Done"} /\ client.seen.assignment # None

\* A copy of the lifecycle decides which transitions the status calls for
\* (observe_assignment; the Queued arm of snapshot).
Read ==
    /\ At("read")
    /\ client' = [client EXCEPT !.pc =
           CASE client.seen.is = "Queued" ->
                  IF life.phase = "Running" THEN "requeue" ELSE "decide"
             [] client.seen.is = "Unknown" -> "terminal"
             [] client.seen.is \in {"Running", "Done"} ->
                  IF ~ Owned \/ life.terminal # None THEN "terminal"
                  ELSE IF life.assignment = client.seen.assignment THEN "run"
                  ELSE IF life.phase = "Running" THEN "requeue" ELSE "assign"]
    /\ UNCHANGED <<vars, shared, attempt>>

\* A transition of the handle: an attempt that is over is no error, any other
\* refusal makes snapshot fail and the driver return.
Moves(phase, a, pc) ==
    IF L!TransitionError(life, phase, a) \in {None, "AlreadyTerminal"}
    THEN life' = L!transition(life, phase, a) /\ Goto(pc)
    ELSE UNCHANGED life /\ Returns("Failed")

Requeue ==
    /\ At("requeue")
    /\ Moves("Queued", None, IF client.seen.is = "Queued" THEN "decide" ELSE "assign")
    /\ UNCHANGED <<vars, token, enqueued, attempt>>

Assign ==
    /\ At("assign")
    /\ Moves("Assigned", client.seen.assignment, "run")
    /\ UNCHANGED <<vars, token, enqueued, attempt>>

Run ==
    /\ At("run")
    /\ Moves("Running", client.seen.assignment,
             IF client.seen.is = "Done" THEN "terminal" ELSE "decide")
    /\ UNCHANGED <<vars, token, enqueued, attempt>>

\* finish of the handle, with the same tolerance.
Latches(a, outcome) ==
    IF L!FinishError(life, a) \in {None, "AlreadyTerminal"}
    THEN life' = L!finish(life, a, outcome) /\ Goto("decide")
    ELSE UNCHANGED life /\ Returns("Failed")

\* observe_terminal past the assignment, and the Unknown arm of snapshot.
Terminal ==
    /\ At("terminal")
    /\ CASE client.seen.is = "Unknown" -> Latches(None, "Failed")
         [] client.seen.is = "Running" \/ life.terminal # None -> Goto("decide") /\ UNCHANGED life
         [] OTHER ->
              IF client.seen.outcome # "Succeeded"
              THEN Latches(client.seen.assignment, client.seen.outcome)
              ELSE IF client.seen.assignment = None
              THEN Returns("Failed") /\ UNCHANGED life
              ELSE Moves("DownloadingOutput", client.seen.assignment, "get")
    /\ UNCHANGED <<vars, token, enqueued, attempt>>

\* The object store answers the download.
Got ==
    /\ At("get")
    /\ \/ Latches(client.seen.assignment, "Succeeded")
       \/ "store" \in Faults /\ Returns("Failed") /\ UNCHANGED life
    /\ UNCHANGED <<vars, token, enqueued, attempt>>

Decide ==
    /\ At("decide")
    /\ IF life.terminal = None THEN Goto("poll")
       ELSE IF life.terminal = "Succeeded" THEN Goto("restore")
       ELSE Returns(life.terminal)
    /\ UNCHANGED <<vars, shared, attempt>>

\* validate_terminal of a success: the artifact is restored within what is
\* left of the deadline.
Restore ==
    /\ At("restore")
    /\ \/ Returns("Succeeded")
       \/ "store" \in Faults /\ Returns("Failed")
       \/ late /\ Returns("TimedOut")
    /\ UNCHANGED <<vars, shared, attempt>>

\* The caller gave up or the deadline passed while the driver polls, sleeps or
\* waits for the download.
Interrupt ==
    /\ At("poll") \/ At("get")
    /\ Interrupted
    /\ Goto("cancel")
    /\ UNCHANGED <<vars, shared, attempt>>

\* CloudExecutionHandle::cancel, in its four accesses.
CancelToken ==
    /\ At("cancel")
    /\ token' = TRUE
    /\ client' = [client EXCEPT !.pc = "was"]
    /\ UNCHANGED <<vars, life, enqueued, attempt>>

CancelWas ==
    /\ At("was")
    /\ client' = [client EXCEPT !.pc = "qcancel", !.was_enqueued = enqueued]
    /\ UNCHANGED <<vars, shared, attempt>>

CancelQueue ==
    /\ At("qcancel")
    /\ queue' = cancel(queue, job)
    /\ client' = [client EXCEPT !.pc = "cfinish",
                                !.won = ~ client.was_enqueued \/ Cancels(queue, job)]
    /\ UNCHANGED <<worker, billed, shared, attempt>>

\* The driver reports the branch that interrupted it, not what was latched.
CancelFinish ==
    /\ At("cfinish")
    /\ life' = IF client.won THEN L!finish(life, None, "Cancelled") ELSE life
    /\ \/ wanted /\ Returns("Cancelled")
       \/ late /\ Returns("TimedOut")
    /\ UNCHANGED <<vars, token, enqueued, attempt>>

\* CloudExecutionHandle::drop: cancel the token, and have a task cancel the
\* job when it is known to be in the queue.
Drop ==
    /\ At("drop")
    /\ token' = TRUE
    /\ IF enqueued THEN Goto("dropcancel") ELSE Goto("gone")
    /\ UNCHANGED <<vars, life, enqueued, attempt>>

DropCancel ==
    /\ At("dropcancel")
    /\ queue' = cancel(queue, job)
    /\ Goto("gone")
    /\ UNCHANGED <<worker, billed, shared, attempt>>

Drive ==
    Submit \/ Snapshot \/ Status \/ Read \/ Requeue \/ Assign \/ Run \/ Terminal
    \/ Decide \/ Restore \/ Interrupt \/ CancelToken \/ CancelWas \/ CancelQueue
    \/ CancelFinish \/ Drop \/ DropCancel

-----------------------------------------------------------------------------
Deadline ==
    /\ ~ late /\ late' = TRUE
    /\ UNCHANGED <<vars, shared, attempt, wanted, client>>

CallerCancels ==
    /\ ~ wanted /\ wanted' = TRUE
    /\ UNCHANGED <<vars, shared, attempt, late, client>>

Queue ==
    /\ QueueNext
    /\ UNCHANGED <<shared, attempt, late, wanted, client>>

Store == Uploaded \/ Got

SubmitNext == Attempt \/ Drive \/ Store \/ Queue \/ Deadline \/ CallerCancels

SubmitSpec == SubmitInit /\ [][SubmitNext]_submitVars

\* The runtime polls both tasks and the deadline passes; nothing is assumed of
\* the workers, the caller or the store, which may never answer.
SubmitFairSpec ==
    /\ SubmitSpec
    /\ WF_submitVars(Attempt) /\ WF_submitVars(Drive) /\ WF_submitVars(Deadline)

-----------------------------------------------------------------------------
\* The attempt has an owner in exactly the phases a worker must own, and the
\* owner is the newest lease the lifecycle has seen, although leases elapse,
\* return under one name and are observed late (ExecutionLifecycle::transition).
OwnershipFresh ==
    /\ L!phase_requires_assignment(life.phase) <=> life.assignment # None
    /\ life.assignment # None =>
          /\ life.assignment.generation = life.max_generation
          /\ life.max_generation <= queue.next_generation

\* The driver reports success only for a success the queue recorded, under the
\* very assignment that completed it.
SuccessIsCommitted ==
    "Succeeded" \in {life.terminal, client.result} =>
        Succeeded(job) /\ life.assignment = queue.done[job].assignment

\* Once the handle is gone and the attempt has ended, no worker can claim the
\* job any more and none holds it: an execution leaves no work behind.
NothingLeftBehind ==
    client.pc = "gone" /\ attempt \in {"none", "end"} =>
        job \notin Pending(queue) /\ queue.leased[job] = None

\* The driver returns, and the attempt ends: a hanging transfer or a worker
\* that never answers cannot outlive the deadline (drive_execution).
DriverReturns == <>(client.pc = "gone" /\ attempt \in {"none", "end"})

\* With a store that works and requests that are accepted, a job is reported
\* failed only when its worker failed it (the test of
\* tests/cloud_integration.rs that snapshots a completed job).
HealthyNotFailed ==
    Faults = {} /\ client.result = "Failed" =>
        queue.done[job] # None /\ queue.done[job].outcome = "Failed"

=============================================================================
