# blut: a TLA+ model of the scheduler, the cloud queue and the executor

blut runs typed DAGs of training stages: on one machine, over a cloud job queue,
or over a mesh of peers with a replicated scheduler.  This directory models the
parts of it where several actors share state and where the order of their steps
decides the outcome, checks them with TLC on small instances, and proves the
central results with TLAPS for every value of the constants.  `PROJECT.json`
lists the components, the runs, the source lines each definition models, the
hazards and the theorems.  Paths below are relative to the repository (`src/raft`
is `src/src/raft` there).

## 1. The parts of the system

| part | state | operations | what is hard about it |
|---|---|---|---|
| Raft core, `raft/consensus.rs` | term, vote, log, role, indices of a member | tick, handle of four messages, propose | loss, duplication, reordering, rival leaders, a stale log tail |
| replicated state, `raft/state.rs` | a record per stage, the applied count | apply of seven commands | replay once, in order; terminal records |
| HA scheduler, `raft/ha.rs`, `raft/mod.rs` | member, state, reachable set; FIFO harness | request and poll a dispatch, report, reconcile, kill | commit before dispatch, failover with work in flight |
| cloud queue, `cloud/queue.rs` | pending, leased, done, generation counter | enqueue, claim, complete, cancel, reclaim | leases that elapse under a live worker, one name for two workers |
| cloud worker and ledger, `cloud/worker.rs`, `cloud/cost.rs` | locals of run_one, ledger rows | claim, execute, watch the lease, complete, bill | billing of a lost lease, a cancel while executing |
| execution driver and submitter, `framework/execution.rs`, `cloud/submitter.rs` | lifecycle, attempt task, handle, two flags | upload, enqueue, snapshot, cancel, drop | two tasks on a shared lifecycle; deadline and cancel against a late answer |
| scheduler lock, `scheduler_lock.rs` | one file | read, remove, create, write, unlink | a crash or another process between two file-system calls |
| admission, `framework/executor.rs`, `broker/gpu.rs` | semaphores, device slots, waiters | acquire in order, grab devices, park, release | deadlock, a cancelled waiter that holds permits, a missed notification |
| divergence kill, `framework/executor.rs`, `framework/status.rs` | attempt, kill slot, latch, event ring | emit, judge, kill, retry, re-arm | a step of attempt 1 judged during attempt 2, a ring that overflows |
| parallel executor, `framework/executor.rs` | ready set, in-flight keys, speculation, prunes | spawn, join, gate, speculate, inject, fail | single flight against speculation, kills, fan-out and the first error |

Not modelled yet: the other executors (sequential, fusion, pipelined lane), plans
and DAG optimisation, artifacts and caches, jobs and the run ledger, registries,
triggers and sensors, the peer-to-peer mesh, hyper-parameter optimisation,
process control, partition backfill, the graph core, the notifier and the
operator (section 8).  Command line, configuration parsing, user interfaces,
metrics and cryptography stay outside: they are I/O, formatting or arithmetic.

How the parts meet: the HA scheduler drives a Raft member and replays its log
into the scheduler state; the driver talks to a handle whose attempt task feeds
the cloud queue, which the workers empty; the executor admits a node through the
semaphores, runs its attempts under a kill slot, and reads their events.  The
compositions follow these lines: `HaCluster` uses `RaftNode` and
`SchedulerState`, and `CloudSubmit` extends `CloudQueue` and uses
`ExecutionLifecycle`.

## 2. Modules

**RaftNode**: one member.  As in the Rust type, each method is a function from a
member's state to its next state and the messages to send, so two networks can
drive the same member.  `tick`, `begin_election`, `become_leader`, `step_down`,
`on_request_vote`, `on_vote_response`, `on_append_entries`, `on_append_response`,
`advance_commit`, `propose` and `handle` keep the names of the code.

**Raft**: members on a network that may lose, duplicate, delay and reorder.
`TickPanics` is the heartbeat that indexes past the leader's log, which takes the
member down.  The code persists nothing and has no restart, so a crash is a
member that takes no further step.  The history variable `misacked` records that
some follower acknowledged an index at which its log differs from the log of the
leader it answered.

**SchedulerState** and **HaCluster**: `apply_prefix` over every command, and
`HaScheduler` on the in-process harness of `raft/mod.rs` (tick every live member,
deliver until quiet, kill).  The client that sends task frames and the workers
that run them are external, modelled from how `ha.rs` and its test use them.  The
client calls `request_dispatch` as often as it likes, also before an earlier call
has committed, and `commit_reconcile` some time after `reconcile`.  What a worker
reports to `reconcile` is true when it is reported.
`Fail` is applied but never proposed: `ha.rs` has no call that does.

**CloudJobs**: the contract of the queue, without workers, leases or generations.
**CloudQueue**: `MemQueue`, `run_one` and the ledger; a call holds the mutex, so a
call is a step, and the clock is an action (`Elapse`).
**ExecutionLifecycle**: the phase machine of `framework/execution.rs`, with both of
its checks for a stale assignment.
**CloudSubmit**: the driver and the attempt task, a step per access of the
lifecycle, the `enqueued` flag, the token and the queue.

**SchedulerLock**: a step per file-system call of `acquire_exclusive_at` and
`Drop`, and death at any point.

**Admission**: `acquire_admission` over `GpuScheduler`, a step per semaphore
operation; tokio's fair semaphore is external.  A `select` may look at the token
before it asks a semaphore, so a cancelled task may give up although its permits are
free.  A profile's byte arithmetic is abstracted to whether it fits the budget.

**DivergenceKill**: the retry loop of a node on one thread, the coordinator's
watcher on another, and the broadcast ring between them.  The token of the stage
and that of the kill slot are one; a stage that gives up of itself (its own cancel,
a soft timeout) is a result of its own.

**Executor**: the coordinator of `execute_prepared`, with single flight, the
boolean gate, speculation with its publication, kills, advisory failures,
fan-out, policy trials, errors, cancellation and deadline, beside its tasks.  A
shard and a trial are sub-plans of several nodes, which the coordinator injects one
sub-plan at a time.  A task's own cancel, retries and admission are the modules
above; here it has one result.  A cache insert that fails, or is refused for an
artifact that is not portable, is the fault "cache".

`MC*` modules give the constants their values.  **RaftProofs** and
**SchedulerLockProofs** hold the theorems.

## 3. Runs

| run | states | shows |
|---|---|---|
| `raft` | 165,656 | one leader per term, matching logs, votes kept, leaders append only; what is committed is agreed on and on a majority as long as acknowledgements were true |
| `raft_false_ack` | violation | a leader commits an index no majority holds |
| `ha` | 248,333 | state is the replay of the log, nothing committed is lost, no panic, no frame before its commit, no dispatch over an applied one that was not voided; leaders emerge, commits spread |
| `ha_double` | violation | a new leader dispatches a stage its predecessor dispatched |
| `cloud` | 108,954 | one place per job, fenced results, one bill, refinement of `CloudJobs`, fresh ownership, success only when committed, nothing left behind; jobs resolve, the driver returns |
| `cloud_healthy` | violation | a healthy job reported as failed |
| `lock` | 752 | one holder, its own file on disk, a lock that stays usable |
| `lock_race` | violation | two holders after a stale lock |
| `admission` | 114,236 | exact and disjoint grants, no permit lost or made up, no hang but of scans that clash for ever |
| `executor` | 147,959 | every node accounted for and no shard dropped, single flight, no result computed twice, inputs complete, pruned nodes never run, a reported cancellation is the caller's or a stage's own, every plan returns |
| `kill` | 987,595 | the latch is never wedged; while nothing is lost and no attempt ends of itself other than with Ok, kills hit the attempt they are for and are recorded |
| `kill_stale` | violation | a lag lets a stale step kill the next attempt |

Deadlock is checked in the cloud and executor runs.  Elsewhere the system may come
to rest: all messages lost or all members down, every process dead, every task
done, a node whose attempts have ended.

Several runs ask their question of more than one scenario.  The scenario is then
a variable that `Init` chooses and no step changes (`plan`, `setup`, `regime`, the
crowd of tasks), so the state space is the sum of the scenarios.

## 4. Bounds

- **raft**: three members, so that a majority can miss one.  `Elections` says who
  may stand in which term: two candidates in term 1, a second leader in term 2,
  the first one's return in term 3; this is the shortest history in which an old
  leader comes back over a log that moved on.  `MaxLog` is 2; `Explored` keeps the
  second entry to term 2 and the third term to logs of one entry, which is what it
  takes to overwrite a tail.  `OneInFlight` keeps, per link and kind, the latest
  message; that one may still be lost, repeated and overtaken.  Without it (in
  `raft_false_ack`) everything ever sent may arrive.  Three terms reach a candidate
  that lacks a committed entry; they do not reach the commit of an old term's entry
  by counting alone, which takes a fourth.
- **ha**: one stage; a plan with a kill, three terms and three entries; one with
  every client call, two open dispatches (`MaxTickets`), an expected result and one
  that conflicts with it; one for the liveness, with a kill
  and four terms.  Four terms suffice for the election after a kill to settle, so
  the term bound never stops the ticks that liveness needs.
- **cloud**: two jobs of different priority, two loops under one name (the case
  the generation fence is for), three claims, so that a lease can elapse, be
  claimed again and elapse again.  After `MaxClaims` only the leases of workers that
  are gone elapse: that live workers are quick enough then is an assumption about
  the environment, and `QueueResolves` rests on it.  The submitter's plan has one
  loop and two claims (`OneLoop`): the driver sees its job lost and claimed anew.
- **lock**: four processes.  `regime` is one of: nobody dies and calls overlap;
  processes die, also in mid-write, and calls do not overlap.  `lock_race` lets
  both happen.
- **admission**: four devices (two below the VRAM floor), a memory budget of 3,
  two resources of one permit; five crowds of three stages each that compete for the
  same things, among them two that each want both devices above the floor, one that
  asks for more than exists, one whose profile does not fit, and one whose resource
  has no semaphore.
- **executor**: a plan with speculation; one with kills, an advisory node, two shards
  of two nodes and a trial; and one with two nodes of one key whose cache is bypassed
  or loses entries.  Three runtime nodes at most, two less than there are: the second
  shard passes the cap or fails at it, and the trial is dropped.
- **kill**: three attempts of three steps, a ring that holds everything or one of two
  slots, each with every combination of a stage that fails of itself, a stage that
  gives up of itself and a plan that is cancelled.

## 5. Fairness

- `ha`: `tick_all` and `deliver_one`, the loop of the harness.  Clients and kills
  are not fair.
- `cloud`: on the queue, each worker loop and the clock.  For the submitter only
  its own two tasks and the deadline: the store, the workers and the caller may
  never answer.
- `lock`: a live process keeps calling and drops what it holds.
- `admission`: every task's thread runs and every stage ends (an unending stage
  keeps its permits by design).  Cancellation is not fair.
- `executor`: the coordinator runs and every task returns.

All of it is weak fairness.

## 6. Proofs

**RaftProofs**, about `Raft` with any finite member set, any commands, any
timeouts and any values of the bounds.  Assumptions: the member set is finite and
not empty, `None` is not a member, timeouts are positive.

- `TypeCorrect`: `Spec => []TypeOK`.  The work is in the indices: the merge of
  `on_append_entries`, the maximum of `advance_commit` and the floor of
  `next_index` stay within their types whatever arrives.
- `OneLeaderPerTerm`: `Spec => []ElectionSafety`.  The property is not inductive:
  it says nothing about the grants a future leader will count.  `VoteInv` adds
  that every grant in flight, or counted by a candidate, is backed by its sender,
  who either voted so in that term or has left the term (`VoteRecorded`), that no
  two grants of one sender and one term name different candidates (`VoteUnique`),
  and that a leader counted a majority (`LeaderHasQuorum`).  Two majorities meet,
  and the member in both voted once.  There is a lemma per method of the member
  about how it may change the ballots, and one about the network.
- `VotesKept`: `Spec => VoteKept`, from the same invariant.

**SchedulerLockProofs**, about any number of processes.

- `LockExclusive`: if in every regime nobody dies or calls do not overlap, then
  `Exclusive` and `HolderOnDisk` always hold.  `LockInv` says whose the file is: the
  one writing it, its holder, or a dead process somebody is about to remove.  The
  hypothesis cannot be dropped, as `lock_race` shows.

Only model-checked: the liveness properties; log matching and the commit
properties of Raft; the refinement of `CloudJobs`; everything about admission,
the kill and the executor.

## 7. Where the code and its words disagree

Each of these has a run:

- `raft_false_ack`: a follower acknowledges a heartbeat with the length of its own
  log (`raft/consensus.rs:489`), which may end in entries of a deposed leader; the
  leader counts the index.  `SafeWhileAcksTrue` shows that nothing else is missing
  within the bounds of `raft`.
- `ha_double`: `request_dispatch` consults the applied state only
  (`raft/ha.rs:203`); a new leader has not yet committed its predecessor's entries
  and dispatches again.
- `cloud_healthy`: `enqueued` is set (`cloud/submitter.rs:356`) before the lifecycle is
  moved to Queued (`:357`).  A poll of the driver in between reads the worker's
  assignment and moves UploadingInput to Assigned, which is legal
  (`framework/execution.rs:494`); the attempt's own Assigned to Queued is then illegal,
  `run_inner` returns the error and `run` latches Failed (`cloud/submitter.rs:265`).
- `lock_race`: a stale lock is removed by path (`scheduler_lock.rs:195`), which may
  by then be another process's lock.
- `kill_stale`: a lag clears the latch while a diverged step of the killed attempt
  is still in the ring (`framework/executor.rs:6470`).

And these were met while modelling.  The models contain the behaviour; no run
states the property:

- `reconcile` (`raft/ha.rs:313`) takes the first report that names a stage, and so
  can void a dispatch that another live peer runs, where `raft/state.rs:63` speaks
  of a dispatch "PROVED never took effect".
- Two calls of `request_dispatch` on one leader, the second before the first has
  committed, both propose, because only the applied state is consulted
  (`raft/ha.rs:203`); both commit and both can be sent, where `raft/ha.rs:46` to `:49` call
  the answer AlreadyDispatched the first line of defence against a double dispatch.
  `RedispatchOnlyVoided` states what the check does give.
- A `Dispatch` applied after a `Complete` makes the stage Dispatched again
  (`raft/state.rs:159`), where `:168` and `:196` keep other commands from it.
- A `cancel` that reads `enqueued` before it is set latches Cancelled over a success
  the queue records (`cloud/submitter.rs:225`; `tests/cloud_integration.rs:365`).
- A crash between the creation and the writing of the lock file leaves a file that
  cannot be read and is never removed (`scheduler_lock.rs:279`; `:20` promises
  recovery without manual cleanup).
- A request without a VRAM floor can find its devices taken by the scan of one with
  a floor and has to wait (`broker/gpu.rs:431` calls it unreachable).
- Two requests for the same two devices above a floor can each take one of them, miss,
  release, sleep a tick and meet again, for ever when their ticks fall together
  (`broker/gpu.rs:413` to `:440`; "never a hang").  It takes devices below the floor to
  admit both.  `AllAdmitted` shows that this is the only way to wait for ever.
- An attempt that fails of itself right after a diverged step is retried before the
  coordinator reads the step; no latch is set, and the step kills the next attempt, also
  with a ring that loses nothing (`framework/executor.rs:1316` to `:1330` and `:2890`).
- The registry entry is written before the token is cancelled
  (`framework/executor.rs:1366` to `:1388`).  An attempt that ends of itself in between
  takes the entry, is retried and re-armed, and the cancel then hits the fresh token.
- The cap on runtime nodes is looked at before each sub-plan
  (`framework/executor.rs:5874`) and its nodes are counted afterwards (`:5918`), so it
  can be exceeded by all but one node of a sub-plan.
- A stage that answers Cancelled of itself makes the plan Cancelled, and the failure
  of another node that ended earlier and is joined later is not reported
  (`framework/executor.rs:7264`, "Never the PRIMARY error").
- A kill that lands after the kill slot left the registry ends as a Killed prune
  without a record (`framework/executor.rs:2784`; `:2930`).

## 8. Plan

Next, in this order; each step brings its module, its runs and, where the property
is a safety property, its proof.

1. **Storage**: publication of a cache entry under concurrent writers, a crash
   between blob and manifest, eviction; the run ledger with torn tails; jobs and
   their resumption; model promotion and aliases.
2. **Executors**: the rollback guard of the speculative publication, linear fusion,
   the pipelined parent and child lane, `SequentialExecutor`; then
   `LocalExecutionAdapter` under the driver and the tenant quota.
3. **Mesh**: task dispatch over an unreliable transport, chunk reassembly, gossip
   convergence, federated rounds and the privacy budget.
4. **Daemons**: triggers and sensors across restarts, the notifier's offset, the
   operator's reconcile, the terminate, wait, kill escalation.
5. **Algorithms as operators** against reference definitions: topological order,
   gate validation, dead-node elimination, ASHA rungs, the graph compiler's
   scheduling, partition backfill, the policy matrix.

Proofs, in this order: type correctness, `OnePlace`, `BilledOnce` and the refinement
`Contract` of the cloud queue; `NoStaleResult`; `PermitsKept` and `GrantExact` of
admission; `SingleFlight`, `RunsOnInputs` and `PrunedNeverRuns` of the executor;
`KillsOwnAttempt`; log matching of Raft.
