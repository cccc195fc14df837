--------------------------- MODULE SchedulerState ---------------------------
(***************************************************************************)
(* The replicated state machine of src/raft/state.rs: what the members     *)
(* fold the committed Raft log into.  A stage the machine has not heard of *)
(* has the default record, which is what or_default creates.               *)
(***************************************************************************)
EXTENDS Integers, Sequences, SequencesExt

CONSTANTS Stage, Worker, Hash, Job, None

StageStatus == {"Queued", "Dispatched", "Running", "Done", "Failed"}

SchedulerCommand ==
    [op : {"Enqueue", "Fail", "VoidDispatch"}, stage : Stage]
    \cup [op : {"Dispatch"}, stage : Stage, peer : Worker, expected : Hash \cup {None}]
    \cup [op : {"Running"}, stage : Stage, peer : Worker]
    \cup [op : {"Complete"}, stage : Stage, content_hash : Hash]
    \cup [op : {"CloudJob"}, stage : Stage, job_id : Job]

StageRecord ==
    [status : StageStatus \cup {None}, peer : Worker \cup {None},
     expected : Hash \cup {None}, content_hash : Hash \cup {None},
     cloud_job : Job \cup {None}, dispatch_count : Nat, voided_dispatches : Nat]

DefaultRecord ==
    [status |-> None, peer |-> None, expected |-> None, content_hash |-> None,
     cloud_job |-> None, dispatch_count |-> 0, voided_dispatches |-> 0]

NewState == [stages |-> [s \in Stage |-> DefaultRecord], applied |-> 0]

effective_dispatches(r) ==
    IF r.dispatch_count > r.voided_dispatches
    THEN r.dispatch_count - r.voided_dispatches ELSE 0

\* What one command does to the record of its stage.
Applied(r, c) ==
    CASE c.op = "Enqueue" -> IF r.status = None THEN [r EXCEPT !.status = "Queued"] ELSE r
      [] c.op = "Dispatch" ->
            [r EXCEPT !.status = "Dispatched", !.peer = c.peer,
                      !.expected = IF c.expected # None THEN c.expected ELSE @,
                      !.dispatch_count = @ + 1]
      [] c.op = "Running" ->
            IF r.status \in {"Done", "Failed"} THEN r
            ELSE [r EXCEPT !.status = "Running", !.peer = c.peer]
      [] c.op = "Complete" ->
            [r EXCEPT !.status = "Done", !.content_hash = c.content_hash]
      [] c.op = "Fail" -> IF r.status = "Done" THEN r ELSE [r EXCEPT !.status = "Failed"]
      [] c.op = "CloudJob" -> [r EXCEPT !.cloud_job = c.job_id]
      [] c.op = "VoidDispatch" ->
            IF r.status = "Done" THEN r
            ELSE [r EXCEPT !.status = "Queued", !.peer = None,
                           !.voided_dispatches = @ + 1]

apply(stages, c) == [stages EXCEPT ![c.stage] = Applied(@, c)]

\* Mutant: entries already applied are applied again.
ApplyAll(st, committed) ==
    [stages  |-> FoldLeft(LAMBDA acc, e : apply(acc, e.command), st.stages, committed),
     applied |-> Len(committed)]

\* The committed entries past the ones already applied, in order.
apply_prefix(st, committed) ==
    LET new == SubSeq(committed, st.applied + 1, Len(committed)) IN
    [stages  |-> FoldLeft(LAMBDA acc, e : apply(acc, e.command), st.stages, new),
     applied |-> st.applied + Len(new)]

unresolved(st) == {s \in Stage : st.stages[s].status \in {"Dispatched", "Running"}}

max_effective_dispatches(st) ==
    Max({0} \cup {effective_dispatches(st.stages[s]) : s \in Stage})
=============================================================================
