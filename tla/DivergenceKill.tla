--------------------------- MODULE DivergenceKill ---------------------------
(***************************************************************************)
(* The divergence kill of src/framework/executor.rs: a node's attempts     *)
(* (the retry loop of run_node_with_admission) on one thread, and on       *)
(* another the coordinator that watches the StageStep broadcast, records a *)
(* diverging step and cancels the node's KillSlot.                         *)
(*                                                                         *)
(* One node.  A step is good or "nan" (what KillOnNaN or divergence_check  *)
(* answers to).  The attempt number an event carries is there for the      *)
(* properties: the coordinator's copy has only the node's index.           *)
(***************************************************************************)
EXTENDS Integers, Sequences

CONSTANTS
    MaxAttempts,   \* RetryPolicy.max_attempts
    MaxSteps,      \* bound: steps one attempt emits
    Setup          \* bound: what varies between the runs, records of
                   \*   capacity: slots of the broadcast ring
                   \*   faults: "error": a stage may fail of itself, with a retryable
                   \*     error; "withdraw": a stage may cancel itself; "cancel": the
                   \*     plan may be cancelled

ASSUME KillAssumption ==
    /\ MaxAttempts \in Nat \ {0} /\ MaxSteps \in Nat
    /\ Setup \subseteq [capacity : Nat \ {0}, faults : SUBSET {"error", "withdraw", "cancel"}]

VARIABLES
    setup,     \* the setup of this run
    node,      \* pc, attempt, steps emitted by it, how its run ended, the detail it took
    token,     \* the current token of the KillSlot has been cancelled
    plan,      \* env.cancel, the parent of every token
    diverged,  \* env.diverged holds an entry for the node
    ring,      \* the events the coordinator's receiver has yet to read
    lagged,    \* ... and whether it missed some before them
    watch,     \* the coordinator: None, or the step it is killing the node for
    latch      \* kill_flagged holds the node

vars == <<setup, node, token, plan, diverged, ring, lagged, watch, latch>>

Capacity == setup.capacity
Faults   == setup.faults

Attempt == 1 .. MaxAttempts

Idle == [kind |-> "idle", attempt |-> 1]

Ended == node.pc \in {"done", "killed", "diverged", "failed", "cancelled"}

Init ==
    /\ setup \in Setup
    /\ node = [pc |-> "begin", attempt |-> 1, steps |-> 0, result |-> "none", detail |-> FALSE]
    /\ token = FALSE /\ plan = FALSE /\ diverged = FALSE
    /\ ring = <<>> /\ lagged = FALSE
    /\ watch = Idle /\ latch = FALSE

-----------------------------------------------------------------------------
\* broadcast::Sender::send: a full ring loses its oldest event.
Send(kind) ==
    LET sent == Append(ring, [kind |-> kind, attempt |-> node.attempt])
        full == Len(ring) = Capacity
    IN /\ ring' = IF full THEN Tail(sent) ELSE sent
       /\ lagged' = (lagged \/ full)

\* cancel_failure: a kill of this node alone, or the plan's cancellation.
cancel_failure == IF token /\ ~ plan THEN "killed" ELSE "cancelled"

\* The top of the attempt loop: the backoff and the check before the attempt
\* give up on a cancelled token.
Begin ==
    /\ node.pc = "begin"
    /\ node' = [node EXCEPT !.pc = IF token THEN cancel_failure ELSE "run",
                            !.steps = 0, !.result = "none", !.detail = FALSE]
    /\ UNCHANGED <<token, plan, diverged, ring, lagged, watch, latch>>

\* The stage emits a step from inside its run.
Emit(kind) ==
    /\ node.pc = "run" /\ node.steps < MaxSteps
    /\ node' = [node EXCEPT !.steps = @ + 1]
    /\ Send(kind)
    /\ UNCHANGED <<token, plan, diverged, watch, latch>>

\* The stage returns: Ok; an error, because it saw its token cancelled or of its
\* own (its soft or hard timeout included); or it gives up by cancelling
\* stage_cancel, a child of the slot's token, or by answering Cancelled.
Return(result) ==
    /\ node.pc = "run"
    /\ result = "error" => token \/ "error" \in Faults
    /\ result = "withdrawn" => "withdraw" \in Faults
    /\ node' = [node EXCEPT !.pc = "take", !.result = result]
    /\ UNCHANGED <<token, plan, diverged, ring, lagged, watch, latch>>

\* diverged_detail: the registry entry is consumed.
Take ==
    /\ node.pc = "take"
    /\ node' = [node EXCEPT !.pc = "decide", !.detail = diverged]
    /\ diverged' = FALSE
    /\ UNCHANGED <<token, plan, ring, lagged, watch, latch>>

AttemptsLeft == node.attempt < MaxAttempts

\* What a finished run leads to.  StageError::Cancelled is never retryable;
\* Diverged and the stage's own (transient) errors are.
Resolved ==
    IF node.result = "ok" /\ ~ token THEN "done"
    ELSE IF node.result \in {"ok", "withdrawn"} /\ ~ node.detail THEN cancel_failure
    ELSE IF AttemptsLeft /\ (node.detail \/ ~ token) THEN "emit"
    ELSE IF node.detail THEN "diverged"
    ELSE IF token THEN cancel_failure ELSE "failed"

Decide ==
    /\ node.pc = "decide"
    /\ node' = [node EXCEPT !.pc = Resolved]
    /\ UNCHANGED <<token, plan, diverged, ring, lagged, watch, latch>>

\* env.status.emit(StageRetrying).
EmitRetrying ==
    /\ node.pc = "emit"
    /\ node' = [node EXCEPT !.pc = "rearm"]
    /\ Send("retrying")
    /\ UNCHANGED <<token, plan, diverged, watch, latch>>

\* KillSlot::rearm, after a divergence only: a fresh child of the plan's token.
Rearm ==
    /\ node.pc = "rearm"
    /\ node' = [node EXCEPT !.pc = "begin", !.attempt = @ + 1]
    /\ token' = IF node.detail THEN plan ELSE token
    /\ UNCHANGED <<plan, diverged, ring, lagged, watch, latch>>

-----------------------------------------------------------------------------
\* Mutant: the latch is not consulted.
KillsAlways == ~ Ended /\ ~ token

\* The early returns of record_divergence_and_kill: the node is flagged, gone,
\* or already cancelled.
Kills == ~ latch /\ ~ Ended /\ ~ token

\* Mutant: the token is cancelled and nothing is recorded.
RecvUnrecorded ==
    /\ watch = Idle /\ ~ lagged /\ ring # <<>> /\ ~ Ended
    /\ LET event == Head(ring)
           kill == event.kind = "nan" /\ Kills IN
       /\ ring' = Tail(ring)
       /\ latch' = (kill \/ (latch /\ event.kind # "retrying"))
       /\ watch' = IF kill THEN event ELSE watch
    /\ UNCHANGED <<node, token, plan, diverged, lagged>>

\* The coordinator reads the next event.  A step that diverges records the
\* node; StageRetrying, the attempt's boundary, clears the latch.
Recv ==
    /\ watch = Idle /\ ~ lagged /\ ring # <<>> /\ ~ Ended
    /\ LET event == Head(ring) IN
       /\ ring' = Tail(ring)
       /\ IF event.kind = "nan" /\ Kills
          THEN /\ diverged' = TRUE /\ latch' = TRUE
               /\ watch' = event
          ELSE /\ latch' = (latch /\ event.kind # "retrying")
               /\ UNCHANGED <<diverged, watch>>
    /\ UNCHANGED <<node, token, plan, lagged>>

\* Mutant: a lag leaves the latch as it is.
RecvLaggedKeeps ==
    /\ watch = Idle /\ lagged /\ ~ Ended
    /\ lagged' = FALSE
    /\ UNCHANGED <<node, token, plan, diverged, ring, watch, latch>>

\* RecvError::Lagged: some events are lost; the latch is cleared.
RecvLagged ==
    /\ watch = Idle /\ lagged /\ ~ Ended
    /\ lagged' = FALSE /\ latch' = FALSE
    /\ UNCHANGED <<node, token, plan, diverged, ring, watch>>

\* tok.cancel(), on the token the slot holds by now.
Kill ==
    /\ watch # Idle
    /\ token' = TRUE /\ watch' = Idle
    /\ UNCHANGED <<node, plan, diverged, ring, lagged, latch>>

\* The plan is cancelled: every token, being a child, fires.
CancelPlan ==
    /\ "cancel" \in Faults /\ ~ plan
    /\ plan' = TRUE /\ token' = TRUE
    /\ UNCHANGED <<node, diverged, ring, lagged, watch, latch>>

Run == Begin \/ Take \/ Decide \/ EmitRetrying \/ Rearm \/ \E r \in {"ok", "error", "withdrawn"} : Return(r)

Watch == Recv \/ RecvLagged \/ Kill

Next ==
    /\ \/ Run \/ Watch \/ CancelPlan
       \/ \E kind \in {"good", "nan"} : Emit(kind)
    /\ UNCHANGED setup

Spec == Init /\ [][Next]_vars

-----------------------------------------------------------------------------
\* A kill is for a step of the attempt it cancels.
OwnKill == ~ token /\ token' /\ plan' = plan /\ ~ Ended => watch.attempt = node.attempt

\* The ring has room for every event of the node, so nothing is lost, and the
\* stage neither fails nor gives up of itself, so every retry follows a kill.
Calm == Capacity >= MaxAttempts * (MaxSteps + 1) /\ Faults \subseteq {"cancel"}

\* Unless events are lost or an attempt ends of itself before its kill has landed,
\* a kill is for a step of the attempt it cancels: the latch, the order of the
\* broadcast and the re-arming keep a stale step of an earlier attempt from killing
\* a healthy one (record_divergence_and_kill, PER-ATTEMPT KILL LATCH).
KillsOwnAttempt == [][Calm => OwnKill]_vars

\* The same of every run: "no straggler survives the lag to spuriously re-kill
\* a healthy attempt".
LagKillsOwnAttempt == [][OwnKill]_vars

\* Under the same two conditions, a stage that errors because the coordinator
\* killed it is retried or fails as Diverged, and no kill outlives its attempt into
\* the next: the branch is pruned as Killed only when the stage had returned Ok
\* before the kill (diverged_detail, taken before the token is read).
KillRecorded == Calm /\ node.pc = "killed" => node.result = "ok"

\* The latch is never wedged: while an attempt runs with its token live, a latch
\* that is still set will be cleared, by a boundary event on its way or by the lag
\* that lost it.
NotWedged ==
    latch /\ node.pc = "run" /\ ~ token =>
        \/ watch # Idle \/ lagged
        \/ \E i \in 1 .. Len(ring) : ring[i].kind = "retrying"
=============================================================================
