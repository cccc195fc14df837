------------------------- MODULE ExecutionLifecycle -------------------------
(***************************************************************************)
(* The lifecycle every placement shares (src/framework/execution.rs,       *)
(* struct ExecutionLifecycle): the phase, the assignment that owns the     *)
(* attempt, the terminal outcome and the highest generation ever assigned. *)
(* Each call of the lifecycle takes its mutex, so a call is one step of    *)
(* the modules that use it; the operators here are the calls on a value.   *)
(* An assignment is a record with an owner and a generation.               *)
(***************************************************************************)
EXTENDS Integers

CONSTANT None

ExecutionPhase ==
    {"Preparing", "UploadingInput", "Queued", "Assigned", "Running",
     "UploadingOutput", "DownloadingOutput"}

ExecutionTerminal == {"Succeeded", "Failed", "Cancelled", "TimedOut"}

NewLifecycle ==
    [phase |-> "Preparing", assignment |-> None, terminal |-> None, max_generation |-> 0]

phase_requires_assignment(phase) ==
    phase \in {"Assigned", "Running", "UploadingOutput", "DownloadingOutput"}

legal_transition(from, to) ==
    \/ from = to
    \/ <<from, to>> \in
         ({"Preparing"} \X {"UploadingInput", "Queued", "Assigned", "Running"})
         \cup ({"UploadingInput"} \X {"Queued", "Assigned", "Running"})
         \cup ({"Queued"} \X {"Assigned"})
         \cup ({"Assigned"} \X {"UploadingInput", "Running"})
         \cup ({"Running"} \X {"Queued", "UploadingOutput", "DownloadingOutput"})
         \cup ({"UploadingOutput"} \X {"DownloadingOutput"})

\* Mutant: queueing keeps the owner.
NextOwnerKeeps(l, next, a) == IF a # None THEN a ELSE l.assignment

\* The owner a transition would leave: queueing clears it, and a call that
\* names none keeps the current one.
NextOwner(l, next, a) ==
    IF next = "Queued" THEN None ELSE IF a # None THEN a ELSE l.assignment

\* An owner is stale against another when it has an older generation, or the
\* same one and is not it.
Older(a, current) ==
    a.generation < current.generation \/ (a.generation = current.generation /\ a # current)

\* The two checks of transition: against the current owner, and against the
\* highest generation ever assigned, which outlives its owner.
Stale(l, a) ==
    \/ l.assignment # None /\ Older(a, l.assignment)
    \/ a.generation < l.max_generation
    \/ a.generation = l.max_generation /\ l.assignment # a

\* The error of transition, None when it goes through.
TransitionError(l, next, a) ==
    CASE l.terminal # None -> "AlreadyTerminal"
      [] l.terminal = None /\ ~ legal_transition(l.phase, next) -> "IllegalTransition"
      [] OTHER ->
           LET owner == NextOwner(l, next, a) IN
           IF next = "Queued" /\ a # None THEN "UnexpectedAssignment"
           ELSE IF phase_requires_assignment(next) /\ owner = None THEN "AssignmentRequired"
           ELSE IF owner # None /\ Stale(l, owner) THEN "StaleAssignment" ELSE None

transition(l, next, a) ==
    IF TransitionError(l, next, a) # None THEN l
    ELSE LET owner == NextOwner(l, next, a) IN
         [l EXCEPT !.phase = next, !.assignment = owner,
                   !.max_generation =
                        IF owner # None /\ owner.generation > @ THEN owner.generation ELSE @]

FinishError(l, a) ==
    IF l.terminal # None THEN "AlreadyTerminal"
    ELSE IF a # None /\ l.assignment # a THEN "StaleAssignment" ELSE None

\* finish: the first outcome is latched; a caller that names an assignment
\* must own the attempt.  (The identity check of a success is part of what
\* its caller downloads.)
finish(l, a, terminal) ==
    IF FinishError(l, a) # None THEN l ELSE [l EXCEPT !.terminal = terminal]

=============================================================================
