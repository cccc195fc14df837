------------------------------- MODULE MCCloud -------------------------------
(***************************************************************************)
(* CloudQueue and CloudSubmit for model checking.  Init picks a plan:      *)
(*   queue   clients enqueue and cancel two jobs, two worker loops claim   *)
(*           under one name; the submitter stands still;                   *)
(*   submit  one execution goes through the driver and the attempt task.   *)
(***************************************************************************)
EXTENDS CloudSubmit, TLC

CONSTANTS w1, w2, same, other

VARIABLE plan

\* Two worker loops that claim under one name.
OneName == w1 :> same @@ w2 :> same

\* The second job is the more urgent one.
Urgent == job :> 0 @@ other :> 1

Submitter == <<shared, attempt, late, wanted, client>>

PlanInit == plan \in {"queue", "submit"} /\ SubmitInit

\* Bound of the plan: one worker loop, which claims twice at most.
OneLoop == UNCHANGED worker[w2] /\ queue'.next_generation <= 2

PlanNext ==
    /\ UNCHANGED plan
    /\ \/ plan = "queue" /\ Next /\ UNCHANGED Submitter
       \/ plan = "submit" /\ SubmitNext /\ OneLoop

planVars == <<plan, submitVars>>

\* The step A of the plan p.
Under(p, A) == plan = p /\ A /\ UNCHANGED plan

\* The fairness of FairSpec in the one plan and of SubmitFairSpec in the other.
PlanSpec ==
    /\ PlanInit /\ [][PlanNext]_planVars
    /\ \A w \in Worker :
          WF_planVars(Under("queue", (RunOne(w) \/ Executed(w) \/ Complete(w) \/ Bill(w))
                                     /\ UNCHANGED Submitter))
    /\ \A j \in Job : WF_planVars(Under("queue", Elapse(j) /\ UNCHANGED Submitter))
    /\ WF_planVars(Under("submit", Attempt))
    /\ WF_planVars(Under("submit", Drive))
    /\ WF_planVars(Under("submit", Deadline))

\* In the plan of the queue every job that waits is done eventually, although
\* its leases elapse and its workers are abandoned.
QueueResolves == plan = "queue" => JobsResolve

\* In the plan of the submitter drive_execution returns and its attempt ends,
\* whatever the workers and the store do.
SubmitReturns == plan = "submit" => DriverReturns
=============================================================================
