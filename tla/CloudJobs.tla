----------------------------- MODULE CloudJobs ------------------------------
(***************************************************************************)
(* What the cloud queue promises about each job, without workers, leases   *)
(* or generations: the trait CloudQueue of src/cloud/queue.rs read as a    *)
(* contract, together with the billing rule of src/cloud/worker.rs.        *)
(*                                                                         *)
(* A job waits, is held and may be given back any number of times; it is   *)
(* done once and for all; a waiting job ends only by cancellation; and a   *)
(* ledger row is written once, for a job that is done with a success.      *)
(***************************************************************************)
EXTENDS Integers

CONSTANTS Job, None

VARIABLES place, outcome, rows

jobVars == <<place, outcome, rows>>

Init ==
    /\ place = [j \in Job |-> "absent"]
    /\ outcome = [j \in Job |-> None]
    /\ rows = [j \in Job |-> 0]

\* One call may give several held jobs back and move one job besides.
Live(old, new) ==
    \/ new = old
    \/ old = "absent" /\ new = "waiting"
    \/ old \in {"waiting", "held"} /\ new \in {"waiting", "held"}

Move ==
    /\ place' \in [Job -> {"absent", "waiting", "held", "done"}]
    /\ \A j \in Job : Live(place[j], place'[j])
    /\ UNCHANGED <<outcome, rows>>

\* Job j ends, and held jobs are given back.
End(j) ==
    /\ place[j] \in {"waiting", "held"}
    /\ place' \in [Job -> {"absent", "waiting", "held", "done"}]
    /\ place'[j] = "done"
    /\ \A k \in Job \ {j} : Live(place[k], place'[k])
    /\ \E o \in {"Succeeded", "Failed", "Cancelled", "TimedOut"} :
          /\ o = "Cancelled" \/ place[j] = "held"
          /\ outcome' = [outcome EXCEPT ![j] = o]
    /\ UNCHANGED rows

Row(j) ==
    /\ outcome[j] = "Succeeded" /\ rows[j] = 0
    /\ rows' = [rows EXCEPT ![j] = 1]
    /\ UNCHANGED <<place, outcome>>

Next == Move \/ \E j \in Job : End(j) \/ Row(j)

Spec == Init /\ [][Next]_jobVars

=============================================================================
