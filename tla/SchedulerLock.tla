--------------------------- MODULE SchedulerLock ---------------------------
(***************************************************************************)
(* The advisory GPU lockfile of src/scheduler_lock.rs: processes that      *)
(* acquire it (acquire_exclusive_at), hold it and drop it, and that may    *)
(* die at any point.                                                       *)
(*                                                                         *)
(* Each file-system call is one step, so the processes interleave between  *)
(* the read, the unlink, the create and the write.  A process stands for   *)
(* its pid; a restarted program is another member of Proc.  The body of    *)
(* the file is its LockInfo, or nothing before write_all.                  *)
(***************************************************************************)
EXTENDS Integers, FiniteSets

CONSTANTS Proc, None,
          Regime    \* bound: the circumstances the processes may meet, records of
                    \*   faults: "crash": a process may die; "torn": also before its
                    \*     write is done, which may fail as well
                    \*   overlap: two calls of acquire_exclusive_at may overlap

ASSUME LockAssumption ==
    /\ None \notin [pid : Proc, written : BOOLEAN]
    /\ Regime \subseteq [faults : SUBSET {"crash", "torn"}, overlap : BOOLEAN]

VARIABLES
    regime,  \* the circumstances of this run
    file,    \* None, or the inode at the path: who created it, and is it written
    pc       \* where each process is

vars == <<regime, file, pc>>

Faults  == regime.faults
Overlap == regime.overlap

TypeOK ==
    /\ regime \in Regime
    /\ file \in [pid : Proc, written : BOOLEAN] \cup {None}
    /\ pc \in [Proc -> {"idle", "remove", "create", "write", "held", "unlink", "dead"}]

Init ==
    /\ regime \in Regime
    /\ file = None
    /\ pc = [p \in Proc |-> "idle"]

\* read_lock parses the file: it is there and its body is complete.
Readable == file # None /\ file.written

\* pid_alive.
pid_alive(p) == pc[p] # "dead"

Acquiring == {p \in Proc : pc[p] \in {"remove", "create", "write"}}

Holder == {p \in Proc : pc[p] = "held"}

-----------------------------------------------------------------------------
\* Mutant: a lock that can be read is removed whoever holds it.
ReadEvicts(p) == IF Readable THEN "remove" ELSE "create"

\* What acquire_exclusive_at does about the lock it read.
AfterRead(p) ==
    IF ~ Readable THEN "create"
    ELSE IF pid_alive(file.pid) THEN "idle" ELSE "remove"

\* acquire_exclusive_at: read the lock; a live holder's refuses the caller.
Acquire(p) ==
    /\ pc[p] = "idle"
    /\ Overlap \/ Acquiring = {}
    /\ pc' = [pc EXCEPT ![p] = AfterRead(p)]
    /\ UNCHANGED file

\* Mutant: the stale lock is left in place.
RemoveNothing(p) ==
    /\ pc[p] = "remove"
    /\ pc' = [pc EXCEPT ![p] = "create"]
    /\ UNCHANGED file

\* remove_file on the path, for the stale lock that was read before.
Remove(p) ==
    /\ pc[p] = "remove"
    /\ file' = None
    /\ pc' = [pc EXCEPT ![p] = "create"]

\* Mutant: the file is opened without O_EXCL and truncated.
CreateTruncates(p) ==
    /\ pc[p] = "create"
    /\ file' = [pid |-> p, written |-> FALSE]
    /\ pc' = [pc EXCEPT ![p] = "write"]

\* create_new in write_lock: an existing file refuses the caller, whatever the
\* second read of it says.
Create(p) ==
    /\ pc[p] = "create"
    /\ IF file = None
       THEN /\ file' = [pid |-> p, written |-> FALSE]
            /\ pc' = [pc EXCEPT ![p] = "write"]
       ELSE /\ pc' = [pc EXCEPT ![p] = "idle"]
            /\ UNCHANGED file

\* write_all: the body goes into the inode this process created, which another
\* process may have unlinked.
Write(p) ==
    /\ pc[p] = "write"
    /\ file' = IF file # None /\ file.pid = p THEN [pid |-> p, written |-> TRUE] ELSE file
    /\ pc' = [pc EXCEPT ![p] = "held"]

\* Drop, its read: only a file that is still this process's is unlinked.
Release(p) ==
    /\ pc[p] = "held"
    /\ pc' = [pc EXCEPT ![p] = IF Readable /\ file.pid = p THEN "unlink" ELSE "idle"]
    /\ UNCHANGED file

\* Drop, its remove_file on the path.
Unlink(p) ==
    /\ pc[p] = "unlink"
    /\ file' = None
    /\ pc' = [pc EXCEPT ![p] = "idle"]

\* kill -9: no Drop runs.
Crash(p) ==
    /\ "crash" \in Faults
    /\ pc[p] # "dead"
    /\ pc[p] = "write" => "torn" \in Faults
    /\ pc' = [pc EXCEPT ![p] = "dead"]
    /\ UNCHANGED file

\* write_all fails (a full disk): the error returns and the file stays.
WriteFails(p) ==
    /\ "torn" \in Faults
    /\ pc[p] = "write"
    /\ pc' = [pc EXCEPT ![p] = "idle"]
    /\ UNCHANGED file

Step(p) == Acquire(p) \/ Remove(p) \/ Create(p) \/ Write(p) \/ Release(p) \/ Unlink(p)

Next ==
    /\ \E p \in Proc : Step(p) \/ Crash(p) \/ WriteFails(p)
    /\ UNCHANGED regime

Spec == Init /\ [][Next]_vars

\* A live process keeps calling, and the lock it holds is dropped in the end.
FairSpec == Spec /\ \A p \in Proc : WF_vars(Step(p) /\ UNCHANGED regime)

-----------------------------------------------------------------------------
\* At most one live process holds the lock: "exclusive access to the GPU", as
\* the module's header says of holding the file.
Exclusive == \A p, q \in Holder : p = q

\* A holder can be seen: its own complete lock is at the path until it drops
\* it, so check_unlocked refuses every other program.
HolderOnDisk == \A p \in Holder : file = [pid |-> p, written |-> TRUE]

\* The lock keeps being granted: whatever has died, a live caller holds it again
\* and again ("crash recovery without manual cleanup"), unless a process died or
\* failed between the creation of the file and the end of its write.
LockUsable ==
    "torn" \notin Faults => (\A p \in Proc : <>(pc[p] = "dead")) \/ []<>(Holder # {})
=============================================================================
