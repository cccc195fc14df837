------------------------ MODULE SchedulerLockProofs ------------------------
(***************************************************************************)
(* The GPU lockfile is exclusive, for any number of processes, as long as  *)
(* no process dies, or calls of acquire_exclusive_at do not overlap.  TLC  *)
(* shows that dropping both lets two processes hold it (MCLockRace).       *)
(***************************************************************************)
EXTENDS SchedulerLock, TLAPS

\* What rules the race out: a stale lock never appears, or its removal and the
\* creation after it are not interleaved with another caller's.
Undisturbed == \A r \in Regime : r.faults = {} \/ ~ r.overlap

Written(p) == [pid |-> p, written |-> TRUE]

Unwritten(p) == [pid |-> p, written |-> FALSE]

\* The file is the writer's, the holder's, or that of a dead process somebody is
\* about to remove; no step of one process takes it from another.
LockInv ==
    /\ TypeOK
    /\ \A p \in Proc : pc[p] = "write" => file = Unwritten(p)
    /\ \A p \in Proc : pc[p] \in {"held", "unlink"} => file = Written(p)
    /\ \A p \in Proc : pc[p] = "remove" => Readable /\ pc[file.pid] = "dead"
    /\ Faults = {} => \A p \in Proc : pc[p] # "dead"
    /\ ~ Overlap => \A p, q \in Acquiring : p = q

\* The two bodies a process gives the file, told apart.
LEMMA Bodies ==
    ASSUME NEW p \in Proc
    PROVE  /\ Written(p) \in [pid : Proc, written : BOOLEAN] /\ Written(p) # None
           /\ Unwritten(p) \in [pid : Proc, written : BOOLEAN] /\ Unwritten(p) # None
           /\ Written(p).pid = p /\ Written(p).written
           /\ Unwritten(p).pid = p /\ ~ Unwritten(p).written
<1>1. Written(p) \in [pid : Proc, written : BOOLEAN] /\ Unwritten(p) \in [pid : Proc, written : BOOLEAN]
    BY DEF Written, Unwritten
<1>2. Written(p) # None /\ Unwritten(p) # None
    BY <1>1, LockAssumption, Zenon
<1>3. /\ Written(p).pid = p /\ Written(p).written
      /\ Unwritten(p).pid = p /\ ~ Unwritten(p).written
    BY DEF Written, Unwritten
<1> QED BY <1>1, <1>2, <1>3

\* The invariant holds at the start, of an absent file and idle processes.
LEMMA LockInit == Init => LockInv
BY LockAssumption DEF Init, LockInv, TypeOK, Acquiring

\* Every step of acquire_exclusive_at, of Drop and of the faults keeps it.
LEMMA LockStep == Undisturbed /\ LockInv /\ [Next]_vars => LockInv'
<1> SUFFICES ASSUME Undisturbed, LockInv, [Next]_vars PROVE LockInv'
    OBVIOUS
<1>0. regime' = regime
    BY DEF Next, vars
<1> USE LockAssumption, <1>0 DEF TypeOK, Acquiring, Readable, Faults, Overlap
<1>1. ASSUME NEW p \in Proc, Acquire(p) PROVE LockInv'
    BY <1>1 DEF LockInv, Acquire, AfterRead, pid_alive, Written, Unwritten
<1>2. ASSUME NEW p \in Proc, Remove(p) PROVE LockInv'
    BY <1>2 DEF LockInv, Remove, Written, Unwritten, Undisturbed
<1>3. ASSUME NEW p \in Proc, Create(p) PROVE LockInv'
  <2>1. CASE file = None
    <3>1. file' = Unwritten(p) /\ pc' = [pc EXCEPT ![p] = "write"] /\ pc[p] = "create"
        BY <1>3, <2>1 DEF Create, Unwritten
    <3>2. \A q \in Proc : pc[q] \notin {"write", "held", "unlink", "remove"}
        BY <2>1, Bodies DEF LockInv
    <3>3. TypeOK'
        BY <3>1 DEF LockInv, Unwritten
    <3>4. Acquiring' = Acquiring
        BY <3>1 DEF LockInv
    <3> QED BY <3>1, <3>2, <3>3, <3>4 DEF LockInv
  <2>2. CASE file # None
    BY <1>3, <2>2 DEF LockInv, Create
  <2> QED BY <2>1, <2>2
<1>4. ASSUME NEW p \in Proc, Write(p) PROVE LockInv'
  <2>1. file = Unwritten(p) /\ pc' = [pc EXCEPT ![p] = "held"]
    BY <1>4 DEF LockInv, Write
  <2>2. file' = Written(p)
    BY <1>4, <2>1, Bodies DEF Write, Written
  <2>3. \A q \in Proc : q # p => pc[q] \notin {"write", "held", "unlink", "remove"}
    BY <2>1, Bodies DEF LockInv
  <2>4. TypeOK'
    BY <2>1, <2>2 DEF LockInv, Written
  <2> QED BY <2>1, <2>2, <2>3, <2>4 DEF LockInv
<1>5. ASSUME NEW p \in Proc, Release(p) PROVE LockInv'
    BY <1>5 DEF LockInv, Release, Written, Unwritten
<1>6. ASSUME NEW p \in Proc, Unlink(p) PROVE LockInv'
    BY <1>6 DEF LockInv, Unlink, Written, Unwritten
<1>7. ASSUME NEW p \in Proc, Crash(p) PROVE LockInv'
    BY <1>7 DEF LockInv, Crash, Written, Unwritten
<1>8. ASSUME NEW p \in Proc, WriteFails(p) PROVE LockInv'
    BY <1>8 DEF LockInv, WriteFails, Written, Unwritten
<1>9. CASE UNCHANGED vars
    BY <1>9 DEF LockInv, vars, Written, Unwritten
<1> QED BY <1>1, <1>2, <1>3, <1>4, <1>5, <1>6, <1>7, <1>8, <1>9 DEF Next, Step

\* A state of the invariant has at most one holder, and its lock on disk.
LEMMA LockInvSafe == LockInv => Exclusive /\ HolderOnDisk
BY DEF LockInv, Exclusive, HolderOnDisk, Holder, Written, TypeOK

\* At most one live process holds the GPU lock, and its complete file is at the
\* path while it does, for every number of processes: acquire_exclusive_at and
\* Drop of src/scheduler_lock.rs, undisturbed.
THEOREM LockExclusive == Undisturbed => (Spec => [](Exclusive /\ HolderOnDisk))
<1> SUFFICES ASSUME Undisturbed PROVE Spec => [](Exclusive /\ HolderOnDisk)
    OBVIOUS
<1>1. LockInv /\ [Next]_vars => LockInv'
    BY LockStep
<1> QED BY LockInit, <1>1, LockInvSafe, PTL DEF Spec
=============================================================================
