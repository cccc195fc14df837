------------------------------ MODULE HaCluster ------------------------------
(***************************************************************************)
(* The highly-available scheduler: HaScheduler of src/raft/ha.rs on every  *)
(* member, joined by the in-process cluster of src/raft/mod.rs (harness),  *)
(* whose transport is one FIFO queue, whose rounds are "tick every live    *)
(* member, then deliver until quiet", and whose members can be killed.     *)
(*                                                                         *)
(* The schedulers' client and the workers are not in src/raft: they are    *)
(* modelled from how ha.rs and its gate use them.  A client asks for a     *)
(* dispatch, polls its ticket, and sends a task frame only when told       *)
(* Committed; a worker that gets the frame runs the stage and finishes it. *)
(***************************************************************************)
EXTENDS SchedulerState

CONSTANTS
    Order,            \* the member ids, in the order Cluster::new got them
    ElectionTimeout,  \* base timeout of the cluster
    MaxLog,           \* bound: no proposal beyond this log length
    MaxTerm,          \* bound: no election beyond this term
    MaxDown,          \* bound: how many members may be killed
    MaxTickets,       \* bound: how many dispatches await their commit at a time
    Offered,          \* bound: the client operations the client makes use of
    Expectation,      \* bound: the result hashes a dispatch may announce
    Silence           \* {None} if a stage may be reconciled without a report, or {}

Member == {Order[i] : i \in DOMAIN Order}

\* Mutant: every member has the same timeout.
TimeoutEqual == [n \in Member |-> ElectionTimeout]

\* "Distinct timeouts, ascending": base + position.
Timeout == [n \in Member |-> ElectionTimeout + (CHOOSE i \in DOMAIN Order : Order[i] = n) - 1]

R == INSTANCE RaftNode
        WITH Command <- SchedulerCommand, ElectionTimeout <- Timeout

VARIABLES
    raft,       \* the RaftNode of each member
    state,      \* the SchedulerState of each member
    reachable,  \* the members each one believes it can reach
    queue,      \* the cluster's message queue
    down,       \* the members that were killed
    tickets,    \* dispatches the clients proposed and still poll
    decided,    \* what reconcile told the client of each member to propose
    frames,     \* task frames the clients were authorised to send
    work        \* what each worker holds of each stage

vars == <<raft, state, reachable, queue, down, tickets, decided, frames, work>>

Absent == "Absent"

Init ==
    /\ raft = [n \in Member |-> R!NewNode]
    /\ state = [n \in Member |-> NewState]
    /\ reachable = [n \in Member |-> Member]
    /\ queue = << >>
    /\ down = {}
    /\ tickets = {}
    /\ decided = [n \in Member |-> << >>]
    /\ frames = {}
    /\ work = [p \in Worker |-> [s \in Stage |-> Absent]]

-----------------------------------------------------------------------------
committed_entries(r) == SubSeq(r.log, 1, r.commit_index)
pump(st, r)          == apply_prefix(st, committed_entries(r))

is_leader(n)  == raft[n].role = "Leader"
has_quorum(n) == Cardinality(reachable[n]) >= R!quorum

\* A member's replies in the order of the member list, without the ones from or
\* to a killed member.
enqueue_out(from, out) ==
    LET to == SelectSeq(Order, LAMBDA p : {from, p} \cap down = {}
                                          /\ \E m \in out : m.to = p)
    IN  [i \in 1..Len(to) |-> CHOOSE m \in out : m.to = to[i]]

Sender(m) ==
    CASE m.type = "RequestVote"   -> m.candidate
      [] m.type = "AppendEntries" -> m.leader
      [] OTHER                    -> m.from

Client == <<tickets, decided, frames, work>>

-----------------------------------------------------------------------------
(* The harness. *)

\* Cluster::tick_all, at the start of a round.
tick_all ==
    LET live == SelectSeq(Order, LAMBDA n : n \notin down)
        r    == [n \in Member |-> IF n \in down THEN R!Quiet(raft[n])
                                  ELSE R!tick(n, raft[n])]
    IN  /\ queue = << >>
        /\ \A n \in Member \ down :
              R!ElectionDue(n, raft[n]) => raft[n].current_term < MaxTerm
        /\ raft' = [n \in Member |-> r[n].node]
        /\ state' = [n \in Member |-> IF n \in down THEN state[n]
                                      ELSE pump(state[n], r[n].node)]
        /\ queue' = FoldLeft(LAMBDA q, n : q \o enqueue_out(n, r[n].out), << >>, live)
        /\ UNCHANGED <<reachable, down, Client>>

\* One iteration of Cluster::deliver_all.  The queue holds nothing for a killed
\* member: kill removed it and enqueue_out adds none.
deliver_one ==
    /\ queue # << >>
    /\ LET m == Head(queue)
           r == R!handle(m.to, raft[m.to], m)
       IN  /\ raft' = [raft EXCEPT ![m.to] = r.node]
           /\ state' = [state EXCEPT ![m.to] = pump(@, r.node)]
           /\ queue' = Tail(queue) \o enqueue_out(m.to, r.out)
    /\ UNCHANGED <<reachable, down, Client>>

\* Cluster::kill.  The member's clients go with it.
kill(n) ==
    /\ n \notin down
    /\ Cardinality(down) < MaxDown
    /\ down' = down \cup {n}
    /\ queue' = SelectSeq(queue, LAMBDA m : Sender(m) # n /\ m.to # n)
    /\ reachable' = [p \in Member |-> Member \ down']
    /\ tickets' = {t \in tickets : t.member # n}
    /\ decided' = [decided EXCEPT ![n] = << >>]
    /\ UNCHANGED <<raft, state, frames, work>>

-----------------------------------------------------------------------------
(* HaScheduler's operations, called by a client of a live member.  On a      *)
(* member that is not leader, propose returns None and nothing changes.      *)

Calls(n, op) == op \in Offered /\ n \notin down /\ is_leader(n)

\* Propose the commands in turn, then pump.
ProposeAll(n, commands) ==
    LET r == FoldLeft(R!propose, raft[n], commands) IN
    /\ Len(raft[n].log) + Len(commands) <= MaxLog
    /\ raft' = [raft EXCEPT ![n] = r]
    /\ state' = [state EXCEPT ![n] = pump(@, r)]
    /\ UNCHANGED <<reachable, queue, down>>

enqueue(n, s) ==
    /\ Calls(n, "enqueue")
    /\ ProposeAll(n, <<[op |-> "Enqueue", stage |-> s]>>)
    /\ UNCHANGED Client

\* Mutant: a stage that is dispatched or running may be dispatched again.
MayDispatchLive(n, s) == state[n].stages[s].status # "Done"

MayDispatch(n, s) == state[n].stages[s].status \notin {"Dispatched", "Running", "Done"}

\* request_dispatch: refused without a quorum and for a stage the committed
\* state already has as dispatched, running or done.  A dispatch of the stage
\* that is proposed and not committed yet does not stop a second call.
request_dispatch(n, s, p, x) ==
    LET index == Len(raft[n].log) + 1 IN
    /\ Calls(n, "request_dispatch")
    /\ Cardinality(tickets) < MaxTickets
    /\ has_quorum(n)
    /\ MayDispatch(n, s)
    /\ ProposeAll(n, <<[op |-> "Dispatch", stage |-> s, peer |-> p, expected |-> x]>>)
    /\ IF raft'[n].commit_index >= index
       THEN /\ frames' = frames \cup {[by |-> n, stage |-> s, peer |-> p, index |-> index]}
            /\ UNCHANGED tickets
       ELSE /\ tickets' = tickets \cup {[member |-> n, stage |-> s, index |-> index]}
            /\ UNCHANGED frames
    /\ UNCHANGED <<decided, work>>

\* Mutant: a ticket is honoured as soon as the stage has a peer on record.
PollReadyEarly(n, t) == state[n].stages[t.stage].peer # None \/ Len(raft[n].log) >= t.index

PollReady(n, t) ==
    raft[n].commit_index >= t.index /\ state[n].stages[t.stage].peer # None

\* poll_dispatch returning Committed, to the peer the record names now.
poll_dispatch(n, t) ==
    /\ n \notin down /\ t.member = n
    /\ PollReady(n, t)
    /\ tickets' = tickets \ {t}
    /\ frames' = frames \cup
          {[by |-> n, stage |-> t.stage, peer |-> state[n].stages[t.stage].peer,
            index |-> t.index]}
    /\ UNCHANGED <<raft, state, reachable, queue, down, decided, work>>

record_running(n, s, p) ==
    /\ Calls(n, "record_running")
    /\ work[p][s] # Absent
    /\ ProposeAll(n, <<[op |-> "Running", stage |-> s, peer |-> p]>>)
    /\ UNCHANGED Client

record_complete(n, s, p) ==
    /\ Calls(n, "record_complete")
    /\ work[p][s] \in Hash
    /\ ProposeAll(n, <<[op |-> "Complete", stage |-> s, content_hash |-> work[p][s]]>>)
    /\ UNCHANGED Client

record_cloud_job(n, s, j) ==
    /\ Calls(n, "record_cloud_job")
    /\ ProposeAll(n, <<[op |-> "CloudJob", stage |-> s, job_id |-> j]>>)
    /\ UNCHANGED Client

\* What reconcile decides about stage s, whose first report is `said`, as the
\* proposals commit_reconcile makes of it: adopt a result that is not
\* contradicted, void a dispatch nobody claims, leave the rest.
Decision(n, s, said) ==
    CASE said \in Hash /\ state[n].stages[s].expected \in {None, said} ->
            <<[op |-> "Complete", stage |-> s, content_hash |-> said]>>
      [] said = Absent -> <<[op |-> "VoidDispatch", stage |-> s]>>
      [] OTHER -> << >>

\* reconcile, which only answers.  A report says what its worker holds when it
\* is made; `first` is the one whose report about a stage comes first, None when
\* there is no report.
reconcile(n, first) ==
    LET said(s) == IF first[s] = None THEN Absent ELSE work[first[s]][s]
        todo    == SetToSeq(unresolved(state[n]))
        plans   == [i \in 1..Len(todo) |-> Decision(n, todo[i], said(todo[i]))]
    IN  /\ Calls(n, "reconcile")
        /\ FlattenSeq(plans) # << >>
        /\ decided' = [decided EXCEPT ![n] = FlattenSeq(plans)]
        /\ UNCHANGED <<raft, state, reachable, queue, down, tickets, frames, work>>

\* commit_reconcile, whenever the client gets to it: the stages and the workers
\* may have moved on since reconcile looked at them.
commit_reconcile(n) ==
    /\ Calls(n, "reconcile")
    /\ decided[n] # << >>
    /\ ProposeAll(n, decided[n])
    /\ decided' = [decided EXCEPT ![n] = << >>]
    /\ UNCHANGED <<tickets, frames, work>>

-----------------------------------------------------------------------------
(* The workers, external to src/raft. *)

\* A frame arrives.  A worker runs a stage once.
Start(f) ==
    /\ work[f.peer][f.stage] = Absent
    /\ work' = [work EXCEPT ![f.peer][f.stage] = "Running"]
    /\ UNCHANGED <<raft, state, reachable, queue, down, tickets, decided, frames>>

Finish(p, s, h) ==
    /\ work[p][s] = "Running"
    /\ work' = [work EXCEPT ![p][s] = h]
    /\ UNCHANGED <<raft, state, reachable, queue, down, tickets, decided, frames>>

-----------------------------------------------------------------------------
Next ==
    \/ tick_all
    \/ deliver_one
    \/ \E n \in Member : kill(n)
    \/ \E n \in Member, s \in Stage : enqueue(n, s)
    \/ \E n \in Member, s \in Stage, p \in Worker, x \in Expectation :
          request_dispatch(n, s, p, x)
    \/ \E n \in Member, t \in tickets : poll_dispatch(n, t)
    \/ \E n \in Member, s \in Stage, p \in Worker : record_running(n, s, p)
    \/ \E n \in Member, s \in Stage, p \in Worker : record_complete(n, s, p)
    \/ \E n \in Member, s \in Stage, j \in Job : record_cloud_job(n, s, j)
    \/ \E n \in Member, first \in [Stage -> Worker \cup Silence] : reconcile(n, first)
    \/ \E n \in Member : commit_reconcile(n)
    \/ \E f \in frames : Start(f)
    \/ \E p \in Worker, s \in Stage, h \in Hash : Finish(p, s, h)

Spec == Init /\ [][Next]_vars

\* The harness keeps running its rounds.
FairSpec == Spec /\ WF_vars(tick_all) /\ WF_vars(deliver_one)

-----------------------------------------------------------------------------
\* No live member can panic: commit_index stays within the log that
\* committed_entries slices, and no leader's heartbeat indexes past its log.
NeverPanics ==
    \A n \in Member \ down :
        /\ raft[n].commit_index <= Len(raft[n].log)
        /\ is_leader(n) => ~R!BroadcastPanics(n, raft[n])

\* A member's scheduler state is the replay of the log prefix it has applied,
\* each entry once, and pump leaves no committed entry unapplied: pump is called
\* wherever the log or the commit index can move.
Replayed ==
    \A n \in Member :
        /\ state[n].applied = raft[n].commit_index
        /\ state[n] = apply_prefix(NewState, committed_entries(raft[n]))

\* Whatever any member has applied, dead or alive, a live leader of that or a
\* later term holds: no committed result is lost across a failover.
NothingCommittedLost ==
    \A a \in Member, b \in Member \ down :
        /\ is_leader(b)
        /\ raft[b].current_term >= raft[a].current_term
        => /\ Len(raft[b].log) >= state[a].applied
           /\ \A i \in 1..state[a].applied : raft[a].log[i] = raft[b].log[i]

\* Commit before dispatch: a task frame leaves only when a majority of the
\* declared members holds the Dispatch of its stage at the ticket's index.
CommitBeforeDispatch ==
    \A f \in frames :
        Cardinality({n \in Member :
            /\ f.index <= Len(raft[n].log)
            /\ raft[n].log[f.index].command.op = "Dispatch"
            /\ raft[n].log[f.index].command.stage = f.stage}) >= R!quorum

\* The last committed Dispatch of stage s in the log of member n, 0 for none.
LastDispatch(n, s) ==
    Max({0} \cup {i \in 1..raft[n].commit_index :
                     /\ raft[n].log[i].command.op = "Dispatch"
                     /\ raft[n].log[i].command.stage = s})

\* Whether a command `op` for stage s is committed on member n after index i.
CommittedAfter(n, s, op, i) ==
    \E j \in (i + 1)..raft[n].commit_index :
        raft[n].log[j].command.op = op /\ raft[n].log[j].command.stage = s

\* "Returning [AlreadyDispatched] rather than committing a second entry is the
\* first line of defence": a leader appends a Dispatch only for a stage whose
\* committed history has no result since its last Dispatch, and a void of that
\* Dispatch if there was one, whatever running, complete, cloud-job and
\* reconcile calls came between.
RedispatchOnlyVoided ==
    [][\A n \in Member, s \in Stage :
          LET d == LastDispatch(n, s) IN
          /\ is_leader(n) /\ Len(raft'[n].log) > Len(raft[n].log)
          /\ \E i \in (Len(raft[n].log) + 1)..Len(raft'[n].log) :
                raft'[n].log[i].command.op = "Dispatch" /\ raft'[n].log[i].command.stage = s
          => /\ ~CommittedAfter(n, s, "Complete", d)
             /\ d # 0 => CommittedAfter(n, s, "VoidDispatch", d)]_vars

\* ADR 0106's gate: "a leader kill mid-DAG must not double-dispatch".  No two
\* leaders send one stage to two workers unless a dispatch of it was voided.
NoDoubleDispatch ==
    \A f, g \in frames :
        f.stage = g.stage /\ f.by # g.by /\ f.peer # g.peer
        => \E n \in Member : \E i \in DOMAIN raft[n].log :
              raft[n].log[i].command = [op |-> "VoidDispatch", stage |-> f.stage]

\* With distinct timeouts and a majority alive, the cluster is never without a
\* leader for good.
LeaderEmerges == []<>(\E n \in Member \ down : is_leader(n))

\* What a leader has committed, every live member applies, unless that leader
\* is killed first.
CommitsSpread ==
    \A n \in Member : \A i \in 1..MaxLog :
        (n \notin down /\ is_leader(n) /\ raft[n].commit_index >= i)
        ~> (n \in down \/ \A p \in Member \ down : state[p].applied >= i)
=============================================================================
