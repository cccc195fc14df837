------------------------------ MODULE RaftNode ------------------------------
(***************************************************************************)
(* One Raft participant, RaftNode<C> of src/raft/consensus.rs.             *)
(*                                                                         *)
(* The Rust type performs no I/O: every method takes `&mut self` and       *)
(* returns the messages the caller must deliver.  It is modelled the same  *)
(* way, by operators from a node state to a record                         *)
(*     [node |-> the state afterwards, out |-> the outbound messages],     *)
(* so that modules with different networks (Raft: lossy, duplicating and   *)
(* reordering; HaCluster: the in-process FIFO harness) drive the same      *)
(* node.  A method sends at most one message to each member, so `out` is a *)
(* set; a network that keeps an order takes it from the member list.       *)
(***************************************************************************)
EXTENDS Integers, Sequences, FiniteSets, FiniteSetsExt

CONSTANTS
    Member,           \* the operator-declared member set, equal on every node
    Command,          \* what the log replicates
    None,             \* Option::None
    ElectionTimeout   \* election_timeout of each member, in ticks

ASSUME MemberAssumption  == IsFiniteSet(Member) /\ Member # {} /\ None \notin Member
ASSUME TimeoutAssumption == ElectionTimeout \in [Member -> Nat \ {0}]

Role     == {"Follower", "Candidate", "Leader"}
LogEntry == [term : Nat, command : Command]
Option   == Member \cup {None}

(***************************************************************************)
(* The state of a node.  Index 0 of the log is the empty sentinel.         *)
(* next_index and match_index are maps over the peers that are filled when *)
(* the node becomes leader; a missing key reads as 1 and 0, which is what  *)
(* the code's unwrap_or and or_insert supply.  votes_granted is a Vec      *)
(* guarded by `contains`, hence a set.                                     *)
(***************************************************************************)
NodeState ==
    [current_term      : Nat,
     voted_for         : Option,
     log               : Seq(LogEntry),
     role              : Role,
     commit_index      : Nat,
     leader_hint       : Option,
     votes_granted     : SUBSET Member,
     next_index        : [Member -> Nat \ {0}],
     match_index       : [Member -> Nat],
     ticks_since_heard : Nat]

NewNode ==
    [current_term      |-> 0,
     voted_for         |-> None,
     log               |-> << >>,
     role              |-> "Follower",
     commit_index      |-> 0,
     leader_hint       |-> None,
     votes_granted     |-> {},
     next_index        |-> [p \in Member |-> 1],
     match_index       |-> [p \in Member |-> 0],
     ticks_since_heard |-> 0]

(***************************************************************************)
(* RaftMessage together with the addressee of its Outbound.                *)
(***************************************************************************)
RequestVote ==
    [type : {"RequestVote"}, to : Member, term : Nat, candidate : Member,
     last_log_index : Nat, last_log_term : Nat]
RequestVoteResp ==
    [type : {"RequestVoteResp"}, to : Member, term : Nat, from : Member,
     granted : BOOLEAN]
AppendEntries ==
    [type : {"AppendEntries"}, to : Member, term : Nat, leader : Member,
     prev_log_index : Nat, prev_log_term : Nat, entries : Seq(LogEntry),
     leader_commit : Nat]
AppendEntriesResp ==
    [type : {"AppendEntriesResp"}, to : Member, term : Nat, from : Member,
     match_index : Nat, success : BOOLEAN]
RaftMessage ==
    RequestVote \cup RequestVoteResp \cup AppendEntries \cup AppendEntriesResp

-----------------------------------------------------------------------------
last_log_index(s) == Len(s.log)
TermAt(log, i)    == IF i = 0 THEN 0 ELSE log[i].term
last_log_term(s)  == TermAt(s.log, Len(s.log))

\* Mutant: half of the members is taken for a majority.
HalfQuorum == Cardinality(Member) \div 2

\* A strict majority of the declared members, never of the reachable ones.
quorum   == Cardinality(Member) \div 2 + 1
peers(n) == Member \ {n}

Quiet(s) == [node |-> s, out |-> {}]

\* The highest index above commit_index whose entry is of the current term and
\* which a quorum, this node included, is recorded as holding.
Committable(s) ==
    {i \in (s.commit_index + 1)..Len(s.log) :
        /\ s.log[i].term = s.current_term
        /\ 1 + Cardinality({p \in Member : s.match_index[p] >= i}) >= quorum}
\* Mutant: the search starts from index 0 instead of from commit_index.
AdvanceFromZero(s) ==
    [s EXCEPT !.commit_index = Max({0} \cup Committable(s))]

advance_commit(s) ==
    IF Committable(s) = {} THEN s
    ELSE [s EXCEPT !.commit_index = Max(Committable(s))]

step_down(s, term) ==
    [s EXCEPT !.current_term = term, !.role = "Follower", !.voted_for = None,
              !.votes_granted = {}, !.ticks_since_heard = 0]

become_leader(n, s) ==
    [s EXCEPT !.role = "Leader", !.leader_hint = n,
              !.next_index = [p \in Member |-> IF p = n THEN 1 ELSE Len(s.log) + 1],
              !.match_index = [p \in Member |-> 0]]

\* Mutant: the heartbeat does not carry the leader's commit index.
AppendToNoCommit(n, s, p) ==
    LET prev == s.next_index[p] - 1 IN
    [type |-> "AppendEntries", to |-> p, term |-> s.current_term, leader |-> n,
     prev_log_index |-> prev, prev_log_term |-> TermAt(s.log, prev),
     entries |-> SubSeq(s.log, prev + 1, Len(s.log)), leader_commit |-> 0]

\* One AppendEntries per peer: everything from next_index on.
AppendTo(n, s, p) ==
    LET prev == s.next_index[p] - 1 IN
    [type |-> "AppendEntries", to |-> p, term |-> s.current_term, leader |-> n,
     prev_log_index |-> prev, prev_log_term |-> TermAt(s.log, prev),
     entries |-> SubSeq(s.log, prev + 1, Len(s.log)),
     leader_commit |-> s.commit_index]
broadcast_append(n, s) == {AppendTo(n, s, p) : p \in peers(n)}

\* Both the previous-term lookup and the slice of broadcast_append panic when a
\* peer's next_index lies more than one past the end of this node's log.
BroadcastPanics(n, s) == \E p \in peers(n) : s.next_index[p] - 1 > Len(s.log)

-----------------------------------------------------------------------------
(* Elections. *)

Elected(n, s) ==
    LET l == become_leader(n, s) IN [node |-> l, out |-> broadcast_append(n, l)]

begin_election(n, s) ==
    LET c == [s EXCEPT !.current_term = @ + 1, !.role = "Candidate",
                       !.voted_for = n, !.votes_granted = {n},
                       !.leader_hint = None, !.ticks_since_heard = 0]
    IN  IF 1 >= quorum
        THEN Elected(n, c)
        ELSE [node |-> c,
              out |-> {[type |-> "RequestVote", to |-> p, term |-> c.current_term,
                        candidate |-> n, last_log_index |-> last_log_index(c),
                        last_log_term |-> last_log_term(c)] : p \in peers(n)}]

ElectionDue(n, s) ==
    s.role # "Leader" /\ s.ticks_since_heard + 1 >= ElectionTimeout[n]

tick(n, s) ==
    IF s.role = "Leader" THEN [node |-> s, out |-> broadcast_append(n, s)]
    ELSE IF ElectionDue(n, s)
         THEN begin_election(n, [s EXCEPT !.ticks_since_heard = @ + 1])
         ELSE Quiet([s EXCEPT !.ticks_since_heard = @ + 1])

\* Mutant: the free check of on_request_vote is gone.
GrantsVoteTwice(s, m) ==
    /\ m.term >= s.current_term
    /\ \/ m.last_log_term > last_log_term(s)
       \/ m.last_log_term = last_log_term(s) /\ m.last_log_index >= last_log_index(s)

\* Mutant: the up_to_date check of on_request_vote is gone.
GrantsVoteBehind(s, m) ==
    m.term >= s.current_term /\ s.voted_for \in {None, m.candidate}

\* The vote is granted when it is free and the candidate's (last term, last
\* index) is at least this node's, compared as a pair.
GrantsVote(s, m) ==
    /\ m.term >= s.current_term
    /\ s.voted_for \in {None, m.candidate}
    /\ \/ m.last_log_term > last_log_term(s)
       \/ m.last_log_term = last_log_term(s) /\ m.last_log_index >= last_log_index(s)

on_request_vote(n, s, m) ==
    [node |-> IF GrantsVote(s, m)
              THEN [s EXCEPT !.voted_for = m.candidate, !.ticks_since_heard = 0]
              ELSE s,
     out  |-> {[type |-> "RequestVoteResp", to |-> m.candidate,
                term |-> s.current_term, from |-> n, granted |-> GrantsVote(s, m)]}]

on_vote_response(n, s, m) ==
    LET t == [s EXCEPT !.votes_granted = @ \cup {m.from}] IN
    IF s.role # "Candidate" \/ m.term # s.current_term \/ ~m.granted THEN Quiet(s)
    ELSE IF Cardinality(t.votes_granted) >= quorum THEN Elected(n, t)
    ELSE Quiet(t)

-----------------------------------------------------------------------------
(* Replication. *)

\* Mutant: the previous entry must exist but its term is not compared.
ConsistentLength(s, m) ==
    m.prev_log_index = 0 \/ m.prev_log_index <= Len(s.log)

Consistent(s, m) ==
    \/ m.prev_log_index = 0
    \/ /\ m.prev_log_index <= Len(s.log)
       /\ s.log[m.prev_log_index].term = m.prev_log_term

\* The entries of m that contradict what the follower holds at their index.
Conflicts(log, prev, entries) ==
    {i \in 1..Len(entries) :
        prev + i <= Len(log) /\ log[prev + i].term # entries[i].term}

\* The append loop: the log is truncated at the first conflict, never otherwise,
\* and what the follower lacks is pushed.
KeptLength(log, prev, entries) ==
    IF Conflicts(log, prev, entries) = {} THEN Len(log)
    ELSE prev + Min(Conflicts(log, prev, entries)) - 1
Merged(log, prev, entries) ==
    LET kept == KeptLength(log, prev, entries)
        len  == IF prev + Len(entries) > kept THEN prev + Len(entries) ELSE kept
    IN  [i \in 1..len |-> IF i <= kept THEN log[i] ELSE entries[i - prev]]

AppendReply(n, m, term, match, ok) ==
    {[type |-> "AppendEntriesResp", to |-> m.leader, term |-> term, from |-> n,
      match_index |-> match, success |-> ok]}

\* The index a follower reports: the length of its own log.
AckIndex(m, log) == Len(log)

on_append_entries(n, s, m) ==
    LET f   == [s EXCEPT !.role = "Follower", !.leader_hint = m.leader,
                         !.ticks_since_heard = 0]
        log == Merged(s.log, m.prev_log_index, m.entries)
        g   == [f EXCEPT !.log = log,
                         !.commit_index = IF m.leader_commit > @
                                          THEN Min({m.leader_commit, Len(log)})
                                          ELSE @]
    IN  IF m.term < s.current_term
        THEN [node |-> s, out |-> AppendReply(n, m, s.current_term, 0, FALSE)]
        ELSE IF ~Consistent(s, m)
        THEN [node |-> f, out |-> AppendReply(n, m, s.current_term, 0, FALSE)]
        ELSE [node |-> g,
              out |-> AppendReply(n, m, s.current_term, AckIndex(m, log), TRUE)]

\* Mutant: the walk back of next_index does not stop at 1.
AppendResponseNoFloor(s, m) ==
    IF s.role # "Leader" \/ m.term # s.current_term THEN Quiet(s)
    ELSE IF m.success
    THEN Quiet(advance_commit([s EXCEPT !.match_index[m.from] = m.match_index,
                                        !.next_index[m.from] = m.match_index + 1]))
    ELSE Quiet([s EXCEPT !.next_index[m.from] = IF @ > 0 THEN @ - 1 ELSE 0])

\* Mutant: the next entry sent is one past what the follower misses.
AppendResponsePast(s, m) ==
    IF s.role # "Leader" \/ m.term # s.current_term THEN Quiet(s)
    ELSE IF m.success
    THEN Quiet(advance_commit([s EXCEPT !.match_index[m.from] = m.match_index,
                                        !.next_index[m.from] = m.match_index + 2]))
    ELSE Quiet([s EXCEPT !.next_index[m.from] = IF @ > 1 THEN @ - 1 ELSE 1])

on_append_response(s, m) ==
    IF s.role # "Leader" \/ m.term # s.current_term THEN Quiet(s)
    ELSE IF m.success
    THEN Quiet(advance_commit([s EXCEPT !.match_index[m.from] = m.match_index,
                                        !.next_index[m.from] = m.match_index + 1]))
    ELSE Quiet([s EXCEPT !.next_index[m.from] = IF @ > 1 THEN @ - 1 ELSE 1])

\* Mutant: a message of the node's own term makes it step down too.
HandleStepsDown(n, s0, m) ==
    LET s == IF m.term >= s0.current_term THEN step_down(s0, m.term) ELSE s0 IN
    CASE m.type = "RequestVote"       -> on_request_vote(n, s, m)
      [] m.type = "RequestVoteResp"   -> on_vote_response(n, s, m)
      [] m.type = "AppendEntries"     -> on_append_entries(n, s, m)
      [] m.type = "AppendEntriesResp" -> on_append_response(s, m)

\* A message of a higher term makes the node a follower of that term before it
\* is looked at.
handle(n, s0, m) ==
    LET s == IF m.term > s0.current_term THEN step_down(s0, m.term) ELSE s0 IN
    CASE m.type = "RequestVote"       -> on_request_vote(n, s, m)
      [] m.type = "RequestVoteResp"   -> on_vote_response(n, s, m)
      [] m.type = "AppendEntries"     -> on_append_entries(n, s, m)
      [] m.type = "AppendEntriesResp" -> on_append_response(s, m)

\* Appending as leader; a single-member cluster commits at once.
propose(s, command) ==
    advance_commit([s EXCEPT !.log = Append(@, [term |-> s.current_term,
                                                command |-> command])])
=============================================================================
