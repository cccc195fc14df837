-------------------------------- MODULE Raft --------------------------------
(***************************************************************************)
(* A cluster of RaftNodes (src/raft/consensus.rs) on a network that may    *)
(* lose, duplicate, delay and reorder messages: `msgs` holds what was      *)
(* handed to the transport, any of it may be delivered any number of       *)
(* times, and what is never delivered is lost.  A member that crashes is   *)
(* one that takes no further step: the code keeps its state in memory and  *)
(* has no restart path.                                                    *)
(***************************************************************************)
EXTENDS RaftNode

CONSTANTS
    OneInFlight, \* bound: a link keeps its latest message of each kind only
    Elections,   \* bound: <<n, t>> when member n may stand for election in term t
    MaxLog       \* bound: no proposal beyond this log length

ASSUME BoundAssumption ==
    OneInFlight \in BOOLEAN /\ Elections \subseteq Member \X Nat /\ MaxLog \in Nat

VARIABLES
    node,      \* the state of each member
    msgs,      \* the messages that may still be delivered
    up,        \* the members still running
    misacked   \* history: some follower acknowledged an index at which its log
               \* is not the log of the leader it was answering

vars == <<node, msgs, up, misacked>>

TypeOK ==
    /\ node \in [Member -> NodeState]
    /\ msgs \subseteq RaftMessage
    /\ up \subseteq Member
    /\ misacked \in BOOLEAN

Init ==
    /\ node = [n \in Member |-> NewNode]
    /\ msgs = {}
    /\ up = Member
    /\ misacked = FALSE

\* Responses that their addressee, in state s, ignores now and for ever: those of
\* a term it has left, and those of its own term it has stopped collecting.  A
\* role is not regained within a term.
Ignored(m, s) ==
    \/ /\ m.type = "RequestVoteResp"
       /\ \/ s.current_term > m.term
          \/ /\ s.current_term = m.term
             /\ ~m.granted \/ s.role # "Candidate" \/ m.from \in s.votes_granted
    \/ /\ m.type = "AppendEntriesResp"
       /\ \/ s.current_term > m.term
          \/ s.current_term = m.term /\ s.role = "Follower"

Sender(m) ==
    CASE m.type = "RequestVote"   -> m.candidate
      [] m.type = "AppendEntries" -> m.leader
      [] OTHER                    -> m.from

\* Whether o, sent now, pushes m out of a link that holds one message per kind.
Replaces(o, m) ==
    OneInFlight /\ o.to = m.to /\ o.type = m.type /\ Sender(o) = Sender(m)

\* Member n is now as r says and r's messages are on their way.  Losing the
\* ignored ones at once removes no behaviour of the nodes.
Become(n, r) ==
    /\ node' = [node EXCEPT ![n] = r.node]
    /\ LET kept == {m \in msgs : \A o \in r.out : ~Replaces(o, m)} IN
       msgs' = {m \in kept \cup r.out : ~Ignored(m, node'[m.to])}

-----------------------------------------------------------------------------
\* RaftNode::tick, when it returns.
Tick(n) ==
    /\ n \in up
    /\ node[n].role = "Leader" => ~BroadcastPanics(n, node[n])
    /\ ElectionDue(n, node[n]) => <<n, node[n].current_term + 1>> \in Elections
    /\ Become(n, tick(n, node[n]))
    /\ UNCHANGED <<up, misacked>>

\* RaftNode::tick, when the heartbeat indexes past the end of the log: the
\* thread panics and the member is gone.
TickPanics(n) ==
    /\ n \in up
    /\ node[n].role = "Leader"
    /\ BroadcastPanics(n, node[n])
    /\ up' = up \ {n}
    /\ UNCHANGED <<node, msgs, misacked>>

\* RaftNode::propose on a leader; on any other member it returns None and
\* changes nothing.
Propose(n, c) ==
    /\ n \in up
    /\ node[n].role = "Leader"
    /\ Len(node[n].log) < MaxLog
    /\ node' = [node EXCEPT ![n] = propose(@, c)]
    /\ UNCHANGED <<msgs, up, misacked>>

\* Whether the acknowledgement r sends for m names an index up to which the
\* follower's log is not the leader's.
IsMisack(m, r) ==
    /\ m.type = "AppendEntries"
    /\ \E a \in r.out :
          /\ a.success
          /\ node[m.leader].current_term = m.term
          /\ ~ /\ a.match_index <= Len(node[m.leader].log)
               /\ \A i \in 1..a.match_index : r.node.log[i] = node[m.leader].log[i]

\* The transport hands message m to its addressee, RaftNode::handle.
Deliver(m) ==
    LET r == handle(m.to, node[m.to], m) IN
    /\ m.to \in up
    /\ Become(m.to, r)
    /\ misacked' = (misacked \/ IsMisack(m, r))
    /\ UNCHANGED up

Next ==
    \/ \E n \in Member : Tick(n)
    \/ \E n \in Member : TickPanics(n)
    \/ \E n \in Member, c \in Command : Propose(n, c)
    \/ \E m \in msgs : Deliver(m)

Spec == Init /\ [][Next]_vars

-----------------------------------------------------------------------------
\* At most one member is ever leader of a term: become_leader is reached only
\* with the votes of a strict majority of the declared members, and
\* on_request_vote gives one vote per term.
ElectionSafety ==
    \A a, b \in Member :
        /\ node[a].role = "Leader" /\ node[b].role = "Leader"
        /\ node[a].current_term = node[b].current_term
        => a = b

\* "two logs holding the same (index, term) hold the same command and the same
\* history before it" (LogEntry): the consistency check and the conflict
\* truncation of on_append_entries keep it so, whatever the network does.
LogMatching ==
    \A a, b \in Member : \A i \in 1..Len(node[a].log) :
        /\ i <= Len(node[b].log)
        /\ node[a].log[i].term = node[b].log[i].term
        => \A j \in 1..i : node[a].log[j] = node[b].log[j]

\* Members that hold the entry member n has at index i.
Holders(n, i) ==
    {p \in Member : i <= Len(node[p].log) /\ node[p].log[i] = node[n].log[i]}

\* advance_commit "to the highest index replicated on a majority": what a
\* leader has committed, a majority of the declared members holds.
CommittedOnMajority ==
    \A n \in Member : node[n].role = "Leader" =>
        \A i \in 1..node[n].commit_index :
            i <= Len(node[n].log) /\ Cardinality(Holders(n, i)) >= quorum

\* Any two members agree on every index both have committed.
CommitsAgree ==
    \A a, b \in Member : \A i \in 1..node[a].commit_index :
        i <= node[b].commit_index =>
            /\ i <= Len(node[a].log) /\ i <= Len(node[b].log)
            /\ node[a].log[i] = node[b].log[i]

\* As long as every acknowledgement told the truth about the leader's log, no
\* member disagrees with another about a committed entry, what a leader committed
\* is on a majority and no heartbeat indexes past the log: the index
\* on_append_entries reports is the only thing the three are missing.
SafeWhileAcksTrue ==
    ~misacked => /\ CommitsAgree /\ CommittedOnMajority
                 /\ \A n \in up : node[n].role = "Leader" => ~BroadcastPanics(n, node[n])

\* A running leader never rewrites its own log, and while it stays leader of
\* its term it never forgets an index it counted as committed.
LeaderAppendOnly ==
    [][\A n \in Member :
          /\ node[n].role = "Leader" /\ node'[n].role = "Leader"
          /\ node'[n].current_term = node[n].current_term
          => /\ Len(node'[n].log) >= Len(node[n].log)
             /\ \A i \in 1..Len(node[n].log) : node'[n].log[i] = node[n].log[i]
             /\ node'[n].commit_index >= node[n].commit_index]_vars

\* What a deployment would persist never goes back: a member's term does not
\* decrease, and within a term a vote once given is neither withdrawn nor moved.
VoteKept ==
    [][\A n \in Member :
          /\ node'[n].current_term >= node[n].current_term
          /\ node'[n].current_term = node[n].current_term /\ node[n].voted_for # None
             => node'[n].voted_for = node[n].voted_for]_vars
=============================================================================
