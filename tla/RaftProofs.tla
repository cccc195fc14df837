----------------------------- MODULE RaftProofs -----------------------------
(***************************************************************************)
(* Theorems about Raft, for every finite member set, every set of commands,*)
(* every choice of election timeouts and every bound.                      *)
(*                                                                         *)
(* The argument for ElectionSafety: call a vote v -> c of term t granted   *)
(* when its response is on the network or candidate c has counted it.  A   *)
(* granted vote is recorded at the voter until the voter's term moves on,  *)
(* so a voter never grants two different votes in a term; a leader holds a *)
(* quorum of granted votes; two quorums share a member.                    *)
(***************************************************************************)
EXTENDS Raft, FiniteSetTheorems, SequenceTheorems, WellFoundedInduction, TLAPS

-----------------------------------------------------------------------------
(* The operators RaftNode is built from. *)

\* A non-empty set of naturals has its minimum: the first conflicting entry that
\* on_append_entries looks for exists.
LEMMA MinIsMember ==
    ASSUME NEW S \in SUBSET Nat, S # {}
    PROVE  Min(S) \in S
  <1> DEFINE R == {p \in Nat \X Nat : p[1] < p[2]}
  <1>1. OpToRel(<, Nat) = R
    BY Zenon DEF OpToRel
  <1>2. PICK x \in S : \A y \in S : ~(<<y, x>> \in R)
    BY NatLessThanWellFounded, WFMin, <1>1, Zenon
  <1>3. ASSUME NEW y \in S PROVE x <= y
    <2>1. y < x => <<y, x>> \in R
      BY SMT
    <2> QED BY <2>1, <1>2
  <1> QED BY <1>3, Zenon DEF Min

\* A non-empty bounded set of naturals has its maximum: advance_commit's loop
\* ends at an index it examined.
LEMMA MaxIsMember ==
    ASSUME NEW S \in SUBSET Nat, S # {}, NEW b \in Nat, \A x \in S : x <= b
    PROVE  Max(S) \in S
  <1> DEFINE T == {k \in Nat : b - k \in S}
             R == {p \in Nat \X Nat : p[1] < p[2]}
  <1>1. OpToRel(<, Nat) = R
    BY Zenon DEF OpToRel
  <1>2. \A x \in S : b - x \in T
    OBVIOUS
  <1>3. T \subseteq Nat /\ T # {}
    <2>1. PICK x \in S : TRUE
      BY Zenon
    <2>2. b - x \in T
      BY <1>2
    <2> HIDE DEF R
    <2> QED BY <2>2, Zenon
  <1>4. PICK t \in T : \A y \in T : ~(<<y, t>> \in R)
    <2> HIDE DEF T, R
    <2> QED BY NatLessThanWellFounded, WFMin, <1>1, <1>3, Zenon
  <1>5. ASSUME NEW y \in S PROVE b - t >= y
    <2>1. b - y \in T
      BY <1>2
    <2>2. b - y < t => <<b - y, t>> \in R
      BY <2>1, SMT
    <2> QED BY <2>1, <2>2, <1>4
  <1>6. b - t \in S
    OBVIOUS
  <1> QED BY <1>5, <1>6, Zenon DEF Max

\* A log merged with a leader's entries is a log.
LEMMA MergedType ==
    ASSUME NEW log \in Seq(LogEntry), NEW prev \in Nat, prev <= Len(log),
           NEW entries \in Seq(LogEntry)
    PROVE  Merged(log, prev, entries) \in Seq(LogEntry)
  <1> DEFINE kept == KeptLength(log, prev, entries)
             len  == IF prev + Len(entries) > kept THEN prev + Len(entries) ELSE kept
             f    == [i \in 1..len |-> IF i <= kept THEN log[i] ELSE entries[i - prev]]
  <1>1. kept \in Nat /\ prev <= kept /\ kept <= Len(log)
    <2>1. CASE Conflicts(log, prev, entries) = {}
      BY <2>1 DEF KeptLength
    <2>2. CASE Conflicts(log, prev, entries) # {}
      <3> DEFINE c == Min(Conflicts(log, prev, entries))
      <3>1. Conflicts(log, prev, entries) \in SUBSET Nat
        BY DEF Conflicts
      <3>2. c \in Conflicts(log, prev, entries)
        BY <3>1, <2>2, MinIsMember
      <3>3. c \in 1..Len(entries) /\ prev + c <= Len(log)
        BY <3>2 DEF Conflicts
      <3>4. kept = prev + c - 1
        BY <2>2 DEF KeptLength
      <3> QED BY <3>3, <3>4
    <2> QED BY <2>1, <2>2
  <1> HIDE DEF kept
  <1>2. len \in Nat
    BY <1>1
  <1>3. ASSUME NEW i \in 1..len PROVE f[i] \in LogEntry
    <2>1. CASE i <= kept
      BY <1>1, <2>1, i \in 1..Len(log), ElementOfSeq
    <2>2. CASE i > kept
      <3>1. i - prev \in 1..Len(entries)
        BY <1>1, <2>2
      <3> QED BY <1>1, <2>2, <3>1, ElementOfSeq
    <2> QED BY <1>1, <2>1, <2>2
  <1>4. f \in [1..len -> LogEntry]
    <2>1. f = [i \in 1..len |-> f[i]]
      OBVIOUS
    <2> HIDE DEF f, len
    <2> QED BY <1>3, <2>1
  <1>5. f \in Seq(LogEntry)
    <2> HIDE DEF f, len
    <2> QED BY <1>2, <1>4, SeqDef
  <1> QED BY <1>5 DEF Merged, kept

\* The members of a quorum make the majority of the declared set.
LEMMA QuorumType == quorum \in Nat /\ 2 * quorum > Cardinality(Member)
  <1>1. Cardinality(Member) \in Nat
    BY MemberAssumption, FS_CardinalityType
  <1> QED BY <1>1 DEF quorum

\* advance_commit moves commit_index to an index of the log and nothing else.
LEMMA AdvanceCommitType ==
    ASSUME NEW s \in NodeState
    PROVE  /\ advance_commit(s) \in NodeState
           /\ advance_commit(s) = [s EXCEPT !.commit_index = advance_commit(s).commit_index]
           /\ advance_commit(s).commit_index >= s.commit_index
  <1>1. CASE Committable(s) = {}
    BY <1>1 DEF advance_commit, NodeState
  <1>2. CASE Committable(s) # {}
    <2>1. Committable(s) \in SUBSET Nat /\ \A i \in Committable(s) : i <= Len(s.log)
      BY DEF Committable, NodeState
    <2>2. Len(s.log) \in Nat
      BY DEF NodeState
    <2>3. Max(Committable(s)) \in Committable(s)
      BY <1>2, <2>1, <2>2, MaxIsMember, Zenon
    <2>4. Max(Committable(s)) \in Nat /\ Max(Committable(s)) >= s.commit_index
      BY <2>3 DEF Committable, NodeState
    <2> HIDE DEF Committable
    <2> QED BY <1>2, <2>4, Zenon DEF advance_commit, NodeState
  <1> QED BY <1>1, <1>2

\* broadcast_append builds well-formed messages, unless it panics.
LEMMA BroadcastType ==
    ASSUME NEW n \in Member, NEW s \in NodeState, ~BroadcastPanics(n, s)
    PROVE  broadcast_append(n, s) \subseteq AppendEntries
  <1> SUFFICES ASSUME NEW p \in peers(n)
               PROVE  AppendTo(n, s, p) \in AppendEntries
    BY DEF broadcast_append
  <1> DEFINE prev == s.next_index[p] - 1
  <1>1. prev \in Nat /\ prev <= Len(s.log)
    BY DEF BroadcastPanics, peers, NodeState
  <1> HIDE DEF prev
  <1>2. TermAt(s.log, prev) \in Nat
    <2>1. CASE prev = 0
      BY <2>1 DEF TermAt
    <2>2. CASE prev # 0
      <3>1. prev \in 1..Len(s.log)
        BY <1>1, <2>2 DEF NodeState
      <3>2. s.log[prev] \in LogEntry
        BY <3>1, ElementOfSeq DEF NodeState
      <3> QED BY <2>2, <3>2 DEF TermAt, LogEntry
    <2> QED BY <2>1, <2>2
  <1>3. SubSeq(s.log, prev + 1, Len(s.log)) \in Seq(LogEntry)
    BY <1>1, SubSeqProperties, ElementOfSeq DEF NodeState
  <1> QED BY <1>1, <1>2, <1>3 DEF AppendTo, AppendEntries, NodeState, peers, prev

\* The term of the last entry of a log is a term.
LEMMA LastTermType ==
    ASSUME NEW s \in NodeState
    PROVE  last_log_index(s) \in Nat /\ last_log_term(s) \in Nat
  <1>1. Len(s.log) \in Nat
    BY DEF NodeState
  <1>2. CASE Len(s.log) = 0
    BY <1>2 DEF last_log_index, last_log_term, TermAt
  <1>3. CASE Len(s.log) # 0
    <2>1. s.log[Len(s.log)] \in LogEntry
      BY <1>1, <1>3, Len(s.log) \in 1..Len(s.log), ElementOfSeq DEF NodeState
    <2> QED BY <1>1, <1>3, <2>1 DEF last_log_index, last_log_term, TermAt, LogEntry
  <1> QED BY <1>2, <1>3

\* A node that wins an election is a well-formed leader, and its first
\* broadcast does not panic.
LEMMA ElectedType ==
    ASSUME NEW n \in Member, NEW s \in NodeState
    PROVE  /\ Elected(n, s).node = become_leader(n, s)
           /\ become_leader(n, s) \in NodeState
           /\ become_leader(n, s).role = "Leader"
           /\ become_leader(n, s).current_term = s.current_term
           /\ become_leader(n, s).voted_for = s.voted_for
           /\ become_leader(n, s).votes_granted = s.votes_granted
           /\ Elected(n, s).out \subseteq AppendEntries
  <1> DEFINE l == become_leader(n, s)
  <1>1. Len(s.log) \in Nat
    BY DEF NodeState
  <1> DEFINE ni == [p \in Member |-> IF p = n THEN 1 ELSE Len(s.log) + 1]
             mi == [p \in Member |-> 0]
  <1>2. ni \in [Member -> Nat \ {0}] /\ mi \in [Member -> Nat]
    BY <1>1
  <1>3. l = [s EXCEPT !.role = "Leader", !.leader_hint = n, !.next_index = ni,
                      !.match_index = mi]
    BY DEF become_leader
  <1> HIDE DEF ni, mi, l
  <1>4. /\ l \in NodeState /\ l.role = "Leader" /\ l.current_term = s.current_term
        /\ l.voted_for = s.voted_for /\ l.votes_granted = s.votes_granted
        /\ l.log = s.log /\ l.next_index = ni
    BY <1>2, <1>3, Zenon DEF NodeState, Role, Option
  <1>5. ~BroadcastPanics(n, l)
    BY <1>1, <1>4 DEF BroadcastPanics, peers, ni
  <1>6. broadcast_append(n, l) \subseteq AppendEntries
    BY <1>4, <1>5, BroadcastType
  <1> QED BY <1>4, <1>6 DEF Elected, l

-----------------------------------------------------------------------------
(***************************************************************************)
(* Votes.  Granted(v, c, t): the vote of v for c in term t exists, either  *)
(* as a response under way or as one c has counted.  The invariant says    *)
(* that v remembers it (or has moved to a later term), that it is the only *)
(* one v gave in that term, and that a leader counted a quorum of them.    *)
(***************************************************************************)
Granted(v, c, t) ==
    \/ \E m \in msgs : /\ m.type = "RequestVoteResp" /\ m.granted
                       /\ m.from = v /\ m.to = c /\ m.term = t
    \/ node[c].current_term = t /\ v \in node[c].votes_granted

VoteRecorded ==
    \A v, c \in Member : \A t \in Nat : Granted(v, c, t) =>
        \/ node[v].current_term > t
        \/ node[v].current_term = t /\ node[v].voted_for = c

VoteUnique ==
    \A v, c, d \in Member : \A t \in Nat :
        Granted(v, c, t) /\ Granted(v, d, t) => c = d

LeaderHasQuorum ==
    \A n \in Member :
        node[n].role = "Leader" => Cardinality(node[n].votes_granted) >= quorum

\* The inductive invariant behind ElectionSafety.
VoteInv == TypeOK /\ VoteRecorded /\ VoteUnique /\ LeaderHasQuorum

\* What any method of member n, returning r, does to terms and votes.
StepOK(n, r) ==
    /\ r.node \in NodeState /\ r.out \subseteq RaftMessage
    /\ r.node.current_term >= node[n].current_term
    /\ r.node.current_term = node[n].current_term /\ node[n].voted_for # None
       => r.node.voted_for = node[n].voted_for
    /\ \A m \in r.out : m.type = "RequestVoteResp" /\ m.granted =>
          m.from = n /\ m.term = r.node.current_term /\ m.to = r.node.voted_for
    /\ \A v \in r.node.votes_granted :
          Granted(v, n, r.node.current_term) \/ (v = n /\ r.node.voted_for = n)
    /\ r.node.role = "Leader" => Cardinality(r.node.votes_granted) >= quorum

\* A method that leaves term, vote and ballots alone, sends no vote and does not
\* promote the node is one of those.
LEMMA SameBallotsOK ==
    ASSUME VoteInv, NEW n \in Member, NEW r,
           r.node \in NodeState, r.out \subseteq RaftMessage,
           \A m \in r.out : m.type # "RequestVoteResp" \/ ~m.granted,
           r.node.current_term = node[n].current_term,
           r.node.voted_for = node[n].voted_for,
           r.node.votes_granted = node[n].votes_granted,
           r.node.role = "Leader" => node[n].role = "Leader"
    PROVE  StepOK(n, r)
  <1>1. node[n] \in NodeState
    BY DEF VoteInv, TypeOK
  <1>2. node[n].current_term \in Nat
    BY <1>1 DEF NodeState
  <1> QED BY <1>2 DEF StepOK, VoteInv, LeaderHasQuorum, Granted

\* The same for a method that first moved to a later term, as a follower.
LEMMA NewTermOK ==
    ASSUME VoteInv, NEW n \in Member, NEW r,
           r.node \in NodeState, r.out \subseteq RaftMessage,
           r.node.current_term > node[n].current_term,
           \A m \in r.out : m.type = "RequestVoteResp" /\ m.granted =>
               m.from = n /\ m.term = r.node.current_term /\ m.to = r.node.voted_for,
           r.node.votes_granted = {},
           r.node.role # "Leader"
    PROVE  StepOK(n, r)
  <1>1. node[n] \in NodeState
    BY DEF VoteInv, TypeOK
  <1>2. node[n].current_term \in Nat /\ r.node.current_term \in Nat
    BY <1>1 DEF NodeState
  <1> QED BY <1>2 DEF StepOK

-----------------------------------------------------------------------------
(* tick and propose. *)

\* Standing for election: the candidate's own vote is the only one it holds.
LEMMA BeginElectionOK ==
    ASSUME VoteInv, NEW n \in Member, NEW s \in NodeState,
           s.current_term = node[n].current_term
    PROVE  StepOK(n, begin_election(n, s))
  <1> DEFINE c == [s EXCEPT !.current_term = @ + 1, !.role = "Candidate",
                            !.voted_for = n, !.votes_granted = {n},
                            !.leader_hint = None, !.ticks_since_heard = 0]
             r == begin_election(n, s)
  <1>1. s.current_term \in Nat
    BY DEF NodeState
  <1>2. /\ c \in NodeState /\ c.current_term = s.current_term + 1
        /\ c.voted_for = n /\ c.votes_granted = {n} /\ c.role = "Candidate"
    <2>1. {n} \in SUBSET Member /\ n \in Option /\ None \in Option
      BY DEF Option
    <2>2. s.current_term + 1 \in Nat /\ "Candidate" \in Role
      BY <1>1 DEF Role
    <2> QED BY <2>1, <2>2, Zenon DEF NodeState
  <1>3. Cardinality({n}) = 1
    BY FS_Singleton
  <1> HIDE DEF c
  <1>4. CASE 1 >= quorum
    <2>1. r = Elected(n, c)
      BY <1>4 DEF begin_election, c
    <2>2. \A m \in r.out : m \in AppendEntries
      BY <1>2, <2>1, ElectedType
    <2>3. \A m \in r.out : m.type = "AppendEntries"
      BY <2>2 DEF AppendEntries
    <2>4. /\ r.node \in NodeState /\ r.node.current_term = s.current_term + 1
          /\ r.node.voted_for = n /\ r.node.votes_granted = {n}
      BY <1>2, <2>1, ElectedType
    <2>5. r.out \subseteq RaftMessage
      BY <2>2 DEF RaftMessage
    <2>6. Cardinality(r.node.votes_granted) >= quorum
      BY <1>3, <1>4, <2>4
    <2> HIDE DEF r
    <2>7. StepOK(n, r)
      BY <1>1, <2>3, <2>4, <2>5, <2>6 DEF StepOK
    <2> QED BY <2>7 DEF r
  <1>5. CASE ~(1 >= quorum)
    <2>1. /\ r.node = c
          /\ r.out = {[type |-> "RequestVote", to |-> p, term |-> c.current_term,
                       candidate |-> n, last_log_index |-> last_log_index(c),
                       last_log_term |-> last_log_term(c)] : p \in peers(n)}
      BY <1>5 DEF begin_election, c
    <2>2. last_log_index(c) \in Nat /\ last_log_term(c) \in Nat
      BY <1>2, LastTermType
    <2>3. \A m \in r.out : m \in RequestVote /\ m.type = "RequestVote"
      BY <1>1, <1>2, <2>1, <2>2 DEF RequestVote, peers
    <2>4. r.out \subseteq RaftMessage
      BY <2>3 DEF RaftMessage
    <2> HIDE DEF r
    <2>5. StepOK(n, r)
      BY <1>1, <1>2, <2>1, <2>3, <2>4 DEF StepOK
    <2> QED BY <2>5 DEF r
  <1> QED BY <1>4, <1>5

LEMMA TickOK ==
    ASSUME VoteInv, NEW n \in Member,
           node[n].role = "Leader" => ~BroadcastPanics(n, node[n])
    PROVE  StepOK(n, tick(n, node[n]))
  <1> DEFINE s == node[n]
             u == [s EXCEPT !.ticks_since_heard = @ + 1]
  <1>1. s \in NodeState
    BY DEF VoteInv, TypeOK
  <1>2. /\ u \in NodeState /\ u.current_term = s.current_term /\ u.role = s.role
        /\ u.voted_for = s.voted_for /\ u.votes_granted = s.votes_granted
    <2>1. s.ticks_since_heard + 1 \in Nat
      BY <1>1 DEF NodeState
    <2> HIDE DEF s
    <2> QED BY <1>1, <2>1, Zenon DEF NodeState
  <1> HIDE DEF u
  <1>3. CASE s.role = "Leader"
    <2> DEFINE r == [node |-> s, out |-> broadcast_append(n, s)]
    <2>1. r = tick(n, s) /\ r.node = s /\ r.out = broadcast_append(n, s)
      BY <1>3 DEF tick
    <2>2. r.out \subseteq AppendEntries
      BY <1>1, <1>3, <2>1, BroadcastType
    <2> HIDE DEF r
    <2>3. r.out \subseteq RaftMessage /\ \A m \in r.out : m.type = "AppendEntries"
      BY <2>2 DEF RaftMessage, AppendEntries
    <2> QED BY <1>1, <2>1, <2>3, SameBallotsOK
  <1>4. CASE s.role # "Leader" /\ ElectionDue(n, s)
    <2>1. tick(n, s) = begin_election(n, u)
      BY <1>4 DEF tick, u
    <2>2. StepOK(n, begin_election(n, u))
      BY <1>2, BeginElectionOK
    <2> QED BY <2>1, <2>2
  <1>5. CASE s.role # "Leader" /\ ~ElectionDue(n, s)
    <2> DEFINE r == Quiet(u)
    <2>1. r = tick(n, s) /\ r.node = u /\ r.out = {}
      BY <1>5 DEF tick, Quiet, u
    <2> HIDE DEF r
    <2> QED BY <1>2, <1>5, <2>1, SameBallotsOK
  <1> QED BY <1>3, <1>4, <1>5

LEMMA ProposeOK ==
    ASSUME VoteInv, NEW n \in Member, NEW c \in Command
    PROVE  StepOK(n, Quiet(propose(node[n], c)))
  <1> DEFINE s == node[n]
             e == [term |-> s.current_term, command |-> c]
             a == [s EXCEPT !.log = Append(@, e)]
             r == Quiet(propose(s, c))
  <1>1. s \in NodeState
    BY DEF VoteInv, TypeOK
  <1>2. e \in LogEntry /\ s.log \in Seq(LogEntry)
    BY <1>1 DEF NodeState, LogEntry
  <1>3. Append(s.log, e) \in Seq(LogEntry)
    BY <1>2, AppendProperties
  <1> HIDE DEF e
  <1>4. /\ a \in NodeState /\ a.current_term = s.current_term /\ a.role = s.role
        /\ a.voted_for = s.voted_for /\ a.votes_granted = s.votes_granted
    BY <1>1, <1>3, Zenon DEF NodeState
  <1>5. r.node = advance_commit(a) /\ r.out = {}
    BY DEF propose, Quiet, e
  <1> HIDE DEF a, r
  <1>6. /\ r.node \in NodeState
        /\ r.node = [a EXCEPT !.commit_index = r.node.commit_index]
    BY <1>4, <1>5, AdvanceCommitType
  <1>7. /\ r.node.current_term = a.current_term /\ r.node.role = a.role
        /\ r.node.voted_for = a.voted_for /\ r.node.votes_granted = a.votes_granted
    BY <1>4, <1>6, Zenon DEF NodeState
  <1>8. StepOK(n, r)
    BY <1>4, <1>5, <1>6, <1>7, SameBallotsOK
  <1> QED BY <1>8 DEF r

-----------------------------------------------------------------------------
(* The four handlers, from the state s the node is in once a higher term has *)
(* made it a follower.                                                       *)

\* s is node[n], or node[n] after step_down.
Settled(n, s) ==
    /\ s \in NodeState
    /\ \/ s = node[n]
       \/ /\ s.current_term > node[n].current_term /\ s.votes_granted = {}
          /\ s.role = "Follower" /\ s.voted_for = None

\* A handler that leaves term, vote and ballots of s alone, sends no vote and
\* promotes nobody.
LEMMA SettledOK ==
    ASSUME VoteInv, NEW n \in Member, NEW s, Settled(n, s), NEW r,
           r.node \in NodeState, r.out \subseteq RaftMessage,
           \A m \in r.out : m.type # "RequestVoteResp" \/ ~m.granted,
           r.node.current_term = s.current_term, r.node.voted_for = s.voted_for,
           r.node.votes_granted = s.votes_granted,
           r.node.role = "Leader" => s.role = "Leader"
    PROVE  StepOK(n, r)
  <1>1. CASE s = node[n]
    BY <1>1, SameBallotsOK
  <1>2. CASE s # node[n]
    BY <1>2, NewTermOK DEF Settled
  <1> QED BY <1>1, <1>2

\* Granting a vote: it was free, and the response says what was recorded.
LEMMA RequestVoteOK ==
    ASSUME VoteInv, NEW n \in Member, NEW s, Settled(n, s), NEW m \in RequestVote
    PROVE  StepOK(n, on_request_vote(n, s, m))
  <1> DEFINE r == on_request_vote(n, s, m)
             g == GrantsVote(s, m)
             o == [type |-> "RequestVoteResp", to |-> m.candidate,
                   term |-> s.current_term, from |-> n, granted |-> g]
             x == [s EXCEPT !.voted_for = m.candidate, !.ticks_since_heard = 0]
  <1>1. s \in NodeState /\ s.current_term \in Nat /\ m.candidate \in Member
    BY DEF Settled, NodeState, RequestVote
  <1>2. g \in BOOLEAN /\ (g => s.voted_for \in {None, m.candidate})
    BY DEF GrantsVote
  <1>3. /\ x \in NodeState /\ x.current_term = s.current_term /\ x.role = s.role
        /\ x.voted_for = m.candidate /\ x.votes_granted = s.votes_granted
    BY <1>1, Zenon DEF NodeState, Option
  <1>4. r.node = (IF g THEN x ELSE s) /\ r.out = {o}
    BY DEF on_request_vote
  <1> HIDE DEF g
  <1>5. /\ o \in RequestVoteResp /\ o.to = m.candidate /\ o.term = s.current_term
        /\ o.from = n /\ o.granted = g
    BY <1>1, <1>2 DEF RequestVoteResp
  <1> HIDE DEF o, x, r
  <1>6. r.out \subseteq RaftMessage
    BY <1>4, <1>5 DEF RaftMessage
  <1>7. CASE ~g
    <2>1. StepOK(n, r)
      BY <1>1, <1>4, <1>5, <1>6, <1>7, SettledOK
    <2> QED BY <2>1 DEF r
  <1>8. CASE g
    <2>1. CASE s = node[n]
      <3>1. node[n].voted_for # None => node[n].voted_for = m.candidate
        BY <1>2, <1>8, <2>1
      <3>2. StepOK(n, r)
        BY <1>1, <1>3, <1>4, <1>5, <1>6, <1>8, <2>1, <3>1
        DEF StepOK, VoteInv, LeaderHasQuorum, Granted
      <3> QED BY <3>2 DEF r
    <2>2. CASE s # node[n]
      <3>1. StepOK(n, r)
        BY <1>1, <1>3, <1>4, <1>5, <1>6, <1>8, <2>2, NewTermOK DEF Settled
      <3> QED BY <3>1 DEF r
    <2> QED BY <2>1, <2>2
  <1> QED BY <1>7, <1>8

\* Counting a vote: the response was under way, so the vote is Granted.
LEMMA VoteResponseOK ==
    ASSUME VoteInv, NEW n \in Member, NEW s, Settled(n, s),
           NEW m \in RequestVoteResp, m \in msgs, m.to = n
    PROVE  StepOK(n, on_vote_response(n, s, m))
  <1> DEFINE r == on_vote_response(n, s, m)
             t == [s EXCEPT !.votes_granted = @ \cup {m.from}]
  <1>1. s \in NodeState /\ s.current_term \in Nat /\ m.from \in Member
    BY DEF Settled, NodeState, RequestVoteResp
  <1>2. CASE s.role # "Candidate" \/ m.term # s.current_term \/ ~m.granted
    <2>1. r.node = s /\ r.out = {}
      BY <1>2 DEF on_vote_response, Quiet
    <2> HIDE DEF r
    <2>2. StepOK(n, r)
      BY <1>1, <2>1, SettledOK
    <2> QED BY <2>2 DEF r
  <1>3. CASE ~(s.role # "Candidate" \/ m.term # s.current_term \/ ~m.granted)
    <2>1. s = node[n]
      BY <1>3 DEF Settled
    <2>2. /\ t \in NodeState /\ t.current_term = s.current_term /\ t.role = s.role
          /\ t.voted_for = s.voted_for
          /\ t.votes_granted = s.votes_granted \cup {m.from}
      BY <1>1, Zenon DEF NodeState
    <2>3. m.type = "RequestVoteResp"
      BY DEF RequestVoteResp
    <2>4. \A v \in t.votes_granted : Granted(v, n, s.current_term)
      BY <1>3, <2>1, <2>2, <2>3 DEF Granted
    <2>5. CASE Cardinality(t.votes_granted) >= quorum
      <3>1. r = Elected(n, t)
        BY <1>3, <2>5 DEF on_vote_response
      <3> HIDE DEF t, r
      <3>2. /\ r.node \in NodeState /\ r.node.current_term = s.current_term
            /\ r.node.voted_for = s.voted_for
            /\ r.node.votes_granted = t.votes_granted
            /\ r.out \subseteq AppendEntries
        BY <2>2, <3>1, ElectedType
      <3>3. r.out \subseteq RaftMessage /\ \A o \in r.out : o.type = "AppendEntries"
        BY <3>2 DEF RaftMessage, AppendEntries
      <3>4. StepOK(n, r)
        BY <1>1, <2>1, <2>4, <2>5, <3>2, <3>3 DEF StepOK
      <3> QED BY <3>4 DEF r
    <2>6. CASE ~(Cardinality(t.votes_granted) >= quorum)
      <3>1. r.node = t /\ r.out = {}
        BY <1>3, <2>6 DEF on_vote_response, Quiet
      <3> HIDE DEF t, r
      <3>2. StepOK(n, r)
        BY <1>1, <1>3, <2>1, <2>2, <2>4, <3>1 DEF StepOK
      <3> QED BY <3>2 DEF r
    <2> QED BY <2>5, <2>6
  <1> QED BY <1>2, <1>3

LEMMA AppendEntriesOK ==
    ASSUME VoteInv, NEW n \in Member, NEW s, Settled(n, s), NEW m \in AppendEntries
    PROVE  StepOK(n, on_append_entries(n, s, m))
  <1> DEFINE r   == on_append_entries(n, s, m)
             f   == [s EXCEPT !.role = "Follower", !.leader_hint = m.leader,
                              !.ticks_since_heard = 0]
             log == Merged(s.log, m.prev_log_index, m.entries)
             ci  == IF m.leader_commit > s.commit_index
                    THEN Min({m.leader_commit, Len(log)}) ELSE s.commit_index
             g   == [f EXCEPT !.log = log, !.commit_index = ci]
  <1>1. /\ s \in NodeState /\ s.current_term \in Nat /\ s.log \in Seq(LogEntry)
        /\ s.commit_index \in Nat
        /\ m.leader \in Member /\ m.entries \in Seq(LogEntry)
        /\ m.prev_log_index \in Nat /\ m.leader_commit \in Nat
    BY DEF Settled, NodeState, AppendEntries
  <1>2. /\ f \in NodeState /\ f.current_term = s.current_term /\ f.role = "Follower"
        /\ f.voted_for = s.voted_for /\ f.votes_granted = s.votes_granted
        /\ f.commit_index = s.commit_index
    <2>1. m.leader \in Option /\ "Follower" \in Role
      BY <1>1 DEF Option, Role
    <2> QED BY <1>1, <2>1, Zenon DEF NodeState
  <1>3. CASE m.term < s.current_term
    <2>1. r.node = s /\ r.out = AppendReply(n, m, s.current_term, 0, FALSE)
      BY <1>3 DEF on_append_entries
    <2> HIDE DEF r
    <2>2. r.out \subseteq RaftMessage /\ \A o \in r.out : o.type = "AppendEntriesResp"
      BY <1>1, <2>1 DEF AppendReply, AppendEntriesResp, RaftMessage
    <2>3. StepOK(n, r)
      BY <1>1, <2>1, <2>2, SettledOK, Zenon
    <2> QED BY <2>3 DEF r
  <1>4. CASE ~(m.term < s.current_term) /\ ~Consistent(s, m)
    <2>1. r.node = f /\ r.out = AppendReply(n, m, s.current_term, 0, FALSE)
      BY <1>4 DEF on_append_entries
    <2> HIDE DEF r, f
    <2>2. r.out \subseteq RaftMessage /\ \A o \in r.out : o.type = "AppendEntriesResp"
      BY <1>1, <2>1 DEF AppendReply, AppendEntriesResp, RaftMessage
    <2>3. StepOK(n, r)
      BY <1>1, <1>2, <2>1, <2>2, SettledOK, Zenon
    <2> QED BY <2>3 DEF r
  <1>5. CASE ~(m.term < s.current_term) /\ Consistent(s, m)
    <2>1. /\ r.node = g
          /\ r.out = AppendReply(n, m, s.current_term, AckIndex(m, log), TRUE)
      BY <1>1, <1>2, <1>5 DEF on_append_entries, NodeState
    <2>2. m.prev_log_index <= Len(s.log)
      BY <1>1, <1>5 DEF Consistent
    <2>3. log \in Seq(LogEntry)
      BY <1>1, <2>2, MergedType
    <2> HIDE DEF log, f
    <2>4. Len(log) \in Nat /\ AckIndex(m, log) \in Nat
      BY <2>3 DEF AckIndex
    <2>5. ci \in Nat
      <3>1. Min({m.leader_commit, Len(log)}) \in {m.leader_commit, Len(log)}
        BY <1>1, <2>4, MinIsMember, Zenon
      <3> QED BY <1>1, <2>4, <3>1
    <2> HIDE DEF ci
    <2>6. /\ g \in NodeState /\ g.current_term = s.current_term /\ g.role = "Follower"
          /\ g.voted_for = s.voted_for /\ g.votes_granted = s.votes_granted
      BY <1>2, <2>3, <2>5, Zenon DEF NodeState
    <2> HIDE DEF r, g
    <2>7. r.out \subseteq RaftMessage /\ \A o \in r.out : o.type = "AppendEntriesResp"
      BY <1>1, <2>1, <2>4 DEF AppendReply, AppendEntriesResp, RaftMessage
    <2>8. StepOK(n, r)
      BY <1>1, <2>1, <2>6, <2>7, SettledOK, Zenon
    <2> QED BY <2>8 DEF r
  <1> QED BY <1>3, <1>4, <1>5

LEMMA AppendResponseOK ==
    ASSUME VoteInv, NEW n \in Member, NEW s, Settled(n, s),
           NEW m \in AppendEntriesResp
    PROVE  StepOK(n, on_append_response(s, m))
  <1> DEFINE r == on_append_response(s, m)
             a == [s EXCEPT !.match_index[m.from] = m.match_index,
                            !.next_index[m.from] = m.match_index + 1]
             i == IF s.next_index[m.from] > 1 THEN s.next_index[m.from] - 1 ELSE 1
             b == [s EXCEPT !.next_index[m.from] = i]
  <1>1. /\ s \in NodeState /\ m.from \in Member /\ m.match_index \in Nat
        /\ s.next_index \in [Member -> Nat \ {0}] /\ s.match_index \in [Member -> Nat]
    BY DEF Settled, NodeState, AppendEntriesResp
  <1>2. CASE s.role # "Leader" \/ m.term # s.current_term
    <2>1. r.node = s /\ r.out = {}
      BY <1>2 DEF on_append_response, Quiet
    <2> HIDE DEF r
    <2>2. StepOK(n, r)
      BY <1>1, <2>1, SettledOK
    <2> QED BY <2>2 DEF r
  <1>3. CASE ~(s.role # "Leader" \/ m.term # s.current_term) /\ m.success
    <2>1. /\ a \in NodeState /\ a.current_term = s.current_term /\ a.role = s.role
          /\ a.voted_for = s.voted_for /\ a.votes_granted = s.votes_granted
      <3>1. m.match_index + 1 \in Nat \ {0}
        BY <1>1
      <3> QED BY <1>1, <3>1, Zenon DEF NodeState
    <2>2. r.node = advance_commit(a) /\ r.out = {}
      BY <1>3 DEF on_append_response, Quiet
    <2> HIDE DEF a, r
    <2>3. /\ r.node \in NodeState
          /\ r.node = [a EXCEPT !.commit_index = r.node.commit_index]
      BY <2>1, <2>2, AdvanceCommitType
    <2>4. /\ r.node.current_term = a.current_term /\ r.node.role = a.role
          /\ r.node.voted_for = a.voted_for /\ r.node.votes_granted = a.votes_granted
      BY <2>1, <2>3, Zenon DEF NodeState
    <2>5. StepOK(n, r)
      BY <2>1, <2>2, <2>3, <2>4, SettledOK
    <2> QED BY <2>5 DEF r
  <1>4. CASE ~(s.role # "Leader" \/ m.term # s.current_term) /\ ~m.success
    <2>1. i \in Nat \ {0}
      BY <1>1
    <2>2. r.node = b /\ r.out = {}
      BY <1>4 DEF on_append_response, Quiet
    <2> HIDE DEF i
    <2>3. /\ b \in NodeState /\ b.current_term = s.current_term /\ b.role = s.role
          /\ b.voted_for = s.voted_for /\ b.votes_granted = s.votes_granted
      BY <1>1, <2>1, Zenon DEF NodeState
    <2> HIDE DEF b, r
    <2>4. StepOK(n, r)
      BY <2>2, <2>3, SettledOK
    <2> QED BY <2>4 DEF r
  <1> QED BY <1>2, <1>3, <1>4

LEMMA HandleOK ==
    ASSUME VoteInv, NEW m \in msgs
    PROVE  m.to \in Member /\ StepOK(m.to, handle(m.to, node[m.to], m))
  <1> DEFINE n == m.to
             s == IF m.term > node[n].current_term
                  THEN step_down(node[n], m.term) ELSE node[n]
  <1>1. m \in RaftMessage
    BY DEF VoteInv, TypeOK
  <1>2. n \in Member /\ m.term \in Nat
    BY <1>1 DEF RaftMessage, RequestVote, RequestVoteResp, AppendEntries,
                AppendEntriesResp
  <1>3. node[n] \in NodeState
    BY <1>2 DEF VoteInv, TypeOK
  <1>4. Settled(n, s)
    <2>1. CASE m.term > node[n].current_term
      BY <1>2, <1>3, <2>1, Zenon DEF Settled, step_down, NodeState, Role, Option
    <2>2. CASE ~(m.term > node[n].current_term)
      BY <1>3, <2>2 DEF Settled
    <2> QED BY <2>1, <2>2
  <1> HIDE DEF n
  <1>5. CASE m \in RequestVote
    <2>1. handle(n, node[n], m) = on_request_vote(n, s, m)
      BY <1>5 DEF handle, RequestVote
    <2> HIDE DEF s
    <2> QED BY <1>2, <1>4, <1>5, <2>1, RequestVoteOK DEF n
  <1>6. CASE m \in RequestVoteResp
    <2>1. handle(n, node[n], m) = on_vote_response(n, s, m)
      BY <1>6 DEF handle, RequestVoteResp
    <2> HIDE DEF s
    <2> QED BY <1>2, <1>4, <1>6, <2>1, VoteResponseOK DEF n
  <1>7. CASE m \in AppendEntries
    <2>1. handle(n, node[n], m) = on_append_entries(n, s, m)
      BY <1>7 DEF handle, AppendEntries
    <2> HIDE DEF s
    <2> QED BY <1>2, <1>4, <1>7, <2>1, AppendEntriesOK DEF n
  <1>8. CASE m \in AppendEntriesResp
    <2>1. handle(n, node[n], m) = on_append_response(s, m)
      BY <1>8 DEF handle, AppendEntriesResp
    <2> HIDE DEF s
    <2> QED BY <1>2, <1>4, <1>8, <2>1, AppendResponseOK DEF n
  <1> QED BY <1>1, <1>5, <1>6, <1>7, <1>8 DEF RaftMessage

-----------------------------------------------------------------------------
(* The cluster. *)

\* A step of the cluster is one member's method.
Moves(n, r) ==
    /\ StepOK(n, r)
    /\ node' = [node EXCEPT ![n] = r.node]
    /\ msgs' \subseteq msgs \cup r.out
    /\ up' \subseteq up /\ misacked' \in BOOLEAN

LEMMA NextMoves ==
    ASSUME VoteInv, Next
    PROVE  \/ \E n \in Member : \E r : Moves(n, r)
           \/ UNCHANGED <<node, msgs, misacked>> /\ up' \subseteq up
  <1>1. misacked \in BOOLEAN
    BY DEF VoteInv, TypeOK
  <1>2. ASSUME NEW n \in Member, Tick(n)
        PROVE  Moves(n, tick(n, node[n]))
    <2>1. StepOK(n, tick(n, node[n]))
      BY <1>2, TickOK DEF Tick
    <2> QED BY <1>1, <1>2, <2>1 DEF Tick, Become, Moves
  <1>3. ASSUME NEW n \in Member, TickPanics(n)
        PROVE  UNCHANGED <<node, msgs, misacked>> /\ up' \subseteq up
    BY <1>3 DEF TickPanics
  <1>4. ASSUME NEW n \in Member, NEW c \in Command, Propose(n, c)
        PROVE  Moves(n, Quiet(propose(node[n], c)))
    <2>1. StepOK(n, Quiet(propose(node[n], c)))
      BY ProposeOK
    <2> QED BY <1>1, <1>4, <2>1 DEF Propose, Quiet, Moves, VoteInv, TypeOK
  <1>5. ASSUME NEW m \in msgs, Deliver(m)
        PROVE  m.to \in Member /\ Moves(m.to, handle(m.to, node[m.to], m))
    <2>1. m.to \in Member /\ StepOK(m.to, handle(m.to, node[m.to], m))
      BY HandleOK
    <2>2. misacked' \in BOOLEAN
      BY <1>1, <1>5 DEF Deliver, IsMisack
    <2> QED BY <1>5, <2>1, <2>2 DEF Deliver, Become, Moves
  <1> QED BY <1>2, <1>3, <1>4, <1>5 DEF Next

\* A vote that exists after a step existed before it, or is the vote the member
\* that moved now has on record.
LEMMA GrantedMoves ==
    ASSUME VoteInv, NEW n \in Member, NEW r, Moves(n, r),
           NEW v \in Member, NEW c \in Member, NEW t \in Nat, Granted(v, c, t)'
    PROVE  \/ Granted(v, c, t)
           \/ v = n /\ t = node'[n].current_term /\ c = node'[n].voted_for
  <1>1. node \in [Member -> NodeState] /\ node' = [node EXCEPT ![n] = r.node]
    BY DEF VoteInv, TypeOK, Moves
  <1>2. node'[n] = r.node /\ (c # n => node'[c] = node[c])
    BY <1>1
  <1>3. CASE \E m \in msgs' : /\ m.type = "RequestVoteResp" /\ m.granted
                             /\ m.from = v /\ m.to = c /\ m.term = t
    <2>1. PICK m \in msgs' : /\ m.type = "RequestVoteResp" /\ m.granted
                             /\ m.from = v /\ m.to = c /\ m.term = t
      BY <1>3
    <2>2. m \in msgs \/ m \in r.out
      BY <2>1 DEF Moves
    <2> QED BY <1>2, <2>1, <2>2 DEF Granted, Moves, StepOK
  <1>4. CASE node'[c].current_term = t /\ v \in node'[c].votes_granted
    <2>1. CASE c # n
      BY <1>2, <1>4, <2>1 DEF Granted
    <2>2. CASE c = n
      BY <1>2, <1>4, <2>2 DEF Moves, StepOK
    <2> QED BY <2>1, <2>2
  <1> QED BY <1>3, <1>4 DEF Granted

LEMMA VoteInvMoves ==
    ASSUME VoteInv, NEW n \in Member, NEW r, Moves(n, r)
    PROVE  VoteInv'
  <1>1. node \in [Member -> NodeState] /\ node' = [node EXCEPT ![n] = r.node]
    BY DEF VoteInv, TypeOK, Moves
  <1>2. node'[n] = r.node /\ \A c \in Member : c # n => node'[c] = node[c]
    BY <1>1
  <1>3. TypeOK'
    BY <1>1 DEF VoteInv, TypeOK, Moves, StepOK
  <1>4. \A c \in Member : node[c].current_term \in Nat /\ node'[c].current_term \in Nat
    BY <1>1, <1>3, Zenon DEF TypeOK, NodeState
  <1>5. ASSUME NEW v \in Member
        PROVE  /\ node'[v].current_term >= node[v].current_term
               /\ node'[v].current_term = node[v].current_term /\ node[v].voted_for # None
                  => node'[v].voted_for = node[v].voted_for
    <2>1. CASE v = n
      BY <1>2, <2>1 DEF Moves, StepOK
    <2>2. CASE v # n
      BY <1>2, <1>4, <2>2
    <2> QED BY <2>1, <2>2
  <1>6. VoteRecorded'
    <2> SUFFICES ASSUME NEW v \in Member, NEW c \in Member, NEW t \in Nat,
                        Granted(v, c, t)'
                 PROVE  \/ node'[v].current_term > t
                        \/ node'[v].current_term = t /\ node'[v].voted_for = c
      BY DEF VoteRecorded
    <2>1. CASE Granted(v, c, t)
      <3>1. \/ node[v].current_term > t
            \/ node[v].current_term = t /\ node[v].voted_for = c
        BY <2>1 DEF VoteInv, VoteRecorded
      <3>2. c # None
        BY MemberAssumption
      <3> QED BY <1>4, <1>5, <3>1, <3>2
    <2>2. CASE v = n /\ t = node'[n].current_term /\ c = node'[n].voted_for
      BY <2>2
    <2> QED BY <2>1, <2>2, GrantedMoves
  <1>7. VoteUnique'
    <2> SUFFICES ASSUME NEW v \in Member, NEW c \in Member, NEW d \in Member,
                        NEW t \in Nat, Granted(v, c, t)', Granted(v, d, t)'
                 PROVE  c = d
      BY DEF VoteUnique
    <2> DEFINE New(x) == v = n /\ t = node'[n].current_term /\ x = node'[n].voted_for
    <2>1. Granted(v, c, t) \/ New(c)
      BY GrantedMoves
    <2>2. Granted(v, d, t) \/ New(d)
      BY GrantedMoves
    <2>3. CASE Granted(v, c, t) /\ Granted(v, d, t)
      BY <2>3 DEF VoteInv, VoteUnique
    <2>4. ASSUME NEW x \in Member, NEW y \in Member, Granted(v, x, t), New(y)
          PROVE  x = y
      <3>1. \/ node[v].current_term > t
            \/ node[v].current_term = t /\ node[v].voted_for = x
        BY <2>4 DEF VoteInv, VoteRecorded
      <3>2. x # None
        BY MemberAssumption
      <3> QED BY <1>4, <1>5, <2>4, <3>1, <3>2
    <2>5. CASE New(c) /\ New(d)
      BY <2>5
    <2> QED BY <2>1, <2>2, <2>3, <2>4, <2>5
  <1>8. LeaderHasQuorum'
    <2> SUFFICES ASSUME NEW c \in Member, node'[c].role = "Leader"
                 PROVE  Cardinality(node'[c].votes_granted) >= quorum
      BY DEF LeaderHasQuorum
    <2>1. CASE c = n
      BY <1>2, <2>1 DEF Moves, StepOK
    <2>2. CASE c # n
      BY <1>2, <2>2 DEF VoteInv, LeaderHasQuorum
    <2> QED BY <2>1, <2>2
  <1> QED BY <1>3, <1>6, <1>7, <1>8 DEF VoteInv

LEMMA InitVotes == Init => VoteInv
  <1> SUFFICES ASSUME Init PROVE VoteInv
    OBVIOUS
  <1>1. NewNode \in NodeState
    <2>1. << >> \in Seq(LogEntry) /\ None \in Option /\ "Follower" \in Role
      BY DEF Option, Role
    <2>2. /\ [p \in Member |-> 1] \in [Member -> Nat \ {0}]
          /\ [p \in Member |-> 0] \in [Member -> Nat]
      OBVIOUS
    <2> QED BY <2>1, <2>2 DEF NewNode, NodeState
  <1>2. TypeOK
    BY <1>1, Zenon DEF Init, TypeOK
  <1>3. \A v, c \in Member : \A t \in Nat : ~Granted(v, c, t)
    BY DEF Init, Granted, NewNode
  <1>4. LeaderHasQuorum
    BY DEF Init, LeaderHasQuorum, NewNode
  <1> QED BY <1>2, <1>3, <1>4 DEF VoteInv, VoteRecorded, VoteUnique

LEMMA NextVotes == VoteInv /\ [Next]_vars => VoteInv'
  <1> SUFFICES ASSUME VoteInv, [Next]_vars PROVE VoteInv'
    OBVIOUS
  <1>1. ASSUME NEW n \in Member, NEW r, Moves(n, r) PROVE VoteInv'
    BY <1>1, VoteInvMoves
  <1>2. CASE UNCHANGED <<node, msgs, misacked>> /\ up' \subseteq up
    BY <1>2 DEF VoteInv, TypeOK, VoteRecorded, VoteUnique, LeaderHasQuorum, Granted
  <1>3. CASE UNCHANGED vars
    BY <1>2, <1>3 DEF vars
  <1>4. CASE Next
    BY <1>1, <1>2, <1>4, NextMoves
  <1> QED BY <1>3, <1>4

LEMMA VotesHold == Spec => []VoteInv
  BY InitVotes, NextVotes, PTL DEF Spec

\* Two leaders of one term would have counted two quorums of that term's votes,
\* and a member common to both would have voted twice.
LEMMA VotesElect == VoteInv => ElectionSafety
  <1> SUFFICES ASSUME VoteInv, NEW a \in Member, NEW b \in Member,
                      node[a].role = "Leader", node[b].role = "Leader",
                      node[a].current_term = node[b].current_term
               PROVE  a = b
    BY DEF ElectionSafety
  <1> DEFINE A == node[a].votes_granted
             B == node[b].votes_granted
             t == node[a].current_term
  <1>1. node[a] \in NodeState /\ node[b] \in NodeState
    BY DEF VoteInv, TypeOK
  <1>2. A \subseteq Member /\ B \subseteq Member /\ t \in Nat
    BY <1>1 DEF NodeState
  <1>3. Cardinality(A) >= quorum /\ Cardinality(B) >= quorum
    BY DEF VoteInv, LeaderHasQuorum
  <1>4. \A v \in A : Granted(v, a, t)
    BY DEF Granted
  <1>5. \A v \in B : Granted(v, b, t)
    BY DEF Granted
  <1> HIDE DEF A, B, t
  <1>6. /\ Cardinality(A) \in Nat /\ Cardinality(B) \in Nat
        /\ Cardinality(Member) \in Nat
    BY <1>2, MemberAssumption, FS_Subset, FS_CardinalityType
  <1>7. Cardinality(A) + Cardinality(B) > Cardinality(Member)
    BY <1>3, <1>6, QuorumType
  <1>8. A \cap B # {}
    BY <1>2, <1>7, MemberAssumption, FS_MajoritiesIntersect
  <1>9. PICK v \in Member : v \in A /\ v \in B
    BY <1>2, <1>8
  <1> QED BY <1>2, <1>4, <1>5, <1>9 DEF VoteInv, VoteUnique

-----------------------------------------------------------------------------
\* Type correctness: every method of RaftNode leaves a well-formed node and
\* builds well-formed messages, for any number of members, any log and any
\* delivery order; in particular next_index never reaches 0 (the saturating_sub
\* of on_append_response) and no election broadcast panics.
THEOREM TypeCorrect == Spec => []TypeOK
  <1>1. VoteInv => TypeOK
    BY DEF VoteInv
  <1> QED BY <1>1, VotesHold, PTL

\* At most one leader per term, for every member set and every network: the
\* votes counted by become_leader's callers are votes on_request_vote gave, one
\* per member and term, and two quorums share a member.
THEOREM OneLeaderPerTerm == Spec => []ElectionSafety
  BY VotesElect, VotesHold, PTL

\* No step of any method lowers a member's term or changes a vote within a
\* term: step_down clears voted_for only together with raising current_term.
THEOREM VotesKept == Spec => VoteKept
  <1> DEFINE Kept == \A n \in Member :
          /\ node'[n].current_term >= node[n].current_term
          /\ node'[n].current_term = node[n].current_term /\ node[n].voted_for # None
             => node'[n].voted_for = node[n].voted_for
  <1>1. VoteInv /\ [Next]_vars => [Kept]_vars
    <2> SUFFICES ASSUME VoteInv, Next, NEW n \in Member
                 PROVE  /\ node'[n].current_term >= node[n].current_term
                        /\ (/\ node'[n].current_term = node[n].current_term
                            /\ node[n].voted_for # None)
                           => node'[n].voted_for = node[n].voted_for
      OBVIOUS
    <2>1. node[n].current_term \in Nat /\ node \in [Member -> NodeState]
      BY DEF VoteInv, TypeOK, NodeState
    <2>2. CASE UNCHANGED <<node, msgs, misacked>> /\ up' \subseteq up
      BY <2>1, <2>2
    <2>3. ASSUME NEW p \in Member, NEW r, Moves(p, r)
          PROVE  /\ node'[n].current_term >= node[n].current_term
                 /\ (/\ node'[n].current_term = node[n].current_term
                     /\ node[n].voted_for # None)
                    => node'[n].voted_for = node[n].voted_for
      BY <2>1, <2>3 DEF Moves, StepOK
    <2> QED BY <2>2, <2>3, NextMoves
  <1>2. Spec => [][Kept]_vars
    BY <1>1, VotesHold, PTL DEF Spec
  <1> QED BY <1>2 DEF VoteKept
=============================================================================
