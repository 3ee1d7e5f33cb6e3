-------------------------------- MODULE Raft --------------------------------
(***************************************************************************)
(* A cluster of RaftNodes (src/raft/raft.py) connected by one              *)
(* InMemoryTransport (src/raft/transport.py).                              *)
(*                                                                         *)
(* The steps are the sections of the code that run under a node's _lock:   *)
(* the handling of one message, the application of committed entries, an   *)
(* election, a round of heartbeats, a submitted command.  What the main    *)
(* loop of a node does in one section with a batch of messages is a        *)
(* sequence of HandleMessage steps here.  Time is abstracted: an election  *)
(* timeout or a heartbeat interval may elapse at any moment.               *)
(***************************************************************************)
EXTENDS RaftLog, FiniteSets

CONSTANTS
  Server,      \* the nodes of the cluster; each has all the others as peers
  Command,     \* what clients submit; one element is one submission
  Awaited,     \* the commands whose submitter passes a callback
  Stoppable,   \* the nodes a run lets be started and stopped
  Elections,   \* bound: <<n, t>> if n may start an election for term t
  Submissions, \* bound: <<c, t>> if c may be submitted in term t
  Heartbeats,  \* bound: the terms in which the leader sends heartbeats
  MaxQueue     \* bound: heartbeats only while no queue is longer than this

ASSUME ServerAssumption == IsFiniteSet(Server)
ASSUME AwaitedAssumption == Awaited \subseteq Command
ASSUME ElectionsAssumption == Elections \subseteq Server \X Nat

Follower  == "follower"
Candidate == "candidate"
Leader    == "leader"

\* None of Python: no vote given in this term.
NoVote == "none"
ASSUME NoVoteAssumption == NoVote \notin Server

VARIABLES
  running,       \* _running of each node
  state,         \* _state
  currentTerm,   \* _current_term
  votedFor,      \* _voted_for
  votesReceived, \* _votes_received
  log,           \* _log
  commitIndex,   \* _commit_index
  lastApplied,   \* _last_applied
  nextIndex,     \* _next_index, with the default 0 of .get(peer, 0)
  matchIndex,    \* _match_index, with the default -1 of .get(peer, -1)
  callbacks,     \* _apply_callbacks: a callback is named by its entry
  queue,         \* the messages received by no handler yet, oldest first
  applied,       \* the commands each state machine was given, in order
  submitted,     \* history: the commands some leader has accepted
  answers        \* history: <<entry of the callback, entry applied>>

electionVars == <<state, currentTerm, votedFor, votesReceived>>
leaderVars   == <<nextIndex, matchIndex>>
applyVars    == <<lastApplied, applied, callbacks, answers>>
vars == <<running, electionVars, log, commitIndex, leaderVars, applyVars,
          queue, submitted>>

Peers(n) == Server \ {n}
Larger(a, b)  == IF a >= b THEN a ELSE b
Smaller(a, b) == IF a <= b THEN a ELSE b

\* Mutant of IsMajority: half of an even cluster is enough.
IsMajority_Half(count) == count >= Cardinality(Server) \div 2

\* More than half of the cluster, as the code counts it.
IsMajority(count) == count > Cardinality(Server) \div 2

-----------------------------------------------------------------------------
(* Messages.  A node is named in src; the payloads repeat it as              *)
(* candidate_id or leader_id.                                               *)

Entry == [term : Nat, index : Nat, command : Command]

VoteRequest  == [type : {"RequestVote"}, src : Server, term : Nat,
                 lastLogIndex : Int, lastLogTerm : Nat]
VoteResponse == [type : {"RequestVoteResponse"}, src : Server, term : Nat,
                 voteGranted : BOOLEAN]
AppendRequest == [type : {"AppendEntries"}, src : Server, term : Nat,
                  prevLogIndex : Int, prevLogTerm : Nat,
                  entries : Seq(Entry), leaderCommit : Int]
AppendResponse == [type : {"AppendEntriesResponse"}, src : Server, term : Nat,
                   success : BOOLEAN, matchIndex : Int]

Message == VoteRequest \cup VoteResponse \cup AppendRequest \cup AppendResponse

\* The queues after n sent msg[p] to each of its peers p.
ToPeers(n, msg) ==
  [p \in Server |-> IF p = n THEN queue[p] ELSE Append(queue[p], msg[p])]

\* n takes the oldest message of its queue and sends r to p.
Reply(n, p, r) ==
  queue' = [queue EXCEPT ![n] = Tail(@), ![p] = Append(@, r)]

\* n takes the oldest message of its queue and sends nothing.
Consume(n) == queue' = [queue EXCEPT ![n] = Tail(@)]

\* What _send_append_entries builds, for a peer whose next index is next.
AppendEntriesMsg(n, lg, next) ==
  [type |-> "AppendEntries", src |-> n, term |-> currentTerm[n],
   prevLogIndex |-> next - 1, prevLogTerm |-> TermAt(lg, next - 1),
   entries |-> EntriesFrom(lg, next), leaderCommit |-> commitIndex[n]]

-----------------------------------------------------------------------------
Init ==
  /\ running = [n \in Server |-> n \notin Stoppable]
  /\ state = [n \in Server |-> Follower]
  /\ currentTerm = [n \in Server |-> 0]
  /\ votedFor = [n \in Server |-> NoVote]
  /\ votesReceived = [n \in Server |-> {}]
  /\ log = [n \in Server |-> << >>]
  /\ commitIndex = [n \in Server |-> -1]
  /\ lastApplied = [n \in Server |-> -1]
  /\ nextIndex = [n \in Server |-> [p \in Server |-> 0]]
  /\ matchIndex = [n \in Server |-> [p \in Server |-> -1]]
  /\ callbacks = [n \in Server |-> {}]
  /\ queue = [n \in Server |-> << >>]
  /\ applied = [n \in Server |-> << >>]
  /\ submitted = {}
  /\ answers = {}

-----------------------------------------------------------------------------
(* Life cycle: only the threads of a node stop; its memory and its queue    *)
(* stay, and so does its role.                                              *)

Start(n) ==
  /\ n \in Stoppable /\ ~running[n]
  /\ running' = [running EXCEPT ![n] = TRUE]
  /\ UNCHANGED <<electionVars, log, commitIndex, leaderVars, applyVars,
                 queue, submitted>>

Stop(n) ==
  /\ n \in Stoppable /\ running[n]
  /\ running' = [running EXCEPT ![n] = FALSE]
  /\ UNCHANGED <<electionVars, log, commitIndex, leaderVars, applyVars,
                 queue, submitted>>

-----------------------------------------------------------------------------
(* Elections.                                                               *)

BecomeLeader(n) ==
  /\ state' = [state EXCEPT ![n] = Leader]
  /\ nextIndex' = [nextIndex EXCEPT ![n] =
       [p \in Server |-> IF p = n THEN @[p] ELSE LastIndex(log[n]) + 1]]
  /\ matchIndex' = [matchIndex EXCEPT ![n] =
       [p \in Server |-> IF p = n THEN @[p] ELSE -1]]

\* _tick_follower and _tick_candidate when the election timeout has elapsed.
\* A node without peers has its majority at once.
StartElection(n) ==
  LET request == [type |-> "RequestVote", src |-> n,
                  term |-> currentTerm[n] + 1,
                  lastLogIndex |-> LastIndex(log[n]),
                  lastLogTerm |-> LastTerm(log[n])]
  IN  /\ running[n]
      /\ state[n] \in {Follower, Candidate}
      /\ <<n, currentTerm[n] + 1>> \in Elections
      /\ currentTerm' = [currentTerm EXCEPT ![n] = @ + 1]
      /\ votedFor' = [votedFor EXCEPT ![n] = n]
      /\ votesReceived' = [votesReceived EXCEPT ![n] = {n}]
      /\ queue' = ToPeers(n, [p \in Peers(n) |-> request])
      /\ IF IsMajority(1)
         THEN BecomeLeader(n)
         ELSE /\ state' = [state EXCEPT ![n] = Candidate]
              /\ UNCHANGED leaderVars
      /\ UNCHANGED <<running, log, commitIndex, applyVars, submitted>>

\* Mutant of CanVote: the vote already given is not looked at.
CanVote_Again(vote, m) == TRUE

\* can_vote: no vote was given in this term, or to this candidate.
CanVote(vote, m) == vote \in {NoVote, m.src}

\* Mutant of UpToDate: the lengths of logs of the same last term are not
\* compared.
UpToDate_TermOnly(lg, m) == m.lastLogTerm >= LastTerm(lg)

\* log_ok of _handle_request_vote: the candidate's log is not behind.
UpToDate(lg, m) ==
  \/ m.lastLogTerm > LastTerm(lg)
  \/ m.lastLogTerm = LastTerm(lg) /\ m.lastLogIndex >= LastIndex(lg)

\* A newer term makes the node a follower without a vote; it then goes on to
\* decide on the vote, which a stale request never gets.
HandleRequestVote(n, m) ==
  LET newer   == m.term > currentTerm[n]
      term    == Larger(m.term, currentTerm[n])
      vote    == IF newer THEN NoVote ELSE votedFor[n]
      granted == m.term = term /\ CanVote(vote, m) /\ UpToDate(log[n], m)
  IN  /\ currentTerm' = [currentTerm EXCEPT ![n] = term]
      /\ state' = [state EXCEPT ![n] = IF newer THEN Follower ELSE @]
      /\ votedFor' = [votedFor EXCEPT ![n] = IF granted THEN m.src ELSE vote]
      /\ Reply(n, m.src, [type |-> "RequestVoteResponse", src |-> n,
                          term |-> term, voteGranted |-> granted])
      /\ UNCHANGED <<running, votesReceived, log, commitIndex, leaderVars,
                     applyVars, submitted>>

\* A response of a newer term ends the candidacy or the leadership.
StepDown(n, m) ==
  /\ m.term > currentTerm[n]
  /\ currentTerm' = [currentTerm EXCEPT ![n] = m.term]
  /\ state' = [state EXCEPT ![n] = Follower]
  /\ votedFor' = [votedFor EXCEPT ![n] = NoVote]
  /\ Consume(n)
  /\ UNCHANGED <<running, votesReceived, log, commitIndex, leaderVars,
                 applyVars, submitted>>

\* A response of another term, or to a node no longer in the role, is dropped.
Ignore(n, m, role) ==
  /\ m.term <= currentTerm[n]
  /\ state[n] # role \/ m.term # currentTerm[n]
  /\ Consume(n)
  /\ UNCHANGED <<running, electionVars, log, commitIndex, leaderVars,
                 applyVars, submitted>>

CountVote(n, m) ==
  LET votes == votesReceived[n] \cup (IF m.voteGranted THEN {m.src} ELSE {})
  IN  /\ state[n] = Candidate /\ m.term = currentTerm[n]
      /\ votesReceived' = [votesReceived EXCEPT ![n] = votes]
      /\ IF m.voteGranted /\ IsMajority(Cardinality(votes))
         THEN BecomeLeader(n)
         ELSE UNCHANGED <<state, leaderVars>>
      /\ Consume(n)
      /\ UNCHANGED <<running, currentTerm, votedFor, log, commitIndex,
                     applyVars, submitted>>

HandleRequestVoteResponse(n, m) ==
  StepDown(n, m) \/ Ignore(n, m, Candidate) \/ CountVote(n, m)

-----------------------------------------------------------------------------
(* Replication.                                                             *)

\* _tick_leader when the heartbeat interval has elapsed: every peer gets what
\* it is still missing, or an empty request.
SendHeartbeats(n) ==
  LET requests == [p \in Peers(n) |->
                     AppendEntriesMsg(n, log[n], nextIndex[n][p])]
  IN  /\ running[n]
      /\ state[n] = Leader
      /\ currentTerm[n] \in Heartbeats
      /\ \A p \in Server : Len(queue[p]) <= MaxQueue
      /\ queue' = ToPeers(n, requests)
      /\ UNCHANGED <<running, electionVars, log, commitIndex, leaderVars,
                     applyVars, submitted>>

AppendResult(n, term, ok, match) ==
  [type |-> "AppendEntriesResponse", src |-> n, term |-> term,
   success |-> ok, matchIndex |-> match]

\* The sender led a term that is over.
Stale(n, m) == m.term < currentTerm[n]

RejectStaleLeader(n, m) ==
  /\ Stale(n, m)
  /\ Reply(n, m.src, AppendResult(n, currentTerm[n], FALSE, -1))
  /\ UNCHANGED <<running, electionVars, log, commitIndex, leaderVars,
                 applyVars, submitted>>

\* Mutant of Joins: the term of the entry before is not compared.
Joins_AnyTerm(lg, m) == m.prevLogIndex <= LastIndex(lg)

\* log_ok of _handle_append_entries: the log holds the entry before the new
\* ones, or they start at the very beginning.
Joins(lg, m) ==
  \/ m.prevLogIndex = -1
  \/ /\ m.prevLogIndex <= LastIndex(lg)
     /\ TermAt(lg, m.prevLogIndex) = m.prevLogTerm

\* The sender leads this term.  Its entries are merged if they join the log;
\* the commit index and the reported match follow the length of the log.
FollowLeader(n, m) ==
  LET merged == MergeEntries(log[n], m.entries)
      last   == LastIndex(merged)
  IN  /\ ~Stale(n, m)
      /\ currentTerm' = [currentTerm EXCEPT ![n] = m.term]
      /\ state' = [state EXCEPT ![n] = Follower]
      /\ votedFor' = [votedFor EXCEPT ![n] =
           IF m.term > currentTerm[n] THEN NoVote ELSE @]
      /\ \/ /\ ~Joins(log[n], m)
            /\ Reply(n, m.src, AppendResult(n, m.term, FALSE, -1))
            /\ UNCHANGED <<log, commitIndex>>
         \/ /\ Joins(log[n], m)
            /\ log' = [log EXCEPT ![n] = merged]
            /\ commitIndex' = [commitIndex EXCEPT ![n] =
                 IF m.leaderCommit > @ THEN Smaller(m.leaderCommit, last) ELSE @]
            /\ Reply(n, m.src, AppendResult(n, m.term, TRUE, last))
      /\ UNCHANGED <<running, votesReceived, leaderVars, applyVars, submitted>>

HandleAppendEntries(n, m) == RejectStaleLeader(n, m) \/ FollowLeader(n, m)

\* _maybe_advance_commit_index: the highest entry of the current term that a
\* majority is recorded to hold, if it is beyond the commit index.
Committable(n, lg, match) ==
  {i \in commitIndex[n] + 1 .. LastIndex(lg) :
     /\ TermAt(lg, i) = currentTerm[n]
     /\ IsMajority(1 + Cardinality({p \in Peers(n) : match[p] >= i}))}

AdvancedCommit(n, lg, match) ==
  LET S == Committable(n, lg, match)
  IN  IF S = {} THEN commitIndex[n]
      ELSE CHOOSE i \in S : \A j \in S : j <= i

\* The peer reports how far its log matches.
AcceptMatch(n, m) ==
  LET match == Larger(matchIndex[n][m.src], m.matchIndex)
  IN  /\ m.success
      /\ matchIndex' = [matchIndex EXCEPT ![n][m.src] = match]
      /\ nextIndex' = [nextIndex EXCEPT ![n][m.src] = match + 1]
      /\ commitIndex' = [commitIndex EXCEPT ![n] =
           AdvancedCommit(n, log[n], matchIndex'[n])]
      /\ Consume(n)

\* Mutants of EarlierIndex: the index stays, or passes the first entry.
EarlierIndex_Same(i) == i
EarlierIndex_Unbounded(i) == i - 1

EarlierIndex(i) == Larger(0, i - 1)

\* The peer misses the entry before; the leader tries again one step earlier.
RetryEarlier(n, m) ==
  LET next == EarlierIndex(nextIndex[n][m.src])
  IN  /\ ~m.success
      /\ nextIndex' = [nextIndex EXCEPT ![n][m.src] = next]
      /\ Reply(n, m.src, AppendEntriesMsg(n, log[n], next))
      /\ UNCHANGED <<matchIndex, commitIndex>>

HandleAppendEntriesResponse(n, m) ==
  \/ StepDown(n, m)
  \/ Ignore(n, m, Leader)
  \/ /\ state[n] = Leader /\ m.term = currentTerm[n]
     /\ AcceptMatch(n, m) \/ RetryEarlier(n, m)
     /\ UNCHANGED <<running, electionVars, log, applyVars, submitted>>

HandleMessage(n) ==
  /\ running[n]
  /\ queue[n] # << >>
  /\ LET m == Head(queue[n])
     IN  \/ m.type = "RequestVote" /\ HandleRequestVote(n, m)
         \/ m.type = "RequestVoteResponse" /\ HandleRequestVoteResponse(n, m)
         \/ m.type = "AppendEntries" /\ HandleAppendEntries(n, m)
         \/ m.type = "AppendEntriesResponse"
              /\ HandleAppendEntriesResponse(n, m)

-----------------------------------------------------------------------------
(* Applying and submitting.                                                 *)

\* The entries _maybe_apply_committed goes through, up to index commit.  An
\* index without an entry is counted as applied and gives the machine nothing.
Due(n, lg, commit) ==
  SubSeq(lg, lastApplied[n] + 2, Smaller(commit + 1, Len(lg)))

\* A callback waits for an index: the entry applied there answers it, even
\* when it is not the entry its submitter appended.
MaybeApplyCommitted(n, lg, commit, waiting) ==
  LET due     == Due(n, lg, commit)
      reached == {due[k] : k \in DOMAIN due}
  IN  /\ lastApplied' = [lastApplied EXCEPT ![n] = Larger(@, commit)]
      /\ applied' = [applied EXCEPT ![n] =
           @ \o [k \in DOMAIN due |-> due[k].command]]
      /\ callbacks' = [callbacks EXCEPT ![n] =
           {c \in waiting : \A e \in reached : c.index # e.index}]
      /\ answers' = answers \cup
           {a \in waiting \X reached : a[1].index = a[2].index}

\* The section of the main loop between the messages and the ticks.
ApplyCommitted(n) ==
  /\ running[n]
  /\ lastApplied[n] < commitIndex[n]
  /\ MaybeApplyCommitted(n, log[n], commitIndex[n], callbacks[n])
  /\ UNCHANGED <<running, electionVars, log, commitIndex, leaderVars, queue,
                 submitted>>

\* submit_command at a leader, from any thread and also when the node is
\* stopped.  At another node it returns None and changes nothing.
SubmitCommand(n, c) ==
  LET entry      == [term |-> currentTerm[n], index |-> LastIndex(log[n]) + 1,
                     command |-> c]
      lg         == Append(log[n], entry)
      requests   == [p \in Peers(n) |->
                       AppendEntriesMsg(n, lg, nextIndex[n][p])]
      waiting    == IF c \in Awaited
                    THEN {w \in callbacks[n] : w.index # entry.index}
                           \cup {entry}
                    ELSE callbacks[n]
      commit     == AdvancedCommit(n, lg, matchIndex[n])
  IN  /\ state[n] = Leader
      /\ c \notin submitted /\ <<c, currentTerm[n]>> \in Submissions
      /\ submitted' = submitted \cup {c}
      /\ log' = [log EXCEPT ![n] = lg]
      /\ matchIndex' = [matchIndex EXCEPT ![n][n] = entry.index]
      /\ queue' = ToPeers(n, requests)
      /\ commitIndex' = [commitIndex EXCEPT ![n] = commit]
      /\ MaybeApplyCommitted(n, lg, commit, waiting)
      /\ UNCHANGED <<running, electionVars, nextIndex>>

-----------------------------------------------------------------------------
Next ==
  \E n \in Server :
    \/ Start(n)
    \/ Stop(n)
    \/ StartElection(n)
    \/ SendHeartbeats(n)
    \/ HandleMessage(n)
    \/ ApplyCommitted(n)
    \/ \E c \in Command : SubmitCommand(n, c)

Spec == Init /\ [][Next]_vars
=============================================================================
