--------------------------- MODULE RaftPairProofs ---------------------------
(***************************************************************************)
(* Commitment in a cluster of one or two nodes, where a majority is        *)
(* everybody: the proof that PairInv of RaftProperties is inductive there, *)
(* for any commands, bounds and order of messages.  With three nodes what  *)
(* follows from it is false of the code: see raft_replica_divergence.      *)
(***************************************************************************)
EXTENDS RaftMatchingProofs

-----------------------------------------------------------------------------
(* What a step of n may do beside what LogStep says.                         *)

\* A node is a candidate or leader as before, or has just stood for election.
RoleStep ==
  \A w \in Server : state'[w] # Follower =>
    \/ /\ state[w] # Follower /\ currentTerm'[w] = currentTerm[w]
       /\ state'[w] = Candidate => state[w] = Candidate
    \/ currentTerm'[w] = currentTerm[w] + 1 /\ votedFor'[w] = w

\* A vote is the one given before, the node's own, or granted to the request at
\* the head of the queue.
VoteGiven ==
  \A p \in Server : votedFor'[p] \in Server =>
    \/ votedFor'[p] = votedFor[p] /\ currentTerm'[p] = currentTerm[p]
    \/ votedFor'[p] = p
    \/ LET m == Head(queue[p])
       IN  /\ queue[p] # << >> /\ m.type = "RequestVote"
           /\ votedFor'[p] = m.src /\ currentTerm'[p] = m.term
           /\ UpToDate(log[p], m) /\ UNCHANGED log

\* m says how the vote or the log of n is after the step.
Tells(n, c, m) ==
  /\ m.type = "RequestVote" =>
       /\ m.term = currentTerm'[n]
       /\ m.lastLogIndex = LastIndex(log'[n])
       /\ m.lastLogTerm = LastTerm(log'[n])
  /\ m.type = "RequestVoteResponse" /\ m.voteGranted =>
       m.term = currentTerm'[n] /\ votedFor'[n] = c
  /\ m.type = "AppendEntriesResponse" =>
       m.matchIndex = -1 \/ m.matchIndex = LastIndex(log'[n])

TellStep(n) ==
  \A c \in Server : \A k \in DOMAIN queue'[c] :
    \/ \E j \in DOMAIN queue[c] : queue'[c][k] = queue[c][j]
    \/ Tells(n, c, queue'[c][k])

\* n commits what its leader has committed, or what a majority is recorded to
\* hold.
CommitStep(n) ==
  /\ \A p \in Server \ {n} : commitIndex'[p] = commitIndex[p]
  /\ \/ commitIndex'[n] = commitIndex[n]
     \/ LET m == Head(queue[n])
        IN  /\ queue[n] # << >> /\ m.type = "AppendEntries" /\ ~Stale(n, m)
            /\ state'[n] = Follower /\ currentTerm'[n] = m.term
            /\ m.leaderCommit > commitIndex[n]
            /\ commitIndex'[n] = Smaller(m.leaderCommit, LastIndex(log'[n]))
     \/ /\ Leads(n)
        /\ commitIndex'[n] > commitIndex[n]
        /\ commitIndex'[n] <= LastIndex(log'[n])
        /\ IsMajority(1 + Cardinality({p \in Peers(n) :
                                         matchIndex'[n][p] >= commitIndex'[n]}))

\* n records what a peer reported.
MatchStep(n) ==
  /\ \A p \in Server \ {n} : matchIndex'[p] = matchIndex[p]
  /\ \A p \in Server :
       \/ matchIndex'[n][p] = matchIndex[n][p]
       \/ matchIndex'[n][p] = -1
       \/ p = n /\ matchIndex'[n][p] = LastIndex(log'[n])
       \/ LET m == Head(queue[n])
          IN  /\ queue[n] # << >> /\ m.type = "AppendEntriesResponse"
              /\ m.src = p /\ matchIndex'[n][p] = m.matchIndex

\* n applies what it has committed.
ApplyStep(n) ==
  \/ UNCHANGED <<lastApplied, applied, answers>>
  \/ \E waiting \in SUBSET Entry :
       MaybeApplyCommitted(n, log'[n], commitIndex'[n], waiting)

PairStep(n) ==
  /\ RoleStep
  /\ VoteGiven
  /\ TellStep(n)
  /\ CommitStep(n)
  /\ MatchStep(n)
  /\ ApplyStep(n)

\* A step that keeps votes, commit indices, matches and machines.
LEMMA PairFrame ==
  ASSUME TypeOK, NEW n \in Server, UNCHANGED electionVars, TellStep(n),
         UNCHANGED <<commitIndex, matchIndex, lastApplied, applied, answers>>
  PROVE  PairStep(n)
<1>1. UNCHANGED <<state, currentTerm, votedFor>>
  BY DEF electionVars
<1>2. RoleStep /\ VoteGiven
  BY <1>1 DEF RoleStep, VoteGiven
<1>3. CommitStep(n) /\ MatchStep(n) /\ ApplyStep(n)
  BY DEF CommitStep, MatchStep, ApplyStep
<1>4. QED
  BY <1>2, <1>3 DEF PairStep

\* Taking a message tells nothing.
LEMMA ConsumeTells ==
  ASSUME TypeOK, NEW n \in Server, queue[n] # << >>, Consume(n)
  PROVE  TellStep(n)
  BY ConsumeQueue DEF TellStep

\* Answering a message tells what the answer says.
LEMMA ReplyTells ==
  ASSUME TypeOK, NEW n \in Server, NEW p \in Server, NEW r, queue[n] # << >>,
         Reply(n, p, r), Tells(n, p, r)
  PROVE  TellStep(n)
  BY ReplyQueue DEF TellStep

\* Requests for entries tell nothing of that kind.
LEMMA RequestsTell ==
  ASSUME TypeOK, NEW n \in Server, NEW r,
         \A p \in Server : r[p].type = "AppendEntries",
         queue' = [p \in Server |-> IF p = n THEN queue[p]
                                    ELSE Append(queue[p], r[p])]
  PROVE  TellStep(n)
<1>1. \A p \in Server : Tells(n, p, r[p])
  BY DEF Tells
<1>2. QED
  BY <1>1, RequestsQueue DEF TellStep

\* A new leader forgets what its peers were recorded to hold.
LEMMA BecomeLeaderMatch ==
  ASSUME TypeOK, NEW n \in Server, BecomeLeader(n) \/ UNCHANGED matchIndex
  PROVE  MatchStep(n)
<1>1. CASE BecomeLeader(n)
  <2>1. matchIndex' = [matchIndex EXCEPT ![n] =
                         [p \in Server |-> IF p = n THEN matchIndex[n][p] ELSE -1]]
    BY <1>1 DEF BecomeLeader
  <2>2. \A p \in Server \ {n} : matchIndex'[p] = matchIndex[p]
    BY <2>1 DEF TypeOK
  <2>3. matchIndex'[n] = [p \in Server |-> IF p = n THEN matchIndex[n][p] ELSE -1]
    BY <2>1 DEF TypeOK
  <2>4. QED
    BY <2>2, <2>3 DEF MatchStep
<1>2. CASE UNCHANGED matchIndex
  BY <1>2 DEF MatchStep
<1>3. QED
  BY <1>1, <1>2

\* A candidate asks for votes for its log and votes for itself.
LEMMA StartElectionPair ==
  ASSUME TypeOK, NEW n \in Server, StartElection(n)
  PROVE  PairStep(n)
<1> DEFINE r == [p \in Server |-> [type |-> "RequestVote", src |-> n,
                                  term |-> currentTerm[n] + 1,
                                  lastLogIndex |-> LastIndex(log[n]),
                                  lastLogTerm |-> LastTerm(log[n])]]
<1>1. queue' = [p \in Server |-> IF p = n THEN queue[p]
                                 ELSE Append(queue[p], r[p])]
  BY DEF StartElection, ToPeers, Peers
<1>2. /\ currentTerm'[n] = currentTerm[n] + 1 /\ votedFor'[n] = n
      /\ \A w \in Server \ {n} : /\ state'[w] = state[w]
                                 /\ currentTerm'[w] = currentTerm[w]
                                 /\ votedFor'[w] = votedFor[w]
      /\ UNCHANGED log
  BY DEF StartElection, BecomeLeader, TypeOK
<1>3. \A p \in Server : Tells(n, p, r[p])
  BY <1>2 DEF Tells
<1> HIDE DEF r
<1>4. TellStep(n)
  BY <1>1, <1>3, RequestsQueue DEF TellStep
<1>5. RoleStep /\ VoteGiven
  BY <1>2 DEF RoleStep, VoteGiven
<1>6. MatchStep(n)
  BY BecomeLeaderMatch DEF StartElection, leaderVars
<1>7. CommitStep(n) /\ ApplyStep(n)
  BY DEF StartElection, applyVars, CommitStep, ApplyStep
<1>8. QED
  BY <1>4, <1>5, <1>6, <1>7 DEF PairStep

\* A vote is granted to a candidate whose log is not behind.
LEMMA HandleRequestVotePair ==
  ASSUME TypeOK, NEW n \in Server, queue[n] # << >>, NEW m \in VoteRequest,
         m = Head(queue[n]), HandleRequestVote(n, m)
  PROVE  PairStep(n)
<1> DEFINE newer   == m.term > currentTerm[n]
           term    == Larger(m.term, currentTerm[n])
           vote    == IF newer THEN NoVote ELSE votedFor[n]
           granted == m.term = term /\ CanVote(vote, m) /\ UpToDate(log[n], m)
           r       == [type |-> "RequestVoteResponse", src |-> n,
                       term |-> term, voteGranted |-> granted]
<1>1. /\ m.src \in Server /\ m.term \in Nat /\ m.type = "RequestVote"
      /\ currentTerm[n] \in Nat
  BY DEF VoteRequest, TypeOK
<1>2. /\ currentTerm'[n] = term
      /\ votedFor'[n] = IF granted THEN m.src ELSE vote
      /\ state'[n] = IF newer THEN Follower ELSE state[n]
      /\ \A w \in Server \ {n} : /\ state'[w] = state[w]
                                 /\ currentTerm'[w] = currentTerm[w]
                                 /\ votedFor'[w] = votedFor[w]
      /\ Reply(n, m.src, r)
      /\ UNCHANGED log
  BY DEF HandleRequestVote, TypeOK
<1>3. granted => m.term = term /\ UpToDate(log[n], m)
  OBVIOUS
<1>4. ~newer => term = currentTerm[n] /\ vote = votedFor[n]
  BY <1>1 DEF Larger
<1>5. newer => vote = NoVote
  OBVIOUS
<1>6. /\ r.type = "RequestVoteResponse" /\ r.term = term
      /\ r.voteGranted = granted
  OBVIOUS
<1> HIDE DEF granted, term, vote, r
<1>7. TellStep(n)
  <2>1. Tells(n, m.src, r)
    BY <1>2, <1>6 DEF Tells
  <2>2. QED
    BY <1>1, <1>2, <2>1, ReplyTells
<1>8. RoleStep
  BY <1>2, <1>4 DEF RoleStep
<1>9. VoteGiven
  <2>1. SUFFICES ASSUME votedFor'[n] \in Server
                 PROVE  \/ votedFor'[n] = votedFor[n] /\ currentTerm'[n] = currentTerm[n]
                        \/ /\ votedFor'[n] = m.src /\ currentTerm'[n] = m.term
                           /\ UpToDate(log[n], m)
    BY <1>1, <1>2 DEF VoteGiven
  <2>2. CASE granted
    BY <1>2, <1>3, <2>2
  <2>3. CASE ~granted
    BY <1>2, <1>4, <1>5, <2>1, <2>3, NoVoteAssumption
  <2>4. QED
    BY <2>2, <2>3
<1>10. CommitStep(n) /\ MatchStep(n) /\ ApplyStep(n)
  BY DEF HandleRequestVote, leaderVars, applyVars, CommitStep, MatchStep, ApplyStep
<1>11. QED
  BY <1>7, <1>8, <1>9, <1>10 DEF PairStep

\* A newer term makes a follower without a vote.
LEMMA StepDownPair ==
  ASSUME TypeOK, NEW n \in Server, queue[n] # << >>, NEW m, StepDown(n, m)
  PROVE  PairStep(n)
<1>1. /\ state'[n] = Follower /\ votedFor'[n] = NoVote
      /\ \A w \in Server \ {n} : /\ state'[w] = state[w]
                                 /\ currentTerm'[w] = currentTerm[w]
                                 /\ votedFor'[w] = votedFor[w]
  BY DEF StepDown, TypeOK
<1>2. RoleStep /\ VoteGiven
  BY <1>1, NoVoteAssumption DEF RoleStep, VoteGiven
<1>3. TellStep(n)
  BY ConsumeTells DEF StepDown
<1>4. CommitStep(n) /\ MatchStep(n) /\ ApplyStep(n)
  BY DEF StepDown, leaderVars, applyVars, CommitStep, MatchStep, ApplyStep
<1>5. QED
  BY <1>2, <1>3, <1>4 DEF PairStep

\* A candidate that counts a vote may become leader.
LEMMA CountVotePair ==
  ASSUME TypeOK, NEW n \in Server, queue[n] # << >>, NEW m, CountVote(n, m)
  PROVE  PairStep(n)
<1>1. /\ state[n] = Candidate
      /\ \A w \in Server \ {n} : state'[w] = state[w]
      /\ UNCHANGED <<currentTerm, votedFor>>
  BY DEF CountVote, BecomeLeader, TypeOK
<1>2. RoleStep /\ VoteGiven
  BY <1>1 DEF RoleStep, VoteGiven, Candidate, Follower
<1>3. TellStep(n)
  BY ConsumeTells DEF CountVote
<1>4. MatchStep(n)
  BY BecomeLeaderMatch DEF CountVote, leaderVars
<1>5. CommitStep(n) /\ ApplyStep(n)
  BY DEF CountVote, applyVars, CommitStep, ApplyStep
<1>6. QED
  BY <1>2, <1>3, <1>4, <1>5 DEF PairStep

\* A follower commits up to what its leader has committed and reports the end of
\* its log.
LEMMA HandleAppendEntriesPair ==
  ASSUME TypeOK, NEW n \in Server, queue[n] # << >>, NEW m \in AppendRequest,
         m = Head(queue[n]), HandleAppendEntries(n, m)
  PROVE  PairStep(n)
<1>1. m.src \in Server /\ m.term \in Nat /\ m.type = "AppendEntries"
  BY DEF AppendRequest
<1>2. CASE RejectStaleLeader(n, m)
  <2> DEFINE r == AppendResult(n, currentTerm[n], FALSE, -1)
  <2>1. Tells(n, m.src, r)
    BY DEF Tells, AppendResult
  <2> HIDE DEF r
  <2>2. TellStep(n)
    BY <1>1, <1>2, <2>1, ReplyTells DEF RejectStaleLeader, r
  <2>3. QED
    BY <1>2, <2>2, PairFrame DEF RejectStaleLeader, leaderVars, applyVars
<1>3. CASE FollowLeader(n, m)
  <2>1. /\ ~Stale(n, m)
        /\ state'[n] = Follower /\ currentTerm'[n] = m.term
        /\ votedFor'[n] = IF m.term > currentTerm[n] THEN NoVote ELSE votedFor[n]
        /\ \A w \in Server \ {n} : /\ state'[w] = state[w]
                                   /\ currentTerm'[w] = currentTerm[w]
                                   /\ votedFor'[w] = votedFor[w]
    BY <1>3 DEF FollowLeader, TypeOK
  <2>2. ~(m.term > currentTerm[n]) => m.term = currentTerm[n]
    BY <1>1, <2>1 DEF Stale, TypeOK
  <2>3. RoleStep /\ VoteGiven
    BY <2>1, <2>2, NoVoteAssumption DEF RoleStep, VoteGiven
  <2>4. MatchStep(n) /\ ApplyStep(n)
    BY <1>3 DEF FollowLeader, leaderVars, applyVars, MatchStep, ApplyStep
  <2>5. CASE UNCHANGED <<log, commitIndex>>
               /\ Reply(n, m.src, AppendResult(n, m.term, FALSE, -1))
    <3> DEFINE r == AppendResult(n, m.term, FALSE, -1)
    <3>1. Tells(n, m.src, r)
      BY DEF Tells, AppendResult
    <3> HIDE DEF r
    <3>2. TellStep(n)
      BY <1>1, <2>5, <3>1, ReplyTells DEF r
    <3>3. CommitStep(n)
      BY <2>5 DEF CommitStep
    <3>4. QED
      BY <2>3, <2>4, <3>2, <3>3 DEF PairStep
  <2>6. CASE LET merged == MergeEntries(log[n], m.entries)
                 last   == LastIndex(merged)
             IN  /\ log' = [log EXCEPT ![n] = merged]
                 /\ commitIndex' = [commitIndex EXCEPT ![n] =
                      IF m.leaderCommit > @ THEN Smaller(m.leaderCommit, last)
                      ELSE @]
                 /\ Reply(n, m.src, AppendResult(n, m.term, TRUE, last))
    <3> DEFINE last == LastIndex(log'[n])
               r    == AppendResult(n, m.term, TRUE, last)
    <3>1. log'[n] = MergeEntries(log[n], m.entries)
      BY <2>6 DEF TypeOK
    <3>2. Reply(n, m.src, r)
      BY <2>6, <3>1
    <3>3. Tells(n, m.src, r)
      BY DEF Tells, AppendResult
    <3> HIDE DEF r
    <3>4. TellStep(n)
      BY <1>1, <3>2, <3>3, ReplyTells
    <3>5. /\ \A p \in Server \ {n} : commitIndex'[p] = commitIndex[p]
          /\ commitIndex'[n] = IF m.leaderCommit > commitIndex[n]
                               THEN Smaller(m.leaderCommit, last)
                               ELSE commitIndex[n]
      BY <2>6, <3>1 DEF TypeOK
    <3>6. CommitStep(n)
      BY <1>1, <2>1, <3>5 DEF CommitStep
    <3>7. QED
      BY <2>3, <2>4, <3>4, <3>6 DEF PairStep
  <2>7. QED
    BY <1>3, <2>5, <2>6 DEF FollowLeader
<1>4. QED
  BY <1>2, <1>3 DEF HandleAppendEntries

\* What AdvancedCommit gives is the index before, or one beyond it that a
\* majority is recorded to hold.
LEMMA AdvancedCommitHeld ==
  ASSUME TypeOK, NEW n \in Server, NEW lg \in Seq(Entry), NEW match,
         NEW i, i = AdvancedCommit(n, lg, match)
  PROVE  \/ i = commitIndex[n]
         \/ /\ i > commitIndex[n] /\ i <= LastIndex(lg)
            /\ IsMajority(1 + Cardinality({p \in Peers(n) : match[p] >= i}))
<1> DEFINE S == Committable(n, lg, match)
<1>1. CASE S = {}
  BY <1>1 DEF AdvancedCommit
<1>2. CASE S # {}
  <2>1. commitIndex[n] \in Int /\ LastIndex(lg) \in Int
    BY EntryIndexed, LastIndexType DEF TypeOK
  <2>2. S \in SUBSET (commitIndex[n] + 1 .. LastIndex(lg))
    BY DEF Committable
  <2>3. IsFiniteSet(commitIndex[n] + 1 .. LastIndex(lg))
    BY <2>1, FS_Interval
  <2>4. S \in SUBSET Int /\ IsFiniteSet(S)
    BY <2>1, <2>2, <2>3, FS_Subset
  <2>5. PICK j \in S : \A k \in S : k <= j
    <3> HIDE DEF S
    <3> QED  BY <1>2, <2>4, GreatestExists
  <2>6. i \in S
    BY <1>2, <2>5 DEF AdvancedCommit
  <2>7. /\ i \in commitIndex[n] + 1 .. LastIndex(lg)
        /\ IsMajority(1 + Cardinality({p \in Peers(n) : match[p] >= i}))
    BY <2>6 DEF Committable
  <2>8. QED
    BY <2>1, <2>7
<1>3. QED
  BY <1>1, <1>2

\* A leader commits what a majority is recorded to hold.
LEMMA LeaderCommits ==
  ASSUME TypeOK, NEW n \in Server, Leads(n), log'[n] \in Seq(Entry),
         commitIndex' = [commitIndex EXCEPT ![n] =
                           AdvancedCommit(n, log'[n], matchIndex'[n])]
  PROVE  CommitStep(n)
<1>1. /\ \A p \in Server \ {n} : commitIndex'[p] = commitIndex[p]
      /\ commitIndex'[n] = AdvancedCommit(n, log'[n], matchIndex'[n])
  BY DEF TypeOK
<1>2. PICK i : i = commitIndex'[n]
  OBVIOUS
<1>3. \/ i = commitIndex[n]
      \/ /\ i > commitIndex[n] /\ i <= LastIndex(log'[n])
         /\ IsMajority(1 + Cardinality({p \in Peers(n) : matchIndex'[n][p] >= i}))
  BY ZenonT(60), <1>1, <1>2, AdvancedCommitHeld
<1>4. QED
  BY <1>1, <1>2, <1>3 DEF CommitStep

\* A leader records what a peer reported, or sends an earlier part of its log.
LEMMA HandleAppendEntriesResponsePair ==
  ASSUME TypeOK, NEW n \in Server, queue[n] # << >>,
         NEW m \in AppendResponse, m = Head(queue[n]),
         HandleAppendEntriesResponse(n, m)
  PROVE  PairStep(n)
<1>1. m.src \in Server /\ m.type = "AppendEntriesResponse"
  BY DEF AppendResponse
<1>2. CASE StepDown(n, m)
  BY <1>2, StepDownPair
<1>3. CASE Ignore(n, m, Leader)
  BY <1>3, ConsumeTells, PairFrame DEF Ignore, leaderVars, applyVars
<1>4. CASE /\ AcceptMatch(n, m) /\ UNCHANGED electionVars /\ UNCHANGED log
           /\ state[n] = Leader /\ UNCHANGED applyVars
  <2>1. UNCHANGED <<state, currentTerm, votedFor>>
    BY <1>4 DEF electionVars
  <2>2. RoleStep /\ VoteGiven
    BY <2>1 DEF RoleStep, VoteGiven
  <2>3. TellStep(n)
    BY <1>4, ConsumeTells DEF AcceptMatch
  <2>4. MatchStep(n)
    <3>1. matchIndex' = [matchIndex EXCEPT ![n][m.src] =
                           Larger(matchIndex[n][m.src], m.matchIndex)]
      BY <1>4 DEF AcceptMatch
    <3>2. /\ \A p \in Server \ {n} : matchIndex'[p] = matchIndex[p]
          /\ \A p \in Server \ {m.src} : matchIndex'[n][p] = matchIndex[n][p]
          /\ matchIndex'[n][m.src] = Larger(matchIndex[n][m.src], m.matchIndex)
      BY <1>1, <3>1 DEF TypeOK
    <3>3. \/ matchIndex'[n][m.src] = matchIndex[n][m.src]
          \/ matchIndex'[n][m.src] = m.matchIndex
      BY <3>2 DEF Larger
    <3>4. QED
      BY <1>1, <3>2, <3>3 DEF MatchStep
  <2>5. CommitStep(n)
    <3>1. Leads(n) /\ log'[n] = log[n] /\ log[n] \in Seq(Entry)
      BY <1>4, <2>1 DEF Leads, TypeOK
    <3>2. QED
      BY <1>4, <3>1, LeaderCommits DEF AcceptMatch
  <2>6. ApplyStep(n)
    BY <1>4 DEF applyVars, ApplyStep
  <2>7. QED
    BY <2>2, <2>3, <2>4, <2>5, <2>6 DEF PairStep
<1>5. CASE RetryEarlier(n, m) /\ UNCHANGED electionVars /\ UNCHANGED applyVars
  <2> DEFINE r == AppendEntriesMsg(n, log[n], EarlierIndex(nextIndex[n][m.src]))
  <2>1. Reply(n, m.src, r) /\ UNCHANGED <<matchIndex, commitIndex>>
    BY <1>5 DEF RetryEarlier
  <2>2. Tells(n, m.src, r)
    BY DEF Tells, AppendEntriesMsg
  <2> HIDE DEF r
  <2>3. TellStep(n)
    BY <1>1, <2>1, <2>2, ReplyTells
  <2>4. QED
    BY <1>5, <2>1, <2>3, PairFrame DEF applyVars
<1>6. QED
  BY <1>2, <1>3, <1>4, <1>5 DEF HandleAppendEntriesResponse

\* The handling of any message is such a step.
LEMMA HandleMessagePair ==
  ASSUME TypeOK, NEW n \in Server, HandleMessage(n)
  PROVE  PairStep(n)
<1>1. PICK m : m = Head(queue[n])
  OBVIOUS
<1>2. queue[n] # << >> /\ m \in Message
  BY <1>1, HeadType DEF HandleMessage
<1>3. /\ m.type = "RequestVote" => m \in VoteRequest
      /\ m.type = "AppendEntries" => m \in AppendRequest
      /\ m.type = "AppendEntriesResponse" => m \in AppendResponse
  BY <1>2
  DEF Message, VoteRequest, VoteResponse, AppendRequest, AppendResponse
<1>4. CASE m.type = "RequestVote" /\ HandleRequestVote(n, m)
  BY <1>1, <1>2, <1>3, <1>4, HandleRequestVotePair
<1>5. CASE m.type = "RequestVoteResponse" /\ HandleRequestVoteResponse(n, m)
  <2>1. CASE StepDown(n, m)
    BY <1>2, <2>1, StepDownPair
  <2>2. CASE Ignore(n, m, Candidate)
    BY <1>2, <2>2, ConsumeTells, PairFrame DEF Ignore, leaderVars, applyVars
  <2>3. CASE CountVote(n, m)
    BY <1>2, <2>3, CountVotePair
  <2>4. QED
    BY <1>5, <2>1, <2>2, <2>3 DEF HandleRequestVoteResponse
<1>6. CASE m.type = "AppendEntries" /\ HandleAppendEntries(n, m)
  BY <1>1, <1>2, <1>3, <1>6, HandleAppendEntriesPair
<1>7. CASE m.type = "AppendEntriesResponse" /\ HandleAppendEntriesResponse(n, m)
  BY <1>1, <1>2, <1>3, <1>7, HandleAppendEntriesResponsePair
<1>8. QED
  BY <1>1, <1>4, <1>5, <1>6, <1>7 DEF HandleMessage

\* Heartbeats change nothing of that kind.
LEMMA SendHeartbeatsPair ==
  ASSUME TypeOK, NEW n \in Server, SendHeartbeats(n)
  PROVE  PairStep(n)
<1> DEFINE r == [p \in Server |-> AppendEntriesMsg(n, log[n], nextIndex[n][p])]
<1>1. queue' = [p \in Server |-> IF p = n THEN queue[p]
                                 ELSE Append(queue[p], r[p])]
  BY DEF SendHeartbeats, ToPeers, Peers
<1>2. \A p \in Server : r[p].type = "AppendEntries"
  BY DEF AppendEntriesMsg
<1> HIDE DEF r
<1>3. TellStep(n)
  BY <1>1, <1>2, RequestsTell
<1>4. QED
  BY <1>3, PairFrame DEF SendHeartbeats, leaderVars, applyVars

\* Committed entries are applied.
LEMMA ApplyCommittedPair ==
  ASSUME TypeOK, NEW n \in Server, ApplyCommitted(n)
  PROVE  PairStep(n)
<1>1. UNCHANGED <<state, currentTerm, votedFor, log, commitIndex, matchIndex, queue>>
  BY DEF ApplyCommitted, electionVars, leaderVars
<1>2. RoleStep /\ VoteGiven /\ TellStep(n) /\ CommitStep(n) /\ MatchStep(n)
  BY <1>1 DEF RoleStep, VoteGiven, TellStep, CommitStep, MatchStep
<1>3. ApplyStep(n)
  <2>1. callbacks[n] \in SUBSET Entry
    BY DEF TypeOK
  <2>2. MaybeApplyCommitted(n, log'[n], commitIndex'[n], callbacks[n])
    BY <1>1 DEF ApplyCommitted
  <2>3. QED
    BY <2>1, <2>2 DEF ApplyStep
<1>4. QED
  BY <1>2, <1>3 DEF PairStep

\* A submitted command is held by its leader, and applied if that is enough.
LEMMA SubmitCommandPair ==
  ASSUME TypeOK, TypeOK', NEW n \in Server, NEW c \in Command, SubmitCommand(n, c)
  PROVE  PairStep(n)
<1> DEFINE e  == [term |-> currentTerm[n], index |-> LastIndex(log[n]) + 1,
                  command |-> c]
           lg == Append(log[n], e)
           r  == [p \in Server |-> AppendEntriesMsg(n, lg, nextIndex[n][p])]
           waiting == IF c \in Awaited
                      THEN {w \in callbacks[n] : w.index # e.index} \cup {e}
                      ELSE callbacks[n]
<1>1. queue' = [p \in Server |-> IF p = n THEN queue[p]
                                 ELSE Append(queue[p], r[p])]
  BY DEF SubmitCommand, ToPeers, Peers
<1>2. \A p \in Server : r[p].type = "AppendEntries"
  BY DEF AppendEntriesMsg
<1>3. /\ log'[n] = lg /\ state[n] = Leader
      /\ UNCHANGED <<state, currentTerm, votedFor>>
      /\ matchIndex' = [matchIndex EXCEPT ![n][n] = e.index]
      /\ commitIndex' = [commitIndex EXCEPT ![n] =
                           AdvancedCommit(n, lg, matchIndex[n])]
      /\ MaybeApplyCommitted(n, lg, AdvancedCommit(n, lg, matchIndex[n]), waiting)
  BY DEF SubmitCommand, electionVars, TypeOK
<1>4. log[n] \in Seq(Entry) /\ e \in Entry /\ lg \in Seq(Entry)
  <2>1. log[n] \in Seq(Entry)
    BY DEF TypeOK
  <2>2. LastIndex(log[n]) + 1 \in Nat
    BY <2>1, EntryIndexed, LastIndexType
  <2>3. e \in Entry
    BY <2>2 DEF Entry, TypeOK
  <2>4. QED
    BY <2>1, <2>3
<1>5. LastIndex(lg) = e.index
  <2> HIDE DEF e
  <2>1. Len(lg) = Len(log[n]) + 1 /\ lg[Len(log[n]) + 1] = e /\ lg # << >>
    BY <1>4
  <2> HIDE DEF lg
  <2>2. QED
    BY <2>1 DEF LastIndex
<1>6. waiting \in SUBSET Entry
  BY <1>4 DEF TypeOK
<1> HIDE DEF r, lg, e, waiting
<1>7. TellStep(n)
  BY <1>1, <1>2, RequestsTell
<1>8. RoleStep /\ VoteGiven
  BY <1>3 DEF RoleStep, VoteGiven
<1>9. /\ \A p \in Server \ {n} : matchIndex'[p] = matchIndex[p]
      /\ \A p \in Server \ {n} : matchIndex'[n][p] = matchIndex[n][p]
      /\ matchIndex'[n][n] = e.index
  BY <1>3 DEF TypeOK
<1>10. MatchStep(n)
  BY <1>3, <1>5, <1>9 DEF MatchStep
<1>11. CommitStep(n)
  <2>1. Leads(n)
    BY <1>3 DEF Leads
  <2>2. PICK i : i = AdvancedCommit(n, lg, matchIndex[n])
    OBVIOUS
  <2>3. \/ i = commitIndex[n]
        \/ /\ i > commitIndex[n] /\ i <= LastIndex(lg)
           /\ IsMajority(1 + Cardinality({p \in Peers(n) : matchIndex[n][p] >= i}))
    BY <1>4, <2>2, AdvancedCommitHeld
  <2>4. {p \in Peers(n) : matchIndex[n][p] >= i}
          = {p \in Peers(n) : matchIndex'[n][p] >= i}
    BY <1>9 DEF Peers
  <2>5. /\ \A p \in Server \ {n} : commitIndex'[p] = commitIndex[p]
        /\ commitIndex'[n] = i
    BY <1>3, <2>2 DEF TypeOK
  <2>6. QED
    BY <1>3, <2>1, <2>3, <2>4, <2>5 DEF CommitStep
<1>12. ApplyStep(n)
  <2>1. commitIndex'[n] = AdvancedCommit(n, lg, matchIndex[n])
    BY <1>3 DEF TypeOK
  <2>2. MaybeApplyCommitted(n, log'[n], commitIndex'[n], waiting)
    BY <1>3, <2>1
  <2>3. QED
    BY <1>6, <2>2 DEF ApplyStep
<1>13. QED
  BY <1>7, <1>8, <1>10, <1>11, <1>12 DEF PairStep

\* Every step is such a step of some node.
LEMMA PairStepOfStep ==
  ASSUME TypeOK, ElectedInv, MatchingInv, Server # {}, [Next]_vars
  PROVE  \E n \in Server : LogStep(n) /\ PairStep(n)
<1>1. TypeOK'
  BY TypeStep
<1>2. ASSUME NEW n \in Server,
             UNCHANGED <<electionVars, log, queue, commitIndex, leaderVars,
                         lastApplied, applied, answers>>
      PROVE  LogStep(n) /\ PairStep(n)
  <2>1. QueuesStep(n) /\ TellStep(n)
    BY <1>2 DEF QueuesStep, TellStep
  <2>2. QED
    BY <1>2, <2>1, LogFrame, PairFrame DEF electionVars, leaderVars
<1>3. ASSUME NEW n \in Server, Start(n) \/ Stop(n)
      PROVE  LogStep(n) /\ PairStep(n)
  BY <1>2, <1>3 DEF Start, Stop, applyVars
<1>4. ASSUME NEW n \in Server, StartElection(n)
      PROVE  LogStep(n) /\ PairStep(n)
  BY <1>4, StartElectionLogs, StartElectionPair
<1>5. ASSUME NEW n \in Server, SendHeartbeats(n)
      PROVE  LogStep(n) /\ PairStep(n)
  BY <1>5, SendHeartbeatsLogs, SendHeartbeatsPair
<1>6. ASSUME NEW n \in Server, HandleMessage(n)
      PROVE  LogStep(n) /\ PairStep(n)
  BY <1>6, HandleMessageLogs, HandleMessagePair
<1>7. ASSUME NEW n \in Server, ApplyCommitted(n)
      PROVE  LogStep(n) /\ PairStep(n)
  <2>1. UNCHANGED <<state, currentTerm>> /\ UNCHANGED log /\ QueuesStep(n)
    BY <1>7 DEF ApplyCommitted, electionVars, QueuesStep
  <2>2. QED
    BY <1>7, <2>1, LogFrame, ApplyCommittedPair
<1>8. ASSUME NEW n \in Server, NEW c \in Command, SubmitCommand(n, c)
      PROVE  LogStep(n) /\ PairStep(n)
  BY <1>1, <1>8, SubmitCommandLogs, SubmitCommandPair
<1>9. CASE UNCHANGED vars
  BY <1>2, <1>9 DEF vars, applyVars
<1>10. QED
  BY <1>3, <1>4, <1>5, <1>6, <1>7, <1>8, <1>9 DEF Next

-----------------------------------------------------------------------------
(* Logs that begin with each other.                                          *)

\* Every log begins itself.
LEMMA BeginsReflexive ==
  ASSUME NEW s \in Seq(Entry)
  PROVE  Begins(s, s)
  BY DEF Begins

\* The beginning of a beginning is a beginning.
LEMMA BeginsTransitive ==
  ASSUME NEW s \in Seq(Entry), NEW t \in Seq(Entry), NEW u \in Seq(Entry),
         Begins(s, t), Begins(t, u)
  PROVE  Begins(s, u)
  BY DEF Begins

\* Of two beginnings of one log, one begins the other.
LEMMA BeginningsNested ==
  ASSUME NEW s \in Seq(Entry), NEW t \in Seq(Entry), NEW u \in Seq(Entry),
         Begins(s, u), Begins(t, u)
  PROVE  Begins(s, t) \/ Begins(t, s)
<1>1. Len(s) \in Nat /\ Len(t) \in Nat /\ Len(u) \in Nat
  OBVIOUS
<1>2. CASE Len(s) <= Len(t)
  BY <1>1, <1>2 DEF Begins
<1>3. CASE Len(t) <= Len(s)
  BY <1>1, <1>3 DEF Begins
<1>4. QED
  BY <1>1, <1>2, <1>3

\* A majority is everybody.
Everybody ==
  \A Q \in SUBSET Server : IsMajority(Cardinality(Q)) => Q = Server

\* It is in a cluster of one or two nodes (the majority of _become_leader and
\* of _maybe_advance_commit_index).
LEMMA PairMajority ==
  ASSUME Cardinality(Server) <= 2
  PROVE  Everybody
<1>1. SUFFICES ASSUME NEW Q \in SUBSET Server, IsMajority(Cardinality(Q))
               PROVE  Q = Server
  BY DEF Everybody
<1>2. /\ Cardinality(Q) \in Nat /\ Cardinality(Server) \in Nat
      /\ Cardinality(Q) <= Cardinality(Server)
      /\ Cardinality(Q) = Cardinality(Server) => Q = Server
  BY ServerAssumption, FS_Subset, FS_CardinalityType
<1>3. Cardinality(Q) > Cardinality(Server) \div 2
  BY <1>1 DEF IsMajority
<1>4. \A i, j \in Nat : j <= 2 /\ i <= j /\ i > j \div 2 => i = j
  <2>1. \A i, j \in Nat : j <= 2 => j = 0 \/ j = 1 \/ j = 2
    OBVIOUS
  <2>2. 0 \div 2 = 0 /\ 1 \div 2 = 0 /\ 2 \div 2 = 1
    OBVIOUS
  <2>3. QED
    BY <2>1, <2>2
<1>5. QED
  BY <1>2, <1>3, <1>4

\* Then a leader counts everybody's vote and has all that anybody has.
LEMMA LeaderHasAll ==
  ASSUME Everybody, TypeOK, ElectedInv, LogsNested, NEW n \in Server,
         state[n] = Leader, NEW p \in Server
  PROVE  Counted(p, n, currentTerm[n]) /\ Begins(log[p], log[n])
<1>1. votesReceived[n] = Server
  BY DEF ElectedInv, LeadersElected, Everybody, TypeOK
<1>2. Counted(p, n, currentTerm[n])
  BY <1>1 DEF Counted
<1>3. QED
  BY <1>2 DEF LogsNested, Voted, Follower, Leader

\* Who led a term had everybody's vote.
LEMMA LeaderBacked ==
  ASSUME Everybody, NEW w \in Server, NEW t \in Nat, Led(w, t), NEW v \in Server
  PROVE  Backs(v, w, t)
  BY DEF Led, Everybody

\* In every log, the last index is that of its last place.
LogsPlaced == \A p \in Server : LastIndex(log[p]) = Len(log[p]) - 1

\* So it is by MatchingInv, before a step.
LEMMA LogsPlacedNow ==
  ASSUME TypeOK, MatchingInv
  PROVE  LogsPlaced
<1>1. SUFFICES ASSUME NEW p \in Server
               PROVE  LastIndex(log[p]) = Len(log[p]) - 1
  BY DEF LogsPlaced
<1>2. LogPiece(p) \in Pieces /\ log[p] \in Seq(Entry)
  BY PiecesType DEF TypeOK
<1>3. Placed(log[p])
  BY <1>2 DEF MatchingInv, WellPlaced, LogPiece, Placed
<1>4. QED
  BY <1>2, <1>3, LastIndexOfPlaced

\* So it is after a step.
LEMMA LogsPlacedNext ==
  ASSUME TypeOK', MatchingInv'
  PROVE  LogsPlaced'
<1>1. SUFFICES ASSUME NEW p \in Server
               PROVE  LastIndex(log'[p]) = Len(log'[p]) - 1
  BY DEF LogsPlaced
<1>2. LogPiece(p)' \in Pieces' /\ log'[p] \in Seq(Entry)
  BY DEF Pieces, TypeOK
<1>3. Placed(log'[p])
  BY <1>2 DEF MatchingInv, WellPlaced, LogPiece, Placed
<1>4. QED
  BY <1>2, <1>3, LastIndexOfPlaced

\* The first entries of a log, and others behind them.
LEMMA CutAndJoined ==
  ASSUME NEW s \in Seq(Entry), NEW b \in 0 .. Len(s), NEW t \in Seq(Entry)
  PROVE  /\ SubSeq(s, 1, b) \o t \in Seq(Entry)
         /\ Len(SubSeq(s, 1, b) \o t) = b + Len(t)
         /\ \A j \in 1 .. b : (SubSeq(s, 1, b) \o t)[j] = s[j]
         /\ \A j \in b + 1 .. b + Len(t) : (SubSeq(s, 1, b) \o t)[j] = t[j - b]
  OBVIOUS

\* A sequence and another one behind it.
LEMMA Joined ==
  ASSUME NEW E, NEW s \in Seq(E), NEW t \in Seq(E)
  PROVE  /\ Len(s \o t) = Len(s) + Len(t)
         /\ \A k \in 1 .. Len(s) : (s \o t)[k] = s[k]
         /\ \A k \in Len(s) + 1 .. Len(s) + Len(t) : (s \o t)[k] = t[k - Len(s)]
  OBVIOUS

\* The entries behind the first i ones, up to the j-th.
LEMMA PartBehind ==
  ASSUME NEW s \in Seq(Entry), NEW i \in 0 .. Len(s), NEW j \in i .. Len(s)
  PROVE  /\ SubSeq(s, i + 1, j) \in Seq(Entry) /\ Len(SubSeq(s, i + 1, j)) = j - i
         /\ \A k \in 1 .. j - i : SubSeq(s, i + 1, j)[k] = s[i + k]
  OBVIOUS

\* A merge cuts nothing and brings nothing that the sender no longer has.
LEMMA MergeGrows ==
  ASSUME TypeOK, MatchingInv, LogsNested, RequestsHeld,
         NEW n \in Server, queue[n] # << >>,
         NEW m, m = Head(queue[n]), m.type = "AppendEntries", Joins(log[n], m),
         NEW lg, lg = MergeEntries(log[n], m.entries)
  PROVE  /\ Begins(log[n], lg)
         /\ lg = log[n] \/ Begins(lg, log[m.src])
         /\ \A j \in DOMAIN lg : j > Len(log[n]) => lg[j].term <= m.term
<1> DEFINE own == log[n]
           src == log[m.src]
           b   == m.prevLogIndex + 1
           es  == m.entries
<1>1. /\ own \in Seq(Entry) /\ es \in Seq(Entry) /\ b \in 0 .. Len(own)
      /\ PlacedAfter(es, b) /\ src \in Seq(Entry) /\ m.src \in Server
  <2>1. /\ m \in AppendRequest /\ own \in Seq(Entry) /\ es \in Seq(Entry)
        /\ b \in 0 .. Len(own) /\ PlacedAfter(es, b)
    BY JoinsWithin
  <2>2. m.src \in Server
    BY <2>1 DEF AppendRequest
  <2>3. src \in Seq(Entry)
    BY <2>2 DEF TypeOK
  <2>4. QED
    BY <2>1, <2>2, <2>3
<1>2. lg = MergeReference(own, b, es)
  <2> DEFINE g == [base |-> 0, prev |-> 0,
                   entries |-> MergeEntries(log[n], m.entries)]
  <2> HIDE DEF g
  <2>1. g = [base |-> 0, prev |-> 0, entries |-> MergeEntries(log[n], m.entries)]
    BY DEF g
  <2>2. QED
    BY <2>1, MergedPiece
<1>3. \A i \in DOMAIN es :
        b + i \in DOMAIN src /\ src[b + i] = es[i] /\ es[i].term <= m.term
  <2>1. 1 \in DOMAIN queue[n] /\ m = queue[n][1]
    <3>1. queue[n] \in Seq(Message)
      BY DEF TypeOK
    <3>2. QED
      BY <3>1
  <2>2. QED
    BY <2>1 DEF RequestsHeld
<1>4. Begins(own, src) \/ Begins(src, own)
  BY <1>1 DEF LogsNested
<1> HIDE DEF own, src, b, es
<1>5. CASE HoldsAll(own, es)
  <2>1. lg = own
    BY <1>2, <1>5 DEF MergeReference
  <2>2. QED
    BY <1>1, <2>1, BeginsReflexive DEF own
<1>6. CASE ~HoldsAll(own, es)
  <2>1. PICK k \in DOMAIN es :
          ~(/\ HasIndex(own, es[k].index)
            /\ TermAt(own, es[k].index) = es[k].term)
    BY <1>6 DEF HoldsAll
  <2>2. k \in 1 .. Len(es) /\ es[k].index = b + k - 1 /\ b \in Nat
    BY <1>1 DEF PlacedAfter
  <2>3. ~(b + k <= Len(own) /\ own[b + k] = es[k])
    BY <1>1, <2>1, <2>2 DEF HasIndex, TermAt
  <2>4. Begins(own, src)
    <3>1. SUFFICES ASSUME Begins(src, own) PROVE FALSE
      BY <1>4
    <3>2. b + k \in 1 .. Len(src) /\ src[b + k] = es[k]
      BY <1>1, <1>3
    <3>3. QED
      BY <1>1, <2>3, <3>1, <3>2 DEF Begins
  <2>5. b + k > Len(own)
    BY <1>1, <1>3, <2>2, <2>3, <2>4 DEF Begins
  <2>6. b + Len(es) <= Len(src)
    <3>1. Len(es) \in DOMAIN es
      BY <1>1, <2>2
    <3>2. QED
      BY <1>1, <1>3, <3>1
  <2>7. lg = SubSeq(own, 1, b) \o es
    BY <1>2, <1>6 DEF MergeReference
  <2>8. /\ lg \in Seq(Entry) /\ Len(lg) = b + Len(es)
        /\ \A j \in 1 .. b : lg[j] = own[j]
        /\ \A j \in b + 1 .. b + Len(es) : lg[j] = es[j - b]
    <3>1. own \in Seq(Entry) /\ b \in 0 .. Len(own) /\ es \in Seq(Entry)
      BY <1>1
    <3>2. PICK g : g = SubSeq(own, 1, b) \o es
      OBVIOUS
    <3>3. /\ g \in Seq(Entry) /\ Len(g) = b + Len(es)
          /\ \A j \in 1 .. b : g[j] = own[j]
          /\ \A j \in b + 1 .. b + Len(es) : g[j] = es[j - b]
      BY <3>1, <3>2, CutAndJoined, Zenon
    <3>4. QED
      BY <2>7, <3>2, <3>3
  <2>9. ASSUME NEW j \in 1 .. Len(lg)
        PROVE  lg[j] = src[j]
    <3>1. CASE j <= b
      BY <1>1, <2>2, <2>4, <2>8, <3>1 DEF Begins
    <3>2. CASE j > b
      <4>1. j - b \in DOMAIN es /\ b + (j - b) = j /\ lg[j] = es[j - b]
        <5>1. Len(es) \in Nat /\ DOMAIN es = 1 .. Len(es)
          BY <1>1
        <5>2. j \in Nat /\ j <= b + Len(es)
          BY <2>2, <2>8, <5>1
        <5>3. QED
          BY <2>2, <2>8, <3>2, <5>1, <5>2
      <4>2. QED
        BY <1>3, <4>1
    <3>3. QED
      BY <2>2, <3>1, <3>2
  <2>10. Begins(lg, src)
    BY <1>1, <2>2, <2>6, <2>8, <2>9 DEF Begins
  <2>11. Begins(own, lg)
    BY SMTT(60), <1>1, <2>2, <2>4, <2>5, <2>8, <2>9 DEF Begins
  <2>12. ASSUME NEW j \in DOMAIN lg, j > Len(own)
         PROVE  lg[j].term <= m.term
    <3>1. j - b \in DOMAIN es /\ lg[j] = es[j - b]
      <4>1. /\ Len(es) \in Nat /\ DOMAIN es = 1 .. Len(es)
            /\ Len(own) \in Nat /\ b <= Len(own)
        BY <1>1
      <4>2. j \in Nat /\ j <= b + Len(es) /\ j > b
        BY <2>2, <2>8, <2>12, <4>1
      <4>3. j \in b + 1 .. b + Len(es) /\ j - b \in 1 .. Len(es)
        BY <2>2, <4>1, <4>2
      <4>4. QED
        BY <2>8, <4>1, <4>3
    <3>2. QED
      BY <1>3, <3>1
  <2>13. QED
    BY <2>10, <2>11, <2>12 DEF own, src
<1>7. QED
  BY <1>5, <1>6

\* What comes of a merge: nothing is lost, nothing is there that the sender has
\* not, and no entry is newer than the request.
MergedWithin(n) ==
  LET m == Head(queue[n])
  IN  /\ Merged(n) /\ Begins(log'[n], log[m.src])
      /\ \A j \in DOMAIN log'[n] : j > Len(log[n]) => log'[n][j].term <= m.term

\* No step cuts a log.
LEMMA LogsGrow ==
  ASSUME TypeOK, TypeOK', MatchingInv, LogsNested, RequestsHeld,
         NEW n \in Server, LogStep(n)
  PROVE  /\ \A p \in Server : Begins(log[p], log'[p])
         /\ \A p \in Server : p = n \/ log'[p] = log[p]
         /\ log'[n] = log[n] \/ Appended(n) \/ MergedWithin(n)
<1>1. \A p \in Server : log[p] \in Seq(Entry) /\ log'[p] \in Seq(Entry)
  BY DEF TypeOK
<1>2. \A p \in Server : log'[p] = log[p] => Begins(log[p], log'[p])
  BY <1>1 DEF Begins
<1>3. \A p \in Server : p = n \/ log'[p] = log[p]
  BY DEF LogStep, LogsStep
<1>4. CASE log'[n] = log[n]
  BY <1>2, <1>3, <1>4
<1>5. CASE Appended(n)
  <2>1. PICK e \in Entry : log'[n] = Append(log[n], e)
    BY <1>5 DEF Appended
  <2>2. Begins(log[n], log'[n])
    BY <1>1, <2>1 DEF Begins
  <2>3. QED
    BY <1>2, <1>3, <1>5, <2>2
<1>6. CASE Merged(n) /\ log'[n] # log[n]
  <2>1. PICK m : m = Head(queue[n])
    OBVIOUS
  <2>2. /\ queue[n] # << >> /\ m.type = "AppendEntries" /\ Joins(log[n], m)
        /\ log'[n] = MergeEntries(log[n], m.entries)
    BY <1>6, <2>1 DEF Merged
  <2>3. PICK lg : lg = log'[n]
    OBVIOUS
  <2>4. /\ Begins(log[n], lg)
        /\ lg = log[n] \/ Begins(lg, log[m.src])
        /\ \A j \in DOMAIN lg : j > Len(log[n]) => lg[j].term <= m.term
    BY <2>1, <2>2, <2>3, MergeGrows
  <2>5. MergedWithin(n)
    BY <1>6, <2>1, <2>3, <2>4 DEF MergedWithin
  <2>6. QED
    BY <1>2, <1>3, <2>3, <2>4, <2>5
<1>7. QED
  BY <1>4, <1>5, <1>6 DEF LogStep, LogsStep

\* The request at the head of a queue is one of those in the queue.
LEMMA HeadQueued ==
  ASSUME TypeOK, NEW n \in Server, queue[n] # << >>
  PROVE  1 \in DOMAIN queue[n] /\ Head(queue[n]) = queue[n][1]
<1>1. queue[n] \in Seq(Message)
  BY DEF TypeOK
<1>2. QED
  BY <1>1

\* Whoever sends a message is a node, and in some term.
LEMMA QueuedType ==
  ASSUME TypeOK
  PROVE  \A c \in Server : \A k \in DOMAIN queue[c] :
           /\ queue[c][k] \in Message
           /\ queue[c][k].src \in Server /\ queue[c][k].term \in Nat
<1>1. \A c \in Server : \A k \in DOMAIN queue[c] : queue[c][k] \in Message
  BY DEF TypeOK
<1>2. QED
  BY <1>1
  DEF Message, VoteRequest, VoteResponse, AppendRequest, AppendResponse

\* So it is after a step.
LEMMA QueuedNext ==
  ASSUME TypeOK'
  PROVE  \A c \in Server : \A k \in DOMAIN queue'[c] : queue'[c][k] \in Message
<1>1. \A c \in Server : queue'[c] \in Seq(Message)
  BY DEF TypeOK
<1>2. QED
  BY <1>1

\* What is a number, before and after a step.
Numbers ==
  \A p \in Server :
    /\ currentTerm[p] \in Nat /\ Len(log[p]) \in Nat
    /\ DOMAIN log[p] = 1 .. Len(log[p])
    /\ commitIndex[p] \in Int /\ commitIndex[p] >= -1
    /\ lastApplied[p] \in Int /\ lastApplied[p] >= -1
    /\ \A q \in Server : matchIndex[p][q] \in Int /\ matchIndex[p][q] >= -1

\* These are, by their types.
LEMMA NumbersNow ==
  ASSUME TypeOK
  PROVE  Numbers
<1>1. SUFFICES ASSUME NEW p \in Server, NEW q \in Server
               PROVE  /\ currentTerm[p] \in Nat /\ Len(log[p]) \in Nat
                      /\ DOMAIN log[p] = 1 .. Len(log[p])
                      /\ commitIndex[p] \in Int /\ commitIndex[p] >= -1
                      /\ lastApplied[p] \in Int /\ lastApplied[p] >= -1
                      /\ matchIndex[p][q] \in Int /\ matchIndex[p][q] >= -1
  BY DEF Numbers
<1>2. log[p] \in Seq(Entry)
  BY DEF TypeOK
<1>3. /\ currentTerm[p] \in Nat
      /\ commitIndex[p] \in Nat \cup {-1} /\ lastApplied[p] \in Nat \cup {-1}
  BY DEF TypeOK
<1>4. matchIndex[p][q] \in Nat \cup {-1}
  BY DEF TypeOK
<1>5. \A i \in Nat \cup {-1} : i \in Int /\ i >= -1
  OBVIOUS
<1>6. QED
  BY <1>2, <1>3, <1>4, <1>5

\* These are after a step.
LEMMA NumbersNext ==
  ASSUME TypeOK'
  PROVE  Numbers'
  BY NumbersNow, PTL

\* No commit index goes back.
LEMMA CommitGrows ==
  ASSUME TypeOK, TypeOK', MatchingInv', CommitsHeld,
         \A p \in Server : Begins(log[p], log'[p]),
         NEW n \in Server, CommitStep(n), NEW p \in Server
  PROVE  commitIndex'[p] >= commitIndex[p]
<1>1. commitIndex[p] \in Int /\ commitIndex'[p] \in Int
  BY NumbersNow, NumbersNext DEF Numbers
<1>2. commitIndex[p] < Len(log[p]) /\ Len(log[p]) <= Len(log'[p])
  BY DEF CommitsHeld, Begins
<1>3. LastIndex(log'[p]) = Len(log'[p]) - 1
  BY LogsPlacedNext DEF LogsPlaced
<1>4. Len(log[p]) \in Nat /\ Len(log'[p]) \in Nat
  BY NumbersNow, NumbersNext DEF Numbers
<1>5. LastIndex(log'[p]) >= commitIndex[p]
  BY <1>1, <1>2, <1>3, <1>4
<1>6. CASE p # n \/ commitIndex'[n] = commitIndex[n]
  BY <1>1, <1>6 DEF CommitStep
<1>7. CASE p = n /\ commitIndex'[n] = Smaller(Head(queue[n]).leaderCommit,
                                              LastIndex(log'[n]))
            /\ Head(queue[n]).leaderCommit > commitIndex[n]
            /\ queue[n] # << >> /\ Head(queue[n]).type = "AppendEntries"
  <2>1. PICK i : i = Head(queue[n]).leaderCommit
    OBVIOUS
  <2>2. i \in Int
    <3>1. Head(queue[n]) \in Message
      BY <1>7, HeadType
    <3>2. QED
      BY <1>7, <2>1, <3>1
      DEF Message, VoteRequest, VoteResponse, AppendRequest, AppendResponse
  <2>3. commitIndex'[p] = i \/ commitIndex'[p] = LastIndex(log'[p])
    BY <1>7, <2>1 DEF Smaller
  <2>4. QED
    BY <1>1, <1>5, <1>7, <2>1, <2>2, <2>3
<1>8. CASE p = n /\ commitIndex'[n] > commitIndex[n]
  BY <1>1, <1>8
<1>9. QED
  BY <1>6, <1>7, <1>8 DEF CommitStep

-----------------------------------------------------------------------------
(* The invariant is inductive: one lemma for each of its parts.              *)

\* A vote is for a node that has reached its term, and about the log that the
\* candidate still has.
LEMMA PairVotes ==
  ASSUME TypeOK, TypeOK', VotesCurrent, VoteStep, NEW n \in Server,
         LogStep(n), PairStep(n)
  PROVE  VotesCurrent'
<1>1. \A p \in Server : currentTerm'[p] >= currentTerm[p]
  BY DEF VoteStep
<1>2. \A p \in Server : currentTerm[p] \in Nat /\ currentTerm'[p] \in Nat
  BY DEF TypeOK
<1>3. ASSUME NEW w \in Server, state'[w] # Follower
      PROVE  votedFor'[w] = w
  <2>1. CASE state[w] # Follower /\ currentTerm'[w] = currentTerm[w]
    <3>1. votedFor[w] = w
      BY <2>1 DEF VotesCurrent
    <3>2. QED
      BY <2>1, <3>1, NoVoteAssumption DEF VoteStep
  <2>2. QED
    BY <1>3, <2>1 DEF PairStep, RoleStep
<1>4. ASSUME NEW p \in Server, NEW w \in Server, votedFor'[p] = w
      PROVE  currentTerm'[p] <= currentTerm'[w]
  <2>1. CASE votedFor[p] = w /\ currentTerm'[p] = currentTerm[p]
    <3>1. currentTerm[p] <= currentTerm[w]
      BY <2>1 DEF VotesCurrent
    <3>2. QED
      BY <1>1, <1>2, <2>1, <3>1
  <2>2. CASE p = w
    BY <1>2, <2>2
  <2>3. CASE /\ queue[p] # << >> /\ Head(queue[p]).type = "RequestVote"
             /\ w = Head(queue[p]).src /\ currentTerm'[p] = Head(queue[p]).term
    <3>1. currentTerm'[p] <= currentTerm[w]
      BY <2>3, HeadQueued DEF VotesCurrent
    <3>2. QED
      BY <1>1, <1>2, <3>1
  <2>4. QED
    BY <1>4, <2>1, <2>2, <2>3 DEF PairStep, VoteGiven
<1>5. ASSUME NEW c \in Server, NEW k \in DOMAIN queue'[c], NEW m,
             m = queue'[c][k]
      PROVE  /\ m.type = "RequestVoteResponse" /\ m.voteGranted
                  => m.term <= currentTerm'[c]
             /\ m.type = "RequestVote" =>
                  /\ m.term <= currentTerm'[m.src]
                  /\ state'[m.src] = Candidate /\ currentTerm'[m.src] = m.term =>
                       /\ m.lastLogIndex = LastIndex(log'[m.src])
                       /\ m.lastLogTerm = LastTerm(log'[m.src])
  <2>1. CASE \E j \in DOMAIN queue[c] : m = queue[c][j]
    <3>1. PICK j \in DOMAIN queue[c] : m = queue[c][j]
      BY <2>1
    <3>2. m.src \in Server /\ m.term \in Nat
      BY <3>1, QueuedType
    <3>3. /\ m.type = "RequestVoteResponse" /\ m.voteGranted
               => m.term <= currentTerm[c]
          /\ m.type = "RequestVote" =>
               /\ m.term <= currentTerm[m.src]
               /\ state[m.src] = Candidate /\ currentTerm[m.src] = m.term =>
                    /\ m.lastLogIndex = LastIndex(log[m.src])
                    /\ m.lastLogTerm = LastTerm(log[m.src])
      BY <3>1 DEF VotesCurrent
    <3>4. PICK a \in Server : a = m.src
      BY <3>2
    <3>5. ASSUME m.type = "RequestVote", state'[a] = Candidate,
                 currentTerm'[a] = m.term
          PROVE  /\ state[a] = Candidate /\ currentTerm[a] = m.term
                 /\ log'[a] = log[a]
      <4>1. m.term <= currentTerm[a]
        BY <3>3, <3>4, <3>5
      <4>2. currentTerm[a] = m.term /\ currentTerm'[a] = currentTerm[a]
        BY <1>1, <1>2, <3>2, <3>5, <4>1
      <4>3. state[a] = Candidate
        BY <1>2, <3>5, <4>2 DEF PairStep, RoleStep, Candidate, Follower
      <4>4. log'[a] = log[a]
        BY <3>5, <4>3
        DEF LogStep, LogsStep, Appended, Merged, Leads, Candidate, Follower, Leader
      <4>5. QED
        BY <4>2, <4>3, <4>4
    <3>6. m.type = "RequestVote" => m.term <= currentTerm'[a]
      BY <1>1, <1>2, <3>2, <3>3, <3>4
    <3>7. m.type = "RequestVoteResponse" /\ m.voteGranted
            => m.term <= currentTerm'[c]
      BY <1>1, <1>2, <3>2, <3>3
    <3>8. QED
      BY <3>3, <3>4, <3>5, <3>6, <3>7
  <2>2. CASE Sent(n, c, m) /\ Tells(n, c, m)
    <3>1. m.type = "RequestVoteResponse" /\ m.voteGranted
            => m.term <= currentTerm'[c]
      BY <1>4, <2>2 DEF Tells
    <3>2. m.src = n
      BY <2>2 DEF Sent
    <3>3. QED
      BY <1>2, <2>2, <3>1, <3>2 DEF Tells
  <2>3. QED
    BY <1>5, <2>1, <2>2 DEF PairStep, LogStep, QueuesStep, TellStep
<1>6. QED
  BY <1>3, <1>4, <1>5 DEF VotesCurrent

\* A log goes on in the term of its leader, or as that of a leader.
LEMMA PairTerms ==
  ASSUME TypeOK, TypeOK', MatchingInv, VoteStep, PairInv, NEW n \in Server,
         LogStep(n)
  PROVE  TermsOrdered'
<1>1. \A p \in Server : /\ currentTerm[p] \in Nat /\ currentTerm'[p] \in Nat
                        /\ currentTerm'[p] >= currentTerm[p]
                        /\ log[p] \in Seq(Entry) /\ log'[p] \in Seq(Entry)
  BY DEF TypeOK, VoteStep
<1>2. \A p \in Server : \A k \in DOMAIN log[p] : log[p][k].term \in Nat
  <2>1. \A p \in Server : \A k \in DOMAIN log[p] : log[p][k] \in Entry
    BY <1>1
  <2>2. QED
    BY <2>1 DEF Entry
<1>3. /\ \A p \in Server : Begins(log[p], log'[p])
      /\ \A p \in Server : p = n \/ log'[p] = log[p]
      /\ log'[n] = log[n] \/ Appended(n) \/ MergedWithin(n)
  BY LogsGrow DEF PairInv
<1>4. ASSUME NEW p \in Server, NEW k \in DOMAIN log[p]
      PROVE  /\ log[p][k].term <= currentTerm[p]
             /\ log[p][k].term <= currentTerm'[p]
             /\ \A j \in 1 .. k : log[p][j].term <= log[p][k].term
  <2>1. /\ log[p][k].term <= currentTerm[p]
        /\ \A j \in 1 .. k : log[p][j].term <= log[p][k].term
    BY DEF PairInv, TermsOrdered
  <2>2. QED
    BY <1>1, <1>2, <2>1
<1>5. SUFFICES ASSUME NEW p \in Server, NEW k \in DOMAIN log'[p]
               PROVE  /\ log'[p][k].term <= currentTerm'[p]
                      /\ \A j \in 1 .. k : log'[p][j].term <= log'[p][k].term
  BY DEF TermsOrdered
<1>6. CASE log'[p] = log[p]
  BY <1>4, <1>6
<1>7. CASE p = n /\ Appended(n)
  <2>1. PICK e \in Entry : /\ e.term = currentTerm[n]
                           /\ log'[n] = Append(log[n], e)
    BY <1>7 DEF Appended
  <2>2. PICK lg \in Seq(Entry) : lg = log[n]
    BY <1>1
  <2>3. currentTerm'[n] = currentTerm[n]
    BY <1>7 DEF Appended, Leads
  <2>4. /\ k \in 1 .. Len(lg) + 1
        /\ \A j \in 1 .. Len(lg) : log'[n][j] = lg[j]
        /\ log'[n][Len(lg) + 1] = e
    BY <1>7, <2>1, <2>2
  <2>5. CASE k \in 1 .. Len(lg)
    <3>1. \A j \in 1 .. k : log'[n][j] = lg[j]
      BY <2>4, <2>5
    <3>2. k \in DOMAIN lg
      BY <2>5
    <3>3. QED
      BY <1>4, <1>7, <2>2, <2>4, <2>5, <3>1, <3>2
  <2>6. CASE k = Len(lg) + 1
    <3>1. log'[n][k].term = currentTerm[n]
      BY <2>1, <2>4, <2>6
    <3>2. ASSUME NEW j \in 1 .. k
          PROVE  log'[n][j].term <= currentTerm[n]
      <4>1. CASE j \in 1 .. Len(lg)
        BY <1>4, <2>2, <2>4, <4>1
      <4>2. CASE j = k
        BY <1>1, <3>1, <4>2
      <4>3. QED
        BY <2>2, <2>6, <4>1, <4>2
    <3>3. QED
      BY <1>1, <1>7, <2>3, <3>1, <3>2
  <2>7. QED
    BY <2>2, <2>4, <2>5, <2>6
<1>8. CASE p = n /\ MergedWithin(n)
  <2>1. PICK m : m = Head(queue[n])
    OBVIOUS
  <2>2. /\ Begins(log'[n], log[m.src]) /\ queue[n] # << >>
        /\ \A j \in DOMAIN log'[n] : j > Len(log[n]) => log'[n][j].term <= m.term
        /\ currentTerm'[n] = m.term
    BY <1>8, <2>1 DEF MergedWithin, Merged
  <2>3. m.src \in Server
    BY <2>1, <2>2, HeadQueued, QueuedType
  <2>4. PICK t \in Seq(Entry) : t = log[m.src]
    BY <1>1, <2>3
  <2>5. PICK lg \in Seq(Entry) : lg = log'[n]
    BY <1>1
  <2>6. k \in 1 .. Len(lg) /\ Len(lg) <= Len(t) /\ \A j \in 1 .. Len(lg) : lg[j] = t[j]
    BY <1>8, <2>2, <2>4, <2>5 DEF Begins
  <2>7. k \in DOMAIN t /\ \A j \in 1 .. k : t[j].term <= t[k].term
    <3>1. k \in DOMAIN t
      BY <2>6
    <3>2. QED
      BY <1>4, <2>3, <2>4, <3>1
  <2>8. \A j \in 1 .. k : lg[j].term <= lg[k].term
    BY <2>6, <2>7
  <2>9. lg[k].term <= currentTerm'[n]
    <3>1. CASE k > Len(log[n])
      BY <2>2, <2>5, <2>6, <3>1
    <3>2. CASE k <= Len(log[n])
      <4>1. k \in DOMAIN log[n]
        BY <1>1, <2>6, <3>2
      <4>2. lg[k] = log[n][k]
        BY <1>1, <1>3, <2>5, <2>6, <3>2 DEF Begins
      <4>3. QED
        BY <1>4, <4>1, <4>2
    <3>3. QED
      BY <1>1, <2>6, <3>1, <3>2
  <2>10. QED
    BY <1>8, <2>5, <2>8, <2>9
<1>9. QED
  BY <1>3, <1>6, <1>7, <1>8

\* Of two nodes one of whose logs begins the other, the one that grants the
\* other's request for a vote has the shorter log.
LEMMA UpToDateBegins ==
  ASSUME TypeOK, MatchingInv, TermsOrdered, NEW p \in Server, NEW x \in Server,
         Begins(log[p], log[x]) \/ Begins(log[x], log[p]), NEW m,
         m.lastLogIndex = LastIndex(log[x]), m.lastLogTerm = LastTerm(log[x]),
         UpToDate(log[p], m)
  PROVE  Begins(log[p], log[x])
<1>1. SUFFICES ASSUME Begins(log[x], log[p]) PROVE Begins(log[p], log[x])
  OBVIOUS
<1>2. PICK s \in Seq(Entry), t \in Seq(Entry) : s = log[x] /\ t = log[p]
  BY DEF TypeOK
<1>3. /\ Len(s) \in Nat /\ Len(t) \in Nat /\ Len(s) <= Len(t)
      /\ \A k \in 1 .. Len(s) : s[k] = t[k]
  BY <1>1, <1>2 DEF Begins
<1>4. CASE Len(t) <= Len(s)
  <2>1. Len(t) = Len(s)
    BY <1>3, <1>4
  <2>2. QED
    BY <1>2, <1>3, <2>1 DEF Begins
<1>5. CASE Len(s) < Len(t)
  <2>1. LastIndex(s) = Len(s) - 1 /\ LastIndex(t) = Len(t) - 1
    BY <1>2, LogsPlacedNow DEF LogsPlaced
  <2>2. LastTerm(s) \in Nat /\ LastTerm(t) \in Nat
    BY EntryIndexed, LastTermType DEF Entry
  <2>3. LastTerm(s) > LastTerm(t)
    BY <1>2, <1>3, <1>5, <2>1, <2>2 DEF UpToDate
  <2>4. s # << >>
    BY <2>2, <2>3 DEF LastTerm
  <2>5. Len(s) \in 1 .. Len(t) /\ Len(t) \in DOMAIN t /\ t[Len(s)] = s[Len(s)]
    BY <1>3, <2>4
  <2>6. t[Len(s)].term <= t[Len(t)].term
    BY <1>2, <2>5 DEF TermsOrdered
  <2>7. LastTerm(s) = s[Len(s)].term /\ LastTerm(t) = t[Len(t)].term
    BY <1>3, <1>5, <2>4 DEF LastTerm
  <2>8. QED
    BY <2>2, <2>3, <2>5, <2>6, <2>7
<1>6. QED
  BY <1>3, <1>4, <1>5

\* Of two logs one begins the other, as before, after every step.
LEMMA NestedKept ==
  ASSUME Everybody, TypeOK, TypeOK', ElectedInv, MatchingInv, PairInv,
         NEW n \in Server, LogStep(n), NEW b \in Server
  PROVE  Begins(log'[n], log'[b]) \/ Begins(log'[b], log'[n])
<1>1. /\ \A p \in Server : Begins(log[p], log'[p])
      /\ \A p \in Server : p = n \/ log'[p] = log[p]
      /\ log'[n] = log[n] \/ Appended(n) \/ MergedWithin(n)
  BY LogsGrow DEF PairInv
<1>2. \A p \in Server : log[p] \in Seq(Entry) /\ log'[p] \in Seq(Entry)
  BY DEF TypeOK
<1>3. PICK s \in Seq(Entry), u \in Seq(Entry), t \in Seq(Entry) :
        s = log[n] /\ u = log'[n] /\ t = log[b]
  BY <1>2
<1>4. CASE b = n
  BY <1>2, <1>4, BeginsReflexive
<1>5. CASE b # n /\ log'[n] = log[n]
  BY <1>1, <1>5 DEF PairInv, LogsNested
<1>6. CASE b # n /\ Appended(n)
  <2>1. state[n] = Leader
    BY <1>6 DEF Appended, Leads
  <2>2. Begins(t, s) /\ Begins(s, u)
    BY <1>1, <1>3, <2>1, LeaderHasAll DEF PairInv
  <2>3. Begins(t, u)
    BY <2>2, BeginsTransitive
  <2>4. QED
    BY <1>1, <1>3, <1>6, <2>3
<1>7. CASE b # n /\ MergedWithin(n)
  <2>1. PICK a \in Server : a = Head(queue[n]).src
    BY <1>7, HeadQueued, QueuedType DEF MergedWithin, Merged
  <2>2. PICK v \in Seq(Entry) : v = log[a]
    BY <1>2
  <2>3. Begins(u, v)
    BY <1>3, <1>7, <2>1, <2>2 DEF MergedWithin
  <2>4. Begins(v, t) \/ Begins(t, v)
    BY <1>3, <2>2 DEF PairInv, LogsNested
  <2>5. Begins(u, t) \/ Begins(t, u)
    BY <2>3, <2>4, BeginsTransitive, BeginningsNested
  <2>6. QED
    BY <1>1, <1>3, <1>7, <2>5
<1>8. QED
  BY <1>1, <1>4, <1>5, <1>6, <1>7

\* A candidate or leader that stays one keeps having all that its voters have.
LEMMA VotersBehind ==
  ASSUME Everybody, TypeOK, TypeOK', ElectedInv, MatchingInv, PairInv,
         NEW n \in Server, LogStep(n), NEW x \in Server, NEW p \in Server, p # x,
         state[x] # Follower, Voted(p, x, currentTerm[x])
  PROVE  Begins(log'[p], log'[x])
<1>1. /\ \A q \in Server : Begins(log[q], log'[q])
      /\ \A q \in Server : q = n \/ log'[q] = log[q]
      /\ log'[n] = log[n] \/ Appended(n) \/ MergedWithin(n)
  BY LogsGrow DEF PairInv
<1>2. \A q \in Server : /\ log[q] \in Seq(Entry) /\ log'[q] \in Seq(Entry)
                        /\ currentTerm[q] \in Nat
  BY DEF TypeOK
<1>3. Begins(log[p], log[x]) /\ votedFor[x] = x
  BY DEF PairInv, LogsNested, VotesCurrent
<1>4. /\ currentTerm[p] >= currentTerm[x]
      /\ currentTerm[p] = currentTerm[x] => votedFor[p] = x
  BY <1>2 DEF ElectedInv, VotesInv, VotesRemembered
<1>5. CASE log'[p] = log[p]
  <2>1. Begins(log[x], log'[x])
    BY <1>1
  <2>2. QED
    BY <1>2, <1>3, <1>5, <2>1, BeginsTransitive
<1>6. CASE p = n /\ Appended(n)
  <2>1. state[p] = Leader
    BY <1>6 DEF Appended, Leads
  <2>2. votedFor[p] = p
    BY <2>1 DEF PairInv, VotesCurrent, Follower, Leader
  <2>3. Voted(x, p, currentTerm[p])
    BY <2>1, LeaderHasAll DEF PairInv, Voted
  <2>4. currentTerm[x] >= currentTerm[p]
    BY <1>2, <2>3 DEF ElectedInv, VotesInv, VotesRemembered
  <2>5. currentTerm[p] = currentTerm[x]
    BY <1>2, <1>4, <2>4
  <2>6. QED
    BY <1>4, <2>2, <2>5
<1>7. CASE p = n /\ MergedWithin(n)
  <2>1. PICK m : m = Head(queue[n])
    OBVIOUS
  <2>2. /\ queue[n] # << >> /\ m.type = "AppendEntries" /\ ~Stale(n, m)
        /\ Begins(log'[n], log[m.src])
    BY <1>7, <2>1 DEF MergedWithin, Merged
  <2>3. m.src \in Server /\ m.term \in Nat /\ m.src # n /\ Led(m.src, m.term)
    BY <2>1, <2>2, HeadQueued, QueuedType DEF MatchingInv, Addressed
  <2>4. Backs(x, m.src, m.term)
    BY <2>3, LeaderBacked
  <2>5. m.term >= currentTerm[p] /\ currentTerm[x] >= m.term
    BY <1>2, <1>7, <2>2, <2>3, <2>4 DEF Stale, Backs
  <2>6. m.term = currentTerm[x]
    BY <1>2, <1>4, <2>3, <2>5
  <2>7. m.src = x
    BY <1>3, <2>4, <2>6 DEF Backs
  <2>8. log'[x] = log[x]
    BY <1>1, <1>7
  <2>9. QED
    BY <1>7, <2>2, <2>7, <2>8
<1>8. QED
  BY <1>1, <1>5, <1>6, <1>7

\* What a candidate or leader knows of votes after a step, it knew before, or
\* the voter has just found its log not to be longer, or it has voted for itself.
LEMMA NewVoteBehind ==
  ASSUME Everybody, TypeOK, TypeOK', ElectedInv, MatchingInv, PairInv,
         NEW n \in Server, PairStep(n), NEW x \in Server, NEW p \in Server,
         p # x, state'[x] # Follower, NEW t \in Nat, t = currentTerm'[x],
         Remembered(p, x, t)',
         ~(state[x] # Follower /\ t = currentTerm[x] /\ Voted(p, x, t))
  PROVE  Begins(log'[p], log'[x])
<1>1. votedFor'[p] = x /\ currentTerm'[p] = currentTerm'[x]
  BY DEF Remembered
<1>2. /\ currentTerm[x] \in Nat /\ currentTerm[p] \in Nat
      /\ currentTerm'[x] \in Nat
  BY DEF TypeOK
<1>3. \/ /\ state[x] # Follower /\ currentTerm'[x] = currentTerm[x]
      \/ currentTerm'[x] = currentTerm[x] + 1
  BY DEF PairStep, RoleStep
<1>4. CASE votedFor[p] = x /\ currentTerm'[p] = currentTerm[p]
  <2>1. currentTerm[p] <= currentTerm[x]
    BY <1>4 DEF PairInv, VotesCurrent
  <2>2. currentTerm'[x] = currentTerm[x] /\ state[x] # Follower
    BY <1>1, <1>2, <1>3, <1>4, <2>1
  <2>3. Voted(p, x, currentTerm[x])
    BY <1>1, <1>4, <2>2 DEF Voted, Remembered
  <2>4. QED
    BY <2>2, <2>3
<1>5. CASE /\ queue[p] # << >> /\ Head(queue[p]).type = "RequestVote"
           /\ x = Head(queue[p]).src /\ currentTerm'[p] = Head(queue[p]).term
           /\ UpToDate(log[p], Head(queue[p])) /\ UNCHANGED log
  <2>1. PICK m : m = Head(queue[p])
    OBVIOUS
  <2>2. /\ m.term <= currentTerm[x]
        /\ state[x] = Candidate /\ currentTerm[x] = m.term =>
             /\ m.lastLogIndex = LastIndex(log[x])
             /\ m.lastLogTerm = LastTerm(log[x])
    BY <1>5, <2>1, HeadQueued DEF PairInv, VotesCurrent
  <2>3. /\ currentTerm'[x] = currentTerm[x] /\ state[x] # Follower
        /\ currentTerm[x] = m.term
    BY <1>1, <1>2, <1>3, <1>5, <2>1, <2>2
  <2>4. state[x] # Leader
    BY <2>3, LeaderHasAll DEF PairInv, Voted
  <2>5. state[x] = Candidate
    BY <2>3, <2>4 DEF TypeOK
  <2>6. Begins(log[p], log[x]) \/ Begins(log[x], log[p])
    BY DEF PairInv, LogsNested
  <2>7. Begins(log[p], log[x])
    BY <1>5, <2>1, <2>2, <2>3, <2>5, <2>6, UpToDateBegins DEF PairInv
  <2>8. QED
    BY <1>5, <2>7
<1>6. QED
  BY <1>1, <1>4, <1>5 DEF PairStep, VoteGiven

\* Logs stay nested, and a candidate or leader has all that its voters have.
LEMMA PairNested ==
  ASSUME Everybody, TypeOK, TypeOK', ElectedInv, MatchingInv, PairInv, VoteStep,
         NEW n \in Server, LogStep(n), PairStep(n)
  PROVE  LogsNested'
<1>1. ASSUME NEW a \in Server, NEW b \in Server
      PROVE  Begins(log'[a], log'[b]) \/ Begins(log'[b], log'[a])
  <2>1. CASE a = n \/ b = n
    BY <2>1, NestedKept
  <2>2. CASE a # n /\ b # n
    BY <2>2 DEF LogStep, LogsStep, PairInv, LogsNested
  <2>3. QED
    BY <2>1, <2>2
<1>2. ASSUME NEW p \in Server, NEW x \in Server, state'[x] # Follower,
             Voted(p, x, currentTerm[x])'
      PROVE  Begins(log'[p], log'[x])
  <2>1. PICK t \in Nat : t = currentTerm'[x]
    BY DEF TypeOK
  <2>2. Voted(p, x, t) \/ Remembered(p, x, t)'
    <3>1. Counted(p, x, t)' \/ OnItsWay(p, x, t)' \/ Remembered(p, x, t)'
      BY <1>2, <2>1 DEF Voted, Counted, OnItsWay, Grants, Remembered
    <3>2. QED
      BY <3>1 DEF VoteStep
  <2>3. CASE p = x
    BY <2>3, BeginsReflexive DEF TypeOK
  <2>4. CASE p # x /\ state[x] # Follower /\ t = currentTerm[x] /\ Voted(p, x, t)
    BY <2>4, VotersBehind
  <2>5. CASE /\ p # x /\ Remembered(p, x, t)'
             /\ ~(state[x] # Follower /\ t = currentTerm[x] /\ Voted(p, x, t))
    BY <1>2, <2>1, <2>5, NewVoteBehind
  <2>6. CASE /\ Voted(p, x, t)
             /\ ~(state[x] # Follower /\ t = currentTerm[x])
    <3>1. t = currentTerm[x] + 1
      BY <1>2, <2>1, <2>6 DEF PairStep, RoleStep
    <3>2. currentTerm[x] \in Nat
      BY DEF TypeOK
    <3>3. CASE Counted(p, x, t)
      BY <3>1, <3>2, <3>3 DEF Counted
    <3>4. CASE OnItsWay(p, x, t)
      <4>1. t <= currentTerm[x]
        BY <3>4 DEF OnItsWay, Grants, PairInv, VotesCurrent
      <4>2. QED
        BY <3>1, <3>2, <4>1
    <3>5. CASE Remembered(p, x, t)
      <4>1. t <= currentTerm[x]
        BY <3>5 DEF Remembered, PairInv, VotesCurrent
      <4>2. QED
        BY <3>1, <3>2, <4>1
    <3>6. QED
      BY <2>6, <3>3, <3>4, <3>5 DEF Voted
  <2>7. QED
    BY <2>2, <2>3, <2>4, <2>5, <2>6
<1>3. QED
  BY <1>1, <1>2 DEF LogsNested

\* A request brings what its sender has, then and later.
LEMMA PairRequests ==
  ASSUME TypeOK, TypeOK', MatchingInv, MatchingInv', PairInv, TermsOrdered',
         NEW n \in Server, LogStep(n), PairStep(n)
  PROVE  RequestsHeld'
<1>1. \A p \in Server : Begins(log[p], log'[p])
  BY LogsGrow DEF PairInv
<1>2. \A p \in Server : commitIndex'[p] >= commitIndex[p]
  BY <1>1, CommitGrows DEF PairInv, PairStep
<1>3. Numbers /\ Numbers'
  BY NumbersNow, NumbersNext
<1>4. SUFFICES ASSUME NEW c \in Server, NEW k \in DOMAIN queue'[c], NEW m,
                      m = queue'[c][k], m.type = "AppendEntries"
               PROVE  /\ m.leaderCommit <= commitIndex'[m.src]
                      /\ \A i \in DOMAIN m.entries :
                           /\ m.prevLogIndex + 1 + i \in DOMAIN log'[m.src]
                           /\ log'[m.src][m.prevLogIndex + 1 + i] = m.entries[i]
                           /\ m.entries[i].term <= m.term
  BY DEF RequestsHeld
<1>5. m \in AppendRequest
  <2>1. m \in Message
    BY <1>4, QueuedNext
  <2>2. QED
    BY <1>4, <2>1
    DEF Message, VoteRequest, VoteResponse, AppendRequest, AppendResponse
<1>6. m.src \in Server /\ m.leaderCommit \in Int
  BY <1>5 DEF AppendRequest
<1>7. CASE \E j \in DOMAIN queue[c] : m = queue[c][j]
  <2>1. /\ m.leaderCommit <= commitIndex[m.src]
        /\ \A i \in DOMAIN m.entries :
             /\ m.prevLogIndex + 1 + i \in DOMAIN log[m.src]
             /\ log[m.src][m.prevLogIndex + 1 + i] = m.entries[i]
             /\ m.entries[i].term <= m.term
    BY <1>4, <1>7 DEF PairInv, RequestsHeld
  <2>2. m.leaderCommit <= commitIndex'[m.src]
    BY <1>2, <1>3, <1>6, <2>1 DEF Numbers
  <2>3. PICK s \in Seq(Entry), t \in Seq(Entry) : s = log[m.src] /\ t = log'[m.src]
    BY <1>6 DEF TypeOK
  <2>4. \A i \in DOMAIN s : i \in DOMAIN t /\ t[i] = s[i]
    <3>1. Begins(s, t)
      BY <1>1, <1>6, <2>3
    <3>2. /\ Len(s) \in Nat /\ Len(t) \in Nat
          /\ DOMAIN s = 1 .. Len(s) /\ DOMAIN t = 1 .. Len(t)
      BY <2>3
    <3>3. QED
      BY <3>1, <3>2 DEF Begins
  <2>5. QED
    BY <2>1, <2>2, <2>3, <2>4
<1>8. CASE Sent(n, c, m)
  <2>1. m.src = n /\ Leads(n)
    BY <1>4, <1>8 DEF Sent
  <2>2. PICK next \in Nat : m = AppendEntriesMsg(n, log'[n], next)
    BY <1>4, <1>8 DEF Sent
  <2>3. PICK lg \in Seq(Entry) : lg = log'[n]
    BY DEF TypeOK
  <2>4. /\ m.prevLogIndex = next - 1 /\ m.leaderCommit = commitIndex[n]
        /\ m.entries = SubSeq(lg, next + 1, Len(lg)) /\ m.term = currentTerm[n]
    BY <2>2, <2>3 DEF AppendEntriesMsg, EntriesFrom
  <2>5. m.leaderCommit <= commitIndex'[n]
    BY <1>2, <1>3, <2>4 DEF Numbers
  <2>6. ASSUME NEW i \in DOMAIN m.entries
        PROVE  /\ m.prevLogIndex + 1 + i \in DOMAIN lg
               /\ lg[m.prevLogIndex + 1 + i] = m.entries[i]
    <3>1. Len(lg) \in Nat
      BY <2>3
    <3>2. i \in 1 .. Len(lg) - next
      BY <2>4, <2>6, <3>1
    <3>3. m.prevLogIndex + 1 + i = next + i /\ next + i \in 1 .. Len(lg)
      BY <2>4, <3>1, <3>2
    <3>4. m.entries[i] = lg[next + i]
      BY <2>4, <3>1, <3>2
    <3>5. QED
      BY <3>1, <3>3, <3>4
  <2>7. \A i \in DOMAIN lg : lg[i].term <= currentTerm'[n]
    BY <2>3 DEF TermsOrdered
  <2>8. m.term = currentTerm'[n]
    BY <2>1, <2>4 DEF Leads
  <2>9. \A i \in DOMAIN m.entries : m.entries[i].term <= m.term
    BY <2>6, <2>7, <2>8
  <2>10. QED
    BY <2>1, <2>3, <2>5, <2>6, <2>9
<1>9. QED
  BY <1>4, <1>7, <1>8 DEF LogStep, QueuesStep

\* What a majority is recorded to hold, and what a leader has committed, is in
\* every log.
LEMMA PairCommits ==
  ASSUME Everybody, TypeOK, TypeOK', MatchingInv, MatchingInv', PairInv,
         NEW n \in Server, LogStep(n), PairStep(n)
  PROVE  CommitsHeld'
<1>1. \A p \in Server : Begins(log[p], log'[p])
  BY LogsGrow DEF PairInv
<1>2. Numbers /\ Numbers' /\ LogsPlaced'
  BY NumbersNow, NumbersNext, LogsPlacedNext
<1>3. \A p \in Server : Len(log[p]) <= Len(log'[p])
  BY <1>1 DEF Begins
<1>4. ASSUME NEW i \in Int, NEW p \in Server, i < Len(log[p])
      PROVE  i < Len(log'[p])
  BY <1>2, <1>3, <1>4 DEF Numbers
<1>5. ASSUME NEW i, NEW p \in Server, i = -1 \/ i = LastIndex(log'[p])
      PROVE  i < Len(log'[p])
  BY <1>2, <1>5 DEF Numbers, LogsPlaced
<1>6. ASSUME NEW c \in Server, NEW k \in DOMAIN queue[c], NEW m,
             m = queue[c][k], m.type = "AppendEntriesResponse"
      PROVE  /\ m.src \in Server /\ m.matchIndex \in Int
             /\ m.matchIndex < Len(log[m.src])
             /\ m.matchIndex < Len(log'[m.src])
  <2>1. m \in Message
    BY <1>6, QueuedType
  <2>2. m \in AppendResponse
    BY <1>6, <2>1
    DEF Message, VoteRequest, VoteResponse, AppendRequest, AppendResponse
  <2>3. m.src \in Server /\ m.matchIndex \in Int
    BY <2>2 DEF AppendResponse
  <2>4. m.matchIndex < Len(log[m.src])
    BY <1>6 DEF PairInv, CommitsHeld
  <2>5. QED
    BY <1>4, <2>3, <2>4
<1>7. ASSUME NEW w \in Server, NEW p \in Server
      PROVE  matchIndex'[w][p] < Len(log'[p])
  <2>1. CASE matchIndex'[w][p] = matchIndex[w][p]
    <3>1. matchIndex[w][p] < Len(log[p]) /\ matchIndex[w][p] \in Int
      BY <1>2 DEF PairInv, CommitsHeld, Numbers
    <3>2. QED
      BY <1>4, <2>1, <3>1
  <2>2. CASE matchIndex'[w][p] = -1 \/ matchIndex'[w][p] = LastIndex(log'[p])
    BY <1>5, <2>2
  <2>3. CASE /\ queue[w] # << >> /\ Head(queue[w]).type = "AppendEntriesResponse"
             /\ Head(queue[w]).src = p /\ matchIndex'[w][p] = Head(queue[w]).matchIndex
    BY <1>6, <2>3, HeadQueued
  <2>4. QED
    BY <2>1, <2>2, <2>3 DEF PairStep, MatchStep
<1>8. ASSUME NEW c \in Server, NEW k \in DOMAIN queue'[c], NEW m,
             m = queue'[c][k], m.type = "AppendEntriesResponse"
      PROVE  m.matchIndex < Len(log'[m.src])
  <2>1. CASE \E j \in DOMAIN queue[c] : m = queue[c][j]
    BY <1>6, <1>8, <2>1
  <2>2. CASE Sent(n, c, m) /\ Tells(n, c, m)
    BY <1>5, <1>8, <2>2 DEF Sent, Tells
  <2>3. QED
    BY <1>8, <2>1, <2>2 DEF PairStep, LogStep, QueuesStep, TellStep
<1>9. ASSUME NEW w \in Server, NEW p \in Server
      PROVE  commitIndex'[w] < Len(log'[p])
  <2>1. PICK i \in Int : i = commitIndex'[w]
    BY <1>2 DEF Numbers
  <2>2. CASE i = commitIndex[w]
    <3>1. i < Len(log[p])
      BY <2>2 DEF PairInv, CommitsHeld
    <3>2. QED
      BY <1>4, <2>1, <3>1
  <2>3. CASE LET m == Head(queue[n])
             IN  /\ queue[n] # << >> /\ m.type = "AppendEntries"
                 /\ i = Smaller(m.leaderCommit, LastIndex(log'[n]))
    <3>1. PICK m : m = Head(queue[n])
      OBVIOUS
    <3>2. m \in AppendRequest
      <4>1. m \in Message
        BY <2>3, <3>1, HeadType
      <4>2. QED
        BY <2>3, <3>1, <4>1
        DEF Message, VoteRequest, VoteResponse, AppendRequest, AppendResponse
    <3>3. m.src \in Server /\ m.leaderCommit \in Int
      BY <3>2 DEF AppendRequest
    <3>4. m.leaderCommit <= commitIndex[m.src] /\ commitIndex[m.src] < Len(log[p])
      BY <2>3, <3>1, <3>3, HeadQueued DEF PairInv, RequestsHeld, CommitsHeld
    <3>5. LastIndex(log'[n]) \in Int
      BY <1>2 DEF LogsPlaced, Numbers
    <3>6. i <= m.leaderCommit
      BY <2>3, <3>1, <3>3, <3>5 DEF Smaller
    <3>7. i < Len(log[p])
      BY <1>2, <3>3, <3>4, <3>6 DEF Numbers
    <3>8. QED
      BY <1>4, <2>1, <3>7
  <2>4. CASE /\ w = n /\ i <= LastIndex(log'[n])
             /\ IsMajority(1 + Cardinality({q \in Peers(n) : matchIndex'[n][q] >= i}))
    <3>1. PICK Q : Q = {q \in Peers(n) : matchIndex'[n][q] >= i}
      OBVIOUS
    <3>2. Q \subseteq Server /\ n \notin Q
      BY <3>1 DEF Peers
    <3>3. Cardinality(Q \cup {n}) = 1 + Cardinality(Q)
      <4>1. IsFiniteSet(Q)
        BY <3>2, ServerAssumption, FS_Subset
      <4>2. Cardinality(Q) \in Nat /\ Cardinality(Q \cup {n}) = Cardinality(Q) + 1
        BY <3>2, <4>1, FS_AddElement, FS_CardinalityType
      <4>3. QED
        BY <4>2
    <3>4. Q \cup {n} = Server
      BY <2>4, <3>1, <3>2, <3>3 DEF Everybody
    <3>5. CASE p = n
      BY <1>2, <2>1, <2>4, <3>5 DEF LogsPlaced, Numbers
    <3>6. CASE p # n
      <4>1. matchIndex'[n][p] >= i
        BY <3>1, <3>4, <3>6
      <4>2. QED
        BY <1>2, <1>7, <2>1, <2>4, <4>1 DEF Numbers
    <3>7. QED
      BY <3>5, <3>6
  <2>5. QED
    BY <2>1, <2>2, <2>3, <2>4 DEF PairStep, CommitStep
<1>10. QED
  BY <1>7, <1>8, <1>9 DEF CommitsHeld

\* The entries that are due are those of the log from the first not yet applied
\* to the last committed, and a machine is given their commands.
LEMMA AppliesCommitted ==
  ASSUME TypeOK, TypeOK', NEW n \in Server, NEW waiting \in SUBSET Entry,
         MaybeApplyCommitted(n, log'[n], commitIndex'[n], waiting),
         lastApplied[n] <= commitIndex'[n], commitIndex'[n] < Len(log'[n]),
         Len(applied[n]) = lastApplied[n] + 1
  PROVE  /\ lastApplied'[n] = commitIndex'[n]
         /\ Len(applied'[n]) = commitIndex'[n] + 1
         /\ \A k \in 1 .. Len(applied[n]) : applied'[n][k] = applied[n][k]
         /\ \A k \in Len(applied[n]) + 1 .. commitIndex'[n] + 1 :
              applied'[n][k] = log'[n][k].command
         /\ \A a \in answers' : a \in answers \/
              \E k \in Len(applied[n]) + 1 .. commitIndex'[n] + 1 :
                a[2] = log'[n][k]
         /\ \A p \in Server \ {n} : /\ lastApplied'[p] = lastApplied[p]
                                    /\ applied'[p] = applied[p]
<1>1. Numbers /\ Numbers'
  BY NumbersNow, NumbersNext
<1>2. PICK la \in Int, ci \in Int, lg \in Seq(Entry), ap \in Seq(Command) :
        la = lastApplied[n] /\ ci = commitIndex'[n] /\ lg = log'[n] /\ ap = applied[n]
  BY <1>1 DEF Numbers, TypeOK
<1>3. la >= -1 /\ la <= ci /\ ci < Len(lg) /\ Len(ap) = la + 1
  BY <1>1, <1>2 DEF Numbers
<1>4. PICK due : due = Due(n, log'[n], commitIndex'[n])
  OBVIOUS
<1>5. due = SubSeq(lg, la + 2, ci + 1)
  <2>1. Smaller(ci + 1, Len(lg)) = ci + 1
    BY <1>2, <1>3 DEF Smaller
  <2>2. QED
    BY <1>2, <1>4, <2>1 DEF Due
<1>6. /\ due \in Seq(Entry) /\ Len(due) = ci - la
      /\ \A k \in 1 .. ci - la : due[k] = lg[la + 1 + k]
  <2>1. la + 1 \in 0 .. Len(lg) /\ ci + 1 \in la + 1 .. Len(lg)
    BY <1>2, <1>3
  <2>2. /\ SubSeq(lg, (la + 1) + 1, ci + 1) \in Seq(Entry)
        /\ Len(SubSeq(lg, (la + 1) + 1, ci + 1)) = (ci + 1) - (la + 1)
        /\ \A k \in 1 .. (ci + 1) - (la + 1) :
             SubSeq(lg, (la + 1) + 1, ci + 1)[k] = lg[(la + 1) + k]
    BY <2>1, PartBehind
  <2>3. (la + 1) + 1 = la + 2 /\ (ci + 1) - (la + 1) = ci - la
    BY SMTT(60), <1>2
  <2>4. QED
    BY <1>5, <2>2, <2>3
<1>7. PICK cs : cs = [k \in DOMAIN due |-> due[k].command]
  OBVIOUS
<1>8. /\ cs \in Seq(Command) /\ Len(cs) = ci - la
      /\ \A k \in 1 .. ci - la : cs[k] = lg[la + 1 + k].command
  <2>1. DOMAIN due = 1 .. ci - la /\ \A k \in DOMAIN due : due[k] \in Entry
    BY <1>6
  <2>2. \A k \in DOMAIN due : due[k].command \in Command
    BY <2>1 DEF Entry
  <2>3. ci - la \in Nat
    BY <1>3
  <2>4. cs \in Seq(Command) /\ Len(cs) = ci - la
    <3>1. PICK d \in Nat : d = ci - la
      BY <2>3
    <3>2. cs \in [1 .. d -> Command]
      BY <1>7, <2>1, <2>2, <3>1
    <3>3. cs \in Seq(Command) /\ Len(cs) = d
      BY <3>2
    <3>4. QED
      BY <3>1, <3>3
  <2>5. QED
    BY <1>6, <1>7, <2>1, <2>4
<1>9. /\ lastApplied' = [lastApplied EXCEPT ![n] = Larger(@, ci)]
      /\ applied' = [applied EXCEPT ![n] = @ \o cs]
      /\ answers' = answers \cup
           {a \in waiting \X {due[k] : k \in DOMAIN due} : a[1].index = a[2].index}
  BY <1>2, <1>4, <1>7 DEF MaybeApplyCommitted
<1>10. lastApplied'[n] = ci
  <2>1. lastApplied'[n] = Larger(la, ci)
    BY <1>2, <1>9 DEF TypeOK
  <2>2. QED
    BY <1>2, <1>3, <2>1 DEF Larger
<1>11. \A p \in Server \ {n} : /\ lastApplied'[p] = lastApplied[p]
                               /\ applied'[p] = applied[p]
  BY <1>9 DEF TypeOK
<1>12. PICK ag : ag = applied'[n]
  OBVIOUS
<1>13. ag = ap \o cs
  BY <1>2, <1>9, <1>12 DEF TypeOK
<1>14. /\ Len(ag) = Len(ap) + Len(cs)
       /\ \A k \in 1 .. Len(ap) : ag[k] = ap[k]
       /\ \A k \in Len(ap) + 1 .. Len(ap) + Len(cs) : ag[k] = cs[k - Len(ap)]
  BY <1>8, <1>13, Joined
<1>15. Len(ag) = ci + 1
  BY <1>3, <1>8, <1>14
<1>16. ASSUME NEW k \in Len(ap) + 1 .. ci + 1
       PROVE  ag[k] = lg[k].command
  <2>1. k - Len(ap) \in 1 .. ci - la /\ la + 1 + (k - Len(ap)) = k
    BY <1>3
  <2>2. k \in Len(ap) + 1 .. Len(ap) + Len(cs)
    BY <1>3, <1>8
  <2>3. ag[k] = cs[k - Len(ap)]
    BY <1>14, <2>2
  <2>4. QED
    BY <1>8, <2>1, <2>3
<1>17. ASSUME NEW a \in answers', a \notin answers
       PROVE  \E k \in Len(ap) + 1 .. ci + 1 : a[2] = lg[k]
  <2>1. PICK k \in DOMAIN due : a[2] = due[k]
    BY <1>9, <1>17
  <2>2. k \in 1 .. ci - la
    BY <1>6, <2>1
  <2>3. la + 1 + k \in Len(ap) + 1 .. ci + 1
    BY <1>3, <2>2
  <2>4. QED
    BY <1>6, <2>1, <2>2, <2>3
<1>18. QED
  BY <1>2, <1>10, <1>11, <1>12, <1>14, <1>15, <1>16, <1>17

\* The machines are given the log in order, and answers are about what is in
\* every log.
LEMMA PairApplied ==
  ASSUME Everybody, TypeOK, TypeOK', MatchingInv, MatchingInv', PairInv,
         CommitsHeld', LogsNested', NEW n \in Server, LogStep(n), PairStep(n)
  PROVE  AppliedHeld'
<1>1. \A p \in Server : Begins(log[p], log'[p])
  BY LogsGrow DEF PairInv
<1>2. \A p \in Server : commitIndex'[p] >= commitIndex[p]
  BY <1>1, CommitGrows DEF PairInv, PairStep
<1>3. Numbers /\ Numbers'
  BY NumbersNow, NumbersNext
<1>4. ASSUME NEW p \in Server
      PROVE  /\ lastApplied[p] <= commitIndex[p] /\ lastApplied[p] <= commitIndex'[p]
             /\ Len(applied[p]) = lastApplied[p] + 1
             /\ applied[p] \in Seq(Command)
             /\ \A k \in 1 .. Len(applied[p]) : applied[p][k] = log'[p][k].command
  <2>1. /\ lastApplied[p] <= commitIndex[p]
        /\ Len(applied[p]) = lastApplied[p] + 1
        /\ \A k \in DOMAIN applied[p] : applied[p][k] = log[p][k].command
        /\ applied[p] \in Seq(Command)
    BY DEF PairInv, AppliedHeld, TypeOK
  <2>2. lastApplied[p] <= commitIndex'[p]
    BY <1>2, <1>3, <2>1 DEF Numbers
  <2>3. commitIndex[p] < Len(log[p])
    BY DEF PairInv, CommitsHeld
  <2>4. Len(applied[p]) <= Len(log[p])
    BY <1>3, <2>1, <2>3 DEF Numbers
  <2>5. \A k \in 1 .. Len(applied[p]) : log'[p][k] = log[p][k]
    BY <1>1, <1>3, <2>1, <2>4 DEF Begins, Numbers
  <2>6. QED
    BY <2>1, <2>2, <2>5
<1>5. ASSUME NEW a \in answers, NEW p \in Server
      PROVE  \E k \in DOMAIN log'[p] : log'[p][k] = a[2]
  <2>1. PICK k \in DOMAIN log[p] : log[p][k] = a[2]
    BY DEF PairInv, AppliedHeld
  <2>2. k \in DOMAIN log'[p] /\ log'[p][k] = log[p][k]
    <3>1. /\ Len(log[p]) \in Nat /\ Len(log'[p]) \in Nat
          /\ DOMAIN log[p] = 1 .. Len(log[p])
          /\ DOMAIN log'[p] = 1 .. Len(log'[p])
      BY <1>3 DEF Numbers
    <3>2. /\ Len(log[p]) <= Len(log'[p])
          /\ \A i \in 1 .. Len(log[p]) : log[p][i] = log'[p][i]
      BY <1>1 DEF Begins
    <3>3. k \in 1 .. Len(log[p]) /\ k \in 1 .. Len(log'[p])
      BY <2>1, <3>1, <3>2
    <3>4. QED
      BY <3>1, <3>2, <3>3
  <2>3. QED
    BY <2>1, <2>2
<1>6. CASE UNCHANGED <<lastApplied, applied, answers>>
  <2>1. ASSUME NEW p \in Server
        PROVE  /\ Len(applied'[p]) = lastApplied'[p] + 1
               /\ lastApplied'[p] <= commitIndex'[p]
               /\ \A k \in DOMAIN applied'[p] : applied'[p][k] = log'[p][k].command
    BY <1>4, <1>6
  <2>2. QED
    BY <1>5, <1>6, <2>1 DEF AppliedHeld
<1>7. ASSUME NEW waiting \in SUBSET Entry,
             MaybeApplyCommitted(n, log'[n], commitIndex'[n], waiting)
      PROVE  AppliedHeld'
  <2>1. commitIndex'[n] < Len(log'[n])
    BY DEF CommitsHeld
  <2>2. /\ lastApplied'[n] = commitIndex'[n]
        /\ Len(applied'[n]) = commitIndex'[n] + 1
        /\ \A k \in 1 .. Len(applied[n]) : applied'[n][k] = applied[n][k]
        /\ \A k \in Len(applied[n]) + 1 .. commitIndex'[n] + 1 :
             applied'[n][k] = log'[n][k].command
        /\ \A a \in answers' : a \in answers \/
             \E k \in Len(applied[n]) + 1 .. commitIndex'[n] + 1 :
               a[2] = log'[n][k]
        /\ \A p \in Server \ {n} : /\ lastApplied'[p] = lastApplied[p]
                                   /\ applied'[p] = applied[p]
    BY <1>4, <1>7, <2>1, AppliesCommitted
  <2>3. ASSUME NEW k \in DOMAIN applied'[n]
        PROVE  applied'[n][k] = log'[n][k].command
    <3>1. Len(applied[n]) \in Nat /\ k \in 1 .. commitIndex'[n] + 1
      BY <1>4, <2>2 DEF TypeOK
    <3>2. k \in 1 .. Len(applied[n]) \/ k \in Len(applied[n]) + 1 .. commitIndex'[n] + 1
      BY <1>3, <3>1 DEF Numbers
    <3>3. QED
      BY <1>4, <2>2, <3>2
  <2>4. ASSUME NEW p \in Server
        PROVE  /\ Len(applied'[p]) = lastApplied'[p] + 1
               /\ lastApplied'[p] <= commitIndex'[p]
               /\ \A k \in DOMAIN applied'[p] : applied'[p][k] = log'[p][k].command
    <3>1. CASE p = n
      BY <1>3, <2>2, <2>3, <3>1 DEF Numbers
    <3>2. CASE p # n
      BY <1>4, <2>2, <3>2
    <3>3. QED
      BY <3>1, <3>2
  <2>5. ASSUME NEW k \in Len(applied[n]) + 1 .. commitIndex'[n] + 1,
               NEW p \in Server
        PROVE  k \in DOMAIN log'[p] /\ log'[p][k] = log'[n][k]
    <3>1. commitIndex'[n] < Len(log'[p])
      BY DEF CommitsHeld
    <3>2. k \in Nat /\ k >= 1 /\ k <= Len(log'[n]) /\ k <= Len(log'[p])
      <4>1. Len(applied[n]) \in Nat
        BY <1>4
      <4>2. /\ commitIndex'[n] \in Int /\ Len(log'[n]) \in Nat
            /\ Len(log'[p]) \in Nat
        BY <1>3 DEF Numbers
      <4>3. k \in Nat /\ k >= 1 /\ k <= commitIndex'[n] + 1
        BY <4>1, <4>2
      <4>4. QED
        BY <2>1, <3>1, <4>2, <4>3
    <3>3. Begins(log'[n], log'[p]) \/ Begins(log'[p], log'[n])
      BY DEF LogsNested
    <3>4. QED
      BY <1>3, <3>2, <3>3 DEF Begins, Numbers
  <2>6. ASSUME NEW a \in answers', NEW p \in Server
        PROVE  \E k \in DOMAIN log'[p] : log'[p][k] = a[2]
    BY <1>5, <2>2, <2>5
  <2>7. QED
    BY <2>4, <2>6 DEF AppliedHeld
<1>8. QED
  BY <1>6, <1>7 DEF PairStep, ApplyStep

-----------------------------------------------------------------------------
(* The theorems, for a cluster of one or two nodes.                          *)

\* The whole inductive invariant.
PairSound == TypeOK /\ ElectedInv /\ MatchingInv /\ PairInv

\* The invariant is inductive where a majority is everybody.
LEMMA PairStepKeeps ==
  ASSUME Everybody, Server # {}, PairSound, [Next]_vars
  PROVE  PairSound'
<1>1. TypeOK /\ ElectedInv /\ MatchingInv /\ PairInv
  BY DEF PairSound
<1>2. TypeOK' /\ ElectedInv' /\ MatchingInv'
  BY <1>1, TypeStep, ElectedStep, MatchingStep
<1>3. VoteStep
  BY <1>1, VotesOfStep
<1>4. PICK n \in Server : LogStep(n) /\ PairStep(n)
  BY <1>1, PairStepOfStep
<1>5. VotesCurrent'
  BY <1>1, <1>2, <1>3, <1>4, PairVotes DEF PairInv
<1>6. TermsOrdered'
  BY <1>1, <1>2, <1>3, <1>4, PairTerms
<1>7. LogsNested'
  BY <1>1, <1>2, <1>3, <1>4, PairNested
<1>8. RequestsHeld'
  BY <1>1, <1>2, <1>4, <1>6, PairRequests
<1>9. CommitsHeld'
  BY <1>1, <1>2, <1>4, PairCommits
<1>10. AppliedHeld'
  BY <1>1, <1>2, <1>4, <1>7, <1>9, PairApplied
<1>11. QED
  BY <1>2, <1>5, <1>6, <1>7, <1>8, <1>9, <1>10 DEF PairInv, PairSound

\* In a new cluster all logs are empty and nothing is under way.
LEMMA PairInit ==
  ASSUME Init
  PROVE  PairSound
<1>1. TypeOK /\ ElectedInv /\ MatchingInv
  BY TypeInit, ElectedInit, MatchingInit
<1>2. \A p \in Server :
        /\ state[p] = Follower /\ votedFor[p] = NoVote /\ log[p] = << >>
        /\ commitIndex[p] = -1 /\ lastApplied[p] = -1 /\ queue[p] = << >>
        /\ applied[p] = << >> /\ \A q \in Server : matchIndex[p][q] = -1
  BY DEF Init
<1>3. VotesCurrent
  BY <1>2, NoVoteAssumption DEF VotesCurrent
<1>4. TermsOrdered
  BY <1>2 DEF TermsOrdered
<1>5. LogsNested
  BY <1>2 DEF LogsNested, Begins
<1>6. RequestsHeld
  BY <1>2 DEF RequestsHeld
<1>7. CommitsHeld
  BY <1>2 DEF CommitsHeld
<1>8. AppliedHeld
  <2>1. answers = {}
    BY DEF Init
  <2>2. QED
    BY <1>2, <2>1 DEF AppliedHeld
<1>9. QED
  BY <1>1, <1>3, <1>4, <1>5, <1>6, <1>7, <1>8 DEF PairInv, PairSound

\* In a cluster of one or two nodes no log is ever cut, a leader has all that
\* anybody has, and what is committed, recorded, applied or answered is in every
\* log: for any commands, elections and order of messages.
THEOREM PairCorrect ==
  ASSUME Cardinality(Server) \in {1, 2}
  PROVE  Spec => []PairInv
<1>1. Everybody /\ Server # {}
  BY PairMajority, FS_EmptySet
<1>2. Init => PairSound
  BY PairInit
<1>3. PairSound /\ [Next]_vars => PairSound'
  BY <1>1, PairStepKeeps
<1>4. PairSound => PairInv
  BY DEF PairSound
<1>5. QED
  BY <1>2, <1>3, <1>4, PTL DEF Spec
=============================================================================
