----------------------------- MODULE RaftProofs -----------------------------
(***************************************************************************)
(* Proofs about Raft for every number of nodes, every set of commands and  *)
(* every bound.                                                            *)
(***************************************************************************)
EXTENDS RaftProperties, RaftLogProofs

-----------------------------------------------------------------------------
(* Types: every handler keeps them.                                         *)

\* The entries of the cluster's logs carry a term and an index.
LEMMA EntryIndexed == Indexed(Entry)
  BY DEF Indexed, Entry

\* The request _send_append_entries builds is a message.
LEMMA AppendEntriesMsgType ==
  ASSUME TypeOK, NEW n \in Server, NEW lg \in Seq(Entry), NEW next \in Nat
  PROVE  AppendEntriesMsg(n, lg, next) \in Message
<1>1. TermAt(lg, next - 1) \in Nat
  BY EntryIndexed, TermAtType
<1>2. EntriesFrom(lg, next) \in Seq(Entry)
  BY EntriesFromType
<1>3. QED
  BY <1>1, <1>2 DEF AppendEntriesMsg, Message, AppendRequest, TypeOK

\* The oldest message of a queue is a message.
LEMMA HeadType ==
  ASSUME TypeOK, NEW n \in Server, queue[n] # << >>
  PROVE  Head(queue[n]) \in Message /\ Tail(queue[n]) \in Seq(Message)
  BY DEF TypeOK

\* Queues stay queues when a message is answered.
LEMMA ReplyType ==
  ASSUME TypeOK, NEW n \in Server, NEW p \in Server, NEW r \in Message,
         queue[n] # << >>, Reply(n, p, r)
  PROVE  queue' \in [Server -> Seq(Message)]
<1>1. Tail(queue[n]) \in Seq(Message)
  BY HeadType
<1>2. Append(queue[p], r) \in Seq(Message)
  BY DEF TypeOK
<1>3. QED
  BY <1>1, <1>2 DEF TypeOK, Reply

\* Queues stay queues when a message is taken.
LEMMA ConsumeType ==
  ASSUME TypeOK, NEW n \in Server, queue[n] # << >>, Consume(n)
  PROVE  queue' \in [Server -> Seq(Message)]
  BY DEF TypeOK, Consume

\* A new leader's view of its peers has the right type (_become_leader).
LEMMA BecomeLeaderType ==
  ASSUME TypeOK, NEW n \in Server, BecomeLeader(n)
  PROVE  /\ state' \in [Server -> {Follower, Candidate, Leader}]
         /\ nextIndex' \in [Server -> [Server -> Nat]]
         /\ matchIndex' \in [Server -> [Server -> Nat \cup {-1}]]
<1>1. LastIndex(log[n]) + 1 \in Nat
  <2>1. log[n] \in Seq(Entry)
    BY DEF TypeOK
  <2>2. QED
    BY <2>1, EntryIndexed, LastIndexType
<1>2. state' \in [Server -> {Follower, Candidate, Leader}]
  BY DEF BecomeLeader, TypeOK
<1>3. nextIndex' \in [Server -> [Server -> Nat]]
  BY <1>1 DEF BecomeLeader, TypeOK
<1>4. matchIndex' \in [Server -> [Server -> Nat \cup {-1}]]
  BY DEF BecomeLeader, TypeOK
<1>5. QED
  BY <1>2, <1>3, <1>4

\* Standing for election keeps the types (_start_election).
LEMMA StartElectionType ==
  ASSUME TypeOK, NEW n \in Server, StartElection(n)
  PROVE  TypeOK'
<1> DEFINE request == [type |-> "RequestVote", src |-> n,
                       term |-> currentTerm[n] + 1,
                       lastLogIndex |-> LastIndex(log[n]),
                       lastLogTerm |-> LastTerm(log[n])]
<1>1. request \in Message
  <2>1. LastIndex(log[n]) \in Int /\ LastTerm(log[n]) \in Nat
    BY EntryIndexed, LastIndexType, LastTermType DEF TypeOK
  <2>2. QED
    BY <2>1 DEF Message, VoteRequest, TypeOK
<1>2. queue' \in [Server -> Seq(Message)]
  <2>1. queue' = [p \in Server |-> IF p = n THEN queue[p]
                                   ELSE Append(queue[p], request)]
    BY DEF StartElection, ToPeers, Peers
  <2> HIDE DEF request
  <2>2. QED
    BY <1>1, <2>1 DEF TypeOK
<1>3. /\ state' \in [Server -> {Follower, Candidate, Leader}]
      /\ nextIndex' \in [Server -> [Server -> Nat]]
      /\ matchIndex' \in [Server -> [Server -> Nat \cup {-1}]]
  <2>1. CASE BecomeLeader(n)
    BY <2>1, BecomeLeaderType
  <2>2. CASE state' = [state EXCEPT ![n] = Candidate] /\ UNCHANGED leaderVars
    BY <2>2 DEF TypeOK, leaderVars
  <2>3. QED
    BY <2>1, <2>2 DEF StartElection
<1>4. /\ currentTerm' \in [Server -> Nat]
      /\ votedFor' \in [Server -> Server \cup {NoVote}]
      /\ votesReceived' \in [Server -> SUBSET Server]
  <2>1. /\ currentTerm' = [currentTerm EXCEPT ![n] = @ + 1]
        /\ votedFor' = [votedFor EXCEPT ![n] = n]
        /\ votesReceived' = [votesReceived EXCEPT ![n] = {n}]
    BY DEF StartElection
  <2>2. QED
    BY <2>1 DEF TypeOK
<1>5. UNCHANGED <<running, log, commitIndex, applyVars, submitted>>
  BY DEF StartElection
<1>6. QED
  BY <1>2, <1>3, <1>4, <1>5 DEF TypeOK, applyVars

\* Deciding on a vote keeps the types (_handle_request_vote).
LEMMA HandleRequestVoteType ==
  ASSUME TypeOK, NEW n \in Server, queue[n] # << >>,
         NEW m \in VoteRequest, HandleRequestVote(n, m)
  PROVE  TypeOK'
<1> DEFINE newer   == m.term > currentTerm[n]
           term    == Larger(m.term, currentTerm[n])
           vote    == IF newer THEN NoVote ELSE votedFor[n]
           granted == m.term = term /\ CanVote(vote, m) /\ UpToDate(log[n], m)
           r       == [type |-> "RequestVoteResponse", src |-> n,
                       term |-> term, voteGranted |-> granted]
<1>1. m.src \in Server /\ m.term \in Nat
  BY DEF VoteRequest
<1>2. term \in Nat /\ vote \in Server \cup {NoVote} /\ granted \in BOOLEAN
  BY <1>1 DEF TypeOK, Larger
<1>3. /\ currentTerm' = [currentTerm EXCEPT ![n] = term]
      /\ state' = [state EXCEPT ![n] = IF newer THEN Follower ELSE @]
      /\ votedFor' = [votedFor EXCEPT ![n] = IF granted THEN m.src ELSE vote]
      /\ Reply(n, m.src, r)
      /\ UNCHANGED <<running, votesReceived, log, commitIndex, leaderVars,
                     applyVars, submitted>>
  BY DEF HandleRequestVote
<1> HIDE DEF newer, term, vote, granted
<1>4. r \in Message
  BY <1>2 DEF Message, VoteResponse
<1>5. queue' \in [Server -> Seq(Message)]
  <2> HIDE DEF r
  <2> QED  BY <1>1, <1>3, <1>4, ReplyType
<1>6. /\ currentTerm' \in [Server -> Nat]
      /\ state' \in [Server -> {Follower, Candidate, Leader}]
      /\ votedFor' \in [Server -> Server \cup {NoVote}]
  BY <1>1, <1>2, <1>3 DEF TypeOK
<1>7. QED
  BY <1>3, <1>5, <1>6 DEF TypeOK, leaderVars, applyVars

\* Giving in to a newer term keeps the types.
LEMMA StepDownType ==
  ASSUME TypeOK, NEW n \in Server, queue[n] # << >>,
         NEW m \in Message, StepDown(n, m)
  PROVE  TypeOK'
<1>1. m.term \in Nat
  BY DEF Message, VoteRequest, VoteResponse, AppendRequest, AppendResponse
<1>2. queue' \in [Server -> Seq(Message)]
  BY ConsumeType DEF StepDown
<1>3. /\ currentTerm' \in [Server -> Nat]
      /\ state' \in [Server -> {Follower, Candidate, Leader}]
      /\ votedFor' \in [Server -> Server \cup {NoVote}]
  BY <1>1 DEF StepDown, TypeOK
<1>4. QED
  BY <1>2, <1>3 DEF StepDown, TypeOK, leaderVars, applyVars

\* Dropping a response keeps the types.
LEMMA IgnoreType ==
  ASSUME TypeOK, NEW n \in Server, queue[n] # << >>,
         NEW m, NEW role, Ignore(n, m, role)
  PROVE  TypeOK'
<1>1. queue' \in [Server -> Seq(Message)]
  BY ConsumeType DEF Ignore
<1>2. QED
  BY <1>1 DEF Ignore, TypeOK, electionVars, leaderVars, applyVars

\* Counting a vote keeps the types (_handle_request_vote_response).
LEMMA CountVoteType ==
  ASSUME TypeOK, NEW n \in Server, queue[n] # << >>,
         NEW m \in VoteResponse, CountVote(n, m)
  PROVE  TypeOK'
<1> DEFINE votes == votesReceived[n]
                      \cup (IF m.voteGranted THEN {m.src} ELSE {})
<1>1. votes \in SUBSET Server
  BY DEF TypeOK, VoteResponse
<1>2. votesReceived' = [votesReceived EXCEPT ![n] = votes]
  BY DEF CountVote
<1>3. votesReceived' \in [Server -> SUBSET Server]
  <2> HIDE DEF votes
  <2> QED  BY <1>1, <1>2 DEF TypeOK
<1>4. queue' \in [Server -> Seq(Message)]
  BY ConsumeType DEF CountVote
<1>5. /\ state' \in [Server -> {Follower, Candidate, Leader}]
      /\ nextIndex' \in [Server -> [Server -> Nat]]
      /\ matchIndex' \in [Server -> [Server -> Nat \cup {-1}]]
  <2>1. CASE BecomeLeader(n)
    BY <2>1, BecomeLeaderType
  <2>2. CASE UNCHANGED <<state, leaderVars>>
    BY <2>2 DEF TypeOK, leaderVars
  <2>3. QED
    BY <2>1, <2>2 DEF CountVote
<1>6. UNCHANGED <<running, currentTerm, votedFor, log, commitIndex, applyVars,
                  submitted>>
  BY DEF CountVote
<1>7. QED
  BY <1>3, <1>4, <1>5, <1>6 DEF TypeOK, applyVars

\* A round of heartbeats keeps the types (_send_heartbeats).
LEMMA SendHeartbeatsType ==
  ASSUME TypeOK, NEW n \in Server, SendHeartbeats(n)
  PROVE  TypeOK'
<1>1. queue' = [p \in Server |-> IF p = n THEN queue[p] ELSE
                 Append(queue[p], AppendEntriesMsg(n, log[n], nextIndex[n][p]))]
  BY DEF SendHeartbeats, ToPeers, Peers
<1>2. \A p \in Server : AppendEntriesMsg(n, log[n], nextIndex[n][p]) \in Message
  BY AppendEntriesMsgType DEF TypeOK
<1>3. queue' \in [Server -> Seq(Message)]
  BY <1>1, <1>2 DEF TypeOK
<1>4. QED
  BY <1>3 DEF SendHeartbeats, TypeOK, electionVars, leaderVars, applyVars

\* An answer to an AppendEntries request is a message.
LEMMA AppendResultType ==
  ASSUME NEW n \in Server, NEW t \in Nat, NEW ok \in BOOLEAN,
         NEW i \in Nat \cup {-1}
  PROVE  AppendResult(n, t, ok, i) \in Message
  BY DEF AppendResult, Message, AppendResponse

\* Rejecting, or merging what a leader sends, keeps the types
\* (_handle_append_entries).
LEMMA HandleAppendEntriesType ==
  ASSUME TypeOK, NEW n \in Server, queue[n] # << >>,
         NEW m \in AppendRequest, HandleAppendEntries(n, m)
  PROVE  TypeOK'
<1>1. /\ m.src \in Server /\ m.term \in Nat /\ m.entries \in Seq(Entry)
      /\ m.leaderCommit \in Int
  BY DEF AppendRequest
<1>2. CASE RejectStaleLeader(n, m)
  <2>1. AppendResult(n, currentTerm[n], FALSE, -1) \in Message
    BY AppendResultType DEF TypeOK
  <2>2. queue' \in [Server -> Seq(Message)]
    BY <1>1, <1>2, <2>1, ReplyType DEF RejectStaleLeader
  <2>3. QED
    BY <1>2, <2>2
    DEF RejectStaleLeader, TypeOK, electionVars, leaderVars, applyVars
<1>3. CASE FollowLeader(n, m)
  <2> DEFINE merged == MergeEntries(log[n], m.entries)
             last   == LastIndex(merged)
             next   == IF m.leaderCommit > commitIndex[n]
                       THEN Smaller(m.leaderCommit, last) ELSE commitIndex[n]
  <2>1. merged \in Seq(Entry)
    BY <1>1, EntryIndexed, MergeEntriesType DEF TypeOK
  <2>2. last \in Nat \cup {-1}
    <3> HIDE DEF merged
    <3> QED  BY <2>1, EntryIndexed, LastIndexType
  <2>3. /\ currentTerm' = [currentTerm EXCEPT ![n] = m.term]
        /\ state' = [state EXCEPT ![n] = Follower]
        /\ votedFor' = [votedFor EXCEPT ![n] =
             IF m.term > currentTerm[n] THEN NoVote ELSE @]
        /\ UNCHANGED <<running, votesReceived, leaderVars, applyVars, submitted>>
    BY <1>3 DEF FollowLeader
  <2>4. \/ /\ Reply(n, m.src, AppendResult(n, m.term, FALSE, -1))
           /\ UNCHANGED <<log, commitIndex>>
        \/ /\ Reply(n, m.src, AppendResult(n, m.term, TRUE, last))
           /\ log' = [log EXCEPT ![n] = merged]
           /\ commitIndex' = [commitIndex EXCEPT ![n] = next]
    BY <1>3 DEF FollowLeader
  <2> HIDE DEF merged, last
  <2>5. next \in Nat \cup {-1}
    <3>1. commitIndex[n] \in Nat \cup {-1}
      BY DEF TypeOK
    <3>2. QED
      BY <1>1, <2>2, <3>1 DEF Smaller
  <2> HIDE DEF next
  <2>6. queue' \in [Server -> Seq(Message)]
    <3>1. /\ AppendResult(n, m.term, FALSE, -1) \in Message
          /\ AppendResult(n, m.term, TRUE, last) \in Message
      BY <1>1, <2>2, AppendResultType
    <3>2. QED
      BY <1>1, <2>4, <3>1, ReplyType
  <2>7. log' \in [Server -> Seq(Entry)]
    BY ZenonT(60), <2>1, <2>4 DEF TypeOK
  <2>8. commitIndex' \in [Server -> Nat \cup {-1}]
    BY ZenonT(60), <2>4, <2>5 DEF TypeOK
  <2>9. /\ currentTerm' \in [Server -> Nat]
        /\ state' \in [Server -> {Follower, Candidate, Leader}]
        /\ votedFor' \in [Server -> Server \cup {NoVote}]
    BY <1>1, <2>3 DEF TypeOK
  <2>10. QED
    BY <2>3, <2>6, <2>7, <2>8, <2>9 DEF TypeOK, leaderVars, applyVars
<1>4. QED
  BY <1>2, <1>3 DEF HandleAppendEntries

\* Whatever match indices are looked at, the commit index stays an index.
LEMMA AdvancedCommitType ==
  ASSUME TypeOK, NEW n \in Server, NEW lg \in Seq(Entry), NEW match
  PROVE  AdvancedCommit(n, lg, match) \in Nat \cup {-1}
<1> DEFINE S == Committable(n, lg, match)
<1>1. commitIndex[n] \in Nat \cup {-1} /\ LastIndex(lg) \in Int
  BY EntryIndexed, LastIndexType DEF TypeOK
<1>2. S \subseteq commitIndex[n] + 1 .. LastIndex(lg)
  BY DEF Committable
<1>3. S \in SUBSET Nat /\ IsFiniteSet(S)
  <2> DEFINE a == commitIndex[n] + 1
             b == LastIndex(lg)
  <2>1. a \in Nat /\ b \in Int /\ S \subseteq a .. b
    BY <1>1, <1>2
  <2> HIDE DEF S, a, b
  <2>2. IsFiniteSet(a .. b)
    BY <2>1, FS_Interval
  <2>3. IsFiniteSet(S)
    BY <2>1, <2>2, FS_Subset
  <2>4. S \in SUBSET Nat
    BY <2>1
  <2>5. QED
    BY <2>3, <2>4
<1>4. CASE S = {}
  BY <1>1, <1>4 DEF AdvancedCommit
<1>5. CASE S # {}
  <2> HIDE DEF S
  <2>1. \E i \in S : \A j \in S : j <= i
    BY <1>3, <1>5, GreatestExists
  <2>2. (CHOOSE i \in S : \A j \in S : j <= i) \in S
    BY <2>1
  <2>3. AdvancedCommit(n, lg, match) = CHOOSE i \in S : \A j \in S : j <= i
    BY <1>5 DEF AdvancedCommit, S
  <2>4. QED
    BY <1>3, <2>2, <2>3
<1>6. QED
  BY <1>4, <1>5

\* Learning how far a peer's log matches keeps the types; the next index never
\* passes the first entry (_handle_append_entries_response).
LEMMA HandleAppendEntriesResponseType ==
  ASSUME TypeOK, NEW n \in Server, queue[n] # << >>,
         NEW m \in AppendResponse, HandleAppendEntriesResponse(n, m)
  PROVE  TypeOK'
<1>1. m.src \in Server /\ m.matchIndex \in Int /\ m \in Message
  BY DEF AppendResponse, Message
<1>2. CASE StepDown(n, m)
  BY <1>1, <1>2, StepDownType
<1>3. CASE Ignore(n, m, Leader)
  BY <1>3, IgnoreType
<1>4. CASE /\ AcceptMatch(n, m)
           /\ UNCHANGED <<running, electionVars, log, applyVars, submitted>>
  <2> DEFINE match == Larger(matchIndex[n][m.src], m.matchIndex)
  <2>1. match \in Nat \cup {-1}
    <3>1. matchIndex[n][m.src] \in Nat \cup {-1}
      BY <1>1 DEF TypeOK
    <3>2. QED
      BY <1>1, <3>1 DEF Larger
  <2>2. /\ matchIndex' = [matchIndex EXCEPT ![n][m.src] = match]
        /\ nextIndex' = [nextIndex EXCEPT ![n][m.src] = match + 1]
        /\ commitIndex' = [commitIndex EXCEPT ![n] =
             AdvancedCommit(n, log[n], matchIndex'[n])]
        /\ Consume(n)
    BY <1>4 DEF AcceptMatch
  <2> HIDE DEF match
  <2>3. matchIndex' \in [Server -> [Server -> Nat \cup {-1}]]
    BY <1>1, <2>1, <2>2 DEF TypeOK
  <2>4. nextIndex' \in [Server -> [Server -> Nat]]
    BY SMTT(60), <1>1, <2>1, <2>2 DEF TypeOK
  <2>5. AdvancedCommit(n, log[n], matchIndex'[n]) \in Nat \cup {-1}
    BY AdvancedCommitType DEF TypeOK
  <2>6. commitIndex' \in [Server -> Nat \cup {-1}]
    BY <2>2, <2>5 DEF TypeOK
  <2>7. queue' \in [Server -> Seq(Message)]
    BY <2>2, ConsumeType
  <2>8. QED
    BY <1>4, <2>3, <2>4, <2>6, <2>7 DEF TypeOK, electionVars, applyVars
<1>5. CASE /\ RetryEarlier(n, m)
           /\ UNCHANGED <<running, electionVars, log, applyVars, submitted>>
  <2> DEFINE next == EarlierIndex(nextIndex[n][m.src])
  <2>1. next \in Nat
    BY SMTT(60), <1>1 DEF TypeOK, EarlierIndex, Larger
  <2>2. /\ nextIndex' = [nextIndex EXCEPT ![n][m.src] = next]
        /\ Reply(n, m.src, AppendEntriesMsg(n, log[n], next))
        /\ UNCHANGED <<matchIndex, commitIndex>>
    BY <1>5 DEF RetryEarlier
  <2> HIDE DEF next
  <2>3. nextIndex' \in [Server -> [Server -> Nat]]
    BY <1>1, <2>1, <2>2 DEF TypeOK
  <2>4. AppendEntriesMsg(n, log[n], next) \in Message
    BY <2>1, AppendEntriesMsgType DEF TypeOK
  <2>5. queue' \in [Server -> Seq(Message)]
    BY <1>1, <2>2, <2>4, ReplyType
  <2>6. QED
    BY <1>5, <2>2, <2>3, <2>5 DEF TypeOK, electionVars, applyVars
<1>6. QED
  BY <1>2, <1>3, <1>4, <1>5 DEF HandleAppendEntriesResponse

\* Applying what is due keeps the types (_maybe_apply_committed).
LEMMA MaybeApplyCommittedType ==
  ASSUME TypeOK, NEW n \in Server, NEW lg \in Seq(Entry),
         NEW commit \in Nat \cup {-1}, NEW waiting \in SUBSET Entry,
         MaybeApplyCommitted(n, lg, commit, waiting)
  PROVE  /\ lastApplied' \in [Server -> Nat \cup {-1}]
         /\ applied' \in [Server -> Seq(Command)]
         /\ callbacks' \in [Server -> SUBSET Entry]
         /\ answers' \subseteq Entry \X Entry
<1> DEFINE due      == Due(n, lg, commit)
           reached  == {due[k] : k \in DOMAIN due}
           commands == [k \in DOMAIN due |-> due[k].command]
           still    == {c \in waiting : \A e \in reached : c.index # e.index}
<1>1. due \in Seq(Entry)
  <2>1. /\ lastApplied[n] + 2 \in Nat \ {0}
        /\ Smaller(commit + 1, Len(lg)) \in Int
        /\ Smaller(commit + 1, Len(lg)) <= Len(lg)
    <3>1. lastApplied[n] \in Nat \cup {-1} /\ Len(lg) \in Nat
      BY DEF TypeOK
    <3>2. QED
      BY <3>1 DEF Smaller
  <2>2. QED
    BY <2>1, PartType DEF Due
<1>2. /\ lastApplied' = [lastApplied EXCEPT ![n] = Larger(@, commit)]
      /\ applied' = [applied EXCEPT ![n] = @ \o commands]
      /\ callbacks' = [callbacks EXCEPT ![n] = still]
      /\ answers' = answers \cup
           {a \in waiting \X reached : a[1].index = a[2].index}
  BY DEF MaybeApplyCommitted
<1> HIDE DEF due
<1>3. commands \in Seq(Command)
  <2>1. \A k \in 1 .. Len(due) : due[k].command \in Command
    <3>1. \A k \in 1 .. Len(due) : due[k] \in Entry
      BY <1>1
    <3>2. \A e \in Entry : e.command \in Command
      BY DEF Entry
    <3>3. QED
      BY <3>1, <3>2
  <2>2. DOMAIN due = 1 .. Len(due) /\ Len(due) \in Nat
    BY <1>1
  <2>3. commands \in [1 .. Len(due) -> Command]
    BY <2>1, <2>2
  <2>4. QED
    BY <2>2, <2>3
<1>4. reached \subseteq Entry
  BY <1>1
<1>5. still \in SUBSET Entry
  OBVIOUS
<1> HIDE DEF commands, reached, still
<1>6. lastApplied' \in [Server -> Nat \cup {-1}]
  BY <1>2 DEF TypeOK, Larger
<1>7. applied' \in [Server -> Seq(Command)]
  <2>1. applied[n] \o commands \in Seq(Command)
    BY <1>3 DEF TypeOK
  <2>2. QED
    BY <1>2, <2>1 DEF TypeOK
<1>8. callbacks' \in [Server -> SUBSET Entry]
  BY <1>2, <1>5 DEF TypeOK
<1>9. answers' \subseteq Entry \X Entry
  BY <1>2, <1>4 DEF TypeOK
<1>10. QED
  BY <1>6, <1>7, <1>8, <1>9

\* Applying from the main loop keeps the types.
LEMMA ApplyCommittedType ==
  ASSUME TypeOK, NEW n \in Server, ApplyCommitted(n)
  PROVE  TypeOK'
<1>1. /\ lastApplied' \in [Server -> Nat \cup {-1}]
      /\ applied' \in [Server -> Seq(Command)]
      /\ callbacks' \in [Server -> SUBSET Entry]
      /\ answers' \subseteq Entry \X Entry
  <2>1. /\ log[n] \in Seq(Entry) /\ commitIndex[n] \in Nat \cup {-1}
        /\ callbacks[n] \in SUBSET Entry
    BY DEF TypeOK
  <2>2. QED
    BY <2>1, MaybeApplyCommittedType DEF ApplyCommitted
<1>2. QED
  BY <1>1 DEF ApplyCommitted, TypeOK, electionVars, leaderVars

\* Accepting a command keeps the types (submit_command).
LEMMA SubmitCommandType ==
  ASSUME TypeOK, NEW n \in Server, NEW c \in Command, SubmitCommand(n, c)
  PROVE  TypeOK'
<1> DEFINE entry   == [term |-> currentTerm[n], index |-> LastIndex(log[n]) + 1,
                       command |-> c]
           lg      == Append(log[n], entry)
           waiting == IF c \in Awaited
                      THEN {w \in callbacks[n] : w.index # entry.index}
                             \cup {entry}
                      ELSE callbacks[n]
           commit  == AdvancedCommit(n, lg, matchIndex[n])
<1>1. log[n] \in Seq(Entry) /\ LastIndex(log[n]) + 1 \in Nat
  <2>1. log[n] \in Seq(Entry)
    BY DEF TypeOK
  <2>2. LastIndex(log[n]) \in Nat \cup {-1}
    BY <2>1, EntryIndexed, LastIndexType
  <2>3. QED
    BY <2>1, <2>2
<1>2. entry \in Entry
  BY <1>1 DEF TypeOK, Entry
<1>3. queue' = [p \in Server |-> IF p = n THEN queue[p] ELSE
                 Append(queue[p], AppendEntriesMsg(n, lg, nextIndex[n][p]))]
  BY DEF SubmitCommand, ToPeers, Peers
<1>4. /\ submitted' = submitted \cup {c}
      /\ log' = [log EXCEPT ![n] = lg]
      /\ matchIndex' = [matchIndex EXCEPT ![n][n] = entry.index]
      /\ commitIndex' = [commitIndex EXCEPT ![n] = commit]
      /\ MaybeApplyCommitted(n, lg, commit, waiting)
      /\ UNCHANGED <<running, electionVars, nextIndex>>
  BY DEF SubmitCommand
<1>5. entry.index \in Nat
  BY <1>1
<1> HIDE DEF entry
<1>6. waiting \in SUBSET Entry
  BY <1>2 DEF TypeOK
<1>7. lg \in Seq(Entry)
  BY <1>1, <1>2
<1> HIDE DEF lg, waiting
<1>8. commit \in Nat \cup {-1}
  BY <1>7, AdvancedCommitType
<1> HIDE DEF commit
<1>9. /\ lastApplied' \in [Server -> Nat \cup {-1}]
      /\ applied' \in [Server -> Seq(Command)]
      /\ callbacks' \in [Server -> SUBSET Entry]
      /\ answers' \subseteq Entry \X Entry
  BY <1>4, <1>6, <1>7, <1>8, MaybeApplyCommittedType
<1>10. queue' \in [Server -> Seq(Message)]
  <2>1. \A p \in Server : AppendEntriesMsg(n, lg, nextIndex[n][p]) \in Message
    BY <1>7, AppendEntriesMsgType DEF TypeOK
  <2>2. QED
    BY <1>3, <2>1 DEF TypeOK
<1>11. /\ log' \in [Server -> Seq(Entry)]
       /\ commitIndex' \in [Server -> Nat \cup {-1}]
       /\ submitted' \subseteq Command
  BY <1>4, <1>7, <1>8 DEF TypeOK
<1>12. matchIndex' \in [Server -> [Server -> Nat \cup {-1}]]
  BY <1>4, <1>5 DEF TypeOK
<1>13. QED
  BY <1>4, <1>9, <1>10, <1>11, <1>12 DEF TypeOK, electionVars

\* A message is handled with the types kept, whichever message it is.
LEMMA HandleMessageType ==
  ASSUME TypeOK, NEW n \in Server, HandleMessage(n)
  PROVE  TypeOK'
<1> DEFINE m == Head(queue[n])
<1>1. queue[n] # << >> /\ m \in Message
  BY HeadType DEF HandleMessage
<1>2. /\ m.type = "RequestVote" => m \in VoteRequest
      /\ m.type = "RequestVoteResponse" => m \in VoteResponse
      /\ m.type = "AppendEntries" => m \in AppendRequest
      /\ m.type = "AppendEntriesResponse" => m \in AppendResponse
  <2> HIDE DEF m
  <2> QED  BY <1>1
           DEF Message, VoteRequest, VoteResponse, AppendRequest, AppendResponse
<1>3. \/ m.type = "RequestVote" /\ HandleRequestVote(n, m)
      \/ m.type = "RequestVoteResponse" /\ HandleRequestVoteResponse(n, m)
      \/ m.type = "AppendEntries" /\ HandleAppendEntries(n, m)
      \/ m.type = "AppendEntriesResponse" /\ HandleAppendEntriesResponse(n, m)
  BY DEF HandleMessage
<1> HIDE DEF m
<1>4. CASE m.type = "RequestVote" /\ HandleRequestVote(n, m)
  BY <1>1, <1>2, <1>4, HandleRequestVoteType
<1>5. CASE m.type = "RequestVoteResponse" /\ HandleRequestVoteResponse(n, m)
  BY <1>1, <1>2, <1>5, StepDownType, IgnoreType, CountVoteType
  DEF HandleRequestVoteResponse
<1>6. CASE m.type = "AppendEntries" /\ HandleAppendEntries(n, m)
  BY <1>1, <1>2, <1>6, HandleAppendEntriesType
<1>7. CASE m.type = "AppendEntriesResponse" /\ HandleAppendEntriesResponse(n, m)
  BY <1>1, <1>2, <1>7, HandleAppendEntriesResponseType
<1>8. QED
  BY <1>3, <1>4, <1>5, <1>6, <1>7

\* A new cluster has the types (RaftNode.__init__).
LEMMA TypeInit == Init => TypeOK
  BY DEF Init, TypeOK

\* No step takes an index below -1, a next index below 0, or anything but a
\* message to a queue, in whatever order the handlers run.
LEMMA TypeStep ==
  ASSUME TypeOK, [Next]_vars
  PROVE  TypeOK'
<1>1. ASSUME NEW n \in Server, Start(n) \/ Stop(n)
      PROVE  TypeOK'
  BY <1>1 DEF Start, Stop, TypeOK, electionVars, leaderVars, applyVars
<1>2. ASSUME NEW n \in Server, StartElection(n)
      PROVE  TypeOK'
  BY <1>2, StartElectionType
<1>3. ASSUME NEW n \in Server, SendHeartbeats(n)
      PROVE  TypeOK'
  BY <1>3, SendHeartbeatsType
<1>4. ASSUME NEW n \in Server, HandleMessage(n)
      PROVE  TypeOK'
  BY <1>4, HandleMessageType
<1>5. ASSUME NEW n \in Server, ApplyCommitted(n)
      PROVE  TypeOK'
  BY <1>5, ApplyCommittedType
<1>6. ASSUME NEW n \in Server, NEW c \in Command, SubmitCommand(n, c)
      PROVE  TypeOK'
  BY <1>6, SubmitCommandType
<1>7. CASE UNCHANGED vars
  BY <1>7 DEF TypeOK, vars, electionVars, leaderVars, applyVars
<1>8. QED
  BY <1>1, <1>2, <1>3, <1>4, <1>5, <1>6, <1>7 DEF Next

\* Types hold in every reachable state, for any cluster and any bounds.
THEOREM TypeCorrect == Spec => []TypeOK
<1>1. Init => TypeOK
  BY TypeInit
<1>2. TypeOK /\ [Next]_vars => TypeOK'
  BY TypeStep
<1>3. QED
  BY <1>1, <1>2, PTL DEF Spec

-----------------------------------------------------------------------------
(* Elections.  The inductive invariant is the one the runs check as          *)
(* ElectionInv, for all terms.                                              *)

VotesInv == VotesRemembered(Nat) /\ OneVotePerTerm(Nat)

\* What no step may break: no term goes back, no vote is changed within a term,
\* and a vote that is newly counted or under way was known before or is the one
\* its voter remembers.
VoteStep ==
  /\ \A v \in Server :
       /\ currentTerm'[v] >= currentTerm[v]
       /\ currentTerm'[v] = currentTerm[v] /\ votedFor[v] # NoVote
            => votedFor'[v] = votedFor[v]
  /\ \A v, c \in Server : \A t \in Nat :
       /\ Counted(v, c, t)' => Voted(v, c, t) \/ Remembered(v, c, t)'
       /\ OnItsWay(v, c, t)' => Voted(v, c, t) \/ Remembered(v, c, t)'

\* Such a step keeps the votes sound.
LEMMA VotesKept ==
  ASSUME TypeOK, TypeOK', VotesInv, VoteStep
  PROVE  VotesInv'
<1>1. ASSUME NEW v \in Server, NEW c \in Server, NEW t \in Nat, Voted(v, c, t)
      PROVE  /\ currentTerm'[v] >= t
             /\ currentTerm'[v] = t => votedFor'[v] = c
  <2>1. currentTerm[v] >= t /\ (currentTerm[v] = t => votedFor[v] = c)
    BY <1>1 DEF VotesInv, VotesRemembered
  <2>2. currentTerm[v] \in Nat /\ currentTerm'[v] \in Nat
    BY DEF TypeOK
  <2>3. QED
    BY <2>1, <2>2, NoVoteAssumption DEF VoteStep
<1>2. ASSUME NEW v \in Server, NEW c \in Server, NEW t \in Nat,
             Voted(v, c, t)'
      PROVE  Voted(v, c, t) \/ Remembered(v, c, t)'
  BY <1>2 DEF Voted, VoteStep
<1>3. VotesRemembered(Nat)'
  <2>1. SUFFICES ASSUME NEW v \in Server, NEW c \in Server, NEW t \in Nat,
                        Voted(v, c, t)'
                 PROVE  /\ currentTerm'[v] >= t
                        /\ currentTerm'[v] = t => votedFor'[v] = c
    BY DEF VotesRemembered
  <2>2. CASE Voted(v, c, t)
    BY <1>1, <2>2
  <2>3. CASE Remembered(v, c, t)'
    BY <2>3 DEF Remembered
  <2>4. QED
    BY <1>2, <2>1, <2>2, <2>3
<1>4. OneVotePerTerm(Nat)'
  <2>1. SUFFICES ASSUME NEW v \in Server, NEW c \in Server, NEW d \in Server,
                        NEW t \in Nat, Voted(v, c, t)', Voted(v, d, t)'
                 PROVE  c = d
    BY DEF OneVotePerTerm
  <2>2. CASE Voted(v, c, t) /\ Voted(v, d, t)
    BY <2>2 DEF VotesInv, OneVotePerTerm
  <2>3. CASE Remembered(v, c, t)' \/ Remembered(v, d, t)'
    <3>1. currentTerm'[v] = t
      BY <2>3 DEF Remembered
    <3>2. votedFor'[v] = c /\ votedFor'[v] = d
      BY <1>3, <2>1, <3>1 DEF VotesRemembered
    <3>3. QED
      BY <3>2
  <2>4. QED
    BY <1>2, <2>1, <2>2, <2>3
<1>5. QED
  BY <1>3, <1>4 DEF VotesInv

\* Two leaders of one term would share a voter.
LEMMA VotesImplyElectionSafety ==
  ASSUME TypeOK, VotesInv, LeadersElected
  PROVE  ElectionSafety
<1>1. SUFFICES ASSUME NEW a \in Server, NEW b \in Server,
                      state[a] = Leader, state[b] = Leader,
                      currentTerm[a] = currentTerm[b]
               PROVE  a = b
  BY DEF ElectionSafety
<1>2. votesReceived[a] \subseteq Server /\ votesReceived[b] \subseteq Server
  BY DEF TypeOK
<1>3. Cardinality(votesReceived[a]) + Cardinality(votesReceived[b])
        > Cardinality(Server)
  <2>1. /\ Cardinality(votesReceived[a]) > Cardinality(Server) \div 2
        /\ Cardinality(votesReceived[b]) > Cardinality(Server) \div 2
    BY <1>1 DEF LeadersElected, IsMajority
  <2>2. /\ Cardinality(votesReceived[a]) \in Nat
        /\ Cardinality(votesReceived[b]) \in Nat
        /\ Cardinality(Server) \in Nat
    BY <1>2, ServerAssumption, FS_Subset, FS_CardinalityType
  <2>3. \A i, j, k \in Nat : i > k \div 2 /\ j > k \div 2 => i + j > k
    OBVIOUS
  <2>4. QED
    BY <2>1, <2>2, <2>3
<1>4. PICK v \in votesReceived[a] \cap votesReceived[b] : TRUE
  BY <1>2, <1>3, ServerAssumption, FS_MajoritiesIntersect
<1>5. Voted(v, a, currentTerm[a]) /\ Voted(v, b, currentTerm[a])
  BY <1>1, <1>4 DEF Voted, Counted
<1>6. v \in Server /\ currentTerm[a] \in Nat
  BY <1>2, <1>4 DEF TypeOK
<1>7. QED
  BY <1>5, <1>6 DEF VotesInv, OneVotePerTerm

-----------------------------------------------------------------------------
(* What the steps put in the queues, and which votes are under way then.     *)

\* Taking a message and answering it puts nothing but the answer in a queue.
LEMMA ReplyQueue ==
  ASSUME TypeOK, NEW n \in Server, NEW p \in Server, NEW r, queue[n] # << >>,
         Reply(n, p, r), NEW c \in Server, NEW k \in DOMAIN queue'[c]
  PROVE  \/ \E j \in DOMAIN queue[c] : queue'[c][k] = queue[c][j]
         \/ c = p /\ queue'[c][k] = r
<1>1. queue[c] \in Seq(Message) /\ queue[n] \in Seq(Message)
  BY DEF TypeOK
<1>2. CASE c # n /\ c # p
  BY <1>2 DEF Reply, TypeOK
<1>3. CASE c = n /\ c # p
  <2>1. queue'[c] = Tail(queue[c])
    BY <1>3 DEF Reply, TypeOK
  <2>2. k + 1 \in DOMAIN queue[c] /\ queue'[c][k] = queue[c][k + 1]
    BY <1>1, <1>3, <2>1
  <2>3. QED
    BY <2>2
<1>4. CASE c = p
  <2>1. queue'[c] = Append(queue[c], r) \/ queue'[c] = Append(Tail(queue[c]), r)
    BY <1>4 DEF Reply, TypeOK
  <2>2. CASE queue'[c] = Append(queue[c], r)
    BY <1>1, <1>4, <2>2
  <2>3. CASE c = n /\ queue'[c] = Append(Tail(queue[c]), r)
    <3>1. k = Len(queue[c]) \/ (k + 1 \in DOMAIN queue[c]
                                 /\ queue'[c][k] = queue[c][k + 1])
      BY <1>1, <2>3
    <3>2. k = Len(queue[c]) => queue'[c][k] = r
      BY <1>1, <2>3
    <3>3. QED
      BY <1>4, <3>1, <3>2
  <2>4. c # n => queue'[c] = Append(queue[c], r)
    BY <1>4 DEF Reply, TypeOK
  <2>5. QED
    BY <2>1, <2>2, <2>3, <2>4
<1>5. QED
  BY <1>2, <1>3, <1>4

\* Taking a message puts nothing in a queue.
LEMMA ConsumeQueue ==
  ASSUME TypeOK, NEW n \in Server, queue[n] # << >>, Consume(n),
         NEW c \in Server, NEW k \in DOMAIN queue'[c]
  PROVE  \E j \in DOMAIN queue[c] : queue'[c][k] = queue[c][j]
<1>1. queue[c] \in Seq(Message)
  BY DEF TypeOK
<1>2. CASE c # n
  BY <1>2 DEF Consume, TypeOK
<1>3. CASE c = n
  <2>1. queue'[c] = Tail(queue[c])
    BY <1>3 DEF Consume, TypeOK
  <2>2. k + 1 \in DOMAIN queue[c] /\ queue'[c][k] = queue[c][k + 1]
    BY <1>1, <1>3, <2>1
  <2>3. QED
    BY <2>2
<1>4. QED
  BY <1>2, <1>3

\* Sending requests puts nothing but them in the queues of the peers.
LEMMA RequestsQueue ==
  ASSUME TypeOK, NEW n \in Server, NEW r,
         queue' = [p \in Server |-> IF p = n THEN queue[p]
                                    ELSE Append(queue[p], r[p])],
         NEW c \in Server, NEW k \in DOMAIN queue'[c]
  PROVE  \/ \E j \in DOMAIN queue[c] : queue'[c][k] = queue[c][j]
         \/ c # n /\ queue'[c][k] = r[c]
<1>1. queue[c] \in Seq(Message)
  BY DEF TypeOK
<1>2. CASE c = n
  BY <1>2
<1>3. CASE c # n
  <2>1. queue'[c] = Append(queue[c], r[c])
    BY <1>3
  <2>2. QED
    BY <1>1, <1>3, <2>1
<1>4. QED
  BY <1>2, <1>3

\* Taking a message and answering it puts no other vote under way.
LEMMA ReplyOnItsWay ==
  ASSUME TypeOK, NEW n \in Server, NEW p \in Server, NEW r, queue[n] # << >>,
         Reply(n, p, r),
         NEW v \in Server, NEW c \in Server, NEW t \in Nat, OnItsWay(v, c, t)'
  PROVE  OnItsWay(v, c, t) \/ (c = p /\ Grants(r, v, t))
<1>1. PICK k \in DOMAIN queue'[c] : Grants(queue'[c][k], v, t)
  BY DEF OnItsWay, Grants
<1>2. QED
  BY <1>1, ReplyQueue DEF OnItsWay

\* Taking a message puts no vote under way.
LEMMA ConsumeOnItsWay ==
  ASSUME TypeOK, NEW n \in Server, queue[n] # << >>, Consume(n),
         NEW v \in Server, NEW c \in Server, NEW t \in Nat, OnItsWay(v, c, t)'
  PROVE  OnItsWay(v, c, t)
<1>1. PICK k \in DOMAIN queue'[c] : Grants(queue'[c][k], v, t)
  BY DEF OnItsWay, Grants
<1>2. QED
  BY <1>1, ConsumeQueue DEF OnItsWay

\* Sending requests to the peers puts no vote under way.
LEMMA RequestsOnItsWay ==
  ASSUME TypeOK, NEW n \in Server, NEW r,
         \A p \in Server : r[p].type # "RequestVoteResponse",
         queue' = [p \in Server |-> IF p = n THEN queue[p]
                                    ELSE Append(queue[p], r[p])],
         NEW v \in Server, NEW c \in Server, NEW t \in Nat, OnItsWay(v, c, t)'
  PROVE  OnItsWay(v, c, t)
<1>1. PICK k \in DOMAIN queue'[c] : Grants(queue'[c][k], v, t)
  BY DEF OnItsWay, Grants
<1>2. queue'[c][k] # r[c]
  BY <1>1 DEF Grants
<1>3. QED
  BY <1>1, <1>2, RequestsQueue DEF OnItsWay

-----------------------------------------------------------------------------
(* Every step keeps the votes sound, and leaders elected.                    *)

ElectedInv == VotesInv /\ LeadersElected

\* A step that touches no vote, role, term or vote under way keeps both.
LEMMA ElectedFrame ==
  ASSUME TypeOK, TypeOK', ElectedInv, UNCHANGED electionVars,
         \A v, c \in Server : \A t \in Nat : OnItsWay(v, c, t)' => OnItsWay(v, c, t)
  PROVE  VoteStep /\ LeadersElected'
<1>1. UNCHANGED <<state, currentTerm, votedFor, votesReceived>>
  BY DEF electionVars
<1>2. \A v \in Server : currentTerm'[v] >= currentTerm[v]
  BY <1>1 DEF TypeOK
<1>3. \A v, c \in Server : \A t \in Nat : Counted(v, c, t)' => Counted(v, c, t)
  BY <1>1 DEF Counted
<1>4. VoteStep
  BY <1>1, <1>2, <1>3 DEF VoteStep, Voted
<1>5. LeadersElected'
  BY <1>1 DEF ElectedInv, LeadersElected, IsMajority
<1>6. QED
  BY <1>4, <1>5

\* A candidate votes for itself in a term no vote of its was known in.
LEMMA StartElectionElected ==
  ASSUME TypeOK, TypeOK', ElectedInv, NEW n \in Server, StartElection(n)
  PROVE  VoteStep /\ LeadersElected'
<1> DEFINE r == [p \in Server |-> [type |-> "RequestVote", src |-> n,
                                  term |-> currentTerm[n] + 1,
                                  lastLogIndex |-> LastIndex(log[n]),
                                  lastLogTerm |-> LastTerm(log[n])]]
<1>1. /\ currentTerm' = [currentTerm EXCEPT ![n] = @ + 1]
      /\ votedFor' = [votedFor EXCEPT ![n] = n]
      /\ votesReceived' = [votesReceived EXCEPT ![n] = {n}]
  BY DEF StartElection
<1>2. queue' = [p \in Server |-> IF p = n THEN queue[p]
                                 ELSE Append(queue[p], r[p])]
  BY DEF StartElection, ToPeers, Peers
<1>3. /\ \A c \in Server \ {n} : state'[c] = state[c]
      /\ state'[n] = Leader => IsMajority(1)
  <2>1. CASE BecomeLeader(n) /\ IsMajority(1)
    BY <2>1 DEF BecomeLeader, TypeOK
  <2>2. CASE state' = [state EXCEPT ![n] = Candidate]
    BY <2>2 DEF TypeOK, Candidate, Leader
  <2>3. QED
    BY <2>1, <2>2 DEF StartElection
<1>4. \A p \in Server : r[p].type # "RequestVoteResponse"
  OBVIOUS
<1> HIDE DEF r
<1>5. ASSUME NEW v \in Server, NEW c \in Server, NEW t \in Nat
      PROVE  OnItsWay(v, c, t)' => OnItsWay(v, c, t)
  BY <1>2, <1>4, RequestsOnItsWay
<1>6. ASSUME NEW v \in Server, NEW c \in Server, NEW t \in Nat,
             Counted(v, c, t)'
      PROVE  Counted(v, c, t) \/ Remembered(v, c, t)'
  <2>1. CASE c = n
    BY <1>1, <1>6, <2>1 DEF Counted, Remembered, TypeOK
  <2>2. CASE c # n
    BY <1>1, <1>3, <1>6, <2>2 DEF Counted, TypeOK
  <2>3. QED
    BY <2>1, <2>2
<1>7. ASSUME NEW v \in Server
      PROVE  /\ currentTerm'[v] >= currentTerm[v]
             /\ currentTerm'[v] = currentTerm[v] => votedFor'[v] = votedFor[v]
  <2>1. currentTerm[v] \in Nat
    BY DEF TypeOK
  <2>2. CASE v = n
    BY <1>1, <2>1, <2>2 DEF TypeOK
  <2>3. CASE v # n
    BY <1>1, <2>1, <2>3 DEF TypeOK
  <2>4. QED
    BY <2>2, <2>3
<1>8. VoteStep
  BY <1>5, <1>6, <1>7 DEF VoteStep, Voted
<1>9. LeadersElected'
  <2>1. SUFFICES ASSUME NEW c \in Server, state'[c] = Leader
                 PROVE  IsMajority(Cardinality(votesReceived'[c]))
    BY DEF LeadersElected, IsMajority
  <2>2. CASE c = n
    <3>1. votesReceived'[c] = {n} /\ Cardinality({n}) = 1
      BY <1>1, <2>2, FS_Singleton DEF TypeOK
    <3>2. QED
      BY <1>3, <2>1, <2>2, <3>1
  <2>3. CASE c # n
    BY <1>1, <1>3, <2>1, <2>3 DEF ElectedInv, LeadersElected, TypeOK
  <2>4. QED
    BY <2>2, <2>3
<1>10. QED
  BY <1>8, <1>9

\* A vote is granted only to the node that has it already, or in a term in
\* which the voter has given none.
LEMMA HandleRequestVoteElected ==
  ASSUME TypeOK, TypeOK', ElectedInv, NEW n \in Server, queue[n] # << >>,
         NEW m \in VoteRequest, HandleRequestVote(n, m)
  PROVE  VoteStep /\ LeadersElected'
<1> DEFINE newer   == m.term > currentTerm[n]
           term    == Larger(m.term, currentTerm[n])
           vote    == IF newer THEN NoVote ELSE votedFor[n]
           granted == m.term = term /\ CanVote(vote, m) /\ UpToDate(log[n], m)
           r       == [type |-> "RequestVoteResponse", src |-> n,
                       term |-> term, voteGranted |-> granted]
<1>1. m.src \in Server /\ m.term \in Nat
  BY DEF VoteRequest
<1>2. /\ currentTerm' = [currentTerm EXCEPT ![n] = term]
      /\ state' = [state EXCEPT ![n] = IF newer THEN Follower ELSE @]
      /\ votedFor' = [votedFor EXCEPT ![n] = IF granted THEN m.src ELSE vote]
      /\ Reply(n, m.src, r)
      /\ UNCHANGED votesReceived
  BY DEF HandleRequestVote
<1>3. /\ term >= currentTerm[n]
      /\ term = currentTerm[n] => ~newer /\ vote = votedFor[n]
      /\ newer <=> term # currentTerm[n]
  <2>1. currentTerm[n] \in Nat
    BY DEF TypeOK
  <2>2. QED
    BY <1>1, <2>1 DEF Larger
<1>4. granted => vote \in {NoVote, m.src}
  BY DEF CanVote
<1>5. \A v \in Server : \A t \in Nat :
        Grants(r, v, t) => v = n /\ t = term /\ granted
  BY DEF Grants
<1> HIDE DEF term, newer, vote, granted, r
<1>6. ASSUME NEW v \in Server, NEW c \in Server, NEW t \in Nat,
             OnItsWay(v, c, t)'
      PROVE  OnItsWay(v, c, t) \/ Remembered(v, c, t)'
  <2>1. OnItsWay(v, c, t) \/ (c = m.src /\ Grants(r, v, t))
    BY <1>1, <1>2, <1>6, ReplyOnItsWay
  <2>2. CASE c = m.src /\ Grants(r, v, t)
    BY <1>2, <1>5, <2>2 DEF Remembered, TypeOK
  <2>3. QED
    BY <2>1, <2>2
<1>7. ASSUME NEW v \in Server, NEW c \in Server, NEW t \in Nat,
             Counted(v, c, t)'
      PROVE  Counted(v, c, t)
  <2>1. CASE c = n
    <3>1. ~newer
      BY <1>2, <1>7, <2>1 DEF Counted, TypeOK, Follower, Candidate, Leader
    <3>2. term = currentTerm[n]
      BY <1>3, <3>1
    <3>3. QED
      BY <1>2, <1>7, <2>1, <3>1, <3>2 DEF Counted, TypeOK
  <2>2. CASE c # n
    BY <1>2, <1>7, <2>2 DEF Counted, TypeOK
  <2>3. QED
    BY <2>1, <2>2
<1>8. ASSUME NEW v \in Server
      PROVE  /\ currentTerm'[v] >= currentTerm[v]
             /\ currentTerm'[v] = currentTerm[v] /\ votedFor[v] # NoVote
                  => votedFor'[v] = votedFor[v]
  <2>1. CASE v = n
    BY ZenonT(60), <1>2, <1>3, <1>4, <2>1 DEF TypeOK
  <2>2. CASE v # n
    BY SMTT(60), <1>2, <2>2 DEF TypeOK
  <2>3. QED
    BY <2>1, <2>2
<1>9. VoteStep
  BY <1>6, <1>7, <1>8 DEF VoteStep, Voted
<1>10. LeadersElected'
  <2>1. \A c \in Server : state'[c] = Leader => state[c] = Leader
    BY <1>2 DEF TypeOK, Follower, Leader
  <2>2. QED
    BY <1>2, <2>1 DEF ElectedInv, LeadersElected, IsMajority
<1>11. QED
  BY <1>9, <1>10

\* A newer term in a response makes the receiver forget its vote and role.
LEMMA StepDownElected ==
  ASSUME TypeOK, TypeOK', ElectedInv, NEW n \in Server, queue[n] # << >>,
         NEW m \in Message, StepDown(n, m)
  PROVE  VoteStep /\ LeadersElected'
<1>1. m.term \in Nat
  BY DEF Message, VoteRequest, VoteResponse, AppendRequest, AppendResponse
<1>2. /\ m.term > currentTerm[n]
      /\ currentTerm' = [currentTerm EXCEPT ![n] = m.term]
      /\ state' = [state EXCEPT ![n] = Follower]
      /\ votedFor' = [votedFor EXCEPT ![n] = NoVote]
      /\ Consume(n)
      /\ UNCHANGED votesReceived
  BY DEF StepDown
<1>3. ASSUME NEW v \in Server
      PROVE  /\ currentTerm'[v] >= currentTerm[v]
             /\ currentTerm'[v] = currentTerm[v] => votedFor'[v] = votedFor[v]
  <2>1. currentTerm[v] \in Nat
    BY DEF TypeOK
  <2>2. CASE v = n
    BY <1>1, <1>2, <2>1, <2>2 DEF TypeOK
  <2>3. CASE v # n
    BY <1>2, <2>1, <2>3 DEF TypeOK
  <2>4. QED
    BY <2>2, <2>3
<1>4. ASSUME NEW v \in Server, NEW c \in Server, NEW t \in Nat
      PROVE  /\ Counted(v, c, t)' => Counted(v, c, t)
             /\ OnItsWay(v, c, t)' => OnItsWay(v, c, t)
  <2>1. OnItsWay(v, c, t)' => OnItsWay(v, c, t)
    BY <1>2, ConsumeOnItsWay
  <2>2. Counted(v, c, t)' => Counted(v, c, t)
    BY <1>2 DEF Counted, TypeOK, Follower, Candidate, Leader
  <2>3. QED
    BY <2>1, <2>2
<1>5. VoteStep
  BY <1>3, <1>4 DEF VoteStep, Voted
<1>6. LeadersElected'
  <2>1. \A c \in Server : state'[c] = Leader => state[c] = Leader
    BY <1>2 DEF TypeOK, Follower, Leader
  <2>2. QED
    BY <1>2, <2>1 DEF ElectedInv, LeadersElected, IsMajority
<1>7. QED
  BY <1>5, <1>6

\* A vote that is counted was under way to the candidate that counts it.
LEMMA CountVoteElected ==
  ASSUME TypeOK, TypeOK', ElectedInv, NEW n \in Server, queue[n] # << >>,
         NEW m \in VoteResponse, m = Head(queue[n]), CountVote(n, m)
  PROVE  VoteStep /\ LeadersElected'
<1> DEFINE votes == votesReceived[n]
                      \cup (IF m.voteGranted THEN {m.src} ELSE {})
<1>1. /\ state[n] = Candidate /\ m.term = currentTerm[n]
      /\ votesReceived' = [votesReceived EXCEPT ![n] = votes]
      /\ Consume(n)
      /\ UNCHANGED <<currentTerm, votedFor>>
  BY DEF CountVote
<1>2. /\ \A c \in Server \ {n} : state'[c] = state[c]
      /\ state'[n] = Leader => IsMajority(Cardinality(votes))
  <2>1. CASE BecomeLeader(n) /\ IsMajority(Cardinality(votes))
    BY <2>1 DEF BecomeLeader, TypeOK
  <2>2. CASE UNCHANGED state
    BY <1>1, <2>2 DEF Candidate, Leader
  <2>3. QED
    BY <2>1, <2>2 DEF CountVote
<1>3. m.type = "RequestVoteResponse"
  BY DEF VoteResponse
<1>4. ASSUME NEW v \in Server, NEW c \in Server, NEW t \in Nat
      PROVE  /\ Counted(v, c, t)' => Voted(v, c, t)
             /\ OnItsWay(v, c, t)' => Voted(v, c, t)
  <2>1. OnItsWay(v, c, t)' => OnItsWay(v, c, t)
    BY <1>1, ConsumeOnItsWay
  <2>2. ASSUME Counted(v, c, t)', c # n
        PROVE  Counted(v, c, t)
    BY <1>1, <1>2, <2>2 DEF Counted, TypeOK
  <2>3. ASSUME Counted(v, c, t)', c = n
        PROVE  Voted(v, c, t)
    <3>1. v \in votes /\ currentTerm[n] = t
      BY <1>1, <2>3 DEF Counted, TypeOK
    <3>2. CASE v \in votesReceived[n]
      BY <1>1, <2>3, <3>1, <3>2 DEF Counted, Voted
    <3>3. CASE v \notin votesReceived[n]
      <4>1. m.voteGranted /\ v = m.src
        BY <3>1, <3>3
      <4>2. 1 \in DOMAIN queue[n] /\ queue[n][1] = m
        <5>1. queue[n] \in Seq(Message)
          BY DEF TypeOK
        <5>2. QED
          BY <5>1
      <4>3. Grants(queue[n][1], v, t)
        BY <1>1, <1>3, <3>1, <4>1, <4>2 DEF Grants
      <4>4. QED
        BY <2>3, <4>2, <4>3 DEF Voted, OnItsWay
    <3>4. QED
      BY <3>2, <3>3
  <2>4. QED
    BY <2>1, <2>2, <2>3 DEF Voted
<1>5. \A v \in Server : currentTerm'[v] >= currentTerm[v]
  BY <1>1 DEF TypeOK
<1>6. VoteStep
  BY <1>1, <1>4, <1>5 DEF VoteStep
<1>7. LeadersElected'
  <2>1. SUFFICES ASSUME NEW c \in Server, state'[c] = Leader
                 PROVE  IsMajority(Cardinality(votesReceived'[c]))
    BY DEF LeadersElected, IsMajority
  <2>2. CASE c = n
    BY <1>1, <1>2, <2>1, <2>2 DEF TypeOK
  <2>3. CASE c # n
    BY <1>1, <1>2, <2>1, <2>3 DEF ElectedInv, LeadersElected, TypeOK
  <2>4. QED
    BY <2>2, <2>3
<1>8. QED
  BY <1>6, <1>7

\* A request of a leader ends a candidacy, and in a newer term forgets a vote.
LEMMA HandleAppendEntriesElected ==
  ASSUME TypeOK, TypeOK', ElectedInv, NEW n \in Server, queue[n] # << >>,
         NEW m \in AppendRequest, HandleAppendEntries(n, m)
  PROVE  VoteStep /\ LeadersElected'
<1>1. m.src \in Server /\ m.term \in Nat
  BY DEF AppendRequest
<1>2. ASSUME NEW v \in Server, NEW c \in Server, NEW t \in Nat
      PROVE  OnItsWay(v, c, t)' => OnItsWay(v, c, t)
  <2>1. PICK term, ok, match : Reply(n, m.src, AppendResult(n, term, ok, match))
    BY DEF HandleAppendEntries, RejectStaleLeader, FollowLeader
  <2>2. ~Grants(AppendResult(n, term, ok, match), v, t)
    BY DEF Grants, AppendResult
  <2>3. QED
    BY <1>1, <2>1, <2>2, ReplyOnItsWay
<1>3. CASE RejectStaleLeader(n, m)
  BY <1>2, <1>3, ElectedFrame DEF RejectStaleLeader
<1>4. CASE FollowLeader(n, m)
  <2>1. /\ m.term >= currentTerm[n]
        /\ currentTerm' = [currentTerm EXCEPT ![n] = m.term]
        /\ state' = [state EXCEPT ![n] = Follower]
        /\ votedFor' = [votedFor EXCEPT ![n] =
             IF m.term > currentTerm[n] THEN NoVote ELSE @]
        /\ UNCHANGED votesReceived
    <3>1. currentTerm[n] \in Nat
      BY DEF TypeOK
    <3>2. QED
      BY <1>1, <1>4, <3>1 DEF FollowLeader, Stale
  <2>2. ASSUME NEW v \in Server
        PROVE  /\ currentTerm'[v] >= currentTerm[v]
               /\ currentTerm'[v] = currentTerm[v] => votedFor'[v] = votedFor[v]
    <3>1. currentTerm[v] \in Nat
      BY DEF TypeOK
    <3>2. CASE v = n
      <4>1. currentTerm'[n] = m.term
        BY <2>1 DEF TypeOK
      <4>2. m.term = currentTerm[n] => votedFor'[n] = votedFor[n]
        BY <2>1, <3>1, <3>2 DEF TypeOK
      <4>3. QED
        BY <2>1, <3>2, <4>1, <4>2
    <3>3. CASE v # n
      BY <2>1, <3>1, <3>3 DEF TypeOK
    <3>4. QED
      BY <3>2, <3>3
  <2>3. ASSUME NEW v \in Server, NEW c \in Server, NEW t \in Nat
        PROVE  Counted(v, c, t)' => Counted(v, c, t)
    BY <2>1 DEF Counted, TypeOK, Follower, Candidate, Leader
  <2>4. VoteStep
    BY <1>2, <2>2, <2>3 DEF VoteStep, Voted
  <2>5. LeadersElected'
    <3>1. \A c \in Server : state'[c] = Leader => state[c] = Leader
      BY <2>1 DEF TypeOK, Follower, Leader
    <3>2. QED
      BY <2>1, <3>1 DEF ElectedInv, LeadersElected, IsMajority
  <2>6. QED
    BY <2>4, <2>5
<1>5. QED
  BY <1>3, <1>4 DEF HandleAppendEntries

\* A response about a log touches no vote, unless its newer term ends the
\* leadership.
LEMMA HandleAppendEntriesResponseElected ==
  ASSUME TypeOK, TypeOK', ElectedInv, NEW n \in Server, queue[n] # << >>,
         NEW m \in AppendResponse, HandleAppendEntriesResponse(n, m)
  PROVE  VoteStep /\ LeadersElected'
<1>1. m \in Message /\ m.src \in Server
  BY DEF Message, AppendResponse
<1>2. CASE StepDown(n, m)
  BY <1>1, <1>2, StepDownElected
<1>3. CASE Ignore(n, m, Leader)
  BY <1>3, ConsumeOnItsWay, ElectedFrame DEF Ignore
<1>4. CASE AcceptMatch(n, m) /\ UNCHANGED electionVars
  BY <1>4, ConsumeOnItsWay, ElectedFrame DEF AcceptMatch
<1>5. CASE RetryEarlier(n, m) /\ UNCHANGED electionVars
  <2> DEFINE r == AppendEntriesMsg(n, log[n], EarlierIndex(nextIndex[n][m.src]))
  <2>1. Reply(n, m.src, r)
    BY <1>5 DEF RetryEarlier
  <2>2. r.type = "AppendEntries"
    BY DEF AppendEntriesMsg
  <2> HIDE DEF r
  <2>3. ASSUME NEW v \in Server, NEW c \in Server, NEW t \in Nat,
               OnItsWay(v, c, t)'
        PROVE  OnItsWay(v, c, t)
    <3>1. ~Grants(r, v, t)
      BY <2>2 DEF Grants
    <3>2. QED
      BY <1>1, <2>1, <2>3, <3>1, ReplyOnItsWay
  <2>4. QED
    BY <1>5, <2>3, ElectedFrame
<1>6. QED
  BY <1>2, <1>3, <1>4, <1>5 DEF HandleAppendEntriesResponse

\* No message breaks the invariant, whichever it is.
LEMMA HandleMessageElected ==
  ASSUME TypeOK, TypeOK', ElectedInv, NEW n \in Server, HandleMessage(n)
  PROVE  VoteStep /\ LeadersElected'
<1> DEFINE m == Head(queue[n])
<1>1. queue[n] # << >> /\ m \in Message
  BY HeadType DEF HandleMessage
<1>2. /\ m.type = "RequestVote" => m \in VoteRequest
      /\ m.type = "RequestVoteResponse" => m \in VoteResponse
      /\ m.type = "AppendEntries" => m \in AppendRequest
      /\ m.type = "AppendEntriesResponse" => m \in AppendResponse
  <2> HIDE DEF m
  <2> QED  BY <1>1
           DEF Message, VoteRequest, VoteResponse, AppendRequest, AppendResponse
<1>3. CASE m.type = "RequestVote" /\ HandleRequestVote(n, m)
  BY <1>1, <1>2, <1>3, HandleRequestVoteElected
<1>4. CASE m.type = "RequestVoteResponse" /\ HandleRequestVoteResponse(n, m)
  <2>1. CASE StepDown(n, m)
    BY <1>1, <2>1, StepDownElected
  <2>2. CASE Ignore(n, m, Candidate)
    BY <1>1, <2>2, ConsumeOnItsWay, ElectedFrame DEF Ignore
  <2>3. CASE CountVote(n, m)
    BY <1>1, <1>2, <1>4, <2>3, CountVoteElected
  <2>4. QED
    BY <1>4, <2>1, <2>2, <2>3 DEF HandleRequestVoteResponse
<1>5. CASE m.type = "AppendEntries" /\ HandleAppendEntries(n, m)
  BY <1>1, <1>2, <1>5, HandleAppendEntriesElected
<1>6. CASE m.type = "AppendEntriesResponse" /\ HandleAppendEntriesResponse(n, m)
  BY <1>1, <1>2, <1>6, HandleAppendEntriesResponseElected
<1>7. QED
  BY <1>3, <1>4, <1>5, <1>6 DEF HandleMessage

\* Heartbeats touch no vote.
LEMMA SendHeartbeatsElected ==
  ASSUME TypeOK, TypeOK', ElectedInv, NEW n \in Server, SendHeartbeats(n)
  PROVE  VoteStep /\ LeadersElected'
<1> DEFINE r == [p \in Server |-> AppendEntriesMsg(n, log[n], nextIndex[n][p])]
<1>1. queue' = [p \in Server |-> IF p = n THEN queue[p]
                                 ELSE Append(queue[p], r[p])]
  BY DEF SendHeartbeats, ToPeers, Peers
<1>2. \A p \in Server : r[p].type # "RequestVoteResponse"
  BY DEF AppendEntriesMsg
<1> HIDE DEF r
<1>3. QED
  BY <1>1, <1>2, RequestsOnItsWay, ElectedFrame DEF SendHeartbeats

\* A submitted command touches no vote.
LEMMA SubmitCommandElected ==
  ASSUME TypeOK, TypeOK', ElectedInv, NEW n \in Server, NEW c \in Command,
         SubmitCommand(n, c)
  PROVE  VoteStep /\ LeadersElected'
<1> DEFINE lg == Append(log[n], [term |-> currentTerm[n],
                                 index |-> LastIndex(log[n]) + 1,
                                 command |-> c])
           r  == [p \in Server |-> AppendEntriesMsg(n, lg, nextIndex[n][p])]
<1>1. queue' = [p \in Server |-> IF p = n THEN queue[p]
                                 ELSE Append(queue[p], r[p])]
  BY DEF SubmitCommand, ToPeers, Peers
<1>2. \A p \in Server : r[p].type # "RequestVoteResponse"
  BY DEF AppendEntriesMsg
<1> HIDE DEF r
<1>3. QED
  BY <1>1, <1>2, RequestsOnItsWay, ElectedFrame DEF SubmitCommand

\* In a new cluster nobody has voted.
LEMMA ElectedInit ==
  ASSUME Init
  PROVE  ElectedInv
<1>1. \A v, c \in Server : \A t \in Nat : ~Voted(v, c, t)
  BY NoVoteAssumption DEF Init, Voted, Counted, OnItsWay, Remembered
<1>2. \A c \in Server : state[c] # Leader
  BY DEF Init, Follower, Leader
<1>3. QED
  BY <1>1, <1>2
  DEF ElectedInv, VotesInv, VotesRemembered, OneVotePerTerm, LeadersElected

\* Every step is one that keeps the votes sound.
LEMMA VotesOfStep ==
  ASSUME TypeOK, ElectedInv, [Next]_vars
  PROVE  VoteStep /\ LeadersElected'
<1>1. TypeOK'
  BY TypeStep
<1>2. ASSUME NEW n \in Server, Start(n) \/ Stop(n)
      PROVE  VoteStep /\ LeadersElected'
  <2>1. UNCHANGED electionVars /\ UNCHANGED queue
    BY <1>2 DEF Start, Stop
  <2>2. QED
    BY <1>1, <2>1, ElectedFrame DEF OnItsWay, Grants
<1>3. ASSUME NEW n \in Server, StartElection(n)
      PROVE  VoteStep /\ LeadersElected'
  BY <1>1, <1>3, StartElectionElected
<1>4. ASSUME NEW n \in Server, SendHeartbeats(n)
      PROVE  VoteStep /\ LeadersElected'
  BY <1>1, <1>4, SendHeartbeatsElected
<1>5. ASSUME NEW n \in Server, HandleMessage(n)
      PROVE  VoteStep /\ LeadersElected'
  BY <1>1, <1>5, HandleMessageElected
<1>6. ASSUME NEW n \in Server, ApplyCommitted(n)
      PROVE  VoteStep /\ LeadersElected'
  <2>1. UNCHANGED electionVars /\ UNCHANGED queue
    BY <1>6 DEF ApplyCommitted
  <2>2. QED
    BY <1>1, <2>1, ElectedFrame DEF OnItsWay, Grants
<1>7. ASSUME NEW n \in Server, NEW c \in Command, SubmitCommand(n, c)
      PROVE  VoteStep /\ LeadersElected'
  BY <1>1, <1>7, SubmitCommandElected
<1>8. CASE UNCHANGED vars
  <2>1. UNCHANGED electionVars /\ UNCHANGED queue
    BY <1>8 DEF vars
  <2>2. QED
    BY <1>1, <2>1, ElectedFrame DEF OnItsWay, Grants
<1>9. QED
  BY <1>2, <1>3, <1>4, <1>5, <1>6, <1>7, <1>8 DEF Next

\* The invariant is inductive.
LEMMA ElectedStep ==
  ASSUME TypeOK, ElectedInv, [Next]_vars
  PROVE  ElectedInv'
  BY TypeStep, VotesOfStep, VotesKept DEF ElectedInv

\* At most one node is leader in a term, in every cluster, whatever the order
\* in which timeouts, votes and newer terms come and whichever nodes stop.
THEOREM OneLeaderPerTerm == Spec => []ElectionSafety
<1>1. Init => TypeOK /\ ElectedInv
  BY TypeInit, ElectedInit
<1>2. TypeOK /\ ElectedInv /\ [Next]_vars => (TypeOK /\ ElectedInv)'
  BY TypeStep, ElectedStep
<1>3. TypeOK /\ ElectedInv => ElectionSafety
  BY VotesImplyElectionSafety DEF ElectedInv
<1>4. QED
  BY <1>1, <1>2, <1>3, PTL DEF Spec

\* No vote is counted that its voter could give away again: what the runs
\* check as ElectionInv for a few terms holds for all of them.
THEOREM VotesSound == Spec => []ElectionInv
<1>1. Init => TypeOK /\ ElectedInv
  BY TypeInit, ElectedInit
<1>2. TypeOK /\ ElectedInv /\ [Next]_vars => (TypeOK /\ ElectedInv)'
  BY TypeStep, ElectedStep
<1>3. TypeOK /\ ElectedInv => ElectionInv
  <2>1. {e[2] : e \in Elections} \subseteq Nat
    BY ElectionsAssumption
  <2>2. QED
    BY <2>1
    DEF ElectedInv, VotesInv, ElectionInv, VotesRemembered, OneVotePerTerm
<1>4. QED
  BY <1>1, <1>2, <1>3, PTL DEF Spec
=============================================================================
