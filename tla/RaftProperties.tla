-------------------------- MODULE RaftProperties --------------------------
(***************************************************************************)
(* What the Raft nodes of src/raft/raft.py guarantee, stated over Raft.    *)
(* Which property holds for which cluster is told in README.md: the runs   *)
(* with three nodes leave out those that the reported match_index breaks.  *)
(***************************************************************************)
EXTENDS Raft

\* Every variable of a node has the type its attribute has in the code.
TypeOK ==
  /\ running \in [Server -> BOOLEAN]
  /\ state \in [Server -> {Follower, Candidate, Leader}]
  /\ currentTerm \in [Server -> Nat]
  /\ votedFor \in [Server -> Server \cup {NoVote}]
  /\ votesReceived \in [Server -> SUBSET Server]
  /\ log \in [Server -> Seq(Entry)]
  /\ commitIndex \in [Server -> Nat \cup {-1}]
  /\ lastApplied \in [Server -> Nat \cup {-1}]
  /\ nextIndex \in [Server -> [Server -> Nat]]
  /\ matchIndex \in [Server -> [Server -> Nat \cup {-1}]]
  /\ callbacks \in [Server -> SUBSET Entry]
  /\ queue \in [Server -> Seq(Message)]
  /\ applied \in [Server -> Seq(Command)]
  /\ submitted \subseteq Command
  /\ answers \subseteq Entry \X Entry

-----------------------------------------------------------------------------
(* Elections.                                                               *)

\* No two nodes are leader in the same term, whatever the order in which
\* votes, timeouts and newer terms reach them.
ElectionSafety ==
  \A a, b \in Server :
    state[a] = Leader /\ state[b] = Leader /\ currentTerm[a] = currentTerm[b]
      => a = b

\* c counts the vote of v in its candidacy, or leadership, of term t.
Counted(v, c, t) ==
  v \in votesReceived[c] /\ state[c] \in {Candidate, Leader}
    /\ currentTerm[c] = t

\* m gives the vote of v in term t.
Grants(m, v, t) ==
  m.type = "RequestVoteResponse" /\ m.src = v /\ m.term = t /\ m.voteGranted

\* The vote of v in term t is on its way to c.
OnItsWay(v, c, t) == \E k \in DOMAIN queue[c] : Grants(queue[c][k], v, t)

\* v remembers that it voted for c in term t, its current one.
Remembered(v, c, t) == votedFor[v] = c /\ currentTerm[v] = t

\* v is known to have given its vote of term t to c.
Voted(v, c, t) == Counted(v, c, t) \/ OnItsWay(v, c, t) \/ Remembered(v, c, t)

\* The strengthening of ElectionSafety that the handlers preserve, for the
\* terms in T: a vote is remembered by its voter until a newer term, a voter
\* has one vote per term, and a leader counts the votes of a majority.
VotesRemembered(T) ==
  \A v, c \in Server : \A t \in T :
    Voted(v, c, t) =>
      currentTerm[v] >= t /\ (currentTerm[v] = t => votedFor[v] = c)

OneVotePerTerm(T) ==
  \A v, c, d \in Server : \A t \in T :
    Voted(v, c, t) /\ Voted(v, d, t) => c = d

LeadersElected ==
  \A c \in Server :
    state[c] = Leader => IsMajority(Cardinality(votesReceived[c]))

\* No vote is counted that its voter could give away again: the inductive
\* invariant behind ElectionSafety, for the terms a run can reach.
ElectionInv ==
  LET Terms == {e[2] : e \in Elections}
  IN  VotesRemembered(Terms) /\ OneVotePerTerm(Terms) /\ LeadersElected

-----------------------------------------------------------------------------
(* Logs.                                                                    *)

\* The first k entries of a log; indices of the code start at 0, so the
\* entries up to index i are Upto(log, i + 1).
Upto(lg, k) == SubSeq(lg, 1, Smaller(k, Len(lg)))

\* Two logs that hold an entry of the same term at the same place agree up to
\* there, and each entry carries the index of its place: what the check of
\* the previous entry and the cutting of logs must achieve together.
LogMatching ==
  \A a, b \in Server : \A k \in DOMAIN log[a] \cap DOMAIN log[b] :
    /\ log[a][k].index = k - 1
    /\ log[a][k].term = log[b][k].term => Upto(log[a], k) = Upto(log[b], k)

\* What is known of a log: all of it at its node, or the part that a request
\* carries, which starts behind base entries, the last of them of term prev.
LogPiece(n)     == [base |-> 0, prev |-> 0, entries |-> log[n]]
RequestPiece(m) == [base |-> m.prevLogIndex + 1, prev |-> m.prevLogTerm,
                    entries |-> m.entries]

Pieces ==
  {LogPiece(n) : n \in Server}
    \cup UNION {{RequestPiece(queue[n][k]) :
                   k \in {j \in DOMAIN queue[n] :
                           queue[n][j].type = "AppendEntries"}} : n \in Server}

\* The entry of piece x at place i of the log, the first place being 1, and the
\* term x knows there, 0 if it knows none.
Places(x) == 1 .. x.base + Len(x.entries)
Has(x, i) == x.base < i /\ i \in Places(x)
EntryAt(x, i) == x.entries[i - x.base]
TermOf(x, i) ==
  IF Has(x, i) THEN EntryAt(x, i).term ELSE IF i = x.base THEN x.prev ELSE 0

\* Every entry carries the index of its place, and no entry is of term 0.
WellPlaced(x) ==
  /\ x.base = 0 => x.prev = 0
  /\ \A k \in DOMAIN x.entries :
       x.entries[k].term # 0 /\ x.entries[k].index = x.base + k - 1

\* Two pieces that know the same term at the same place agree up to there.
Agree(x, y) ==
  \A i \in Places(x) \cap Places(y) :
    TermOf(x, i) = TermOf(y, i) /\ TermOf(x, i) # 0 =>
      \A j \in 1 .. i :
        /\ TermOf(x, j) # 0 /\ TermOf(y, j) # 0 => TermOf(x, j) = TermOf(y, j)
        /\ Has(x, j) /\ Has(y, j) => EntryAt(x, j) = EntryAt(y, j)

\* v gave its vote of term t to w, or to nobody and never will.
Backs(v, w, t) ==
  /\ currentTerm[v] >= t /\ (currentTerm[v] = t => votedFor[v] = w)
  /\ \A c \in Server : Voted(v, c, t) => c = w

\* w was elected for term t, and leads it as long as it stays in that term.
Led(w, t) ==
  /\ \E Q \in SUBSET Server :
       IsMajority(Cardinality(Q)) /\ \A v \in Q : Backs(v, w, t)
  /\ currentTerm[w] >= t /\ (currentTerm[w] = t => state[w] = Leader)

\* Every term x knows was led by a node that has it at the same place, as long
\* as it stays in that term.
Authored(x) ==
  \A i \in Places(x) :
    TermOf(x, i) # 0 =>
      \E w \in Server :
        /\ Led(w, TermOf(x, i))
        /\ currentTerm[w] = TermOf(x, i)
             => TermOf(LogPiece(w), i) = TermOf(x, i)

\* A message comes from another node, a request from one that led its term.
Addressed(n, m) ==
  /\ m.src # n
  /\ m.type = "AppendEntries" => m.prevLogIndex >= -1 /\ Led(m.src, m.term)

\* The strengthening of LogMatching that the handlers preserve: the requests
\* under way, however old, agree with each other and with every log.
MatchingInv ==
  /\ \A n \in Server : state[n] # Follower => currentTerm[n] > 0
  /\ \A n \in Server : \A k \in DOMAIN queue[n] : Addressed(n, queue[n][k])
  /\ \A x \in Pieces : WellPlaced(x) /\ Authored(x)
  /\ \A x, y \in Pieces : Agree(x, y)

\* Whatever request a node is about to merge, old or repeated or contradicted
\* by its log: nothing is cut that the request does not contradict, and all
\* that it brings is there afterwards.
MergeMatchesReference ==
  \A n \in Server :
    LET m == Head(queue[n])
    IN  /\ queue[n] # << >> /\ m.type = "AppendEntries"
        /\ ~Stale(n, m) /\ Joins(log[n], m)
        => MergeEntries(log[n], m.entries)
             = MergeReference(log[n], m.prevLogIndex + 1, m.entries)

\* A follower that raises its commit index holds, up to there, exactly what
\* the leader of its term holds and has committed - although the code bounds
\* the index by the end of the follower's log, not by the entries received.
CommitsLeadersPrefix ==
  [][\A f, l \in Server :
       /\ commitIndex'[f] > commitIndex[f] /\ state'[f] = Follower
       /\ state[l] = Leader /\ currentTerm[l] = currentTerm'[f]
       => /\ commitIndex'[f] <= commitIndex[l]
          /\ Upto(log'[f], commitIndex'[f] + 1)
               = Upto(log[l], commitIndex'[f] + 1)]_vars

-----------------------------------------------------------------------------
(* Commitment.                                                              *)

\* All state machines were given the same commands in the same order, as far
\* as they have got (example.py: Raft keeps the data of all replicas equal).
StateMachineSafety ==
  \A a, b \in Server : \A k \in DOMAIN applied[a] \cap DOMAIN applied[b] :
    applied[a][k] = applied[b][k]

\* A leader holds every entry that a node has committed, unless that node is
\* already in a later term.
LeaderCompleteness ==
  \A l, n \in Server :
    state[l] = Leader /\ currentTerm[n] <= currentTerm[l]
      => /\ commitIndex[n] <= LastIndex(log[l])
         /\ Upto(log[l], commitIndex[n] + 1) = Upto(log[n], commitIndex[n] + 1)

\* What a leader believes a peer to hold, the peer holds: match_index never
\* runs ahead of the part of the peer's log that agrees with the leader's.
MatchIndexSound ==
  \A l \in Server : \A p \in Peers(l) :
    state[l] = Leader /\ currentTerm[p] <= currentTerm[l]
      => /\ matchIndex[l][p] <= LastIndex(log[l])
         /\ Upto(log[p], matchIndex[l][p] + 1)
              = Upto(log[l], matchIndex[l][p] + 1)

\* No step rewrites an entry up to a node's commit index, and no step lowers
\* that index.
CommittedStable ==
  [][\A n \in Server :
       /\ commitIndex'[n] >= commitIndex[n]
       /\ Upto(log'[n], commitIndex[n] + 1) = Upto(log[n], commitIndex[n] + 1)
    ]_vars

\* A submitter that got the result of its own command may rely on it: a
\* majority of the nodes holds the entry from then on.
AnsweredIsDurable ==
  \A a \in answers :
    a[1] = a[2] =>
      IsMajority(Cardinality({n \in Server : \E k \in DOMAIN log[n] :
                                log[n][k] = a[2]}))

-----------------------------------------------------------------------------
(* Why commitment is sound where a majority is everybody, in a cluster of    *)
(* one or two nodes: no log is ever cut there, and what a leader has is all  *)
(* that anybody has.                                                        *)

\* Log s is the beginning of log t.
Begins(s, t) == Len(s) <= Len(t) /\ \A k \in 1 .. Len(s) : s[k] = t[k]

\* A candidate votes for itself; nobody is voted for in a term it has not
\* reached; the vote asked for is about the log the candidate still has.
VotesCurrent ==
  /\ \A n \in Server : state[n] # Follower => votedFor[n] = n
  /\ \A p, n \in Server : votedFor[p] = n => currentTerm[p] <= currentTerm[n]
  /\ \A n \in Server : \A k \in DOMAIN queue[n] :
       LET m == queue[n][k]
       IN  /\ m.type = "RequestVoteResponse" /\ m.voteGranted
                => m.term <= currentTerm[n]
           /\ m.type = "RequestVote" =>
                /\ m.term <= currentTerm[m.src]
                /\ state[m.src] = Candidate /\ currentTerm[m.src] = m.term =>
                     /\ m.lastLogIndex = LastIndex(log[m.src])
                     /\ m.lastLogTerm = LastTerm(log[m.src])

\* Terms do not go back along a log, nor beyond the term of its node.
TermsOrdered ==
  \A n \in Server : \A k \in DOMAIN log[n] :
    /\ log[n][k].term <= currentTerm[n]
    /\ \A j \in 1 .. k : log[n][j].term <= log[n][k].term

\* One of two logs is the beginning of the other; a candidate or leader has all
\* that its voters have.
LogsNested ==
  /\ \A a, b \in Server : Begins(log[a], log[b]) \/ Begins(log[b], log[a])
  /\ \A p, n \in Server :
       state[n] # Follower /\ Voted(p, n, currentTerm[n])
         => Begins(log[p], log[n])

\* The sender of a request still has what it sent, and has committed as much.
RequestsHeld ==
  \A n \in Server : \A k \in DOMAIN queue[n] :
    LET m == queue[n][k]
    IN  m.type = "AppendEntries" =>
          /\ m.leaderCommit <= commitIndex[m.src]
          /\ \A i \in DOMAIN m.entries :
               /\ m.prevLogIndex + 1 + i \in DOMAIN log[m.src]
               /\ log[m.src][m.prevLogIndex + 1 + i] = m.entries[i]
               /\ m.entries[i].term <= m.term

\* What is committed is in every log, and what a node is recorded to hold is in
\* its log.
CommitsHeld ==
  /\ \A n, p \in Server : commitIndex[n] < Len(log[p])
  /\ \A n, p \in Server : matchIndex[n][p] < Len(log[p])
  /\ \A n \in Server : \A k \in DOMAIN queue[n] :
       LET m == queue[n][k]
       IN  m.type = "AppendEntriesResponse" => m.matchIndex < Len(log[m.src])

\* A machine was given the commands of the log in order, and what answered a
\* callback is in every log.
AppliedHeld ==
  /\ \A n \in Server :
       /\ Len(applied[n]) = lastApplied[n] + 1
       /\ lastApplied[n] <= commitIndex[n]
       /\ \A k \in DOMAIN applied[n] : applied[n][k] = log[n][k].command
  /\ \A a \in answers : \A n \in Server : \E k \in DOMAIN log[n] : log[n][k] = a[2]

\* The strengthening of the properties of commitment that the handlers preserve
\* in a cluster of one or two nodes.
PairInv ==
  /\ VotesCurrent
  /\ TermsOrdered
  /\ LogsNested
  /\ RequestsHeld
  /\ CommitsHeld
  /\ AppliedHeld

-----------------------------------------------------------------------------
(* Liveness.  The threads of a running node loop without end, so a pending  *)
(* message, a committed entry and a due heartbeat are not put off for ever. *)
(* Nothing is assumed of timeouts, of clients or of starting and stopping.  *)

Fairness ==
  \A n \in Server :
    /\ WF_vars(HandleMessage(n))
    /\ WF_vars(ApplyCommitted(n))
    /\ WF_vars(SendHeartbeats(n))

FairSpec == Spec /\ Fairness

\* Under a leader that stays and has an entry of its own term, every log
\* becomes the leader's and every node applies all of it, whatever the logs
\* were and whatever match_index the peers reported on the way: a lock taken
\* or freed there is seen everywhere.  Without such an entry a follower keeps
\* a longer log of an old term, for nothing ever contradicts it.
ReplicasConverge ==
  \A l \in Server :
    <>[](state[l] = Leader /\ LastTerm(log[l]) = currentTerm[l])
      => <>[](\A n \in Server : /\ log[n] = log[l]
                               /\ lastApplied[n] = LastIndex(log[l]))
=============================================================================
