------------------------- MODULE RaftMatchingProofs -------------------------
(***************************************************************************)
(* Log matching: the proof that MatchingInv of RaftProperties is inductive *)
(* and implies LogMatching, for every number of nodes and every log.       *)
(***************************************************************************)
EXTENDS RaftProofs

-----------------------------------------------------------------------------
(* Pieces of logs, whatever node or request they come from.                  *)

Piece == [base : Nat, prev : Nat, entries : Seq(Entry)]

\* A piece knows terms, and those it knows are at its places.
LEMMA TermOfType ==
  ASSUME NEW x \in Piece, NEW i \in Nat \ {0}
  PROVE  /\ TermOf(x, i) \in Nat
         /\ TermOf(x, i) # 0 => i \in Places(x)
         /\ Has(x, i) => EntryAt(x, i) \in Entry
         /\ TermOf(x, i) # 0 => x.base <= i
<1>1. /\ x.base \in Nat /\ x.prev \in Nat /\ x.entries \in Seq(Entry)
      /\ Len(x.entries) \in Nat
  BY DEF Piece
<1>2. ASSUME Has(x, i)
      PROVE  EntryAt(x, i) \in Entry /\ i \in Places(x) /\ x.base <= i
  <2>1. i - x.base \in DOMAIN x.entries
    BY <1>1, <1>2 DEF Has, Places
  <2>2. QED
    BY <1>1, <1>2, <2>1 DEF Has, Places, EntryAt
<1>3. CASE Has(x, i)
  BY <1>2, <1>3 DEF TermOf, Entry
<1>4. CASE ~Has(x, i)
  BY <1>1, <1>4 DEF TermOf, Places
<1>5. QED
  BY <1>3, <1>4, <1>2

\* All that x knows of terms and entries, y knows too.
Part(x, y) ==
  \A i \in Places(x) :
    /\ TermOf(x, i) # 0 => TermOf(y, i) = TermOf(x, i)
    /\ Has(x, i) => Has(y, i) /\ EntryAt(y, i) = EntryAt(x, i)

\* A part of a piece agrees with whatever the piece agrees with.
LEMMA PartAgrees ==
  ASSUME NEW x \in Piece, NEW y \in Piece, NEW z \in Piece,
         Part(x, y), Agree(y, z)
  PROVE  Agree(x, z)
<1>1. SUFFICES ASSUME NEW i \in Places(x) \cap Places(z),
                      TermOf(x, i) = TermOf(z, i), TermOf(x, i) # 0,
                      NEW j \in 1 .. i
               PROVE  /\ TermOf(x, j) # 0 /\ TermOf(z, j) # 0
                           => TermOf(x, j) = TermOf(z, j)
                      /\ Has(x, j) /\ Has(z, j) => EntryAt(x, j) = EntryAt(z, j)
  BY DEF Agree
<1>2. i \in Nat \ {0} /\ j \in Nat \ {0}
  BY DEF Places, Piece
<1>3. TermOf(y, i) = TermOf(x, i) /\ i \in Places(y)
  BY <1>1, <1>2, TermOfType DEF Part
<1>4. /\ TermOf(y, j) # 0 /\ TermOf(z, j) # 0 => TermOf(y, j) = TermOf(z, j)
      /\ Has(y, j) /\ Has(z, j) => EntryAt(y, j) = EntryAt(z, j)
  BY <1>1, <1>3 DEF Agree
<1>5. TermOf(x, j) # 0 => TermOf(y, j) = TermOf(x, j)
  BY <1>2, TermOfType DEF Part
<1>6. Has(x, j) => Has(y, j) /\ EntryAt(y, j) = EntryAt(x, j)
  BY DEF Part, Has
<1>7. QED
  BY <1>4, <1>5, <1>6

\* Agreement goes both ways.
LEMMA AgreeSymmetric ==
  ASSUME NEW x, NEW y, Agree(x, y)
  PROVE  Agree(y, x)
  BY DEF Agree

\* Every piece agrees with itself.
LEMMA AgreeReflexive ==
  ASSUME NEW x
  PROVE  Agree(x, x)
  BY DEF Agree

\* The start of a log and a request that continues it make a log that agrees
\* with whatever both of them agree with.
LEMMA GlueAgrees ==
  ASSUME NEW x \in Piece, NEW r \in Piece, NEW g \in Piece, NEW z \in Piece,
         WellPlaced(z),
         r.base > 0, r.prev # 0, TermOf(x, r.base) = r.prev,
         \A j \in 1 .. r.base :
           /\ TermOf(g, j) = TermOf(x, j)
           /\ Has(g, j) => Has(x, j) /\ EntryAt(g, j) = EntryAt(x, j),
         \A j \in Nat : j > r.base =>
           /\ TermOf(g, j) = TermOf(r, j)
           /\ Has(g, j) => Has(r, j) /\ EntryAt(g, j) = EntryAt(r, j),
         Agree(x, z), Agree(r, z)
  PROVE  Agree(g, z)
<1> DEFINE Same(u, j) ==
             /\ TermOf(u, j) # 0 /\ TermOf(z, j) # 0 => TermOf(u, j) = TermOf(z, j)
             /\ Has(u, j) /\ Has(z, j) => EntryAt(u, j) = EntryAt(z, j)
<1>1. SUFFICES ASSUME NEW i \in Places(g) \cap Places(z),
                      TermOf(g, i) = TermOf(z, i), TermOf(g, i) # 0,
                      NEW j \in 1 .. i
               PROVE  Same(g, j)
  BY DEF Agree
<1>2. i \in Nat \ {0} /\ j \in Nat \ {0} /\ j <= i /\ r.base \in Nat
  BY SMTT(60) DEF Places, Piece
<1>3. ASSUME NEW k \in Nat \ {0}, TermOf(x, k) = TermOf(z, k), TermOf(x, k) # 0,
             j <= k
      PROVE  Same(x, j)
  <2>1. k \in Places(x) \cap Places(z)
    BY <1>3, TermOfType
  <2>2. QED
    BY <1>2, <1>3, <2>1 DEF Agree
<1>4. CASE i <= r.base
  BY <1>1, <1>2, <1>3, <1>4
<1>5. CASE i > r.base
  <2>1. TermOf(r, i) = TermOf(z, i) /\ TermOf(r, i) # 0
    BY <1>1, <1>2, <1>5
  <2>2. i \in Places(r) \cap Places(z)
    BY <1>2, <2>1, TermOfType
  <2>3. \A k \in 1 .. i : Same(r, k)
    BY <2>1, <2>2 DEF Agree
  <2>4. CASE j > r.base
    BY <1>2, <2>3, <2>4
  <2>5. CASE j <= r.base
    <3>1. TermOf(r, r.base) = r.prev
      BY <1>2 DEF TermOf, Has
    <3>2. CASE TermOf(z, r.base) # 0
      <4>1. TermOf(r, r.base) = TermOf(z, r.base)
        BY <1>2, <1>5, <2>3, <3>1, <3>2
      <4>2. Same(x, j)
        BY <1>2, <1>3, <2>5, <3>1, <4>1
      <4>3. QED
        BY <1>2, <2>5, <4>2
    <3>3. CASE TermOf(z, r.base) = 0
      <4>1. r.base <= z.base
        <5>1. SUFFICES ASSUME z.base < r.base PROVE FALSE
          BY SMTT(60), <1>2 DEF Piece
        <5>2. /\ Has(z, r.base) /\ r.base - z.base \in DOMAIN z.entries
              /\ z.base \in Nat /\ z.entries \in Seq(Entry)
          BY SMTT(60), <1>1, <1>2, <1>5, <5>1 DEF Has, Places, Piece
        <5>3. QED
          BY <3>3, <5>2 DEF TermOf, EntryAt, WellPlaced
      <4>2. ~Has(z, j)
        BY SMTT(60), <1>2, <2>5, <4>1 DEF Has, Piece
      <4>3. TermOf(z, j) = 0
        BY SMTT(60), <1>2, <2>5, <3>3, <4>1, <4>2 DEF TermOf, Piece
      <4>4. QED
        BY <4>2, <4>3
    <3>4. QED
      BY <3>2, <3>3
  <2>6. QED
    BY <1>2, <2>4, <2>5
<1>6. QED
  BY <1>2, <1>4, <1>5

\* What is sent of a log is a part of it, from whatever index it is sent
\* (_send_append_entries).
LEMMA RequestIsPart ==
  ASSUME TypeOK, NEW n \in Server, NEW lg \in Seq(Entry), NEW next \in Nat,
         NEW y, y = [base |-> 0, prev |-> 0, entries |-> lg]
  PROVE  Part(RequestPiece(AppendEntriesMsg(n, lg, next)), y)
<1> DEFINE x == [base |-> next, prev |-> TermAt(lg, next - 1),
                 entries |-> EntriesFrom(lg, next)]
<1>1. RequestPiece(AppendEntriesMsg(n, lg, next)) = x
  BY DEF RequestPiece, AppendEntriesMsg
<1>2. /\ Len(x.entries) = IF next < Len(lg) THEN Len(lg) - next ELSE 0
      /\ \A k \in 1 .. Len(x.entries) : x.entries[k] = lg[next + k]
      /\ x.base = next /\ x.prev = TermAt(lg, next - 1)
  BY DEF EntriesFrom
<1> HIDE DEF x
<1>3. ASSUME NEW i \in Places(x), Has(x, i)
      PROVE  Has(y, i) /\ EntryAt(y, i) = EntryAt(x, i)
  <2>1. i \in Nat /\ next < i /\ i <= next + Len(x.entries)
    BY <1>2, <1>3 DEF Has, Places
  <2>2. next < Len(lg) /\ i <= Len(lg) /\ i - next \in 1 .. Len(x.entries)
    BY <1>2, <2>1
  <2>3. x.entries[i - next] = lg[i]
    BY <1>2, <2>1, <2>2
  <2>4. QED
    BY <1>2, <2>1, <2>2, <2>3 DEF Has, Places, EntryAt
<1>4. ASSUME NEW i \in Places(x), TermOf(x, i) # 0
      PROVE  TermOf(y, i) = TermOf(x, i)
  <2>1. CASE Has(x, i)
    BY <1>3, <2>1 DEF TermOf
  <2>2. CASE ~Has(x, i)
    <3>1. i = next /\ TermOf(x, i) = TermAt(lg, next - 1) /\ i \in Nat
      BY <1>2, <1>4, <2>2 DEF TermOf, Places
    <3>2. 0 <= next - 1 /\ next - 1 < Len(lg) /\ TermOf(x, i) = lg[i].term
      BY <1>4, <3>1 DEF TermAt, HasIndex
    <3>3. Has(y, i) /\ EntryAt(y, i) = lg[i]
      BY <3>1, <3>2 DEF Has, Places, EntryAt
    <3>4. QED
      BY <3>2, <3>3 DEF TermOf
  <2>3. QED
    BY <2>1, <2>2
<1>5. QED
  BY <1>1, <1>3, <1>4 DEF Part

\* What a part knows is in its places if the whole is.
LEMMA PartWellPlaced ==
  ASSUME NEW n \in Server, NEW lg \in Seq(Entry), NEW next \in Nat, TypeOK,
         WellPlaced([base |-> 0, prev |-> 0, entries |-> lg])
  PROVE  WellPlaced(RequestPiece(AppendEntriesMsg(n, lg, next)))
<1> DEFINE x == [base |-> next, prev |-> TermAt(lg, next - 1),
                 entries |-> EntriesFrom(lg, next)]
<1>1. RequestPiece(AppendEntriesMsg(n, lg, next)) = x
  BY DEF RequestPiece, AppendEntriesMsg
<1>2. /\ Len(x.entries) = IF next < Len(lg) THEN Len(lg) - next ELSE 0
      /\ \A k \in 1 .. Len(x.entries) : x.entries[k] = lg[next + k]
      /\ x.entries \in Seq(Entry)
      /\ x.base = next /\ x.prev = TermAt(lg, next - 1)
  BY DEF EntriesFrom
<1> HIDE DEF x
<1>3. x.base = 0 => x.prev = 0
  BY <1>2 DEF TermAt, HasIndex
<1>4. ASSUME NEW k \in DOMAIN x.entries
      PROVE  x.entries[k].term # 0 /\ x.entries[k].index = x.base + k - 1
  <2>1. k \in 1 .. Len(x.entries) /\ next + k \in DOMAIN lg
    BY <1>2
  <2>2. lg[next + k].term # 0 /\ lg[next + k].index = 0 + (next + k) - 1
    BY <2>1 DEF WellPlaced
  <2>3. QED
    BY SMTT(60), <1>2, <2>1, <2>2
<1>5. QED
  BY <1>1, <1>3, <1>4 DEF WellPlaced

-----------------------------------------------------------------------------
(* Who led which term.                                                       *)

\* A step keeps what a voter can no longer do.
LEMMA BacksKept ==
  ASSUME TypeOK, TypeOK', VoteStep, NEW v \in Server, NEW w \in Server,
         NEW t \in Nat, Backs(v, w, t)
  PROVE  Backs(v, w, t)'
<1>1. currentTerm[v] \in Nat /\ currentTerm'[v] \in Nat
  BY DEF TypeOK
<1>2. currentTerm'[v] >= t /\ (currentTerm'[v] = t => votedFor'[v] = w)
  BY <1>1, NoVoteAssumption DEF VoteStep, Backs
<1>3. \A c \in Server : Voted(v, c, t)' => Voted(v, c, t) \/ Remembered(v, c, t)'
  BY DEF VoteStep, Voted
<1>4. \A c \in Server : Voted(v, c, t)' => c = w
  BY <1>2, <1>3 DEF Backs, Remembered
<1>5. QED
  BY <1>2, <1>4 DEF Backs

\* No leader of a term stays in it in another role.
RolesKept ==
  \A w \in Server :
    state[w] = Leader /\ currentTerm'[w] = currentTerm[w] => state'[w] = Leader

\* Who led a term once led it for good.
LEMMA LedKept ==
  ASSUME TypeOK, TypeOK', VoteStep, RolesKept, NEW w \in Server, NEW t \in Nat,
         Led(w, t)
  PROVE  Led(w, t)'
<1>1. PICK Q \in SUBSET Server :
        IsMajority(Cardinality(Q)) /\ \A v \in Q : Backs(v, w, t)
  BY DEF Led
<1>2. \A v \in Q : Backs(v, w, t)'
  BY <1>1, BacksKept
<1>3. IsMajority(Cardinality(Q))'
  BY <1>1 DEF IsMajority
<1>4. currentTerm'[w] >= currentTerm[w]
  BY DEF VoteStep
<1>5. currentTerm'[w] >= t /\ (currentTerm'[w] = t => state'[w] = Leader)
  BY <1>4 DEF Led, TypeOK, RolesKept
<1>6. QED
  BY <1>1, <1>2, <1>3, <1>5 DEF Led, IsMajority

\* A leader leads its term.
LEMMA LeaderLeds ==
  ASSUME TypeOK, ElectedInv, NEW n \in Server, state[n] = Leader
  PROVE  Led(n, currentTerm[n])
<1>1. votesReceived[n] \in SUBSET Server /\ currentTerm[n] \in Nat
  BY DEF TypeOK
<1>2. \A v \in votesReceived[n] : Voted(v, n, currentTerm[n])
  BY DEF Voted, Counted
<1>3. \A v \in votesReceived[n] : Backs(v, n, currentTerm[n])
  BY <1>1, <1>2
  DEF ElectedInv, VotesInv, VotesRemembered, OneVotePerTerm, Backs
<1>4. IsMajority(Cardinality(votesReceived[n]))
  BY DEF ElectedInv, LeadersElected
<1>5. QED
  BY <1>1, <1>3, <1>4 DEF Led

\* Nobody else ever led the term of a leader.
LEMMA LedUnique ==
  ASSUME TypeOK, ElectedInv, NEW n \in Server, NEW w \in Server,
         state[n] = Leader, Led(w, currentTerm[n])
  PROVE  w = n
<1>1. PICK Q \in SUBSET Server :
        IsMajority(Cardinality(Q)) /\ \A v \in Q : Backs(v, w, currentTerm[n])
  BY DEF Led
<1>2. votesReceived[n] \subseteq Server
  BY DEF TypeOK
<1>3. Cardinality(votesReceived[n]) + Cardinality(Q) > Cardinality(Server)
  <2>1. /\ Cardinality(votesReceived[n]) > Cardinality(Server) \div 2
        /\ Cardinality(Q) > Cardinality(Server) \div 2
    BY <1>1 DEF ElectedInv, LeadersElected, IsMajority
  <2>2. /\ Cardinality(votesReceived[n]) \in Nat
        /\ Cardinality(Q) \in Nat
        /\ Cardinality(Server) \in Nat
    BY <1>2, ServerAssumption, FS_Subset, FS_CardinalityType
  <2>3. \A i, j, k \in Nat : i > k \div 2 /\ j > k \div 2 => i + j > k
    OBVIOUS
  <2>4. QED
    BY <2>1, <2>2, <2>3
<1>4. PICK v \in votesReceived[n] \cap Q : TRUE
  BY <1>2, <1>3, ServerAssumption, FS_MajoritiesIntersect
<1>5. Voted(v, n, currentTerm[n])
  BY <1>4 DEF Voted, Counted
<1>6. QED
  BY <1>1, <1>4, <1>5 DEF Backs

-----------------------------------------------------------------------------
(* What a step of n may do to the logs, the queues and the roles.            *)

\* n leads its term before and after the step.
Leads(n) ==
  state[n] = Leader /\ state'[n] = Leader /\ currentTerm'[n] = currentTerm[n]

\* n adds an entry of the term it leads to its log.
Appended(n) ==
  /\ Leads(n)
  /\ \E e \in Entry : /\ e.term = currentTerm[n]
                      /\ e.index = LastIndex(log[n]) + 1
                      /\ log'[n] = Append(log[n], e)

\* n merges the entries of the request it handles and is a follower then.
Merged(n) ==
  /\ queue[n] # << >> /\ Head(queue[n]).type = "AppendEntries"
  /\ ~Stale(n, Head(queue[n])) /\ Joins(log[n], Head(queue[n]))
  /\ log'[n] = MergeEntries(log[n], Head(queue[n]).entries)
  /\ state'[n] = Follower /\ currentTerm'[n] = Head(queue[n]).term

\* m is what n may send to c: a request brings a part of the log it has then.
Sent(n, c, m) ==
  /\ c # n /\ m.src = n
  /\ m.type = "AppendEntries" =>
       /\ Leads(n)
       /\ \E next \in Nat : m = AppendEntriesMsg(n, log'[n], next)

LogsStep(n) ==
  /\ \A p \in Server \ {n} : log'[p] = log[p]
  /\ log'[n] = log[n] \/ Appended(n) \/ Merged(n)

QueuesStep(n) ==
  \A c \in Server : \A k \in DOMAIN queue'[c] :
    \/ \E j \in DOMAIN queue[c] : queue'[c][k] = queue[c][j]
    \/ Sent(n, c, queue'[c][k])

\* Only followers are in term 0.
RolesTermed ==
  \A w \in Server :
    state'[w] # Follower =>
      \/ state[w] # Follower /\ currentTerm'[w] = currentTerm[w]
      \/ currentTerm'[w] > 0

LogStep(n) == LogsStep(n) /\ QueuesStep(n) /\ RolesKept /\ RolesTermed

\* Standing for election sends no entries and takes no leadership away.
LEMMA StartElectionLogs ==
  ASSUME TypeOK, NEW n \in Server, StartElection(n)
  PROVE  LogStep(n)
<1> DEFINE r == [p \in Server |-> [type |-> "RequestVote", src |-> n,
                                  term |-> currentTerm[n] + 1,
                                  lastLogIndex |-> LastIndex(log[n]),
                                  lastLogTerm |-> LastTerm(log[n])]]
<1>1. queue' = [p \in Server |-> IF p = n THEN queue[p]
                                 ELSE Append(queue[p], r[p])]
  BY DEF StartElection, ToPeers, Peers
<1>2. \A p \in Server : r[p].type = "RequestVote" /\ r[p].src = n
  OBVIOUS
<1> HIDE DEF r
<1>3. QueuesStep(n)
  BY <1>1, <1>2, RequestsQueue DEF QueuesStep, Sent
<1>4. /\ state[n] # Leader /\ currentTerm'[n] > 0
      /\ \A w \in Server \ {n} :
           state'[w] = state[w] /\ currentTerm'[w] = currentTerm[w]
  BY SMTT(60) DEF StartElection, BecomeLeader, TypeOK, Follower, Candidate, Leader
<1>5. RolesKept /\ RolesTermed
  BY <1>4 DEF RolesKept, RolesTermed
<1>6. LogsStep(n)
  BY DEF StartElection, LogsStep
<1>7. QED
  BY <1>3, <1>5, <1>6 DEF LogStep

\* A step that keeps logs, roles and terms, and sends nothing.
LEMMA LogFrame ==
  ASSUME TypeOK, NEW n \in Server, UNCHANGED <<state, currentTerm>>, UNCHANGED log,
         QueuesStep(n)
  PROVE  LogStep(n)
  BY DEF LogStep, LogsStep, RolesKept, RolesTermed

\* Taking a message puts nothing in a queue.
LEMMA ConsumeQueues ==
  ASSUME TypeOK, NEW n \in Server, queue[n] # << >>, Consume(n)
  PROVE  QueuesStep(n)
  BY ConsumeQueue DEF QueuesStep

\* Answering a message puts the answer, and nothing else, in a queue.
LEMMA ReplyQueues ==
  ASSUME TypeOK, NEW n \in Server, NEW p \in Server, NEW r, queue[n] # << >>,
         Reply(n, p, r), Sent(n, p, r)
  PROVE  QueuesStep(n)
  BY ReplyQueue DEF QueuesStep

\* Voting touches no log; a newer term ends a leadership.
LEMMA HandleRequestVoteLogs ==
  ASSUME TypeOK, NEW n \in Server, queue[n] # << >>, NEW m \in VoteRequest,
         m.src # n, HandleRequestVote(n, m)
  PROVE  LogStep(n)
<1>1. m.src \in Server /\ m.term \in Nat
  BY DEF VoteRequest
<1>2. PICK r : Reply(n, m.src, r) /\ r.src = n /\ r.type = "RequestVoteResponse"
  BY DEF HandleRequestVote
<1>3. QueuesStep(n)
  BY <1>1, <1>2, ReplyQueues DEF Sent
<1>4. /\ \A w \in Server \ {n} :
           state'[w] = state[w] /\ currentTerm'[w] = currentTerm[w]
      /\ currentTerm'[n] = Larger(m.term, currentTerm[n])
      /\ state'[n] = IF m.term > currentTerm[n] THEN Follower ELSE state[n]
      /\ UNCHANGED log
  BY DEF HandleRequestVote, TypeOK
<1>5. m.term <= currentTerm[n] => currentTerm'[n] = currentTerm[n]
  BY <1>1, <1>4 DEF Larger, TypeOK
<1>6. m.term > currentTerm[n] => currentTerm'[n] > currentTerm[n]
  BY <1>1, <1>4 DEF Larger, TypeOK
<1>7. m.term > currentTerm[n] \/ m.term <= currentTerm[n]
  BY <1>1 DEF TypeOK
<1>8. RolesKept
  <2>1. state[n] = Leader /\ currentTerm'[n] = currentTerm[n]
          => state'[n] = Leader
    <3>1. currentTerm[n] \in Nat /\ currentTerm'[n] \in Nat
      BY <1>1, <1>4 DEF Larger, TypeOK
    <3>2. QED
      BY <1>4, <1>6, <1>7, <3>1
  <2>2. QED
    BY <1>4, <2>1 DEF RolesKept
<1>9. RolesTermed
  BY <1>4, <1>5, <1>7 DEF RolesTermed
<1>10. QED
  BY <1>3, <1>4, <1>8, <1>9 DEF LogStep, LogsStep

\* A response of a newer term ends a leadership and touches no log.
LEMMA StepDownLogs ==
  ASSUME TypeOK, NEW n \in Server, queue[n] # << >>, NEW m \in Message,
         StepDown(n, m)
  PROVE  LogStep(n)
<1>1. m.term \in Nat
  BY DEF Message, VoteRequest, VoteResponse, AppendRequest, AppendResponse
<1>2. QueuesStep(n)
  BY ConsumeQueues DEF StepDown
<1>3. /\ \A w \in Server \ {n} :
           state'[w] = state[w] /\ currentTerm'[w] = currentTerm[w]
      /\ currentTerm'[n] = m.term /\ m.term > currentTerm[n]
      /\ state'[n] = Follower
      /\ UNCHANGED log
  BY DEF StepDown, TypeOK
<1>4. RolesKept /\ RolesTermed
  <2>1. currentTerm[n] \in Nat
    BY DEF TypeOK
  <2>2. currentTerm'[n] # currentTerm[n]
    BY <1>1, <1>3, <2>1
  <2>3. QED
    BY <1>3, <2>2 DEF RolesKept, RolesTermed
<1>5. QED
  BY <1>2, <1>3, <1>4 DEF LogStep, LogsStep

\* Counting votes may start a leadership and touches no log.
LEMMA CountVoteLogs ==
  ASSUME TypeOK, NEW n \in Server, queue[n] # << >>, NEW m \in Message,
         CountVote(n, m)
  PROVE  LogStep(n)
<1>1. QueuesStep(n)
  BY ConsumeQueues DEF CountVote
<1>2. /\ \A w \in Server \ {n} : state'[w] = state[w]
      /\ UNCHANGED <<log, currentTerm>> /\ state[n] = Candidate
  BY DEF CountVote, BecomeLeader, TypeOK
<1>3. RolesKept /\ RolesTermed
  BY <1>2 DEF RolesKept, RolesTermed, TypeOK, Follower, Candidate, Leader
<1>4. QED
  BY <1>1, <1>2, <1>3 DEF LogStep, LogsStep

\* A request of a leader takes no leadership away in the same term: the leader
\* would have sent it to itself.
LEMMA HandleAppendEntriesLogs ==
  ASSUME TypeOK, ElectedInv, NEW n \in Server, queue[n] # << >>,
         NEW m \in AppendRequest, m = Head(queue[n]), Addressed(n, m),
         HandleAppendEntries(n, m)
  PROVE  LogStep(n)
<1>1. m.src \in Server /\ m.term \in Nat /\ m.type = "AppendEntries"
  BY DEF AppendRequest
<1>2. PICK term, ok, match : Reply(n, m.src, AppendResult(n, term, ok, match))
  BY DEF HandleAppendEntries, RejectStaleLeader, FollowLeader
<1>3. QueuesStep(n)
  <2> DEFINE r == AppendResult(n, term, ok, match)
  <2>1. r.src = n /\ r.type = "AppendEntriesResponse"
    BY DEF AppendResult
  <2> HIDE DEF r
  <2>2. Sent(n, m.src, r)
    BY <2>1 DEF Sent, Addressed
  <2>3. QED
    BY <1>1, <1>2, <2>2, ReplyQueues DEF r
<1>4. CASE RejectStaleLeader(n, m)
  BY <1>3, <1>4, LogFrame DEF RejectStaleLeader, electionVars
<1>5. CASE FollowLeader(n, m)
  <2>1. /\ \A w \in Server \ {n} :
             state'[w] = state[w] /\ currentTerm'[w] = currentTerm[w]
        /\ state'[n] = Follower /\ currentTerm'[n] = m.term
    BY <1>5 DEF FollowLeader, TypeOK
  <2>2. RolesTermed
    BY <2>1 DEF RolesTermed
  <2>3. RolesKept
    <3>1. SUFFICES ASSUME state[n] = Leader, m.term = currentTerm[n]
                   PROVE  FALSE
      BY <2>1 DEF RolesKept
    <3>2. Led(m.src, currentTerm[n])
      BY <1>1, <3>1 DEF Addressed
    <3>3. QED
      BY <1>1, <3>1, <3>2, LedUnique DEF Addressed
  <2>4. LogsStep(n)
    <3>1. CASE UNCHANGED log
      BY <3>1 DEF LogsStep
    <3>2. CASE Joins(log[n], m)
                 /\ log' = [log EXCEPT ![n] = MergeEntries(log[n], m.entries)]
      <4>1. Merged(n)
        BY <1>1, <1>5, <2>1, <3>2 DEF Merged, FollowLeader, TypeOK
      <4>2. QED
        BY <3>2, <4>1 DEF LogsStep
    <3>3. QED
      BY <1>5, <3>1, <3>2 DEF FollowLeader
  <2>5. QED
    BY <1>3, <2>2, <2>3, <2>4 DEF LogStep
<1>6. QED
  BY <1>4, <1>5 DEF HandleAppendEntries

\* A leader that tries again one step earlier sends a part of its log.
LEMMA HandleAppendEntriesResponseLogs ==
  ASSUME TypeOK, NEW n \in Server, queue[n] # << >>,
         NEW m \in AppendResponse, m.src # n, HandleAppendEntriesResponse(n, m)
  PROVE  LogStep(n)
<1>1. m \in Message /\ m.src \in Server
  BY DEF Message, AppendResponse
<1>2. CASE StepDown(n, m)
  BY <1>1, <1>2, StepDownLogs
<1>3. CASE Ignore(n, m, Leader)
  BY <1>3, ConsumeQueues, LogFrame DEF Ignore, electionVars
<1>4. CASE AcceptMatch(n, m) /\ UNCHANGED electionVars /\ UNCHANGED log
  BY <1>4, ConsumeQueues, LogFrame DEF AcceptMatch, electionVars
<1>5. CASE RetryEarlier(n, m) /\ UNCHANGED electionVars /\ UNCHANGED log
             /\ state[n] = Leader
  <2> DEFINE next == EarlierIndex(nextIndex[n][m.src])
             r == AppendEntriesMsg(n, log[n], next)
  <2>1. Reply(n, m.src, r)
    BY <1>5 DEF RetryEarlier
  <2>2. next \in Nat
    BY SMTT(60), <1>1 DEF EarlierIndex, Larger, TypeOK
  <2>3. Leads(n)
    BY <1>5 DEF Leads, electionVars
  <2>4. r.src = n
    BY DEF AppendEntriesMsg
  <2> HIDE DEF next
  <2>5. Sent(n, m.src, r)
    BY <1>5, <2>2, <2>3, <2>4 DEF Sent
  <2> HIDE DEF r
  <2>6. QueuesStep(n)
    BY <1>1, <2>1, <2>5, ReplyQueues
  <2>7. QED
    BY <1>5, <2>6, LogFrame DEF electionVars
<1>6. QED
  BY <1>2, <1>3, <1>4, <1>5 DEF HandleAppendEntriesResponse

\* The handling of any message is such a step.
LEMMA HandleMessageLogs ==
  ASSUME TypeOK, ElectedInv, MatchingInv, NEW n \in Server, HandleMessage(n)
  PROVE  LogStep(n)
<1> DEFINE m == Head(queue[n])
<1>1. queue[n] # << >> /\ m \in Message
  BY HeadType DEF HandleMessage
<1>2. /\ m.type = "RequestVote" => m \in VoteRequest
      /\ m.type = "RequestVoteResponse" => m \in VoteResponse
      /\ m.type = "AppendEntries" => m \in AppendRequest
      /\ m.type = "AppendEntriesResponse" => m \in AppendResponse
  <2> HIDE DEF m
  <2> QED  BY <1>1
           DEF Message, VoteRequest, VoteResponse, AppendRequest, AppendResponse
<1>3. Addressed(n, m)
  <2>1. 1 \in DOMAIN queue[n] /\ m = queue[n][1]
    <3>1. queue[n] \in Seq(Message)
      BY DEF TypeOK
    <3>2. QED
      BY <1>1, <3>1
  <2>2. QED
    BY <2>1 DEF MatchingInv
<1>4. m.src # n
  BY <1>3 DEF Addressed
<1>5. CASE m.type = "RequestVote" /\ HandleRequestVote(n, m)
  BY <1>1, <1>2, <1>4, <1>5, HandleRequestVoteLogs
<1>6. CASE m.type = "RequestVoteResponse" /\ HandleRequestVoteResponse(n, m)
  <2>1. CASE StepDown(n, m)
    BY <1>1, <2>1, StepDownLogs
  <2>2. CASE Ignore(n, m, Candidate)
    BY <1>1, <2>2, ConsumeQueues, LogFrame DEF Ignore, electionVars
  <2>3. CASE CountVote(n, m)
    BY <1>1, <2>3, CountVoteLogs
  <2>4. QED
    BY <1>6, <2>1, <2>2, <2>3 DEF HandleRequestVoteResponse
<1>7. CASE m.type = "AppendEntries" /\ HandleAppendEntries(n, m)
  BY <1>1, <1>2, <1>3, <1>7, HandleAppendEntriesLogs
<1>8. CASE m.type = "AppendEntriesResponse" /\ HandleAppendEntriesResponse(n, m)
  BY <1>1, <1>2, <1>4, <1>8, HandleAppendEntriesResponseLogs
<1>9. QED
  BY <1>5, <1>6, <1>7, <1>8 DEF HandleMessage

\* Heartbeats bring parts of the leader's log.
LEMMA SendHeartbeatsLogs ==
  ASSUME TypeOK, NEW n \in Server, SendHeartbeats(n)
  PROVE  LogStep(n)
<1> DEFINE r == [p \in Server |-> AppendEntriesMsg(n, log[n], nextIndex[n][p])]
<1>1. queue' = [p \in Server |-> IF p = n THEN queue[p]
                                 ELSE Append(queue[p], r[p])]
  BY DEF SendHeartbeats, ToPeers, Peers
<1>2. Leads(n) /\ UNCHANGED log
  BY DEF SendHeartbeats, electionVars, Leads
<1>3. ASSUME NEW p \in Server, p # n
      PROVE  Sent(n, p, r[p])
  <2>1. nextIndex[n][p] \in Nat
    BY DEF TypeOK
  <2>2. r[p].src = n
    BY DEF AppendEntriesMsg
  <2>3. r[p] = AppendEntriesMsg(n, log'[n], nextIndex[n][p])
    BY <1>2
  <2> HIDE DEF r
  <2>4. QED
    BY <1>2, <1>3, <2>1, <2>2, <2>3 DEF Sent
<1> HIDE DEF r
<1>4. QueuesStep(n)
  BY <1>1, <1>3, RequestsQueue DEF QueuesStep
<1>5. QED
  BY <1>4, LogFrame DEF SendHeartbeats, electionVars

\* A submitted command is appended by the leader and sent with its log.
LEMMA SubmitCommandLogs ==
  ASSUME TypeOK, NEW n \in Server, NEW c \in Command, SubmitCommand(n, c)
  PROVE  LogStep(n)
<1> DEFINE e  == [term |-> currentTerm[n], index |-> LastIndex(log[n]) + 1,
                  command |-> c]
           lg == Append(log[n], e)
           r  == [p \in Server |-> AppendEntriesMsg(n, lg, nextIndex[n][p])]
<1>1. queue' = [p \in Server |-> IF p = n THEN queue[p]
                                 ELSE Append(queue[p], r[p])]
  BY DEF SubmitCommand, ToPeers, Peers
<1>2. /\ log' = [log EXCEPT ![n] = lg]
      /\ state[n] = Leader /\ UNCHANGED <<state, currentTerm>>
  BY DEF SubmitCommand, electionVars
<1>3. Leads(n) /\ log'[n] = lg
  BY <1>2 DEF Leads, TypeOK
<1>4. Appended(n)
  <2>1. LastIndex(log[n]) + 1 \in Nat
    <3>1. log[n] \in Seq(Entry)
      BY DEF TypeOK
    <3>2. QED
      BY <3>1, EntryIndexed, LastIndexType
  <2>2. e \in Entry
    BY <2>1 DEF Entry, TypeOK
  <2>3. e.term = currentTerm[n] /\ e.index = LastIndex(log[n]) + 1
    OBVIOUS
  <2> HIDE DEF e
  <2>4. QED
    BY <1>3, <2>2, <2>3 DEF Appended
<1>5. ASSUME NEW p \in Server, p # n
      PROVE  Sent(n, p, r[p])
  <2>1. nextIndex[n][p] \in Nat
    BY DEF TypeOK
  <2>2. r[p].src = n
    BY DEF AppendEntriesMsg
  <2>3. r[p] = AppendEntriesMsg(n, log'[n], nextIndex[n][p])
    BY <1>3
  <2> HIDE DEF r
  <2>4. QED
    BY <1>3, <1>5, <2>1, <2>2, <2>3 DEF Sent
<1> HIDE DEF r
<1>6. QueuesStep(n)
  BY <1>1, <1>5, RequestsQueue DEF QueuesStep
<1>7. LogsStep(n)
  BY <1>2, <1>4 DEF LogsStep, TypeOK
<1>8. RolesKept /\ RolesTermed
  BY <1>2 DEF RolesKept, RolesTermed
<1>9. QED
  BY <1>6, <1>7, <1>8 DEF LogStep

\* Every step is one that some node may take.
LEMMA LogStepOfStep ==
  ASSUME TypeOK, ElectedInv, MatchingInv, Server # {}, [Next]_vars
  PROVE  \E n \in Server : LogStep(n)
<1>1. ASSUME NEW n \in Server, UNCHANGED <<electionVars, log, queue>>
      PROVE  LogStep(n)
  <2>1. QueuesStep(n)
    BY <1>1 DEF QueuesStep
  <2>2. QED
    BY <1>1, <2>1, LogFrame DEF electionVars
<1>2. ASSUME NEW n \in Server, Start(n) \/ Stop(n)
      PROVE  LogStep(n)
  BY <1>1, <1>2 DEF Start, Stop
<1>3. ASSUME NEW n \in Server, StartElection(n)
      PROVE  LogStep(n)
  BY <1>3, StartElectionLogs
<1>4. ASSUME NEW n \in Server, SendHeartbeats(n)
      PROVE  LogStep(n)
  BY <1>4, SendHeartbeatsLogs
<1>5. ASSUME NEW n \in Server, HandleMessage(n)
      PROVE  LogStep(n)
  BY <1>5, HandleMessageLogs
<1>6. ASSUME NEW n \in Server, ApplyCommitted(n)
      PROVE  LogStep(n)
  BY <1>1, <1>6 DEF ApplyCommitted
<1>7. ASSUME NEW n \in Server, NEW c \in Command, SubmitCommand(n, c)
      PROVE  LogStep(n)
  BY <1>7, SubmitCommandLogs
<1>8. CASE UNCHANGED vars
  BY <1>1, <1>8 DEF vars
<1>9. QED
  BY <1>2, <1>3, <1>4, <1>5, <1>6, <1>7, <1>8 DEF Next

-----------------------------------------------------------------------------
(* The log of the node that takes the step agrees with all there was.        *)

\* The pieces of a state are pieces of logs.
LEMMA PiecesType ==
  ASSUME TypeOK, MatchingInv
  PROVE  /\ Pieces \subseteq Piece
         /\ \A n \in Server : LogPiece(n) \in Pieces
         /\ \A n \in Server : \A k \in DOMAIN queue[n] :
              queue[n][k].type = "AppendEntries"
                => RequestPiece(queue[n][k]) \in Pieces
<1>1. \A n \in Server : LogPiece(n) \in Piece
  BY DEF LogPiece, Piece, TypeOK
<1>2. ASSUME NEW n \in Server, NEW k \in DOMAIN queue[n],
             queue[n][k].type = "AppendEntries"
      PROVE  RequestPiece(queue[n][k]) \in Piece
  <2>1. queue[n][k] \in Message
    BY DEF TypeOK
  <2>2. queue[n][k] \in AppendRequest
    BY <1>2, <2>1
    DEF Message, VoteRequest, VoteResponse, AppendRequest, AppendResponse
  <2>3. queue[n][k].prevLogIndex >= -1
    BY <1>2 DEF MatchingInv, Addressed
  <2>4. queue[n][k].prevLogIndex + 1 \in Nat
    BY <2>2, <2>3 DEF AppendRequest
  <2>5. QED
    BY <2>2, <2>4 DEF RequestPiece, Piece, AppendRequest
<1>3. QED
  BY <1>1, <1>2 DEF Pieces

\* Where the entries of a request that joins a log go: behind the first ones of
\* the log, each to the place of its index.
LEMMA JoinsWithin ==
  ASSUME TypeOK, MatchingInv, NEW n \in Server, queue[n] # << >>,
         NEW m, m = Head(queue[n]), m.type = "AppendEntries", Joins(log[n], m)
  PROVE  /\ m \in AppendRequest
         /\ RequestPiece(m) \in Pieces
         /\ log[n] \in Seq(Entry) /\ m.entries \in Seq(Entry)
         /\ Placed(log[n]) /\ PlacedAfter(m.entries, m.prevLogIndex + 1)
         /\ m.prevLogIndex + 1 \in 0 .. Len(log[n])
         /\ m.prevLogIndex + 1 > 0
              => log[n][m.prevLogIndex + 1].term = m.prevLogTerm
<1> DEFINE x == LogPiece(n)
           r == RequestPiece(m)
           lg == log[n]
           b == m.prevLogIndex + 1
           es == m.entries
<1>1. 1 \in DOMAIN queue[n] /\ m = queue[n][1]
  <2>1. queue[n] \in Seq(Message)
    BY DEF TypeOK
  <2>2. QED
    BY <2>1
<1>2. /\ x \in Pieces /\ r \in Pieces
      /\ x \in Piece /\ r \in Piece
      /\ WellPlaced(x) /\ WellPlaced(r)
  <2>1. x \in Pieces /\ r \in Pieces
    BY <1>1, PiecesType
  <2>2. QED
    BY <2>1, PiecesType DEF MatchingInv
<1>3. lg \in Seq(Entry) /\ es \in Seq(Entry) /\ b \in Nat
  BY <1>2 DEF Piece, LogPiece, RequestPiece
<1>4. x.base = 0 /\ x.entries = lg /\ r.base = b /\ r.entries = es
  BY DEF LogPiece, RequestPiece
<1>5. Placed(lg) /\ PlacedAfter(es, b)
  BY <1>2, <1>3, <1>4 DEF WellPlaced, Placed, PlacedAfter
<1>6. m \in AppendRequest
  <2>1. m \in Message
    BY HeadType
  <2>2. QED
    BY <2>1
    DEF Message, VoteRequest, VoteResponse, AppendRequest, AppendResponse
<1>7. b <= Len(lg) /\ (b > 0 => lg[b].term = m.prevLogTerm)
  <2>1. LastIndex(lg) = Len(lg) - 1
    BY <1>3, <1>5, LastIndexOfPlaced
  <2>2. m.prevLogIndex \in Int /\ m.prevLogIndex = b - 1
    BY <1>6 DEF AppendRequest
  <2>3. QED
    BY <1>3, <2>1, <2>2 DEF Joins, TermAt, HasIndex
<1>8. QED
  BY <1>2, <1>3, <1>5, <1>6, <1>7

\* A request that joins a log and is merged into it: the merge comes to its
\* reference, and what comes out agrees with every piece and knows no new term.
LEMMA MergedPiece ==
  ASSUME TypeOK, MatchingInv, NEW n \in Server, queue[n] # << >>,
         NEW m, m = Head(queue[n]), m.type = "AppendEntries", Joins(log[n], m),
         NEW g, g = [base |-> 0, prev |-> 0,
                     entries |-> MergeEntries(log[n], m.entries)]
  PROVE  /\ MergeEntries(log[n], m.entries)
              = MergeReference(log[n], m.prevLogIndex + 1, m.entries)
         /\ g \in Piece /\ WellPlaced(g)
         /\ \A z \in Pieces : Agree(g, z)
         /\ \A i \in Places(g) : TermOf(g, i) # 0 =>
              \E x \in Pieces : TermOf(x, i) = TermOf(g, i)
<1> DEFINE x == LogPiece(n)
           r == RequestPiece(m)
           lg == log[n]
           b == m.prevLogIndex + 1
           es == m.entries
<1>1. 1 \in DOMAIN queue[n] /\ m = queue[n][1]
  <2>1. queue[n] \in Seq(Message)
    BY DEF TypeOK
  <2>2. QED
    BY <2>1
<1>2. /\ x \in Pieces /\ r \in Pieces
      /\ x \in Piece /\ r \in Piece
      /\ WellPlaced(x) /\ WellPlaced(r) /\ Agree(x, r)
  <2>1. x \in Pieces /\ r \in Pieces
    BY <1>1, PiecesType
  <2>2. QED
    BY <2>1, PiecesType DEF MatchingInv
<1>3. lg \in Seq(Entry) /\ es \in Seq(Entry) /\ b \in Nat
  BY <1>2 DEF Piece, LogPiece, RequestPiece
<1>4. /\ x.base = 0 /\ x.prev = 0 /\ x.entries = lg
      /\ r.base = b /\ r.prev = m.prevLogTerm /\ r.entries = es
  BY DEF LogPiece, RequestPiece
<1>5. \A k \in DOMAIN lg : lg[k].term # 0 /\ lg[k].index = k - 1
  BY <1>2, <1>3, <1>4 DEF WellPlaced
<1>6. \A k \in DOMAIN es : es[k].term # 0 /\ es[k].index = b + k - 1
  BY <1>2, <1>3, <1>4 DEF WellPlaced
<1>7. Placed(lg) /\ PlacedAfter(es, b)
  BY <1>5, <1>6 DEF Placed, PlacedAfter
<1>8. b <= Len(lg) /\ (b > 0 => lg[b].term = m.prevLogTerm)
  BY JoinsWithin
<1> HIDE DEF x, r, lg, b, es
<1>9. Matching(lg, b, es)
  <2>1. SUFFICES ASSUME NEW k \in DOMAIN es, b + k <= Len(lg),
                        lg[b + k].term = es[k].term, NEW j \in 1 .. k
                 PROVE  lg[b + j] = es[j]
    BY DEF Matching
  <2>2. k \in 1 .. Len(es) /\ j \in 1 .. Len(es)
    BY <1>3
  <2>3. ASSUME NEW i \in 1 .. Len(es), b + i <= Len(lg)
        PROVE  /\ Has(x, b + i) /\ EntryAt(x, b + i) = lg[b + i]
               /\ Has(r, b + i) /\ EntryAt(r, b + i) = es[i]
               /\ b + i \in Places(x) \cap Places(r)
    BY <1>3, <1>4, <2>3 DEF Has, Places, EntryAt
  <2>4. TermOf(x, b + k) = TermOf(r, b + k) /\ TermOf(x, b + k) # 0
    BY <1>6, <2>1, <2>2, <2>3 DEF TermOf
  <2>5. b + j \in 1 .. b + k /\ b + j <= Len(lg)
    BY <1>3, <2>1, <2>2
  <2>6. /\ Has(x, b + j) /\ EntryAt(x, b + j) = lg[b + j]
        /\ Has(r, b + j) /\ EntryAt(r, b + j) = es[j]
    BY <2>2, <2>3, <2>5
  <2>7. b + k \in Places(x) \cap Places(r)
    BY <2>1, <2>2, <2>3
  <2>8. EntryAt(x, b + j) = EntryAt(r, b + j)
    BY <1>2, <2>4, <2>5, <2>6, <2>7 DEF Agree
  <2>9. QED
    BY <2>6, <2>8
<1>10. MergeEntries(lg, es) = MergeReference(lg, b, es)
  BY <1>3, <1>7, <1>8, <1>9, EntryIndexed, MergeCorrect
<1>11. ASSUME NEW z \in Pieces
       PROVE  z \in Piece /\ WellPlaced(z) /\ Agree(x, z) /\ Agree(r, z)
  BY <1>2, PiecesType DEF MatchingInv
<1>12. g \in Piece
  <2>1. MergeEntries(lg, es) \in Seq(Entry)
    BY <1>3, EntryIndexed, MergeEntriesType
  <2>2. QED
    BY <2>1 DEF Piece, lg, es
<1>13. CASE g = x \/ g = r
  BY <1>2, <1>10, <1>11, <1>12, <1>13 DEF lg, b, es
<1>14. CASE HoldsAll(lg, es)
  <2>1. g = x
    BY <1>10, <1>14 DEF MergeReference, LogPiece, x, lg, es
  <2>2. QED
    BY <1>13, <2>1
<1>15. CASE ~HoldsAll(lg, es) /\ b = 0
  <2>1. MergeReference(lg, b, es) = es
    <3>1. SubSeq(lg, 1, 0) = << >>
      BY <1>3
    <3>2. QED
      BY <1>3, <1>15, <3>1 DEF MergeReference
  <2>2. g = r
    <3>1. r.prev = 0
      BY <1>2, <1>4, <1>15 DEF WellPlaced
    <3>2. r = [base |-> 0, prev |-> 0, entries |-> es]
      BY <1>4, <1>15, <3>1 DEF RequestPiece, r
    <3>3. QED
      BY <1>10, <2>1, <3>2 DEF lg, es
  <2>3. QED
    BY <1>13, <2>2
<1>16. CASE ~HoldsAll(lg, es) /\ b > 0
  <2> DEFINE s == SubSeq(lg, 1, b) \o es
  <2>1. /\ s \in Seq(Entry) /\ Len(s) = b + Len(es)
        /\ \A j \in 1 .. b : s[j] = lg[j]
        /\ \A j \in b + 1 .. b + Len(es) : s[j] = es[j - b]
    BY <1>3, <1>8
  <2>2. /\ g.base = 0 /\ g.prev = 0 /\ g.entries = s
    BY <1>10, <1>16 DEF MergeReference, lg, es
  <2> HIDE DEF s
  <2>3. ASSUME NEW j \in 1 .. b
        PROVE  /\ Has(g, j) /\ EntryAt(g, j) = lg[j]
               /\ Has(x, j) /\ EntryAt(x, j) = lg[j]
               /\ TermOf(g, j) = lg[j].term /\ TermOf(x, j) = lg[j].term
    BY <1>3, <1>4, <1>8, <2>1, <2>2 DEF Has, Places, EntryAt, TermOf
  <2>4. ASSUME NEW j \in Nat, j > b
        PROVE  /\ Has(g, j) <=> Has(r, j)
               /\ Has(g, j) => EntryAt(g, j) = EntryAt(r, j)
               /\ TermOf(g, j) = TermOf(r, j)
    <3>1. /\ Has(g, j) <=> j <= b + Len(es)
          /\ Has(r, j) <=> j <= b + Len(es)
      BY <1>3, <1>4, <2>1, <2>2, <2>4 DEF Has, Places
    <3>2. j <= b + Len(es) =>
            /\ EntryAt(g, j) = es[j - b]
            /\ EntryAt(r, j) = es[j - b]
      BY <1>3, <1>4, <2>1, <2>2, <2>4 DEF EntryAt
    <3>3. QED
      BY <1>3, <1>4, <2>2, <2>4, <3>1, <3>2 DEF TermOf
  <2>5. m.prevLogTerm # 0 /\ TermOf(x, b) = m.prevLogTerm
    BY <1>3, <1>5, <1>8, <1>16, <2>3
  <2>6. WellPlaced(g)
    <3>1. ASSUME NEW k \in DOMAIN s
          PROVE  s[k].term # 0 /\ s[k].index = k - 1
      <4>1. CASE k <= b
        <5>1. k \in 1 .. b /\ s[k] = lg[k]
          BY <1>3, <2>1, <4>1
        <5>2. k \in DOMAIN lg
          BY <1>3, <1>8, <5>1
        <5>3. QED
          BY <1>5, <5>1, <5>2
      <4>2. CASE k > b
        <5>1. k - b \in DOMAIN es /\ s[k] = es[k - b]
          <6>1. /\ b \in Nat /\ Len(es) \in Nat
                /\ DOMAIN es = 1 .. Len(es)
            BY <1>3
          <6>2. DOMAIN s = 1 .. b + Len(es)
            BY <2>1
          <6>3. k \in b + 1 .. b + Len(es) /\ k - b \in 1 .. Len(es)
            BY <3>1, <4>2, <6>1, <6>2
          <6>4. QED
            BY <2>1, <6>1, <6>3
        <5>2. es[k - b].index = b + (k - b) - 1 /\ k \in Nat
          BY <1>6, <2>1, <5>1
        <5>3. QED
          BY <1>3, <1>6, <5>1, <5>2
      <4>3. QED
        BY <1>3, <2>1, <4>1, <4>2
    <3>2. QED
      BY <2>1, <2>2, <3>1 DEF WellPlaced
  <2>7. ASSUME NEW z \in Pieces
        PROVE  Agree(g, z)
    BY <1>2, <1>4, <1>11, <1>12, <1>16, <2>3, <2>4, <2>5, GlueAgrees
  <2>8. ASSUME NEW i \in Places(g), TermOf(g, i) # 0
        PROVE  \E y \in Pieces : TermOf(y, i) = TermOf(g, i)
    <3>1. i \in Nat /\ i > 0
      BY DEF Places
    <3>2. CASE i <= b
      BY <1>2, <1>3, <2>3, <3>1, <3>2
    <3>3. CASE i > b
      BY <1>2, <2>4, <3>1, <3>3
    <3>4. QED
      BY <1>3, <3>1, <3>2, <3>3
  <2>9. QED
    BY <1>10, <1>12, <2>6, <2>7, <2>8 DEF lg, b, es
<1>17. QED
  BY <1>3, <1>14, <1>15, <1>16

\* A command appended by a leader: nothing under way and no other log knows its
\* term at its place.
LEMMA AppendedPiece ==
  ASSUME TypeOK, ElectedInv, MatchingInv, NEW n \in Server, state[n] = Leader,
         NEW e \in Entry, e.term = currentTerm[n],
         e.index = LastIndex(log[n]) + 1,
         NEW g, g = [base |-> 0, prev |-> 0, entries |-> Append(log[n], e)]
  PROVE  /\ g \in Piece /\ WellPlaced(g)
         /\ \A z \in Pieces : Agree(g, z)
         /\ \A i \in Places(g) : TermOf(g, i) # 0 =>
              \/ TermOf(LogPiece(n), i) = TermOf(g, i)
              \/ TermOf(g, i) = currentTerm[n]
<1> DEFINE x == LogPiece(n)
           lg == log[n]
           new == Len(lg) + 1
<1>1. /\ x \in Pieces /\ x \in Piece /\ WellPlaced(x)
      /\ lg \in Seq(Entry) /\ currentTerm[n] \in Nat
  <2>1. x \in Pieces /\ x \in Piece
    BY PiecesType
  <2>2. QED
    BY <2>1 DEF MatchingInv, TypeOK
<1>2. x.base = 0 /\ x.prev = 0 /\ x.entries = lg
  BY DEF LogPiece
<1>3. currentTerm[n] # 0
  BY DEF MatchingInv, Follower, Leader
<1>4. /\ g.entries \in Seq(Entry) /\ Len(g.entries) = new
      /\ \A j \in 1 .. Len(lg) : g.entries[j] = lg[j]
      /\ g.entries[new] = e
      /\ g.base = 0 /\ g.prev = 0 /\ g \in Piece
  <2>1. Append(lg, e) \in Seq(Entry)
    BY <1>1
  <2>2. QED
    BY <1>1, <2>1 DEF Piece
<1>5. e.index = Len(lg)
  <2>1. Placed(lg)
    BY <1>1, <1>2 DEF WellPlaced, Placed
  <2>2. LastIndex(lg) = Len(lg) - 1
    BY <1>1, <2>1, LastIndexOfPlaced
  <2>3. QED
    BY <1>1, <2>2
<1> HIDE DEF x, lg
<1>6. ASSUME NEW j \in 1 .. Len(lg)
      PROVE  /\ Has(g, j) /\ EntryAt(g, j) = lg[j]
             /\ Has(x, j) /\ EntryAt(x, j) = lg[j]
             /\ TermOf(g, j) = TermOf(x, j)
  BY <1>1, <1>2, <1>4 DEF Has, Places, EntryAt, TermOf
<1>7. /\ Has(g, new) /\ TermOf(g, new) = currentTerm[n]
      /\ TermOf(x, new) = 0 /\ Places(g) = 1 .. new
  BY <1>1, <1>2, <1>4 DEF Has, Places, EntryAt, TermOf
<1>8. WellPlaced(g)
  <2>1. ASSUME NEW k \in 1 .. new
        PROVE  g.entries[k].term # 0 /\ g.entries[k].index = k - 1
    <3>1. CASE k = new
      BY <1>1, <1>3, <1>4, <1>5, <3>1
    <3>2. CASE k \in 1 .. Len(lg)
      <4>1. k \in DOMAIN x.entries /\ x.entries[k] = lg[k] /\ k \in Nat
        BY <1>1, <1>2, <3>2
      <4>2. lg[k].term # 0 /\ lg[k].index = 0 + k - 1
        BY <1>1, <1>2, <4>1 DEF WellPlaced
      <4>3. lg[k].index = k - 1
        BY <4>1, <4>2
      <4>4. g.entries[k] = lg[k]
        BY <1>4, <3>2
      <4>5. QED
        BY <4>2, <4>3, <4>4, Zenon
    <3>3. k = new \/ k \in 1 .. Len(lg)
      <4>1. Len(lg) \in Nat
        BY <1>1
      <4>2. QED
        BY <4>1
    <3>4. QED
      BY <3>1, <3>2, <3>3, Zenon
  <2>2. QED
    BY <1>4, <2>1 DEF WellPlaced
<1>9. ASSUME NEW z \in Pieces
      PROVE  Agree(g, z)
  <2>1. z \in Piece /\ Authored(z) /\ Agree(x, z)
    BY <1>1, PiecesType DEF MatchingInv
  <2>2. TermOf(z, new) # currentTerm[n]
    <3>1. SUFFICES ASSUME TermOf(z, new) = currentTerm[n]
                   PROVE  FALSE
      OBVIOUS
    <3>2. new \in Places(z)
      BY <1>1, <1>3, <2>1, <3>1, TermOfType
    <3>3. PICK w \in Server :
            /\ Led(w, currentTerm[n])
            /\ currentTerm[w] = currentTerm[n]
                 => TermOf(LogPiece(w), new) = currentTerm[n]
      BY <1>3, <2>1, <3>1, <3>2 DEF Authored
    <3>4. w = n
      BY <3>3, LedUnique
    <3>5. QED
      BY <1>3, <1>7, <3>3, <3>4 DEF x
  <2>3. SUFFICES ASSUME NEW i \in Places(g) \cap Places(z),
                        TermOf(g, i) = TermOf(z, i), TermOf(g, i) # 0,
                        NEW j \in 1 .. i
                 PROVE  /\ TermOf(g, j) # 0 /\ TermOf(z, j) # 0
                             => TermOf(g, j) = TermOf(z, j)
                        /\ Has(g, j) /\ Has(z, j) => EntryAt(g, j) = EntryAt(z, j)
    BY DEF Agree
  <2>4. i \in 1 .. Len(lg) /\ j \in 1 .. Len(lg)
    BY <1>1, <1>7, <2>2, <2>3
  <2>5. i \in Places(x)
    BY <1>6, <2>4 DEF Has
  <2>6. /\ TermOf(x, j) # 0 /\ TermOf(z, j) # 0 => TermOf(x, j) = TermOf(z, j)
        /\ Has(x, j) /\ Has(z, j) => EntryAt(x, j) = EntryAt(z, j)
    BY <1>6, <2>1, <2>3, <2>4, <2>5 DEF Agree
  <2>7. QED
    BY <1>6, <2>4, <2>6
<1>10. ASSUME NEW i \in Places(g)
       PROVE  TermOf(x, i) = TermOf(g, i) \/ TermOf(g, i) = currentTerm[n]
  <2>1. i \in 1 .. Len(lg) \/ i = new
    BY <1>1, <1>7
  <2>2. QED
    BY <1>6, <1>7, <2>1
<1>11. QED
  BY <1>4, <1>8, <1>9, <1>10 DEF x

-----------------------------------------------------------------------------
(* The invariant is inductive.                                               *)

\* A leader that stays in its term keeps what it has.
LEMMA LeaderLogKept ==
  ASSUME TypeOK, TypeOK', NEW n \in Server, LogStep(n), NEW w \in Server,
         state[w] = Leader, currentTerm'[w] = currentTerm[w],
         NEW i \in Nat \ {0}, TermOf(LogPiece(w), i) # 0
  PROVE  TermOf(LogPiece(w), i)' = TermOf(LogPiece(w), i)
<1>1. log[w] \in Seq(Entry)
  BY DEF TypeOK
<1>2. state'[w] = Leader
  BY DEF LogStep, RolesKept
<1>3. log'[w] = log[w] \/ \E e \in Entry : log'[w] = Append(log[w], e)
  BY <1>2 DEF LogStep, LogsStep, Appended, Merged, Follower, Leader
<1>4. CASE log'[w] = log[w]
  BY <1>4 DEF LogPiece
<1>5. ASSUME NEW e \in Entry, log'[w] = Append(log[w], e)
      PROVE  TermOf(LogPiece(w), i)' = TermOf(LogPiece(w), i)
  <2>1. i \in 1 .. Len(log[w]) /\ TermOf(LogPiece(w), i) = log[w][i].term
    BY <1>1 DEF TermOf, Has, Places, EntryAt, LogPiece
  <2>2. /\ Len(log'[w]) = Len(log[w]) + 1
        /\ log'[w][i] = log[w][i]
    BY <1>1, <1>5, <2>1
  <2>3. TermOf(LogPiece(w), i)' = log'[w][i].term
    BY <1>1, <2>1, <2>2 DEF TermOf, Has, Places, EntryAt, LogPiece
  <2>4. QED
    BY <2>1, <2>2, <2>3
<1>6. QED
  BY <1>3, <1>4, <1>5

\* What was known of a term stays backed by who led it.
LEMMA AuthoredKept ==
  ASSUME TypeOK, TypeOK', VoteStep, NEW n \in Server, LogStep(n),
         NEW i \in Nat \ {0}, NEW t \in Nat, t # 0, NEW w \in Server, Led(w, t),
         currentTerm[w] = t => TermOf(LogPiece(w), i) = t
  PROVE  Led(w, t)' /\ (currentTerm'[w] = t => TermOf(LogPiece(w), i)' = t)
<1>1. Led(w, t)'
  BY LedKept DEF LogStep
<1>2. ASSUME currentTerm'[w] = t
      PROVE  TermOf(LogPiece(w), i)' = t
  <2>1. currentTerm[w] = t /\ state[w] = Leader
    <3>1. currentTerm[w] \in Nat /\ currentTerm[w] >= t
      BY DEF Led, TypeOK
    <3>2. currentTerm'[w] >= currentTerm[w]
      BY DEF VoteStep
    <3>3. currentTerm[w] = t
      BY <1>2, <3>1, <3>2
    <3>4. QED
      BY <3>3 DEF Led
  <2>2. QED
    BY <1>2, <2>1, LeaderLogKept
<1>3. QED
  BY <1>1, <1>2

\* The log of the node that takes the step.
LEMMA NewPiece ==
  ASSUME TypeOK, TypeOK', ElectedInv, ElectedInv', VoteStep, MatchingInv,
         NEW n \in Server, LogStep(n),
         NEW g, g = [base |-> 0, prev |-> 0, entries |-> log'[n]]
  PROVE  /\ g \in Piece /\ WellPlaced(g) /\ Authored(g)'
         /\ \A z \in Pieces : Agree(g, z)
<1>1. ASSUME NEW x \in Pieces, NEW i \in Nat \ {0}, TermOf(x, i) # 0
      PROVE  \E w \in Server :
               /\ Led(w, TermOf(x, i))'
               /\ currentTerm'[w] = TermOf(x, i)
                    => TermOf(LogPiece(w), i)' = TermOf(x, i)
  <2>1. x \in Piece /\ TermOf(x, i) \in Nat /\ i \in Places(x)
    BY <1>1, PiecesType, TermOfType
  <2>2. PICK w \in Server :
          /\ Led(w, TermOf(x, i))
          /\ currentTerm[w] = TermOf(x, i)
               => TermOf(LogPiece(w), i) = TermOf(x, i)
    BY <1>1, <2>1 DEF MatchingInv, Authored
  <2>3. PICK t \in Nat : t = TermOf(x, i)
    BY <2>1
  <2>4. QED
    BY <1>1, <2>2, <2>3, AuthoredKept
<1>2. ASSUME g \in Piece,
             \A i \in Places(g) : TermOf(g, i) # 0 =>
               \E x \in Pieces : TermOf(x, i) = TermOf(g, i)
      PROVE  Authored(g)'
  <2>1. SUFFICES ASSUME NEW i \in Places(g), TermOf(g, i) # 0
                 PROVE  \E w \in Server :
                          /\ Led(w, TermOf(g, i))'
                          /\ currentTerm'[w] = TermOf(g, i)
                               => TermOf(LogPiece(w), i)' = TermOf(g, i)
    BY DEF Authored
  <2>2. i \in Nat \ {0}
    BY <1>2 DEF Places, Piece
  <2>3. PICK x \in Pieces : TermOf(x, i) = TermOf(g, i)
    BY <1>2, <2>1
  <2>4. QED
    BY <1>1, <2>1, <2>2, <2>3
<1>3. CASE log'[n] = log[n]
  <2>1. g = LogPiece(n) /\ g \in Pieces
    BY <1>3, PiecesType DEF LogPiece
  <2>2. QED
    BY <1>2, <2>1, PiecesType DEF MatchingInv
<1>4. CASE Merged(n)
  <2>1. PICK m : m = Head(queue[n])
    OBVIOUS
  <2>2. /\ queue[n] # << >> /\ m.type = "AppendEntries" /\ Joins(log[n], m)
        /\ g = [base |-> 0, prev |-> 0,
                entries |-> MergeEntries(log[n], m.entries)]
    BY <1>4, <2>1 DEF Merged
  <2>3. QED
    BY <1>2, <2>1, <2>2, MergedPiece
<1>5. CASE Appended(n)
  <2>1. PICK e \in Entry :
          e.term = currentTerm[n] /\ e.index = LastIndex(log[n]) + 1
            /\ log'[n] = Append(log[n], e)
    BY <1>5 DEF Appended
  <2>2. state[n] = Leader /\ state'[n] = Leader /\ currentTerm'[n] = currentTerm[n]
    BY <1>5 DEF Appended, Leads
  <2>3. /\ g \in Piece /\ WellPlaced(g)
        /\ \A z \in Pieces : Agree(g, z)
        /\ \A i \in Places(g) : TermOf(g, i) # 0 =>
             \/ TermOf(LogPiece(n), i) = TermOf(g, i)
             \/ TermOf(g, i) = currentTerm[n]
    BY <2>1, <2>2, AppendedPiece
  <2>4. ASSUME NEW t \in Nat, t = currentTerm[n]
        PROVE  Led(n, t)'
    BY <2>2, <2>4, LeaderLeds, LedKept DEF LogStep
  <2>5. ASSUME NEW i \in Places(g), TermOf(g, i) # 0
        PROVE  \E w \in Server :
                 /\ Led(w, TermOf(g, i))'
                 /\ currentTerm'[w] = TermOf(g, i)
                      => TermOf(LogPiece(w), i)' = TermOf(g, i)
    <3>1. i \in Nat \ {0}
      BY <2>3 DEF Places, Piece
    <3>2. CASE TermOf(LogPiece(n), i) = TermOf(g, i)
      BY <1>1, <2>5, <3>1, <3>2, PiecesType
    <3>3. CASE TermOf(g, i) = currentTerm[n]
      <4>1. LogPiece(n)' = g
        BY DEF LogPiece
      <4>2. TermOf(LogPiece(n), i)' = TermOf(LogPiece(n)', i)
        BY DEF TermOf, Has, EntryAt, Places
      <4>3. TermOf(LogPiece(n), i)' = TermOf(g, i)
        BY <4>1, <4>2
      <4>4. TermOf(g, i) \in Nat
        BY <3>3 DEF TypeOK
      <4>5. Led(n, TermOf(g, i))'
        BY <2>4, <3>3, <4>4
      <4>6. QED
        BY <4>3, <4>5
    <3>4. QED
      BY <2>3, <2>5, <3>2, <3>3
  <2>6. Authored(g)'
    BY <2>5 DEF Authored
  <2>7. QED
    BY <2>3, <2>6
<1>6. QED
  BY <1>3, <1>4, <1>5 DEF LogStep, LogsStep

\* Every piece after the step is a part of a piece before it, or of the log of
\* the node that took it.
LEMMA NewPieces ==
  ASSUME TypeOK, TypeOK', MatchingInv, NEW n \in Server, LogStep(n),
         NEW g, g = [base |-> 0, prev |-> 0, entries |-> log'[n]], WellPlaced(g),
         NEW x, x \in Pieces'
  PROVE  x \in Pieces \/ (x \in Piece /\ WellPlaced(x) /\ Part(x, g))
<1>1. g \in Piece /\ log'[n] \in Seq(Entry)
  BY DEF Piece, TypeOK
<1>2. Part(g, g)
  BY DEF Part
<1>3. ASSUME NEW p \in Server, x = LogPiece(p)'
      PROVE  x \in Pieces \/ (x \in Piece /\ WellPlaced(x) /\ Part(x, g))
  <2>1. CASE p = n
    <3>1. x = g
      BY <1>3, <2>1 DEF LogPiece
    <3>2. QED
      BY <1>1, <1>2, <3>1
  <2>2. CASE p # n
    <3>1. x = LogPiece(p)
      BY <1>3, <2>2 DEF LogPiece, LogStep, LogsStep
    <3>2. QED
      BY <3>1, PiecesType
  <2>3. QED
    BY <2>1, <2>2
<1>4. ASSUME NEW c \in Server, NEW k \in DOMAIN queue'[c],
             queue'[c][k].type = "AppendEntries",
             x = RequestPiece(queue'[c][k])
      PROVE  x \in Pieces \/ (x \in Piece /\ WellPlaced(x) /\ Part(x, g))
  <2>1. CASE \E j \in DOMAIN queue[c] : queue'[c][k] = queue[c][j]
    BY <1>4, <2>1, PiecesType
  <2>2. CASE Sent(n, c, queue'[c][k])
    <3>1. PICK next \in Nat : queue'[c][k] = AppendEntriesMsg(n, log'[n], next)
      BY <1>4, <2>2 DEF Sent
    <3>2. x = RequestPiece(AppendEntriesMsg(n, log'[n], next))
      BY <1>4, <3>1
    <3>3. Part(x, g) /\ WellPlaced(x)
      BY <1>1, <3>2, RequestIsPart, PartWellPlaced
    <3>4. x \in Piece
      <4>1. TermAt(log'[n], next - 1) \in Nat
        BY <1>1, EntryIndexed, TermAtType
      <4>2. EntriesFrom(log'[n], next) \in Seq(Entry)
        BY <1>1, EntriesFromType
      <4>3. QED
        BY <3>2, <4>1, <4>2 DEF RequestPiece, AppendEntriesMsg, Piece
    <3>5. QED
      BY <3>3, <3>4
  <2>3. QED
    BY <2>1, <2>2 DEF LogStep, QueuesStep
<1>5. QED
  <2>1. \/ \E p \in Server : x = LogPiece(p)'
        \/ \E c \in Server : \E k \in DOMAIN queue'[c] :
             /\ queue'[c][k].type = "AppendEntries"
             /\ x = RequestPiece(queue'[c][k])
    BY DEF Pieces, RequestPiece
  <2>2. QED
    BY <1>3, <1>4, <2>1

\* Messages under way keep a sender that led their term.
LEMMA AddressedKept ==
  ASSUME TypeOK, TypeOK', ElectedInv, VoteStep, MatchingInv,
         NEW n \in Server, LogStep(n),
         NEW c \in Server, NEW k \in DOMAIN queue'[c]
  PROVE  Addressed(c, queue[c][k])'
<1>1. PICK m : m = queue'[c][k]
  OBVIOUS
<1>2. m \in Message
  <2>1. queue'[c] \in Seq(Message)
    BY DEF TypeOK
  <2>2. QED
    BY <1>1, <2>1
<1>3. ASSUME NEW j \in DOMAIN queue[c], m = queue[c][j]
      PROVE  Addressed(c, m)'
  <2>1. Addressed(c, m)
    BY <1>3 DEF MatchingInv
  <2>2. m.src \in Server /\ m.term \in Nat
    BY <1>2 DEF Message, VoteRequest, VoteResponse, AppendRequest, AppendResponse
  <2>3. QED
    BY <2>1, <2>2, LedKept DEF Addressed, LogStep
<1>4. ASSUME Sent(n, c, m)
      PROVE  Addressed(c, m)'
  <2>1. m.src # c /\ m.src = n
    BY <1>4 DEF Sent
  <2>2. ASSUME m.type = "AppendEntries"
        PROVE  m.prevLogIndex >= -1 /\ Led(n, m.term)'
    <3>1. PICK next \in Nat : m = AppendEntriesMsg(n, log'[n], next)
      BY <1>4, <2>2 DEF Sent
    <3>2. /\ m.prevLogIndex >= -1 /\ m.term = currentTerm[n]
          /\ state[n] = Leader /\ m.term \in Nat
      BY <1>4, <2>2, <3>1 DEF Sent, Leads, AppendEntriesMsg, TypeOK
    <3>3. Led(n, m.term)
      BY <3>2, LeaderLeds
    <3>4. QED
      BY <3>2, <3>3, LedKept DEF LogStep
  <2>3. QED
    BY <2>1, <2>2 DEF Addressed
<1>5. QED
  BY <1>1, <1>3, <1>4 DEF LogStep, QueuesStep

\* No step breaks log matching.
LEMMA MatchingStep ==
  ASSUME TypeOK, ElectedInv, MatchingInv, [Next]_vars
  PROVE  MatchingInv'
<1>1. TypeOK' /\ VoteStep /\ ElectedInv'
  BY TypeStep, VotesOfStep, ElectedStep
<1>2. CASE Server = {}
  BY <1>2 DEF MatchingInv, Pieces
<1>3. CASE Server # {}
  <2>1. PICK n \in Server : LogStep(n)
    BY <1>3, LogStepOfStep
  <2>2. PICK g : g = [base |-> 0, prev |-> 0, entries |-> log'[n]]
    OBVIOUS
  <2>3. /\ g \in Piece /\ WellPlaced(g) /\ Authored(g)'
        /\ \A z \in Pieces : Agree(g, z)
    BY <1>1, <2>1, <2>2, NewPiece
  <2>4. ASSUME NEW x \in Pieces'
        PROVE  x \in Pieces \/ (x \in Piece /\ WellPlaced(x) /\ Part(x, g))
    BY <1>1, <2>1, <2>2, <2>3, NewPieces
  <2>5. ASSUME NEW x \in Pieces'
        PROVE  WellPlaced(x) /\ Authored(x)'
    <3>1. CASE x \in Pieces
      <4>1. x \in Piece /\ WellPlaced(x) /\ Authored(x)
        BY <3>1, PiecesType DEF MatchingInv
      <4>2. ASSUME NEW i \in Places(x), TermOf(x, i) # 0
            PROVE  \E w \in Server :
                     /\ Led(w, TermOf(x, i))'
                     /\ currentTerm'[w] = TermOf(x, i)
                          => TermOf(LogPiece(w), i)' = TermOf(x, i)
        <5>1. i \in Nat \ {0} /\ TermOf(x, i) \in Nat
          BY <4>1, TermOfType DEF Places, Piece
        <5>2. PICK t \in Nat : t = TermOf(x, i)
          BY <5>1
        <5>3. QED
          BY <1>1, <2>1, <4>1, <4>2, <5>1, <5>2, AuthoredKept DEF Authored
      <4>3. QED
        BY <4>1, <4>2 DEF Authored
    <3>2. CASE x \in Piece /\ WellPlaced(x) /\ Part(x, g)
      <4>1. ASSUME NEW i \in Places(x), TermOf(x, i) # 0
            PROVE  \E w \in Server :
                     /\ Led(w, TermOf(x, i))'
                     /\ currentTerm'[w] = TermOf(x, i)
                          => TermOf(LogPiece(w), i)' = TermOf(x, i)
        <5>1. TermOf(g, i) = TermOf(x, i) /\ i \in Nat \ {0}
          BY <3>2, <4>1 DEF Part, Places, Piece
        <5>2. i \in Places(g)
          BY <2>3, <4>1, <5>1, TermOfType
        <5>3. QED
          BY <2>3, <4>1, <5>1, <5>2 DEF Authored
      <4>2. QED
        BY <3>2, <4>1 DEF Authored
    <3>3. QED
      BY <2>4, <3>1, <3>2
  <2>6. ASSUME NEW x \in Pieces', NEW y \in Pieces'
        PROVE  Agree(x, y)
    <3>1. ASSUME NEW z \in Pieces'
          PROVE  z \in Piece /\ Agree(g, z)
      <4>1. CASE z \in Pieces
        BY <2>3, <4>1, PiecesType
      <4>2. CASE z \in Piece /\ Part(z, g)
        BY <2>3, <4>2, AgreeReflexive, AgreeSymmetric, PartAgrees
      <4>3. QED
        BY <2>4, <4>1, <4>2
    <3>2. CASE x \in Pieces /\ y \in Pieces
      BY <3>2 DEF MatchingInv
    <3>3. CASE Part(x, g)
      BY <2>3, <3>1, <3>3, PartAgrees
    <3>4. CASE Part(y, g)
      BY <2>3, <3>1, <3>4, PartAgrees, AgreeSymmetric
    <3>5. QED
      BY <2>4, <3>2, <3>3, <3>4
  <2>7. ASSUME NEW c \in Server, state'[c] # Follower
        PROVE  currentTerm'[c] > 0
    BY <2>1, <2>7 DEF LogStep, RolesTermed, MatchingInv
  <2>8. \A c \in Server : \A k \in DOMAIN queue'[c] : Addressed(c, queue[c][k])'
    BY <1>1, <2>1, AddressedKept
  <2>9. QED
    BY <2>5, <2>6, <2>7, <2>8 DEF MatchingInv, WellPlaced, Agree
<1>4. QED
  BY <1>2, <1>3

\* In a new cluster there is nothing to disagree on.
LEMMA MatchingInit ==
  ASSUME Init
  PROVE  MatchingInv
<1>1. /\ \A n \in Server : state[n] = Follower /\ queue[n] = << >>
      /\ \A n \in Server : log[n] = << >>
  BY DEF Init
<1>2. ASSUME NEW x \in Pieces
      PROVE  x = [base |-> 0, prev |-> 0, entries |-> << >>]
  BY <1>1 DEF Pieces, LogPiece
<1>3. ASSUME NEW x, x = [base |-> 0, prev |-> 0, entries |-> << >>]
      PROVE  Places(x) = {} /\ WellPlaced(x)
  BY <1>3 DEF Places, WellPlaced
<1>4. QED
  BY <1>1, <1>2, <1>3 DEF MatchingInv, Authored, Agree

\* The invariant, as the runs check it, holds in every reachable state of every
\* cluster: whatever is under way, however late it arrives, agrees with every
\* log, and every term in a log was led by one node.
THEOREM MatchingCorrect == Spec => []MatchingInv
<1>1. Init => TypeOK /\ ElectedInv /\ MatchingInv
  BY TypeInit, ElectedInit, MatchingInit
<1>2. TypeOK /\ ElectedInv /\ MatchingInv /\ [Next]_vars
        => (TypeOK /\ ElectedInv /\ MatchingInv)'
  BY TypeStep, ElectedStep, MatchingStep
<1>3. QED
  BY <1>1, <1>2, PTL DEF Spec

-----------------------------------------------------------------------------
(* What follows from it.                                                     *)

\* Logs that agree as pieces agree as the run states it.
LEMMA MatchingImpliesLogMatching ==
  ASSUME TypeOK, MatchingInv
  PROVE  LogMatching
<1>1. SUFFICES ASSUME NEW a \in Server, NEW b \in Server,
                      NEW k \in DOMAIN log[a] \cap DOMAIN log[b]
               PROVE  /\ log[a][k].index = k - 1
                      /\ log[a][k].term = log[b][k].term
                           => Upto(log[a], k) = Upto(log[b], k)
  BY DEF LogMatching
<1>2. /\ log[a] \in Seq(Entry) /\ log[b] \in Seq(Entry)
      /\ LogPiece(a) \in Pieces /\ LogPiece(b) \in Pieces
  BY PiecesType DEF TypeOK
<1>3. k \in 1 .. Len(log[a]) /\ k \in 1 .. Len(log[b])
  BY <1>2
<1>4. ASSUME NEW n \in Server, log[n] \in Seq(Entry), NEW j \in 1 .. Len(log[n])
      PROVE  /\ Has(LogPiece(n), j) /\ EntryAt(LogPiece(n), j) = log[n][j]
             /\ TermOf(LogPiece(n), j) = log[n][j].term
             /\ j \in Places(LogPiece(n))
  BY <1>4 DEF Has, Places, EntryAt, TermOf, LogPiece
<1>5. log[a][k].index = k - 1 /\ log[a][k].term # 0
  <2>1. WellPlaced(LogPiece(a))
    BY <1>2 DEF MatchingInv
  <2>2. QED
    BY <1>2, <1>3, <2>1 DEF WellPlaced, LogPiece
<1>6. ASSUME log[a][k].term = log[b][k].term
      PROVE  Upto(log[a], k) = Upto(log[b], k)
  <2>1. Agree(LogPiece(a), LogPiece(b))
    BY <1>2 DEF MatchingInv
  <2>2. k \in Places(LogPiece(a)) \cap Places(LogPiece(b))
    BY <1>2, <1>3, <1>4
  <2>3. /\ TermOf(LogPiece(a), k) = TermOf(LogPiece(b), k)
        /\ TermOf(LogPiece(a), k) # 0
    BY <1>2, <1>3, <1>4, <1>5, <1>6
  <2>4. ASSUME NEW j \in 1 .. k
        PROVE  log[a][j] = log[b][j]
    <3>1. j \in 1 .. Len(log[a]) /\ j \in 1 .. Len(log[b])
      BY <1>2, <1>3
    <3>2. EntryAt(LogPiece(a), j) = EntryAt(LogPiece(b), j)
      BY <1>2, <1>4, <2>1, <2>2, <2>3, <3>1 DEF Agree
    <3>3. QED
      BY <1>2, <1>4, <3>1, <3>2
  <2>5. Upto(log[a], k) = SubSeq(log[a], 1, k) /\ Upto(log[b], k) = SubSeq(log[b], 1, k)
    BY <1>2, <1>3 DEF Upto, Smaller
  <2>6. SubSeq(log[a], 1, k) = SubSeq(log[b], 1, k)
    BY <1>2, <1>3, <2>4
  <2>7. QED
    BY <2>5, <2>6
<1>7. QED
  BY <1>5, <1>6

\* Two logs that hold an entry of the same term at the same place agree up to
\* there, in every cluster, with any message late or repeated and any node
\* stopped in between.
THEOREM LogsMatch == Spec => []LogMatching
<1>1. Init => TypeOK /\ ElectedInv /\ MatchingInv
  BY TypeInit, ElectedInit, MatchingInit
<1>2. TypeOK /\ ElectedInv /\ MatchingInv /\ [Next]_vars
        => (TypeOK /\ ElectedInv /\ MatchingInv)'
  BY TypeStep, ElectedStep, MatchingStep
<1>3. TypeOK /\ ElectedInv /\ MatchingInv => LogMatching
  BY MatchingImpliesLogMatching
<1>4. QED
  BY <1>1, <1>2, <1>3, PTL DEF Spec

\* Whatever request a node is about to merge, it cuts nothing the request does
\* not contradict, and holds all it brings afterwards: the assumption of
\* MergeCorrect is true of every request that can be under way.
THEOREM MergesMatchReference == Spec => []MergeMatchesReference
<1>1. Init => TypeOK /\ ElectedInv /\ MatchingInv
  BY TypeInit, ElectedInit, MatchingInit
<1>2. TypeOK /\ ElectedInv /\ MatchingInv /\ [Next]_vars
        => (TypeOK /\ ElectedInv /\ MatchingInv)'
  BY TypeStep, ElectedStep, MatchingStep
<1>3. TypeOK /\ MatchingInv => MergeMatchesReference
  <2>1. SUFFICES ASSUME TypeOK, MatchingInv, NEW n \in Server,
                        queue[n] # << >>, Head(queue[n]).type = "AppendEntries",
                        Joins(log[n], Head(queue[n]))
                 PROVE  MergeEntries(log[n], Head(queue[n]).entries)
                          = MergeReference(log[n], Head(queue[n]).prevLogIndex + 1,
                                           Head(queue[n]).entries)
    BY DEF MergeMatchesReference
  <2>2. QED
    BY <2>1, MergedPiece
<1>4. QED
  BY <1>1, <1>2, <1>3, PTL DEF Spec
=============================================================================
