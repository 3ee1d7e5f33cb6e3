-------------------------- MODULE RaftCommitProofs --------------------------
(***************************************************************************)
(* What follows from PairInv: in a cluster of one or two nodes the         *)
(* properties of commitment hold, and the nodes implement ReplicatedLog.   *)
(***************************************************************************)
EXTENDS RaftPairProofs, RaftRefinement

\* The first k entries of two nested logs that both have so many are the same.
LEMMA NestedUpto ==
  ASSUME NEW s \in Seq(Entry), NEW t \in Seq(Entry), Begins(s, t) \/ Begins(t, s),
         NEW k \in Nat, k <= Len(s), k <= Len(t)
  PROVE  Upto(s, k) = Upto(t, k)
<1>1. Upto(s, k) = SubSeq(s, 1, k) /\ Upto(t, k) = SubSeq(t, 1, k)
  BY DEF Upto, Smaller
<1>2. \A j \in 1 .. k : s[j] = t[j]
  BY DEF Begins
<1>3. SubSeq(s, 1, k) = SubSeq(t, 1, k)
  BY <1>2
<1>4. QED
  BY <1>1, <1>3

\* What two nodes have both been given, they were given alike.
LEMMA PairImpliesSafety ==
  ASSUME PairSound
  PROVE  StateMachineSafety
<1>1. SUFFICES ASSUME NEW a \in Server, NEW b \in Server,
                      NEW k \in DOMAIN applied[a] \cap DOMAIN applied[b]
               PROVE  applied[a][k] = applied[b][k]
  BY DEF StateMachineSafety
<1>2. Numbers /\ AppliedHeld /\ CommitsHeld /\ LogsNested
  BY NumbersNow DEF PairSound, PairInv
<1>3. ASSUME NEW p \in Server, k \in DOMAIN applied[p]
      PROVE  /\ applied[p][k] = log[p][k].command
             /\ k \in Nat /\ k >= 1 /\ k <= Len(log[p])
  <2>1. applied[p] \in Seq(Command)
    BY DEF PairSound, TypeOK
  <2>2. /\ Len(applied[p]) = lastApplied[p] + 1 /\ lastApplied[p] <= commitIndex[p]
        /\ applied[p][k] = log[p][k].command /\ commitIndex[p] < Len(log[p])
    BY <1>2, <1>3 DEF AppliedHeld, CommitsHeld
  <2>3. k \in 1 .. Len(applied[p])
    BY <1>3, <2>1
  <2>4. QED
    BY <1>2, <2>2, <2>3 DEF Numbers
<1>4. Begins(log[a], log[b]) \/ Begins(log[b], log[a])
  BY <1>2 DEF LogsNested
<1>5. log[a][k] = log[b][k]
  BY <1>2, <1>3, <1>4 DEF Begins, Numbers
<1>6. QED
  BY <1>3, <1>5

\* What is committed or recorded somewhere is the same everywhere.
LEMMA PairAgreesUpto ==
  ASSUME PairSound, NEW a \in Server, NEW b \in Server, NEW i \in Int, i >= -1,
         i < Len(log[a]), i < Len(log[b])
  PROVE  i <= LastIndex(log[a]) /\ Upto(log[a], i + 1) = Upto(log[b], i + 1)
<1>1. Numbers /\ LogsPlaced /\ LogsNested
  BY NumbersNow, LogsPlacedNow DEF PairSound, PairInv
<1>2. log[a] \in Seq(Entry) /\ log[b] \in Seq(Entry)
  BY DEF PairSound, TypeOK
<1>3. Begins(log[a], log[b]) \/ Begins(log[b], log[a])
  BY <1>1 DEF LogsNested
<1>4. i + 1 \in Nat /\ i + 1 <= Len(log[a]) /\ i + 1 <= Len(log[b])
  BY <1>1 DEF Numbers
<1>5. Upto(log[a], i + 1) = Upto(log[b], i + 1)
  BY <1>2, <1>3, <1>4, NestedUpto
<1>6. QED
  BY <1>1, <1>5 DEF LogsPlaced, Numbers

\* A leader has all that is committed anywhere.
LEMMA PairImpliesCompleteness ==
  ASSUME PairSound
  PROVE  LeaderCompleteness
<1>1. SUFFICES ASSUME NEW l \in Server, NEW n \in Server
               PROVE  /\ commitIndex[n] <= LastIndex(log[l])
                      /\ Upto(log[l], commitIndex[n] + 1)
                           = Upto(log[n], commitIndex[n] + 1)
  BY DEF LeaderCompleteness
<1>2. Numbers /\ CommitsHeld
  BY NumbersNow DEF PairSound, PairInv
<1>3. PICK i \in Int : i = commitIndex[n] /\ i >= -1
  BY <1>2 DEF Numbers
<1>4. i < Len(log[l]) /\ i < Len(log[n])
  BY <1>2, <1>3 DEF CommitsHeld
<1>5. QED
  BY <1>3, <1>4, PairAgreesUpto

\* What a leader believes a peer to hold, it holds.
LEMMA PairImpliesMatches ==
  ASSUME Everybody, PairSound
  PROVE  MatchIndexSound
<1>1. SUFFICES ASSUME NEW l \in Server, NEW p \in Peers(l), state[l] = Leader
               PROVE  /\ matchIndex[l][p] <= LastIndex(log[l])
                      /\ Upto(log[p], matchIndex[l][p] + 1)
                           = Upto(log[l], matchIndex[l][p] + 1)
  BY DEF MatchIndexSound
<1>2. Numbers /\ CommitsHeld /\ p \in Server
  BY NumbersNow DEF PairSound, PairInv, Peers
<1>3. PICK i \in Int : i = matchIndex[l][p] /\ i >= -1
  BY <1>2 DEF Numbers
<1>4. Begins(log[p], log[l])
  BY <1>1, <1>2, LeaderHasAll DEF PairSound, PairInv
<1>5. i < Len(log[p]) /\ i < Len(log[l])
  BY <1>2, <1>3, <1>4 DEF CommitsHeld, Begins, Numbers
<1>6. QED
  BY <1>2, <1>3, <1>5, PairAgreesUpto

\* What answered a callback is in every log, so a majority has it.
LEMMA PairImpliesDurable ==
  ASSUME Server # {}, PairSound
  PROVE  AnsweredIsDurable
<1>1. SUFFICES ASSUME NEW a \in answers
               PROVE  IsMajority(Cardinality({n \in Server : \E k \in DOMAIN log[n] :
                                                log[n][k] = a[2]}))
  BY DEF AnsweredIsDurable
<1>2. {n \in Server : \E k \in DOMAIN log[n] : log[n][k] = a[2]} = Server
  BY DEF PairSound, PairInv, AppliedHeld
<1>3. Cardinality(Server) \in Nat /\ Cardinality(Server) # 0
  BY ServerAssumption, FS_EmptySet, FS_CardinalityType
<1>4. \A i \in Nat : i # 0 => i > i \div 2
  OBVIOUS
<1>5. IsMajority(Cardinality(Server))
  BY <1>3, <1>4 DEF IsMajority
<1>6. QED
  BY <1>2, <1>5

\* No step rewrites what a node has committed.
LEMMA PairStepStable ==
  ASSUME Everybody, Server # {}, PairSound, [Next]_vars
  PROVE  \A n \in Server :
           /\ commitIndex'[n] >= commitIndex[n]
           /\ Upto(log'[n], commitIndex[n] + 1) = Upto(log[n], commitIndex[n] + 1)
<1>1. PairSound'
  BY PairStepKeeps
<1>2. PICK n \in Server : LogStep(n) /\ PairStep(n)
  BY PairStepOfStep DEF PairSound
<1>3. \A p \in Server : Begins(log[p], log'[p])
  BY <1>1, <1>2, LogsGrow DEF PairSound, PairInv
<1>4. Numbers /\ CommitsHeld
  BY NumbersNow DEF PairSound, PairInv
<1>5. ASSUME NEW p \in Server
      PROVE  Upto(log'[p], commitIndex[p] + 1) = Upto(log[p], commitIndex[p] + 1)
  <2>1. PICK s \in Seq(Entry), t \in Seq(Entry) : s = log'[p] /\ t = log[p]
    BY <1>1 DEF PairSound, TypeOK
  <2>2. /\ commitIndex[p] + 1 \in Nat /\ commitIndex[p] + 1 <= Len(t)
        /\ Len(t) \in Nat /\ Len(s) \in Nat
    BY <1>4, <2>1 DEF Numbers, CommitsHeld
  <2>3. Begins(t, s) /\ Len(t) <= Len(s)
    BY <1>3, <2>1 DEF Begins
  <2>4. commitIndex[p] + 1 <= Len(s)
    BY <2>2, <2>3
  <2>5. QED
    BY <2>1, <2>2, <2>3, <2>4, NestedUpto
<1>6. \A p \in Server : commitIndex'[p] >= commitIndex[p]
  BY <1>1, <1>2, <1>3, CommitGrows DEF PairSound, PairInv, PairStep
<1>7. QED
  BY <1>5, <1>6

\* A follower that commits follows the leader of its term.
LEMMA PairStepFollows ==
  ASSUME Everybody, Server # {}, PairSound, [Next]_vars,
         NEW f \in Server, NEW l \in Server,
         commitIndex'[f] > commitIndex[f], state'[f] = Follower,
         state[l] = Leader, currentTerm[l] = currentTerm'[f]
  PROVE  /\ commitIndex'[f] <= commitIndex[l]
         /\ Upto(log'[f], commitIndex'[f] + 1) = Upto(log[l], commitIndex'[f] + 1)
<1>1. PairSound'
  BY PairStepKeeps
<1>2. PICK n \in Server : LogStep(n) /\ PairStep(n)
  BY PairStepOfStep DEF PairSound
<1>3. Numbers /\ Numbers' /\ LogsPlaced'
  BY <1>1, NumbersNow, NumbersNext, LogsPlacedNext DEF PairSound
<1>4. n = f /\ ~Leads(n)
  <2>1. commitIndex'[f] # commitIndex[f]
    BY <1>3 DEF Numbers
  <2>2. n = f
    BY <1>2, <2>1 DEF PairStep, CommitStep
  <2>3. QED
    BY <2>2 DEF Leads, Follower, Leader
<1>5. PICK m : m = Head(queue[n])
  OBVIOUS
<1>6. /\ queue[n] # << >> /\ m.type = "AppendEntries" /\ currentTerm'[n] = m.term
      /\ commitIndex'[n] = Smaller(m.leaderCommit, LastIndex(log'[n]))
  BY <1>2, <1>3, <1>4, <1>5 DEF PairStep, CommitStep, Numbers
<1>7. 1 \in DOMAIN queue[n] /\ m = queue[n][1] /\ m \in Message
  BY <1>5, <1>6, HeadQueued, QueuedType DEF PairSound
<1>8. m.src \in Server /\ m.leaderCommit \in Int
  BY <1>6, <1>7
  DEF Message, VoteRequest, VoteResponse, AppendRequest, AppendResponse
<1>9. m.src # n /\ Led(m.src, m.term)
  BY <1>6, <1>7 DEF PairSound, MatchingInv, Addressed
<1>10. m.src = l
  BY <1>4, <1>6, <1>8, <1>9, LedUnique DEF PairSound
<1>11. m.leaderCommit <= commitIndex[l]
  BY <1>6, <1>7, <1>10 DEF PairSound, PairInv, RequestsHeld
<1>12. PICK i \in Int : i = commitIndex'[f] /\ i >= -1
  BY <1>3 DEF Numbers
<1>13. i <= commitIndex[l]
  <2>1. LastIndex(log'[n]) \in Int /\ commitIndex[l] \in Int
    BY <1>3 DEF LogsPlaced, Numbers
  <2>2. i <= m.leaderCommit
    BY <1>4, <1>6, <1>8, <1>12, <2>1 DEF Smaller
  <2>3. QED
    BY <1>8, <1>11, <2>1, <2>2
<1>14. i < Len(log'[f]) /\ i < Len(log'[l])
  BY <1>1, <1>12 DEF PairSound, PairInv, CommitsHeld
<1>15. log'[l] = log[l]
  BY <1>2, <1>9, <1>10 DEF LogStep, LogsStep
<1>16. Begins(log'[f], log'[l]) \/ Begins(log'[l], log'[f])
  BY <1>1 DEF PairSound, PairInv, LogsNested
<1>17. log'[f] \in Seq(Entry) /\ log'[l] \in Seq(Entry)
  BY <1>1 DEF PairSound, TypeOK
<1>18. i + 1 \in Nat /\ i + 1 <= Len(log'[f]) /\ i + 1 <= Len(log'[l])
  BY <1>3, <1>12, <1>14 DEF Numbers
<1>19. QED
  BY <1>12, <1>13, <1>15, <1>16, <1>17, <1>18, NestedUpto

-----------------------------------------------------------------------------
(* The properties of the runs, for every cluster of one or two nodes.        *)

\* The invariant, as a fact about behaviours.
LEMMA PairAlways ==
  ASSUME Cardinality(Server) \in {1, 2}
  PROVE  Spec => []PairSound /\ [][Next]_vars
<1>1. Everybody /\ Server # {}
  BY PairMajority, FS_EmptySet
<1>2. Init => PairSound
  BY PairInit
<1>3. PairSound /\ [Next]_vars => PairSound'
  BY <1>1, PairStepKeeps
<1>4. QED
  BY <1>2, <1>3, PTL DEF Spec

\* All machines are given the same commands in the same order
\* (_maybe_apply_committed of every node).
THEOREM MachinesAgree ==
  ASSUME Cardinality(Server) \in {1, 2}
  PROVE  Spec => []StateMachineSafety
<1>1. PairSound => StateMachineSafety
  BY PairImpliesSafety
<1>2. QED
  BY <1>1, PairAlways, PTL

\* A leader has every entry that anybody has committed (_handle_request_vote
\* lets nobody become leader without it).
THEOREM LeadersComplete ==
  ASSUME Cardinality(Server) \in {1, 2}
  PROVE  Spec => []LeaderCompleteness
<1>1. PairSound => LeaderCompleteness
  BY PairImpliesCompleteness
<1>2. QED
  BY <1>1, PairAlways, PTL

\* What a leader records of its peer is true, though the peer reports the end
\* of its log (match_index of _handle_append_entries).
THEOREM MatchesSound ==
  ASSUME Cardinality(Server) \in {1, 2}
  PROVE  Spec => []MatchIndexSound
<1>1. Everybody
  BY PairMajority
<1>2. PairSound => MatchIndexSound
  BY <1>1, PairImpliesMatches
<1>3. QED
  BY <1>2, PairAlways, PTL

\* Who was answered for its own command may rely on it (the callbacks of
\* submit_command).
THEOREM AnswersDurable ==
  ASSUME Cardinality(Server) \in {1, 2}
  PROVE  Spec => []AnsweredIsDurable
<1>1. Server # {}
  BY FS_EmptySet
<1>2. PairSound => AnsweredIsDurable
  BY <1>1, PairImpliesDurable
<1>3. QED
  BY <1>2, PairAlways, PTL

\* No step lowers a commit index or rewrites what is committed.
THEOREM CommitsStable ==
  ASSUME Cardinality(Server) \in {1, 2}
  PROVE  Spec => CommittedStable
<1>1. Everybody /\ Server # {}
  BY PairMajority, FS_EmptySet
<1>2. PairSound /\ [Next]_vars =>
        [\A n \in Server :
           /\ commitIndex'[n] >= commitIndex[n]
           /\ Upto(log'[n], commitIndex[n] + 1) = Upto(log[n], commitIndex[n] + 1)
        ]_vars
  BY <1>1, PairStepStable
<1>3. QED
  BY <1>2, PairAlways, PTL DEF CommittedStable

\* A follower commits what its leader has committed and holds.
THEOREM CommitsFollowLeader ==
  ASSUME Cardinality(Server) \in {1, 2}
  PROVE  Spec => CommitsLeadersPrefix
<1>1. Everybody /\ Server # {}
  BY PairMajority, FS_EmptySet
<1>2. PairSound /\ [Next]_vars =>
        [\A f, l \in Server :
           /\ commitIndex'[f] > commitIndex[f] /\ state'[f] = Follower
           /\ state[l] = Leader /\ currentTerm[l] = currentTerm'[f]
           => /\ commitIndex'[f] <= commitIndex[l]
              /\ Upto(log'[f], commitIndex'[f] + 1)
                   = Upto(log[l], commitIndex'[f] + 1)]_vars
  BY <1>1, PairStepFollows
<1>3. QED
  BY <1>2, PairAlways, PTL DEF CommitsLeadersPrefix

-----------------------------------------------------------------------------
(* The nodes implement ReplicatedLog.                                        *)

\* Some node has committed most.
LEMMA ForemostExists ==
  ASSUME PairSound, Server # {}
  PROVE  /\ Foremost \in Server
         /\ \A p \in Server : commitIndex[Foremost] >= commitIndex[p]
<1> DEFINE R == {e \in Server \X Server : commitIndex[e[1]] > commitIndex[e[2]]}
<1>1. \A p, q \in Server : <<p, q>> \in R <=> commitIndex[p] > commitIndex[q]
  OBVIOUS
<1>2. \A p \in Server : commitIndex[p] \in Int
  BY NumbersNow DEF PairSound, Numbers
<1> HIDE DEF R
<1>3. /\ \A p \in Server : <<p, p>> \notin R
      /\ \A p, q, r \in Server : <<p, q>> \in R /\ <<q, r>> \in R => <<p, r>> \in R
  BY <1>1, <1>2
<1>4. PICK n \in Server : \A p \in Server : <<p, n>> \notin R
  BY <1>3, ServerAssumption, MinimalExists
<1>5. ASSUME NEW p \in Server
      PROVE  commitIndex[n] >= commitIndex[p]
  <2>1. ~(commitIndex[p] > commitIndex[n])
    BY <1>1, <1>4
  <2>2. commitIndex[p] \in Int /\ commitIndex[n] \in Int
    BY <1>2
  <2>3. QED
    BY <2>1, <2>2
<1>6. QED
  BY <1>5 DEF Foremost

\* The chosen commands are those up to some committed index, in every log.
ChosenInLogs ==
  /\ Chosen \in Seq(Command)
  /\ \A p \in Server : commitIndex[p] < Len(Chosen)
  /\ \E p \in Server : Len(Chosen) = commitIndex[p] + 1
  /\ \A p \in Server : \A k \in 1 .. Len(Chosen) :
       k <= Len(log[p]) /\ Chosen[k] = log[p][k].command

\* They are, by the invariant.
LEMMA ChosenHeld ==
  ASSUME PairSound, Server # {}
  PROVE  ChosenInLogs
<1>1. Numbers /\ CommitsHeld /\ LogsNested
  BY NumbersNow DEF PairSound, PairInv
<1>2. PICK f \in Server : f = Foremost /\ \A p \in Server : commitIndex[f] >= commitIndex[p]
  BY ForemostExists
<1>3. PICK c \in Nat, s \in Seq(Entry) : c = commitIndex[f] + 1 /\ s = log[f]
  BY <1>1 DEF Numbers, PairSound, TypeOK
<1>4. c <= Len(s)
  BY <1>1, <1>3 DEF Numbers, CommitsHeld
<1>5. PICK u : u = SubSeq(s, 1, c)
  OBVIOUS
<1>6. u \in Seq(Entry) /\ Len(u) = c /\ \A k \in 1 .. c : u[k] = s[k]
  BY <1>4, <1>5
<1>7. Chosen = [k \in DOMAIN u |-> u[k].command]
  <2>1. Upto(s, c) = u
    BY <1>4, <1>5 DEF Upto, Smaller
  <2>2. QED
    BY <1>2, <1>3, <2>1 DEF Chosen
<1>8. /\ Chosen \in Seq(Command) /\ Len(Chosen) = c
      /\ \A k \in 1 .. c : Chosen[k] = s[k].command
  <2>1. DOMAIN u = 1 .. c /\ \A k \in 1 .. c : u[k] \in Entry
    BY <1>6
  <2>2. \A k \in 1 .. c : u[k].command \in Command
    BY <2>1 DEF Entry
  <2>3. Chosen \in [1 .. c -> Command]
    BY <1>7, <2>1, <2>2
  <2>4. Chosen \in Seq(Command) /\ Len(Chosen) = c
    BY <2>3
  <2>5. QED
    BY <1>6, <1>7, <2>1, <2>4
<1>9. ASSUME NEW p \in Server, NEW k \in 1 .. c
      PROVE  k <= Len(log[p]) /\ log[p][k] = s[k]
  <2>1. Len(log[p]) \in Nat /\ c <= Len(log[p])
    BY <1>1, <1>3 DEF Numbers, CommitsHeld
  <2>2. Begins(log[p], s) \/ Begins(s, log[p])
    BY <1>1, <1>3 DEF LogsNested
  <2>3. QED
    BY <1>4, <2>1, <2>2 DEF Begins
<1>10. \A p \in Server : commitIndex[p] < c
  BY <1>1, <1>2, <1>3 DEF Numbers
<1>11. QED
  BY <1>3, <1>8, <1>9, <1>10 DEF ChosenInLogs

\* They are, after a step.
LEMMA ChosenHeldNext ==
  ASSUME PairSound', Server # {}
  PROVE  ChosenInLogs'
  BY ChosenHeld, PTL

\* A sequence that begins another one is a prefix of it.
LEMMA PrefixOf ==
  ASSUME NEW s \in Seq(Command), NEW t \in Seq(Command), Len(s) <= Len(t),
         \A k \in 1 .. Len(s) : s[k] = t[k]
  PROVE  /\ Above!IsPrefix(s, t)
         /\ s # t => Above!IsStrictPrefix(s, t)
         /\ Len(s) < Len(t) => Above!IsStrictPrefix(s, t)
<1>1. SubSeq(s, 1, Len(s)) = SubSeq(t, 1, Len(s))
  OBVIOUS
<1>2. QED
  BY <1>1 DEF Above!IsPrefix, Above!IsStrictPrefix

\* A machine has been given a prefix of what is chosen.
GivenInChosen ==
  \A n \in Server :
    /\ Len(applied[n]) <= Len(Chosen)
    /\ \A k \in 1 .. Len(applied[n]) : applied[n][k] = Chosen[k]

\* It has, by the invariant.
LEMMA GivenPrefix ==
  ASSUME PairSound, Server # {}
  PROVE  GivenInChosen
<1> SUFFICES ASSUME NEW n \in Server
             PROVE  /\ Len(applied[n]) <= Len(Chosen)
                    /\ \A k \in 1 .. Len(applied[n]) : applied[n][k] = Chosen[k]
  BY DEF GivenInChosen
<1>1. Numbers /\ AppliedHeld /\ ChosenInLogs
  BY NumbersNow, ChosenHeld DEF PairSound, PairInv
<1>2. PICK d \in Nat, ap \in Seq(Command) : d = Len(Chosen) /\ ap = applied[n]
  BY <1>1 DEF ChosenInLogs, PairSound, TypeOK
<1>3. /\ Len(ap) = lastApplied[n] + 1 /\ lastApplied[n] <= commitIndex[n]
      /\ \A k \in DOMAIN ap : ap[k] = log[n][k].command
      /\ commitIndex[n] < d
  BY <1>1, <1>2 DEF AppliedHeld, ChosenInLogs
<1>4. Len(ap) <= d
  BY <1>1, <1>2, <1>3 DEF Numbers
<1>5. ASSUME NEW k \in 1 .. Len(ap)
      PROVE  ap[k] = Chosen[k]
  <2>1. k \in 1 .. d /\ k \in DOMAIN ap
    BY <1>2, <1>4
  <2>2. QED
    BY <1>1, <1>2, <1>3, <2>1 DEF ChosenInLogs
<1>6. QED
  BY <1>2, <1>4, <1>5

\* It has, after a step.
LEMMA GivenPrefixNext ==
  ASSUME PairSound', Server # {}
  PROVE  GivenInChosen'
  BY GivenPrefix, PTL

\* What is chosen stays chosen.
LEMMA ChosenGrows ==
  ASSUME Server # {}, PairSound, PairSound',
         \A p \in Server : Begins(log[p], log'[p]),
         \A p \in Server : commitIndex'[p] >= commitIndex[p]
  PROVE  /\ Len(Chosen) <= Len(Chosen')
         /\ \A k \in 1 .. Len(Chosen) : Chosen[k] = Chosen'[k]
<1>1. Numbers /\ Numbers' /\ ChosenInLogs /\ ChosenInLogs'
  BY NumbersNow, NumbersNext, ChosenHeld, ChosenHeldNext DEF PairSound
<1>2. PICK p \in Server : Len(Chosen) = commitIndex[p] + 1
  BY <1>1 DEF ChosenInLogs
<1>3. PICK d \in Nat, e \in Nat : d = Len(Chosen) /\ e = Len(Chosen')
  BY <1>1 DEF ChosenInLogs
<1>4. commitIndex'[p] < e
  BY <1>1, <1>3 DEF ChosenInLogs
<1>5. d <= e
  BY <1>1, <1>2, <1>3, <1>4 DEF Numbers
<1>6. ASSUME NEW k \in 1 .. d
      PROVE  Chosen[k] = Chosen'[k]
  <2>1. k \in 1 .. e
    BY <1>5
  <2>2. k <= Len(log[p]) /\ Chosen[k] = log[p][k].command
    BY <1>1, <1>3 DEF ChosenInLogs
  <2>3. Chosen'[k] = log'[p][k].command
    BY <1>1, <1>3, <2>1 DEF ChosenInLogs
  <2>4. log'[p][k] = log[p][k]
    BY <1>1, <2>2 DEF Begins, Numbers
  <2>5. QED
    BY <2>2, <2>3, <2>4
<1>7. QED
  BY <1>3, <1>5, <1>6

\* A step that gives no machine anything chooses more, or does not show.
LEMMA ChooseStep ==
  ASSUME Server # {}, PairSound, PairSound', UNCHANGED <<applied, Answered>>,
         \A p \in Server : Begins(log[p], log'[p]),
         \A p \in Server : commitIndex'[p] >= commitIndex[p]
  PROVE  [Above!Next]_<<Chosen, applied, Answered>>
<1>1. PICK s \in Seq(Command), t \in Seq(Command) : s = Chosen /\ t = Chosen'
  BY ChosenHeld, ChosenHeldNext DEF ChosenInLogs
<1>2. Len(s) <= Len(t) /\ \A k \in 1 .. Len(s) : s[k] = t[k]
  BY <1>1, ChosenGrows
<1>3. CASE s = t
  BY <1>1, <1>3
<1>4. CASE s # t
  <2>1. Above!IsStrictPrefix(s, t)
    BY <1>2, <1>4, PrefixOf
  <2>2. Above!Choose
    BY <1>1, <2>1 DEF Above!Choose
  <2>3. QED
    BY <2>2 DEF Above!Next
<1>5. QED
  BY <1>3, <1>4

\* Only entries that are applied answer callbacks.
LEMMA AnswersGrow ==
  ASSUME NEW n, NEW lg, NEW commit, NEW waiting,
         MaybeApplyCommitted(n, lg, commit, waiting)
  PROVE  Answered \subseteq Answered'
<1>1. answers \subseteq answers'
  BY DEF MaybeApplyCommitted
<1>2. QED
  BY <1>1 DEF Answered

\* A step that applies entries gives them to its machine, or does not show.
LEMMA GiveStep ==
  ASSUME Server # {}, PairSound, PairSound', NEW n \in Server,
         NEW waiting \in SUBSET Entry,
         MaybeApplyCommitted(n, log'[n], commitIndex'[n], waiting),
         \A p \in Server : Begins(log[p], log'[p]),
         \A p \in Server : commitIndex'[p] >= commitIndex[p]
  PROVE  [Above!Next]_<<Chosen, applied, Answered>>
<1>1. /\ Numbers /\ Numbers' /\ AppliedHeld /\ CommitsHeld' /\ ChosenInLogs'
      /\ TypeOK /\ TypeOK'
  BY NumbersNow, NumbersNext, ChosenHeldNext DEF PairSound, PairInv
<1>2. /\ lastApplied[n] <= commitIndex'[n] /\ commitIndex'[n] < Len(log'[n])
      /\ Len(applied[n]) = lastApplied[n] + 1
  BY <1>1 DEF Numbers, AppliedHeld, CommitsHeld
<1>3. /\ lastApplied'[n] = commitIndex'[n]
      /\ Len(applied'[n]) = commitIndex'[n] + 1
      /\ \A k \in 1 .. Len(applied[n]) : applied'[n][k] = applied[n][k]
      /\ \A k \in Len(applied[n]) + 1 .. commitIndex'[n] + 1 :
           applied'[n][k] = log'[n][k].command
      /\ \A a \in answers' : a \in answers \/
           \E k \in Len(applied[n]) + 1 .. commitIndex'[n] + 1 :
             a[2] = log'[n][k]
      /\ \A p \in Server \ {n} : /\ lastApplied'[p] = lastApplied[p]
                                 /\ applied'[p] = applied[p]
  BY <1>1, <1>2, AppliesCommitted
<1>4. PICK ap \in Seq(Command), ag \in Seq(Command) : ap = applied[n] /\ ag = applied'[n]
  BY <1>1 DEF TypeOK
<1>5. PICK s \in Seq(Command), t \in Seq(Command) : s = Chosen /\ t = Chosen'
  BY ChosenHeld, ChosenHeldNext DEF ChosenInLogs
<1>6. Len(ag) = commitIndex'[n] + 1 /\ Len(ap) <= Len(ag)
  BY <1>1, <1>2, <1>3, <1>4 DEF Numbers
<1>7. applied' = [applied EXCEPT ![n] = ag]
  BY <1>1, <1>3, <1>4 DEF TypeOK
<1>8. CASE Len(ap) = Len(ag)
  <2>1. ap = ag
    <3>1. \A k \in 1 .. Len(ap) : ap[k] = ag[k]
      BY <1>3, <1>4
    <3>2. QED
      BY <1>8, <3>1, SeqEqual
  <2>2. applied' = applied
    <3>1. applied \in [Server -> Seq(Command)]
      BY <1>1 DEF TypeOK
    <3>2. QED
      BY <1>4, <1>7, <2>1, <3>1
  <2>3. Len(ap) + 1 .. Len(ag) = {}
    BY <1>8
  <2>4. answers' \subseteq answers
    BY <1>3, <1>4, <1>6, <2>3
  <2>5. Answered' \subseteq Answered
    BY <2>4 DEF Answered
  <2>6. Answered' = Answered
    BY <2>5, AnswersGrow
  <2>7. QED
    BY <2>2, <2>6, ChooseStep
<1>9. CASE Len(ap) < Len(ag)
  <2>1. Above!IsPrefix(s, t)
    BY <1>5, ChosenGrows, PrefixOf
  <2>2. Above!IsStrictPrefix(ap, ag)
    <3>1. \A k \in 1 .. Len(ap) : ap[k] = ag[k]
      BY <1>3, <1>4
    <3>2. QED
      BY <1>9, <3>1, <1>6, PrefixOf
  <2>3. Len(ag) <= Len(t) /\ \A k \in 1 .. Len(ag) : ag[k] = t[k]
    BY <1>4, <1>5, GivenPrefixNext DEF GivenInChosen
  <2>4. Above!IsPrefix(ag, t)
    BY <2>3, PrefixOf
  <2>5. Answered \subseteq Answered'
    BY AnswersGrow
  <2>6. ASSUME NEW c \in Answered', c \notin Answered
        PROVE  c \in Above!ToSet(ag)
    <3>1. PICK a \in answers' : a[1] = a[2] /\ c = a[1].command
      BY DEF Answered
    <3>2. a \notin answers
      BY <2>6, <3>1 DEF Answered
    <3>3. PICK k \in Len(ap) + 1 .. Len(ag) : a[2] = log'[n][k]
      BY <1>3, <1>4, <1>6, <3>2
    <3>4. c = ag[k]
      BY <1>3, <1>4, <1>6, <3>1, <3>3
    <3>5. k \in DOMAIN ag
      <4>1. Len(ap) \in Nat /\ Len(ag) \in Nat /\ DOMAIN ag = 1 .. Len(ag)
        OBVIOUS
      <4>2. QED
        BY <4>1
    <3>6. QED
      BY <3>4, <3>5 DEF Above!ToSet
  <2>7. Answered' \subseteq Answered \cup Above!ToSet(ag)
    BY <2>6
  <2>8. Above!Give(n)
    BY <1>4, <1>5, <1>7, <2>1, <2>2, <2>4, <2>5, <2>7 DEF Above!Give
  <2>9. QED
    BY <2>8 DEF Above!Next
<1>10. QED
  BY <1>6, <1>8, <1>9

\* Every step of the nodes is one of ReplicatedLog, or does not show.
LEMMA AboveStep ==
  ASSUME Everybody, Server # {}, PairSound, PairSound', [Next]_vars
  PROVE  [Above!Next]_<<Chosen, applied, Answered>>
<1>1. PICK n \in Server : LogStep(n) /\ PairStep(n)
  BY PairStepOfStep DEF PairSound
<1>2. \A p \in Server : Begins(log[p], log'[p])
  BY <1>1, LogsGrow DEF PairSound, PairInv
<1>3. \A p \in Server : commitIndex'[p] >= commitIndex[p]
  BY <1>1, <1>2, CommitGrows DEF PairSound, PairInv, PairStep
<1>4. CASE UNCHANGED <<lastApplied, applied, answers>>
  BY <1>2, <1>3, <1>4, ChooseStep DEF Answered
<1>5. QED
  BY <1>1, <1>2, <1>3, <1>4, GiveStep DEF PairStep, ApplyStep

\* In a new cluster nothing is chosen, given or answered.
LEMMA AboveInit ==
  ASSUME Server # {}, Init
  PROVE  Above!Init
<1>1. PairSound
  BY PairInit
<1>2. \E p \in Server : Len(Chosen) = commitIndex[p] + 1
  BY <1>1, ChosenHeld DEF ChosenInLogs
<1>3. Len(Chosen) = 0 /\ Chosen \in Seq(Command)
  BY <1>1, <1>2, ChosenHeld DEF ChosenInLogs, Init
<1>4. Chosen = << >>
  BY <1>3
<1>5. applied = [n \in Server |-> << >>] /\ Answered = {}
  BY DEF Init, Answered
<1>6. QED
  BY <1>4, <1>5 DEF Above!Init

\* The nodes implement ReplicatedLog: the state machines of a cluster of one or
\* two nodes are given prefixes of one growing sequence of commands, and nobody
\* is answered before its command is in it.
THEOREM NodesImplementLog ==
  ASSUME Cardinality(Server) \in {1, 2}
  PROVE  Spec => ImplementsReplicatedLog
<1>1. Everybody /\ Server # {}
  BY PairMajority, FS_EmptySet
<1>2. Init => Above!Init
  BY <1>1, AboveInit
<1>3. PairSound /\ PairSound' /\ [Next]_vars
        => [Above!Next]_<<Chosen, applied, Answered>>
  BY <1>1, AboveStep
<1>4. QED
  BY <1>2, <1>3, PairAlways, PTL DEF Spec, ImplementsReplicatedLog, Above!Spec
=============================================================================
