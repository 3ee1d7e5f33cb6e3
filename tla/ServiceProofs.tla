---------------------------- MODULE ServiceProofs ----------------------------
(***************************************************************************)
(* The replicas of Service and their leases, for every number of replicas  *)
(* and clients and every bound.                                            *)
(***************************************************************************)
EXTENDS ServiceProperties, SequenceTheorems, TLAPS

-----------------------------------------------------------------------------
(* What a command makes of a machine.                                       *)

IsLeases(leases) ==
  leases = [l \in DOMAIN leases |->
              [keys |-> leases[l].keys, expired |-> leases[l].expired]]

IsMachine(sm) ==
  /\ sm = [data |-> sm.data, revision |-> sm.revision, leases |-> sm.leases]
  /\ IsLeases(sm.leases)

\* What it is to change one field of a lease.
LEMMA LeaseFields ==
  ASSUME NEW keys, NEW expired, NEW x,
         NEW lease, lease = [keys |-> keys, expired |-> expired]
  PROVE  /\ [lease EXCEPT !.keys = x] = [keys |-> x, expired |-> expired]
         /\ [lease EXCEPT !.expired = x] = [keys |-> keys, expired |-> x]
  OBVIOUS

\* Leases stay leases when one of them becomes another lease.
LEMMA OneLeaseChanged ==
  ASSUME NEW leases, IsLeases(leases), NEW l \in DOMAIN leases, NEW keys,
         NEW expired, NEW new,
         new = [leases EXCEPT ![l] = [keys |-> keys, expired |-> expired]]
  PROVE  /\ IsLeases(new)
         /\ DOMAIN new = DOMAIN leases
         /\ \A x \in DOMAIN leases :
              new[x].keys = IF x = l THEN keys ELSE leases[x].keys
<1>1. /\ DOMAIN new = DOMAIN leases
      /\ \A x \in DOMAIN leases :
           new[x] = IF x = l THEN [keys |-> keys, expired |-> expired]
                    ELSE leases[x]
  BY DEF IsLeases
<1>2. new = [x \in DOMAIN new |-> new[x]]
  OBVIOUS
<1>3. \A x \in DOMAIN leases :
        leases[x] = [keys |-> leases[x].keys, expired |-> leases[x].expired]
  BY DEF IsLeases
<1>4. \A x \in DOMAIN new :
        new[x] = [keys |-> new[x].keys, expired |-> new[x].expired]
  BY <1>1, <1>3
<1>5. IsLeases(new)
  BY SMTT(60), <1>2, <1>4 DEF IsLeases
<1>6. QED
  BY <1>1, <1>5

\* Leases stay leases when a key is added (LeaseStateMachine.add_key_to_lease).
LEMMA AddKeyLeases ==
  ASSUME NEW leases, IsLeases(leases), NEW l, NEW k
  PROVE  /\ IsLeases(AddKey(leases, l, k))
         /\ DOMAIN AddKey(leases, l, k) = DOMAIN leases
         /\ l \in DOMAIN leases =>
              AddKey(leases, l, k)[l].keys = leases[l].keys \cup {k}
         /\ \A x \in DOMAIN leases :
              x # l => AddKey(leases, l, k)[x].keys = leases[x].keys
<1>1. CASE l \in DOMAIN leases
  <2>1. leases[l] = [keys |-> leases[l].keys, expired |-> leases[l].expired]
    BY <1>1 DEF IsLeases
  <2>2. [leases[l] EXCEPT !.keys = @ \cup {k}]
          = [keys |-> leases[l].keys \cup {k}, expired |-> leases[l].expired]
    BY <2>1, LeaseFields
  <2>3. AddKey(leases, l, k)
          = [leases EXCEPT ![l] = [leases[l] EXCEPT !.keys = @ \cup {k}]]
    BY <1>1 DEF AddKey
  <2> DEFINE new == AddKey(leases, l, k)
             K == leases[l].keys \cup {k}
             e == leases[l].expired
  <2>4. new = [leases EXCEPT ![l] = [keys |-> K, expired |-> e]]
    BY <2>2, <2>3
  <2> HIDE DEF K, e, new
  <2>5. /\ IsLeases(new)
        /\ DOMAIN new = DOMAIN leases
        /\ \A x \in DOMAIN leases :
             new[x].keys = IF x = l THEN K ELSE leases[x].keys
    BY <1>1, <2>4, OneLeaseChanged
  <2>6. QED
    BY <2>5 DEF K, new
<1>2. CASE l \notin DOMAIN leases
  BY <1>2 DEF AddKey
<1>3. QED
  BY <1>1, <1>2

\* Leases stay leases when a key is taken out
\* (LeaseStateMachine.remove_key_from_lease).
LEMMA RemoveKeyLeases ==
  ASSUME NEW leases, IsLeases(leases), NEW l, NEW k
  PROVE  /\ IsLeases(RemoveKey(leases, l, k))
         /\ DOMAIN RemoveKey(leases, l, k) = DOMAIN leases
         /\ l \in DOMAIN leases =>
              RemoveKey(leases, l, k)[l].keys = leases[l].keys \ {k}
         /\ \A x \in DOMAIN leases :
              x # l => RemoveKey(leases, l, k)[x].keys = leases[x].keys
<1>1. CASE l \in DOMAIN leases
  <2>1. leases[l] = [keys |-> leases[l].keys, expired |-> leases[l].expired]
    BY <1>1 DEF IsLeases
  <2>2. [leases[l] EXCEPT !.keys = @ \ {k}]
          = [keys |-> leases[l].keys \ {k}, expired |-> leases[l].expired]
    BY <2>1, LeaseFields
  <2>3. RemoveKey(leases, l, k)
          = [leases EXCEPT ![l] = [leases[l] EXCEPT !.keys = @ \ {k}]]
    BY <1>1 DEF RemoveKey
  <2> DEFINE new == RemoveKey(leases, l, k)
             K == leases[l].keys \ {k}
             e == leases[l].expired
  <2>4. new = [leases EXCEPT ![l] = [keys |-> K, expired |-> e]]
    BY <2>2, <2>3
  <2> HIDE DEF K, e, new
  <2>5. /\ IsLeases(new)
        /\ DOMAIN new = DOMAIN leases
        /\ \A x \in DOMAIN leases :
             new[x].keys = IF x = l THEN K ELSE leases[x].keys
    BY <1>1, <2>4, OneLeaseChanged
  <2>6. QED
    BY <2>5 DEF K, new
<1>2. CASE l \notin DOMAIN leases
  BY <1>2 DEF RemoveKey
<1>3. QED
  BY <1>1, <1>2

\* Leases stay leases when a command of the store is applied
\* (CombinedStateMachine._update_lease_keys).
LEMMA UpdateLeases ==
  ASSUME NEW leases, IsLeases(leases), NEW c, NEW r
  PROVE  /\ IsLeases(UpdateLeaseKeys(leases, c, r))
         /\ DOMAIN UpdateLeaseKeys(leases, c, r) = DOMAIN leases
<1>1. CASE r.ok /\ Binds(c)
  <2> DEFINE rest == IF r.prevLease = c.lease THEN leases
                     ELSE RemoveKey(leases, r.prevLease, c.key)
  <2>1. IsLeases(rest) /\ DOMAIN rest = DOMAIN leases
    BY RemoveKeyLeases
  <2>2. UpdateLeaseKeys(leases, c, r) = AddKey(rest, c.lease, c.key)
    BY <1>1 DEF UpdateLeaseKeys
  <2> HIDE DEF rest
  <2>3. QED
    BY <2>1, <2>2, AddKeyLeases
<1>2. CASE ~(r.ok /\ Binds(c))
  BY <1>2, RemoveKeyLeases DEF UpdateLeaseKeys
<1>3. QED
  BY <1>1, <1>2

\* A command of the store makes a machine of a machine.
LEMMA ApplyKVMachine ==
  ASSUME NEW sm, IsMachine(sm), NEW c
  PROVE  IsMachine(ApplyKV(sm, c).sm)
  BY UpdateLeases DEF IsMachine, ApplyKV, Outcome

\* What a keepalive makes of a machine (LeaseStateMachine._do_keepalive): the
\* keys of its leases stay as they are.
LEMMA KeepaliveMachine ==
  ASSUME NEW sm, IsMachine(sm), NEW c, c.lease \in DOMAIN sm.leases
  PROVE  LET new == DoKeepalive(sm, c).sm
         IN  /\ IsMachine(new)
             /\ new.data = sm.data /\ new.revision = sm.revision
             /\ DOMAIN new.leases = DOMAIN sm.leases
             /\ \A x \in DOMAIN sm.leases :
                  new.leases[x].keys = sm.leases[x].keys
<1> DEFINE l == c.lease
           leases == [sm.leases EXCEPT ![l] =
                        [keys |-> sm.leases[l].keys, expired |-> FALSE]]
<1>1. sm.leases[l]
        = [keys |-> sm.leases[l].keys, expired |-> sm.leases[l].expired]
  BY DEF IsMachine, IsLeases
<1>2. [sm.leases[l] EXCEPT !.expired = FALSE]
        = [keys |-> sm.leases[l].keys, expired |-> FALSE]
  <2> DEFINE x == sm.leases[l]
             K == sm.leases[l].keys
             e == sm.leases[l].expired
  <2>1. x = [keys |-> K, expired |-> e]
    BY <1>1
  <2> HIDE DEF x, K, e
  <2>2. [x EXCEPT !.expired = FALSE] = [keys |-> K, expired |-> FALSE]
    <3>1. PICK no : no = FALSE
      BY Zenon
    <3>2. [x EXCEPT !.expired = no] = [keys |-> K, expired |-> no]
      BY <2>1, LeaseFields
    <3>3. QED
      BY <3>1, <3>2, Zenon
  <2>3. QED
    BY <2>2 DEF x, K
<1>3. DoKeepalive(sm, c).sm
        = [sm EXCEPT !.leases = [sm.leases EXCEPT ![l] =
             [sm.leases[l] EXCEPT !.expired = FALSE]]]
  BY DEF DoKeepalive, Outcome
<1>4. DoKeepalive(sm, c).sm = [sm EXCEPT !.leases = leases]
  BY <1>2, <1>3
<1>5. DoKeepalive(sm, c).sm
        = [data |-> sm.data, revision |-> sm.revision, leases |-> leases]
  BY <1>4 DEF IsMachine
<1>6. /\ IsLeases(leases)
      /\ DOMAIN leases = DOMAIN sm.leases
      /\ \A x \in DOMAIN sm.leases : leases[x].keys = sm.leases[x].keys
  BY OneLeaseChanged DEF IsMachine
<1> HIDE DEF leases
<1>7. QED
  BY <1>5, <1>6 DEF IsMachine

\* A lease command makes a machine of a machine.
LEMMA ApplyLeaseMachine ==
  ASSUME NEW sm, IsMachine(sm), NEW c, NEW fresh
  PROVE  IsMachine(ApplyLease(sm, c, fresh).sm)
<1>1. CASE c.type = "lease_grant"
  BY ZenonT(60), <1>1 DEF IsMachine, IsLeases, ApplyLease, DoGrant, Outcome, Bind
<1>2. CASE c.type # "lease_grant" /\ c.lease \notin DOMAIN sm.leases
  BY <1>2 DEF ApplyLease, Outcome
<1>3. CASE c.type # "lease_grant" /\ c.lease \in DOMAIN sm.leases
  <2>1. IsMachine(DoKeepalive(sm, c).sm)
    BY <1>3, KeepaliveMachine
  <2>2. IsMachine(DoEnd(sm, c).sm)
    BY <1>3 DEF IsMachine, IsLeases, DoEnd, Outcome, Unbind
  <2>3. QED
    BY <1>3, <2>1, <2>2 DEF ApplyLease
<1>4. QED
  BY <1>1, <1>2, <1>3

\* A command makes a machine of a machine (CombinedStateMachine.apply).
LEMMA ApplyMachine ==
  ASSUME NEW sm, IsMachine(sm), NEW c, NEW fresh
  PROVE  IsMachine(ApplyCommand(sm, c, fresh).sm)
  BY ApplyKVMachine, ApplyLeaseMachine DEF ApplyCommand

-----------------------------------------------------------------------------
(* The shape of the state.                                                  *)

\* A sequence is one of whatever it holds.
LEMMA SequenceOfOwn ==
  ASSUME NEW S, NEW s \in Seq(S)
  PROVE  s \in Seq(Range(s))
<1>1. s \in [1 .. Len(s) -> Range(s)] /\ Len(s) \in Nat
  BY DEF Range
<1>2. QED
  BY <1>1, SeqDef

LogShape ==
  /\ leader \in Server /\ changes \in Nat
  /\ log \in Seq(Range(log))
  /\ own \in Nat /\ own <= Len(log)
  /\ committed \in Nat /\ committed <= Len(log)

ReplicaShape ==
  /\ applied \in [Server -> Nat]
  /\ \A n \in Server : applied[n] <= committed
  /\ DOMAIN machine = Server
  /\ \A n \in Server : IsMachine(machine[n])
  /\ DOMAIN ending = Server
  /\ \A n \in Server :
       /\ ending[n] = [at |-> ending[n].at, lease |-> ending[n].lease,
                       keys |-> ending[n].keys, upto |-> ending[n].upto]
       /\ ending[n].at \in Nat /\ ending[n].at <= applied[n]
       /\ ending[n].upto \in Nat /\ ending[n].upto <= committed
  /\ stuck \in [Server -> BOOLEAN]
  /\ \A n \in Server : stuck[n] => Busy(n)
  /\ DOMAIN checked = Server

CallShape ==
  /\ DOMAIN callbacks = Server
  /\ \A n \in Server : DOMAIN callbacks[n] \subseteq Nat \ {0}
  /\ DOMAIN calls = Client
  /\ \A c \in Client :
       /\ calls[c] = [count |-> calls[c].count, answer |-> calls[c].answer]
       /\ calls[c].count \in Nat
       /\ calls[c].answer.at \in Nat

Shape == LogShape /\ ReplicaShape /\ CallShape

\* The log after an entry has been appended to it.
LEMMA AppendedLog ==
  ASSUME LogShape, NEW e, log' = Append(log, e)
  PROVE  /\ log' \in Seq(Range(log'))
         /\ Len(log') = Len(log) + 1 /\ Len(log) \in Nat
         /\ \A i \in 1 .. Len(log) : log'[i] = log[i]
         /\ log'[Len(log) + 1] = e
<1> DEFINE S == Range(log)
<1>1. log \in Seq(S \cup {e})
  BY DEF LogShape
<1> HIDE DEF S
<1>2. /\ log' \in Seq(S \cup {e})
      /\ Len(log') = Len(log) + 1 /\ Len(log) \in Nat
      /\ \A i \in 1 .. Len(log) : log'[i] = log[i]
      /\ log'[Len(log) + 1] = e
  BY <1>1
<1>3. log' \in Seq(Range(log'))
  BY <1>2, SequenceOfOwn, Zenon
<1>4. QED
  BY <1>2, <1>3, Zenon

\* The log after its end has been lost (a new leader).
LEMMA CutLog ==
  ASSUME LogShape, NEW k \in 0 .. Len(log), log' = SubSeq(log, 1, k)
  PROVE  /\ log' \in Seq(Range(log'))
         /\ Len(log') = k
         /\ \A i \in 1 .. k : log'[i] = log[i]
<1> DEFINE S == Range(log)
<1>1. log \in Seq(S)
  BY DEF LogShape
<1> HIDE DEF S
<1>2. log' \in Seq(S) /\ Len(log') = k /\ \A i \in 1 .. k : log'[i] = log[i]
  BY <1>1
<1>3. log' \in Seq(Range(log'))
  BY <1>2, SequenceOfOwn, Zenon
<1>4. QED
  BY <1>2, <1>3, Zenon

\* What submitting a command does to the log (RaftNode.submit_command): it is
\* refused, or the log ends with it.
LEMMA SubmitEffect ==
  ASSUME LogShape, NEW n, NEW cmd, NEW token, NEW lease,
         Submit(n, cmd, token, lease)
  PROVE  /\ log' \in Seq(Range(log'))
         /\ Len(log) \in Nat /\ Len(log') \in Nat /\ Len(log) <= Len(log')
         /\ \A i \in 1 .. Len(log) : log'[i] = log[i]
         /\ \A i \in Len(log) + 1 .. Len(log') :
              log'[i] = [cmd |-> cmd, token |-> token, lease |-> lease]
         /\ committed' \in Nat /\ committed <= committed'
         /\ committed' <= Len(log')
<1>1. CASE n = leader
  <2> DEFINE e == [cmd |-> cmd, token |-> token, lease |-> lease]
  <2>1. log' = Append(log, e) /\ log \in Seq(Range(log))
    BY <1>1 DEF Submit, LogShape
  <2> HIDE DEF e
  <2>2. /\ log' \in Seq(Range(log'))
        /\ Len(log') = Len(log) + 1 /\ Len(log) \in Nat
        /\ \A i \in 1 .. Len(log) : log'[i] = log[i]
        /\ log'[Len(log) + 1] = e
    BY <2>1, AppendedLog
  <2>3. committed' \in {Len(log) + 1, committed}
    BY <1>1 DEF Submit
  <2>4. committed \in Nat /\ committed <= Len(log)
    BY DEF LogShape
  <2>5. Len(log) + 1 .. Len(log') = {Len(log) + 1}
    BY <2>2
  <2>6. QED
    BY <2>2, <2>3, <2>4, <2>5 DEF e
<1>2. CASE n # leader
  <2>1. log' = log /\ committed' = committed
    BY <1>2 DEF Submit
  <2>2. Len(log) \in Nat
    BY LenProperties DEF LogShape
  <2>3. Len(log) + 1 .. Len(log) = {}
    BY <2>2
  <2>4. QED
    BY <2>1, <2>2, <2>3 DEF LogShape
<1>3. QED
  BY <1>1, <1>2

\* What submitting a command does to the callbacks: it is filed under the
\* place it gets in the log.
LEMMA SubmitFiles ==
  ASSUME LogShape, CallShape, NEW n \in Server, NEW cmd, NEW token, NEW lease,
         Submit(n, cmd, token, lease)
  PROVE  /\ DOMAIN callbacks' = Server
         /\ \A m \in Server : DOMAIN callbacks'[m] \subseteq Nat \ {0}
         /\ \A m \in Server : \A i \in DOMAIN callbacks'[m] :
              \/ i \in DOMAIN callbacks[m] /\ callbacks'[m][i] = callbacks[m][i]
              \/ /\ i = Len(log) + 1 /\ Len(log') = Len(log) + 1
                 /\ callbacks'[m][i] = token
<1>1. CASE n = leader /\ token # NoToken
  <2>1. callbacks' = [callbacks EXCEPT ![n] = Bind(@, Slot(log), token)]
    BY <1>1 DEF Submit
  <2>2. Len(log') = Len(log) + 1 /\ Len(log) \in Nat
    BY <1>1, AppendedLog DEF Submit, LogShape
  <2>3. Slot(log) = Len(log) + 1 /\ Slot(log) \in Nat \ {0}
    BY <2>2 DEF Slot
  <2>4. \A m \in Server : m # n => callbacks'[m] = callbacks[m]
    BY <2>1 DEF CallShape
  <2>5. callbacks'[n] = Bind(callbacks[n], Slot(log), token)
    BY <2>1 DEF CallShape
  <2>6. DOMAIN callbacks' = Server
    BY <2>1 DEF CallShape
  <2>7. QED
    BY <2>2, <2>3, <2>4, <2>5, <2>6 DEF CallShape, Bind
<1>2. CASE ~(n = leader /\ token # NoToken)
  BY <1>2 DEF Submit, CallShape
<1>3. QED
  BY <1>1, <1>2

\* A replica that waits is as it was, whatever is committed meanwhile.
LEMMA ReplicasWait ==
  ASSUME LogShape, ReplicaShape, committed' \in Nat, committed <= committed',
         UNCHANGED <<applied, machine, ending, stuck, checked>>
  PROVE  ReplicaShape'
<1>1. committed \in Nat
  BY DEF LogShape
<1>2. \A n \in Server : applied[n] \in Nat /\ ending[n].upto \in Nat
  BY DEF ReplicaShape
<1>3. \A n \in Server : applied[n] <= committed' /\ ending[n].upto <= committed'
  BY <1>1, <1>2 DEF ReplicaShape
<1>4. \A n \in Server : Busy(n)' <=> Busy(n)
  BY DEF Busy
<1>5. QED
  BY <1>3, <1>4 DEF ReplicaShape

\* A submitted command leaves the log a log.
LEMMA SubmitShape ==
  ASSUME LogShape, NEW n, NEW cmd, NEW token, NEW lease,
         Submit(n, cmd, token, lease), UNCHANGED raft
  PROVE  LogShape'
<1>1. own \in Nat /\ own <= Len(log)
  BY DEF LogShape
<1>2. leader' = leader /\ changes' = changes /\ own' = own
  BY DEF raft
<1>3. own <= Len(log')
  <2>1. Len(log) \in Nat /\ Len(log') \in Nat /\ Len(log) <= Len(log')
    BY SubmitEffect
  <2>2. QED
    BY <1>1, <2>1
<1>4. /\ log' \in Seq(Range(log'))
      /\ committed' \in Nat /\ committed' <= Len(log')
  BY SubmitEffect
<1>5. leader \in Server /\ changes \in Nat
  BY DEF LogShape
<1>6. QED
  BY <1>1, <1>2, <1>3, <1>4, <1>5 DEF LogShape

\* An answer that is given to the callers that still wait leaves the calls
\* calls, and its callback is gone (RaftNode._maybe_apply_committed).
LEMMA NotifyEffect ==
  ASSUME CallShape, NEW n \in Server, NEW i \in Nat, NEW answer,
         Notify(n, i, answer)
  PROVE  /\ CallShape'
         /\ \A m \in Server : \A j \in DOMAIN callbacks'[m] :
              j \in DOMAIN callbacks[m] /\ callbacks'[m][j] = callbacks[m][j]
         /\ \A c \in Client :
              \/ calls'[c] = calls[c]
              \/ /\ i \in DOMAIN callbacks[n]
                 /\ callbacks[n][i] = <<c, calls[c].count>>
                 /\ calls'[c].count = calls[c].count
                 /\ calls'[c].answer
                      = [at |-> i, ok |-> answer.ok, lease |-> answer.lease]
<1>1. /\ DOMAIN callbacks' = Server
      /\ callbacks'[n] = Unbind(callbacks[n], i)
      /\ \A m \in Server : m # n => callbacks'[m] = callbacks[m]
  BY DEF CallShape, Notify
<1>2. \A m \in Server : \A j \in DOMAIN callbacks'[m] :
        j \in DOMAIN callbacks[m] /\ callbacks'[m][j] = callbacks[m][j]
  BY <1>1 DEF Unbind
<1>3. DOMAIN calls' = Client
  BY DEF Notify, Answered
<1>4. ASSUME NEW c \in Client
      PROVE  \/ calls'[c] = calls[c]
             \/ /\ i \in DOMAIN callbacks[n]
                /\ callbacks[n][i] = <<c, calls[c].count>>
                /\ calls'[c].count = calls[c].count
                /\ calls'[c].answer
                     = [at |-> i, ok |-> answer.ok, lease |-> answer.lease]
  <2> DEFINE told == [at |-> i, ok |-> answer.ok, lease |-> answer.lease]
  <2>1. calls'[c] = IF /\ i \in DOMAIN callbacks[n]
                       /\ callbacks[n][i] = <<c, calls[c].count>>
                    THEN [calls[c] EXCEPT !.answer = told] ELSE calls[c]
    BY DEF Notify, Answered
  <2>2. calls[c] = [count |-> calls[c].count, answer |-> calls[c].answer]
    BY DEF CallShape
  <2> HIDE DEF told
  <2>3. [calls[c] EXCEPT !.answer = told]
          = [count |-> calls[c].count, answer |-> told]
    BY <2>2
  <2>4. QED
    BY <2>1, <2>3 DEF told
<1>5. \A c \in Client :
        /\ calls'[c] = [count |-> calls'[c].count, answer |-> calls'[c].answer]
        /\ calls'[c].count \in Nat /\ calls'[c].answer.at \in Nat
  BY <1>4 DEF CallShape, Notify, Answered
<1>6. QED
  BY <1>1, <1>2, <1>3, <1>4, <1>5 DEF CallShape

-----------------------------------------------------------------------------
(* Every action keeps the shape of the state.                               *)

\* A majority commits (Commit).
LEMMA CommitShape ==
  ASSUME Shape, Commit
  PROVE  Shape'
<1>1. PICK k \in committed + 1 .. Len(log) : committed' = k
  BY DEF Commit
<1>2. committed \in Nat /\ Len(log) \in Nat /\ committed <= Len(log)
  BY LenProperties DEF Shape, LogShape
<1>3. committed' \in Nat /\ committed <= committed' /\ committed' <= Len(log)
  BY <1>1, <1>2
<1>4. UNCHANGED <<raft, log, applied, machine, ending, stuck, checked, callbacks,
                  calls>>
  BY DEF Commit
<1>5. LogShape'
  BY <1>3, <1>4 DEF Shape, LogShape, raft
<1>6. ReplicaShape'
  BY <1>3, <1>4, ReplicasWait DEF Shape
<1>7. QED
  BY <1>4, <1>5, <1>6 DEF Shape, CallShape

\* Another node leads (NewLeader).
LEMMA NewLeaderShape ==
  ASSUME Shape, NEW n \in Server, NewLeader(n)
  PROVE  Shape'
<1>1. PICK k \in committed .. Len(log) : log' = SubSeq(log, 1, k) /\ own' = k
  BY DEF NewLeader
<1>2. committed \in Nat /\ Len(log) \in Nat
  BY LenProperties DEF Shape, LogShape
<1>3. k \in 0 .. Len(log)
  BY <1>1, <1>2
<1>4. log' \in Seq(Range(log')) /\ Len(log') = k
  BY <1>1, <1>3, CutLog DEF Shape
<1>5. UNCHANGED <<committed, applied, machine, ending, stuck, checked, callbacks,
                  calls>>
  BY DEF NewLeader
<1>6. leader' = n /\ changes' = changes + 1
  BY DEF NewLeader
<1>7. LogShape'
  BY <1>1, <1>2, <1>4, <1>5, <1>6 DEF Shape, LogShape
<1>8. ReplicaShape'
  BY <1>2, <1>5, ReplicasWait DEF Shape
<1>9. QED
  BY <1>5, <1>7, <1>8 DEF Shape, CallShape

\* A replica applies an entry that is committed (Apply).
LEMMA AppliesCommitted ==
  ASSUME Shape, NEW n \in Server, applied[n] < Known(n)
  PROVE  /\ applied[n] \in Nat /\ applied[n] + 1 <= committed
         /\ applied[n] + 1 \in 1 .. Len(log)
<1>1. /\ committed \in Nat /\ Len(log) \in Nat /\ committed <= Len(log)
      /\ applied[n] \in Nat
      /\ ending[n].upto \in Nat /\ ending[n].upto <= committed
  BY LenProperties DEF Shape, LogShape, ReplicaShape
<1>2. Known(n) \in {committed, ending[n].upto}
  BY DEF Known
<1>3. QED
  BY <1>1, <1>2

\* A replica applies an entry: to its end, up to the deletes that the end of a
\* lease asks for, or until it waits for itself (Apply).
LEMMA ApplyShape ==
  ASSUME Shape, NEW n \in Server, Apply(n)
  PROVE  Shape'
<1> DEFINE i == applied[n] + 1
           r == ApplyCommand(machine[n], log[i].cmd, <<n, i>>)
<1>1. /\ applied' = [applied EXCEPT ![n] = i]
      /\ applied[n] < Known(n)
      /\ UNCHANGED <<raft, log, committed, checked>>
      /\ Block(n, r) \/ BeginEnd(n, r) \/ Finish(n, r)
  BY DEF Apply
<1>2. applied[n] \in Nat /\ i \in Nat /\ i <= committed
  BY <1>1, AppliesCommitted
<1>3. committed \in Nat
  BY DEF Shape, LogShape
<1>4. LogShape'
  BY <1>1 DEF Shape, LogShape, raft
<1>5. IsMachine(machine[n])
  BY DEF Shape, ReplicaShape
<1>6. IsMachine(r.sm)
  BY <1>5, ApplyMachine
<1>7. /\ applied' \in [Server -> Nat]
      /\ \A m \in Server : applied'[m] <= committed' /\ applied[m] <= applied'[m]
      /\ applied'[n] = i
  BY <1>1, <1>2 DEF Shape, ReplicaShape
<1> HIDE DEF i, r
<1>8. CASE Block(n, r)
  <2> DEFINE waiting == [r.sm EXCEPT !.leases = machine[n].leases]
  <2>1. /\ stuck' = [stuck EXCEPT ![n] = TRUE]
        /\ machine' = [machine EXCEPT ![n] = waiting]
        /\ Busy(n)
        /\ UNCHANGED <<ending, callbacks, calls>>
    BY <1>8 DEF Block
  <2>2. waiting = [data |-> r.sm.data, revision |-> r.sm.revision,
                   leases |-> machine[n].leases]
    BY <1>6 DEF IsMachine
  <2>3. IsMachine(waiting)
    BY <1>5, <2>2 DEF IsMachine
  <2> HIDE DEF waiting
  <2>4. DOMAIN machine' = Server /\ \A m \in Server : IsMachine(machine'[m])
    BY <2>1, <2>3 DEF Shape, ReplicaShape
  <2>5. /\ stuck' \in [Server -> BOOLEAN]
        /\ \A m \in Server : stuck'[m] => Busy(m)'
    BY <2>1 DEF Shape, ReplicaShape, Busy
  <2>6. \A m \in Server : ending[m].at <= applied'[m]
    BY <1>7 DEF Shape, ReplicaShape
  <2>7. ReplicaShape'
    BY <1>1, <1>7, <2>1, <2>4, <2>5, <2>6 DEF Shape, ReplicaShape
  <2>8. QED
    BY <1>4, <2>1, <2>7 DEF Shape, CallShape
<1>9. CASE BeginEnd(n, r)
  <2> DEFINE begun == [at |-> i, lease |-> r.answer.lease, keys |-> r.orphans,
                       upto |-> committed]
  <2>1. /\ ~Busy(n)
        /\ machine' = [machine EXCEPT ![n] = r.sm]
        /\ ending' = [ending EXCEPT ![n] = begun]
        /\ UNCHANGED <<stuck, callbacks, calls>>
    BY <1>9 DEF BeginEnd, i
  <2>2. begun = [at |-> begun.at, lease |-> begun.lease, keys |-> begun.keys,
                 upto |-> begun.upto]
    OBVIOUS
  <2>3. begun.at = i /\ begun.upto = committed
    OBVIOUS
  <2> HIDE DEF begun
  <2>4. DOMAIN machine' = Server /\ \A m \in Server : IsMachine(machine'[m])
    BY <1>6, <2>1 DEF Shape, ReplicaShape
  <2>5. /\ DOMAIN ending' = Server
        /\ ending'[n] = begun
        /\ \A m \in Server : m # n => ending'[m] = ending[m]
    BY <2>1 DEF Shape, ReplicaShape
  <2>6. \A m \in Server :
          /\ ending'[m] = [at |-> ending'[m].at, lease |-> ending'[m].lease,
                           keys |-> ending'[m].keys, upto |-> ending'[m].upto]
          /\ ending'[m].at \in Nat /\ ending'[m].at <= applied'[m]
          /\ ending'[m].upto \in Nat /\ ending'[m].upto <= committed'
    BY <1>1, <1>2, <1>3, <1>7, <2>2, <2>3, <2>5 DEF Shape, ReplicaShape
  <2>7. \A m \in Server : stuck'[m] => Busy(m)'
    BY <2>1, <2>5 DEF Shape, ReplicaShape, Busy
  <2>8. ReplicaShape'
    BY <1>1, <1>7, <2>1, <2>4, <2>5, <2>6, <2>7 DEF Shape, ReplicaShape
  <2>9. QED
    BY <1>4, <2>1, <2>8 DEF Shape, CallShape
<1>10. CASE Finish(n, r)
  <2>1. /\ machine' = [machine EXCEPT ![n] = r.sm]
        /\ Notify(n, i, r.answer)
        /\ UNCHANGED <<ending, stuck>>
    BY <1>10 DEF Finish, i
  <2>2. DOMAIN machine' = Server /\ \A m \in Server : IsMachine(machine'[m])
    BY <1>6, <2>1 DEF Shape, ReplicaShape
  <2>3. \A m \in Server : /\ ending[m].at <= applied'[m]
                          /\ Busy(m)' <=> Busy(m)
    BY <1>7, <2>1 DEF Shape, ReplicaShape, Busy
  <2>4. ReplicaShape'
    BY <1>1, <1>7, <2>1, <2>2, <2>3 DEF Shape, ReplicaShape
  <2>5. CallShape'
    BY <1>2, <2>1, NotifyEffect DEF Shape
  <2>6. QED
    BY <1>4, <2>4, <2>5 DEF Shape
<1>11. QED
  BY <1>1, <1>8, <1>9, <1>10

\* The end of a lease asks for the delete of a key (LeaseManager._on_lease_expire).
LEMMA SubmitDeleteShape ==
  ASSUME Shape, NEW n \in Server, NEW k, SubmitDelete(n, k)
  PROVE  Shape'
<1> DEFINE cmd == [type |-> "delete", key |-> k]
           rest == [ending[n] EXCEPT !.keys = @ \ {k}]
<1>1. /\ Submit(n, cmd, NoToken, ending[n].lease)
      /\ ending' = [ending EXCEPT ![n] = rest]
      /\ ~stuck[n] /\ k \in ending[n].keys
      /\ UNCHANGED <<raft, applied, machine, stuck, checked, calls>>
  BY DEF SubmitDelete
<1>2. rest = [at |-> ending[n].at, lease |-> ending[n].lease,
              keys |-> ending[n].keys \ {k}, upto |-> ending[n].upto]
  <2>1. PICK x : x = ending[n]
    OBVIOUS
  <2>2. x = [at |-> x.at, lease |-> x.lease, keys |-> x.keys, upto |-> x.upto]
    BY <2>1 DEF Shape, ReplicaShape
  <2>3. [x EXCEPT !.keys = @ \ {k}]
          = [at |-> x.at, lease |-> x.lease, keys |-> x.keys \ {k},
             upto |-> x.upto]
    BY <2>2
  <2>4. QED
    BY <2>1, <2>3
<1> HIDE DEF cmd
<1>3. LogShape'
  BY <1>1, SubmitShape DEF Shape
<1>4. committed' \in Nat /\ committed <= committed' /\ committed \in Nat
  BY <1>1, SubmitEffect DEF Shape, LogShape
<1>5. /\ DOMAIN callbacks' = Server
      /\ \A m \in Server : DOMAIN callbacks'[m] \subseteq Nat \ {0}
  BY <1>1, SubmitFiles DEF Shape
<1>6. /\ rest = [at |-> rest.at, lease |-> rest.lease, keys |-> rest.keys,
                 upto |-> rest.upto]
      /\ rest.at = ending[n].at /\ rest.upto = ending[n].upto
  BY <1>2
<1> HIDE DEF rest
<1>7. /\ DOMAIN ending' = Server
      /\ ending'[n] = rest
      /\ \A m \in Server : m # n => ending'[m] = ending[m]
  BY <1>1 DEF Shape, ReplicaShape
<1>8. \A m \in Server :
        /\ ending'[m] = [at |-> ending'[m].at, lease |-> ending'[m].lease,
                         keys |-> ending'[m].keys, upto |-> ending'[m].upto]
        /\ ending'[m].at \in Nat /\ ending'[m].at <= applied'[m]
        /\ ending'[m].upto \in Nat /\ ending'[m].upto = ending[m].upto
        /\ ending[m].upto <= committed
        /\ applied'[m] \in Nat /\ applied'[m] <= committed
  BY <1>1, <1>6, <1>7 DEF Shape, ReplicaShape
<1>9. ASSUME NEW m \in Server
      PROVE  ending'[m].upto <= committed' /\ applied'[m] <= committed'
  <2>1. /\ ending'[m].upto \in Nat /\ ending'[m].upto <= committed
        /\ applied'[m] \in Nat /\ applied'[m] <= committed
    BY <1>8
  <2>2. QED
    BY <1>4, <2>1
<1>10. \A m \in Server : stuck'[m] => Busy(m)'
  <2>1. \A m \in Server : stuck[m] => m # n /\ Busy(m)
    BY <1>1 DEF Shape, ReplicaShape
  <2>2. QED
    BY <1>1, <1>7, <2>1 DEF Busy
<1>11. ReplicaShape'
  BY <1>1, <1>7, <1>8, <1>9, <1>10 DEF Shape, ReplicaShape
<1>12. QED
  BY <1>1, <1>3, <1>5, <1>11 DEF Shape, CallShape

\* The end of a lease is over (FinishEnd).
LEMMA FinishEndShape ==
  ASSUME Shape, NEW n \in Server, FinishEnd(n)
  PROVE  Shape'
<1>1. /\ ~stuck[n]
      /\ ending' = [ending EXCEPT ![n] = Idle]
      /\ Notify(n, ending[n].at, [ok |-> TRUE, lease |-> ending[n].lease])
      /\ UNCHANGED <<raft, log, committed, applied, machine, stuck, checked>>
  BY DEF FinishEnd
<1>2. LogShape'
  BY <1>1 DEF Shape, LogShape, raft
<1>3. ending[n].at \in Nat
  BY DEF Shape, ReplicaShape
<1>4. CallShape'
  BY <1>1, <1>3, NotifyEffect DEF Shape
<1>5. /\ DOMAIN ending' = Server
      /\ ending'[n] = Idle
      /\ \A m \in Server : m # n => ending'[m] = ending[m]
  BY <1>1 DEF Shape, ReplicaShape
<1>6. /\ Idle = [at |-> Idle.at, lease |-> Idle.lease, keys |-> Idle.keys,
                 upto |-> Idle.upto]
      /\ Idle.at = 0 /\ Idle.upto = 0
  BY DEF Idle
<1>7. applied[n] \in Nat /\ committed \in Nat
  BY DEF Shape, LogShape, ReplicaShape
<1>8. \A m \in Server :
        /\ ending'[m] = [at |-> ending'[m].at, lease |-> ending'[m].lease,
                         keys |-> ending'[m].keys, upto |-> ending'[m].upto]
        /\ ending'[m].at \in Nat /\ ending'[m].at <= applied'[m]
        /\ ending'[m].upto \in Nat /\ ending'[m].upto <= committed'
  BY <1>1, <1>5, <1>6, <1>7 DEF Shape, ReplicaShape
<1>9. \A m \in Server : stuck'[m] => Busy(m)'
  <2>1. \A m \in Server : stuck[m] => m # n /\ Busy(m)
    BY <1>1 DEF Shape, ReplicaShape
  <2>2. QED
    BY <1>1, <1>5, <2>1 DEF Busy
<1>10. ReplicaShape'
  BY <1>1, <1>5, <1>8, <1>9 DEF Shape, ReplicaShape
<1>11. QED
  BY <1>2, <1>4, <1>10 DEF Shape

\* The time of a lease runs out: nothing but its clock changes (RunOut).
LEMMA RunOutEffect ==
  ASSUME ReplicaShape, NEW n \in Server, NEW l, RunOut(n, l)
  PROVE  /\ DOMAIN machine' = Server
         /\ IsMachine(machine'[n])
         /\ \A m \in Server : m # n => machine'[m] = machine[m]
         /\ machine'[n].data = machine[n].data
         /\ machine'[n].revision = machine[n].revision
         /\ DOMAIN machine'[n].leases = DOMAIN machine[n].leases
         /\ \A x \in DOMAIN machine[n].leases :
              machine'[n].leases[x].keys = machine[n].leases[x].keys
<1> DEFINE sm == machine[n]
           L == sm.leases
           x == L[l]
           K == x.keys
           e == x.expired
<1>1. l \in DOMAIN L /\ IsMachine(sm)
  BY DEF RunOut, ReplicaShape
<1>2. x = [keys |-> K, expired |-> e] /\ IsLeases(L)
  BY <1>1 DEF IsMachine, IsLeases
<1>3. machine' = [machine EXCEPT ![n] = [sm EXCEPT !.leases =
                    [L EXCEPT ![l] = [x EXCEPT !.expired = TRUE]]]]
  BY DEF RunOut
<1> DEFINE new == [L EXCEPT ![l] = [x EXCEPT !.expired = TRUE]]
<1>4. /\ IsLeases(new)
      /\ DOMAIN new = DOMAIN L
      /\ \A y \in DOMAIN L : new[y].keys = L[y].keys
  <2>1. PICK yes : yes = TRUE
    BY Zenon
  <2> HIDE DEF x, K, e, L
  <2>2. [x EXCEPT !.expired = yes] = [keys |-> K, expired |-> yes]
    BY <1>2, LeaseFields
  <2>3. new = [L EXCEPT ![l] = [keys |-> K, expired |-> yes]]
    BY <2>1, <2>2, Zenon DEF new
  <2> HIDE DEF new
  <2>4. /\ IsLeases(new)
        /\ DOMAIN new = DOMAIN L
        /\ \A y \in DOMAIN L : new[y].keys = IF y = l THEN K ELSE L[y].keys
    BY <1>1, <1>2, <2>3, OneLeaseChanged
  <2>5. QED
    BY <2>4 DEF K, x
<1>5. machine' = [machine EXCEPT ![n] = [sm EXCEPT !.leases = new]]
  BY <1>3
<1> HIDE DEF new, x, K, e
<1>6. [sm EXCEPT !.leases = new]
        = [data |-> sm.data, revision |-> sm.revision, leases |-> new]
  BY <1>1 DEF IsMachine
<1>7. /\ DOMAIN machine' = Server
      /\ machine'[n] = [data |-> sm.data, revision |-> sm.revision, leases |-> new]
      /\ \A m \in Server : m # n => machine'[m] = machine[m]
  BY <1>5, <1>6 DEF ReplicaShape
<1>8. IsMachine(machine'[n])
  BY <1>4, <1>7 DEF IsMachine
<1>9. QED
  BY <1>4, <1>7, <1>8

\* The time of a lease runs out (RunOut).
LEMMA RunOutShape ==
  ASSUME Shape, NEW n \in Server, NEW l, RunOut(n, l)
  PROVE  Shape'
<1>1. UNCHANGED <<raft, log, committed, applied, ending, stuck, checked, callbacks,
                  calls>>
  BY DEF RunOut
<1>2. DOMAIN machine' = Server /\ \A m \in Server : IsMachine(machine'[m])
  BY RunOutEffect DEF Shape, ReplicaShape
<1>3. \A m \in Server : Busy(m)' <=> Busy(m)
  BY <1>1 DEF Busy
<1>4. ReplicaShape'
  BY <1>1, <1>2, <1>3 DEF Shape, ReplicaShape
<1>5. QED
  BY <1>1, <1>4 DEF Shape, LogShape, CallShape, raft

\* The expiry loop looks for expired leases (CheckLeases).
LEMMA CheckLeasesShape ==
  ASSUME Shape, NEW n \in Server, CheckLeases(n)
  PROVE  Shape'
<1>1. /\ DOMAIN checked' = Server
      /\ UNCHANGED <<raft, log, committed, applied, machine, ending, stuck,
                     callbacks, calls>>
  BY DEF CheckLeases, Shape, ReplicaShape
<1>2. \A m \in Server : Busy(m)' <=> Busy(m)
  BY <1>1 DEF Busy
<1>3. ReplicaShape'
  BY <1>1, <1>2 DEF Shape, ReplicaShape
<1>4. QED
  BY <1>1, <1>3 DEF Shape, LogShape, CallShape, raft

\* A command is submitted while the replicas stay as they are, but for what
\* their expiry loops have still to do.
LEMMA SubmitReplicas ==
  ASSUME Shape, NEW n \in Server, NEW cmd, NEW token, NEW lease,
         Submit(n, cmd, token, lease), DOMAIN checked' = Server,
         UNCHANGED <<raft, applied, machine, ending, stuck>>
  PROVE  /\ LogShape' /\ ReplicaShape'
         /\ DOMAIN callbacks' = Server
         /\ \A m \in Server : DOMAIN callbacks'[m] \subseteq Nat \ {0}
<1>1. committed' \in Nat /\ committed <= committed' /\ committed \in Nat
  BY SubmitEffect DEF Shape, LogShape
<1>2. \A m \in Server : /\ applied[m] \in Nat /\ applied[m] <= committed
                        /\ ending[m].upto \in Nat /\ ending[m].upto <= committed
                        /\ Busy(m)' <=> Busy(m)
  BY DEF Shape, ReplicaShape, Busy
<1>3. \A m \in Server : applied[m] <= committed' /\ ending[m].upto <= committed'
  BY <1>1, <1>2
<1>4. ReplicaShape'
  BY <1>2, <1>3 DEF Shape, ReplicaShape
<1>5. LogShape'
  BY SubmitShape DEF Shape
<1>6. QED
  BY <1>4, <1>5, SubmitFiles DEF Shape

\* The expiry loop asks for the end of a lease (SubmitExpire).
LEMMA SubmitExpireShape ==
  ASSUME Shape, NEW n \in Server, NEW l, SubmitExpire(n, l)
  PROVE  Shape'
<1> DEFINE cmd == [type |-> "lease_expire", lease |-> l]
<1>1. /\ Submit(n, cmd, NoToken, NoLease)
      /\ DOMAIN checked' = Server
      /\ UNCHANGED <<raft, applied, machine, ending, stuck, calls>>
  BY DEF SubmitExpire, Shape, ReplicaShape
<1> HIDE DEF cmd
<1>2. QED
  BY <1>1, SubmitReplicas DEF Shape, CallShape

\* A client submits a command whose answer it does not look at (Tell).
LEMMA TellShape ==
  ASSUME Shape, NEW n \in Server, NEW cmd, Tell(n, cmd)
  PROVE  Shape'
<1>1. /\ Submit(n, cmd, NoToken, NoLease)
      /\ DOMAIN checked' = Server
      /\ UNCHANGED <<raft, applied, machine, ending, stuck, calls>>
  BY DEF Tell, Shape, ReplicaShape
<1>2. QED
  BY <1>1, SubmitReplicas DEF Shape, CallShape

\* A client's call as it is submitted, still without an answer.
LEMMA AskedCall ==
  ASSUME CallShape, NEW c \in Client, NEW n, NEW cmd, NEW lease,
         Ask(c, n, cmd, lease)
  PROVE  /\ DOMAIN calls' = Client
         /\ calls'[c] = [count |-> calls[c].count + 1, answer |-> NoAnswer]
         /\ \A d \in Client : d # c => calls'[d] = calls[d]
  BY DEF Ask, CallShape

\* A client calls (Ask).
LEMMA AskShape ==
  ASSUME Shape, NEW c \in Client, NEW n \in Server, NEW cmd, NEW lease,
         Ask(c, n, cmd, lease)
  PROVE  Shape'
<1>1. /\ Submit(n, cmd, <<c, calls[c].count + 1>>, lease)
      /\ DOMAIN checked' = Server
      /\ UNCHANGED <<raft, applied, machine, ending, stuck>>
  BY DEF Ask, Shape, ReplicaShape
<1>2. calls[c].count + 1 \in Nat /\ NoAnswer.at \in Nat
  BY DEF Shape, CallShape, NoAnswer
<1>3. \A d \in Client :
        /\ calls'[d] = [count |-> calls'[d].count, answer |-> calls'[d].answer]
        /\ calls'[d].count \in Nat /\ calls'[d].answer.at \in Nat
  <2>1. calls'[c].count = calls[c].count + 1 /\ calls'[c].answer = NoAnswer
    <3>1. calls'[c] = [count |-> calls[c].count + 1, answer |-> NoAnswer]
      BY AskedCall DEF Shape
    <3>2. QED
      BY <3>1
  <2>2. calls'[c] = [count |-> calls'[c].count, answer |-> calls'[c].answer]
    BY <2>1, AskedCall DEF Shape
  <2>3. QED
    BY <1>2, <2>1, <2>2, AskedCall DEF Shape, CallShape
<1>4. DOMAIN calls' = Client
  BY AskedCall DEF Shape
<1>5. /\ LogShape' /\ ReplicaShape'
      /\ DOMAIN callbacks' = Server
      /\ \A m \in Server : DOMAIN callbacks'[m] \subseteq Nat \ {0}
  BY <1>1, SubmitReplicas
<1>6. QED
  BY <1>3, <1>4, <1>5 DEF Shape, CallShape

\* What the replicas do by themselves keeps the shape of the state, whoever
\* calls them.
LEMMA BackgroundShape ==
  ASSUME Shape, Background
  PROVE  Shape'
<1>1. CASE Commit
  BY <1>1, CommitShape
<1>2. ASSUME NEW n \in Server, NewLeader(n) \/ Apply(n) \/ FinishEnd(n) \/ CheckLeases(n)
      PROVE  Shape'
  BY <1>2, NewLeaderShape, ApplyShape, FinishEndShape, CheckLeasesShape
<1>3. ASSUME NEW n \in Server, NEW k \in ending[n].keys, SubmitDelete(n, k)
      PROVE  Shape'
  BY <1>3, SubmitDeleteShape
<1>4. ASSUME NEW n \in Server, NEW l \in Mortal, RunOut(n, l)
      PROVE  Shape'
  BY <1>4, RunOutShape
<1>5. ASSUME NEW n \in Server, NEW l \in checked[n], SubmitExpire(n, l)
      PROVE  Shape'
  BY <1>5, SubmitExpireShape
<1>6. QED
  BY <1>1, <1>2, <1>3, <1>4, <1>5 DEF Background

\* The shape of the state does not change when nothing does.
LEMMA StutterShape ==
  ASSUME Shape, UNCHANGED vars
  PROVE  Shape'
<1>1. \A m \in Server : Busy(m)' <=> Busy(m)
  BY DEF vars, raft, Busy
<1>2. ReplicaShape'
  BY <1>1 DEF Shape, ReplicaShape, vars, raft
<1>3. QED
  BY <1>2 DEF Shape, LogShape, CallShape, vars, raft

\* The shape of the first state.
LEMMA InitShape ==
  ASSUME Init
  PROVE  Shape
<1>1. IsMachine(InitialMachine)
  BY DEF IsMachine, IsLeases, InitialMachine
<1>2. LogShape
  <2>1. log \in Seq(Range(log)) /\ Len(log) = 0
    BY DEF Init, Range
  <2>2. QED
    BY <2>1, ServiceAssumption DEF Init, LogShape
<1>3. /\ Idle = [at |-> Idle.at, lease |-> Idle.lease, keys |-> Idle.keys,
                 upto |-> Idle.upto]
      /\ Idle.at = 0 /\ Idle.upto = 0
  BY DEF Idle
<1>4. ReplicaShape
  BY <1>1, <1>3 DEF Init, ReplicaShape
<1>5. \A n \in Server : DOMAIN callbacks[n] = {}
  BY DEF Init
<1>6. CallShape
  BY <1>5 DEF Init, CallShape, NoCall, NoAnswer
<1>7. QED
  BY <1>2, <1>4, <1>6 DEF Shape

\* How often a client has called, which only a call changes.
LEMMA CallsCounted ==
  ASSUME Shape, Background \/ UNCHANGED vars, NEW c \in Client
  PROVE  calls'[c].count = calls[c].count
<1>1. CASE calls' = calls
  BY <1>1
<1>2. ASSUME NEW n \in Server, NEW i \in Nat, NEW answer, Notify(n, i, answer)
      PROVE  calls'[c].count = calls[c].count
  BY <1>2, NotifyEffect DEF Shape
<1>3. ASSUME NEW n \in Server, Apply(n)
      PROVE  calls'[c].count = calls[c].count
  <2>1. applied[n] + 1 \in Nat
    BY SMTT(60) DEF Shape, ReplicaShape
  <2>2. \/ calls' = calls
        \/ \E answer : Notify(n, applied[n] + 1, answer)
    BY <1>3 DEF Apply, Block, BeginEnd, Finish
  <2>3. QED
    BY <1>1, <1>2, <2>1, <2>2
<1>4. ASSUME NEW n \in Server, FinishEnd(n)
      PROVE  calls'[c].count = calls[c].count
  <2>1. ending[n].at \in Nat
    BY DEF Shape, ReplicaShape
  <2>2. \E answer : Notify(n, ending[n].at, answer)
    BY <1>4 DEF FinishEnd
  <2>3. QED
    BY <1>2, <2>1, <2>2
<1>5. QED
  BY <1>1, <1>3, <1>4 DEF Background, Commit, NewLeader, CheckLeases, SubmitDelete,
     RunOut, SubmitExpire, vars

\* The state of Service is well-formed (TypeOK), for any number of replicas and
\* clients and whatever they ask for.
THEOREM ServiceTypeCorrect == Spec => []TypeOK
<1> DEFINE IInv == Shape /\ \A c \in Client : calls[c].count <= MaxCalls
<1>1. Init => IInv
  BY InitShape, ServiceAssumption DEF Init, NoCall
<1>2. IInv /\ [Next]_vars => IInv'
  <2>1. SUFFICES ASSUME IInv, [Next]_vars
                 PROVE  IInv'
    OBVIOUS
  <2>2. CASE Background \/ UNCHANGED vars
    BY <2>1, <2>2, BackgroundShape, StutterShape, CallsCounted
  <2>3. ASSUME NEW c \in Client, NEW n \in Server, NEW cmd \in Requests,
               Call(c, n, cmd)
        PROVE  IInv'
    <3>1. calls[c].count < MaxCalls /\ Ask(c, n, cmd, NoLease)
      BY <2>3 DEF Call
    <3>2. Shape'
      BY <2>1, <3>1, AskShape
    <3>3. calls[c].count \in Nat /\ calls[c].count + 1 <= MaxCalls
      BY <2>1, <3>1, ServiceAssumption DEF Shape, CallShape
    <3>4. calls'[c] = [count |-> calls[c].count + 1, answer |-> NoAnswer]
      BY <2>1, <3>1, AskedCall DEF Shape
    <3>5. \A d \in Client : d # c => calls'[d] = calls[d]
      BY <2>1, <3>1, AskedCall DEF Shape
    <3>6. QED
      BY <2>1, <3>2, <3>3, <3>4, <3>5
  <2>4. QED
    BY <2>1, <2>2, <2>3 DEF Next
<1>3. IInv => TypeOK
  <2>1. SUFFICES ASSUME IInv
                 PROVE  TypeOK
    OBVIOUS
  <2>2. Len(log) \in Nat
    BY <2>1, LenProperties DEF Shape, LogShape
  <2>3. QED
    BY <2>1, <2>2, ServiceAssumption
       DEF TypeOK, Shape, LogShape, ReplicaShape, CallShape
<1>4. QED
  BY <1>1, <1>2, <1>3, PTL DEF Spec

-----------------------------------------------------------------------------
(* Answers.  A callback is filed under the place its command gets in the log *)
(* and is called with the answer to that place, so that callers and entries  *)
(* belong together as long as no new leader replaces the entries.            *)

FiledRight ==
  changes = 0 =>
    \A n \in Server : \A i \in DOMAIN callbacks[n] :
      i \in 1 .. Len(log) /\ log[i].token = callbacks[n][i]

AnsweredRight ==
  changes = 0 =>
    \A c \in Client :
      calls[c].answer.at > 0 =>
        /\ calls[c].answer.at \in 1 .. Len(log)
        /\ log[calls[c].answer.at].token = <<c, calls[c].count>>

\* Submitting a command keeps callbacks and entries together.
LEMMA SubmitFiledRight ==
  ASSUME Shape, FiledRight, NEW n \in Server, NEW cmd, NEW token, NEW lease,
         Submit(n, cmd, token, lease), UNCHANGED raft
  PROVE  FiledRight'
<1>1. SUFFICES ASSUME changes = 0, NEW m \in Server, NEW i \in DOMAIN callbacks'[m]
               PROVE  i \in 1 .. Len(log') /\ log'[i].token = callbacks'[m][i]
  BY DEF FiledRight, raft
<1>2. \/ i \in DOMAIN callbacks[m] /\ callbacks'[m][i] = callbacks[m][i]
      \/ /\ i = Len(log) + 1 /\ Len(log') = Len(log) + 1
         /\ callbacks'[m][i] = token
  BY SubmitFiles DEF Shape
<1>3. /\ Len(log) \in Nat /\ Len(log') \in Nat /\ Len(log) <= Len(log')
      /\ \A j \in 1 .. Len(log) : log'[j] = log[j]
      /\ \A j \in Len(log) + 1 .. Len(log') :
           log'[j] = [cmd |-> cmd, token |-> token, lease |-> lease]
  BY SubmitEffect DEF Shape
<1>4. CASE i \in DOMAIN callbacks[m] /\ callbacks'[m][i] = callbacks[m][i]
  BY <1>1, <1>3, <1>4 DEF FiledRight
<1>5. CASE /\ i = Len(log) + 1 /\ Len(log') = Len(log) + 1
           /\ callbacks'[m][i] = token
  BY <1>3, <1>5
<1>6. QED
  BY <1>2, <1>4, <1>5

\* The answers given so far stay right while the log grows.
LEMMA SubmitAnsweredRight ==
  ASSUME Shape, AnsweredRight, NEW n \in Server, NEW cmd, NEW token, NEW lease,
         Submit(n, cmd, token, lease), UNCHANGED raft,
         \A c \in Client : calls'[c] = calls[c] \/ calls'[c].answer = NoAnswer
  PROVE  AnsweredRight'
<1>1. SUFFICES ASSUME changes = 0, NEW c \in Client, calls'[c].answer.at > 0
               PROVE  /\ calls'[c].answer.at \in 1 .. Len(log')
                      /\ log'[calls'[c].answer.at].token = <<c, calls'[c].count>>
  BY DEF AnsweredRight, raft
<1>2. /\ Len(log) \in Nat /\ Len(log') \in Nat /\ Len(log) <= Len(log')
      /\ \A j \in 1 .. Len(log) : log'[j] = log[j]
  BY SubmitEffect DEF Shape
<1>3. calls'[c] = calls[c]
  BY <1>1 DEF NoAnswer
<1>4. QED
  BY <1>1, <1>2, <1>3 DEF AnsweredRight

\* An answer is the answer to the entry its callback is filed under.
LEMMA NotifyRight ==
  ASSUME Shape, FiledRight, AnsweredRight, NEW n \in Server, NEW i \in Nat,
         NEW answer, Notify(n, i, answer), UNCHANGED <<raft, log>>
  PROVE  FiledRight' /\ AnsweredRight'
<1>1. /\ \A m \in Server : \A j \in DOMAIN callbacks'[m] :
           j \in DOMAIN callbacks[m] /\ callbacks'[m][j] = callbacks[m][j]
      /\ \A c \in Client :
           \/ calls'[c] = calls[c]
           \/ /\ i \in DOMAIN callbacks[n]
              /\ callbacks[n][i] = <<c, calls[c].count>>
              /\ calls'[c].count = calls[c].count
              /\ calls'[c].answer
                   = [at |-> i, ok |-> answer.ok, lease |-> answer.lease]
  BY NotifyEffect DEF Shape
<1>2. FiledRight'
  BY <1>1 DEF FiledRight, raft
<1>3. ASSUME changes = 0, NEW c \in Client, calls'[c].answer.at > 0
      PROVE  /\ calls'[c].answer.at \in 1 .. Len(log)
             /\ log[calls'[c].answer.at].token = <<c, calls'[c].count>>
  <2>1. CASE calls'[c] = calls[c]
    BY <1>3, <2>1 DEF AnsweredRight
  <2>2. CASE /\ i \in DOMAIN callbacks[n]
             /\ callbacks[n][i] = <<c, calls[c].count>>
             /\ calls'[c].count = calls[c].count
             /\ calls'[c].answer
                  = [at |-> i, ok |-> answer.ok, lease |-> answer.lease]
    <3>1. calls'[c].answer.at = i
      BY <2>2
    <3>2. i \in 1 .. Len(log) /\ log[i].token = <<c, calls[c].count>>
      BY <1>3, <2>2 DEF FiledRight
    <3>3. QED
      BY <2>2, <3>1, <3>2
  <2>3. QED
    BY <1>1, <2>1, <2>2
<1>4. QED
  BY <1>2, <1>3 DEF AnsweredRight, raft

\* Answers stay right in all that the replicas do by themselves; after a change
\* of leader nothing is said of them any more.
LEMMA BackgroundRight ==
  ASSUME Shape, FiledRight, AnsweredRight, Background \/ UNCHANGED vars
  PROVE  FiledRight' /\ AnsweredRight'
<1>1. CASE UNCHANGED <<raft, log, callbacks, calls>>
  BY <1>1 DEF FiledRight, AnsweredRight, raft
<1>2. ASSUME NEW n \in Server, NewLeader(n)
      PROVE  FiledRight' /\ AnsweredRight'
  <2>1. changes' # 0
    BY <1>2 DEF NewLeader, Shape, LogShape
  <2>2. QED
    BY <2>1 DEF FiledRight, AnsweredRight
<1>3. ASSUME NEW n \in Server, Apply(n)
      PROVE  FiledRight' /\ AnsweredRight'
  <2>1. applied[n] + 1 \in Nat
    BY SMTT(60) DEF Shape, ReplicaShape
  <2>2. /\ UNCHANGED <<raft, log>>
        /\ \/ UNCHANGED <<callbacks, calls>>
           \/ \E answer : Notify(n, applied[n] + 1, answer)
    BY <1>3 DEF Apply, Block, BeginEnd, Finish
  <2>3. QED
    BY <1>1, <2>1, <2>2, NotifyRight
<1>4. ASSUME NEW n \in Server, FinishEnd(n)
      PROVE  FiledRight' /\ AnsweredRight'
  <2>1. ending[n].at \in Nat
    BY DEF Shape, ReplicaShape
  <2>2. /\ UNCHANGED <<raft, log>>
        /\ \E answer : Notify(n, ending[n].at, answer)
    BY <1>4 DEF FinishEnd
  <2>3. QED
    BY <2>1, <2>2, NotifyRight
<1>5. ASSUME NEW n \in Server, NEW k, SubmitDelete(n, k)
      PROVE  FiledRight' /\ AnsweredRight'
  <2>1. /\ Submit(n, [type |-> "delete", key |-> k], NoToken, ending[n].lease)
        /\ UNCHANGED raft /\ UNCHANGED calls
    BY <1>5 DEF SubmitDelete
  <2>2. QED
    BY <2>1, SubmitFiledRight, SubmitAnsweredRight
<1>6. ASSUME NEW n \in Server, NEW l, SubmitExpire(n, l)
      PROVE  FiledRight' /\ AnsweredRight'
  <2>1. /\ Submit(n, [type |-> "lease_expire", lease |-> l], NoToken, NoLease)
        /\ UNCHANGED raft /\ UNCHANGED calls
    BY <1>6 DEF SubmitExpire
  <2>2. QED
    BY <2>1, SubmitFiledRight, SubmitAnsweredRight
<1>7. CASE Commit
  BY <1>1, <1>7 DEF Commit
<1>8. ASSUME NEW n \in Server, CheckLeases(n) \/ \E l : RunOut(n, l)
      PROVE  FiledRight' /\ AnsweredRight'
  BY <1>1, <1>8 DEF CheckLeases, RunOut
<1>9. CASE UNCHANGED vars
  BY <1>1, <1>9 DEF vars
<1>10. QED
  BY <1>2, <1>3, <1>4, <1>5, <1>6, <1>7, <1>8, <1>9 DEF Background

\* Answers stay right when a client calls.
LEMMA AskRight ==
  ASSUME Shape, FiledRight, AnsweredRight, NEW c \in Client, NEW n \in Server,
         NEW cmd, NEW lease, Ask(c, n, cmd, lease)
  PROVE  FiledRight' /\ AnsweredRight'
<1>1. /\ Submit(n, cmd, <<c, calls[c].count + 1>>, lease)
      /\ UNCHANGED raft
  BY DEF Ask
<1>2. \A d \in Client : calls'[d] = calls[d] \/ calls'[d].answer = NoAnswer
  <2>1. calls'[c] = [count |-> calls[c].count + 1, answer |-> NoAnswer]
    BY AskedCall DEF Shape
  <2>2. \A d \in Client : d # c => calls'[d] = calls[d]
    BY AskedCall DEF Shape
  <2>3. QED
    BY <2>1, <2>2
<1>3. QED
  BY <1>1, <1>2, SubmitFiledRight, SubmitAnsweredRight

\* Until the leader changes, every answer answers the command its caller has
\* submitted (AnswersOwnCommand), for any number of calls that time out before.
THEOREM AnswersRight == Spec => []AnswersOwnCommand
<1> DEFINE IInv == Shape /\ FiledRight /\ AnsweredRight
<1>1. Init => IInv
  <2>1. SUFFICES ASSUME Init
                 PROVE  IInv
    OBVIOUS
  <2>2. \A n \in Server : DOMAIN callbacks[n] = {}
    BY <2>1 DEF Init
  <2>3. \A c \in Client : calls[c].answer.at = 0
    BY <2>1 DEF Init, NoCall, NoAnswer
  <2>4. QED
    BY <2>1, <2>2, <2>3, InitShape DEF FiledRight, AnsweredRight
<1>2. IInv /\ [Next]_vars => IInv'
  <2>1. SUFFICES ASSUME IInv, [Next]_vars
                 PROVE  IInv'
    OBVIOUS
  <2>2. CASE Background \/ UNCHANGED vars
    BY <2>1, <2>2, BackgroundShape, StutterShape, BackgroundRight
  <2>3. ASSUME NEW c \in Client, NEW n \in Server, NEW cmd \in Requests,
               Call(c, n, cmd)
        PROVE  IInv'
    BY <2>1, <2>3, AskShape, AskRight DEF Call
  <2>4. QED
    BY <2>1, <2>2, <2>3 DEF Next
<1>3. IInv => AnswersOwnCommand
  BY DEF AnsweredRight, AnswersOwnCommand
<1>4. QED
  BY <1>1, <1>2, <1>3, PTL DEF Spec

\* Through changes of leader less is left: a token stands at one place of the
\* log at most, and if it does, its callback is filed under that place and its
\* answer was given there.
HasAsked(t, all) == \E c \in Client : \E k \in 1 .. all[c].count : t = <<c, k>>

TokensRight ==
  /\ \A i \in 1 .. Len(log) :
       log[i].token # NoToken => HasAsked(log[i].token, calls)
  /\ \A n \in Server : \A i \in DOMAIN callbacks[n] :
       /\ callbacks[n][i] # NoToken /\ HasAsked(callbacks[n][i], calls)
       /\ \A j \in 1 .. Len(log) : log[j].token = callbacks[n][i] => j = i

AnsweredInPlace ==
  \A c \in Client : \A j \in 1 .. Len(log) :
    calls[c].answer.at > 0 /\ log[j].token = <<c, calls[c].count>>
      => calls[c].answer.at = j

\* Whoever has asked has asked, as long as no count of calls falls.
LEMMA AskedStays ==
  ASSUME CallShape, NEW t, HasAsked(t, calls),
         \A c \in Client :
           calls'[c].count \in Nat /\ calls[c].count <= calls'[c].count
  PROVE  HasAsked(t, calls')
<1>1. PICK c \in Client : \E k \in 1 .. calls[c].count : t = <<c, k>>
  BY DEF HasAsked
<1>2. PICK k \in 1 .. calls[c].count : t = <<c, k>>
  BY <1>1
<1>3. k \in 1 .. calls'[c].count
  BY <1>2 DEF CallShape
<1>4. QED
  BY <1>2, <1>3 DEF HasAsked

\* A submitted command that nobody waits for, or the first with its token,
\* keeps tokens, callbacks and answers together.
LEMMA SubmitTokens ==
  ASSUME Shape, TokensRight, AnsweredInPlace,
         NEW n \in Server, NEW cmd, NEW token, NEW lease,
         Submit(n, cmd, token, lease),
         token = NoToken \/ (~HasAsked(token, calls) /\ HasAsked(token, calls')),
         \A c \in Client :
           /\ calls'[c].count \in Nat /\ calls[c].count <= calls'[c].count
           /\ \/ calls'[c] = calls[c] /\ <<c, calls[c].count>> # token
              \/ calls'[c].answer = NoAnswer
  PROVE  TokensRight' /\ AnsweredInPlace'
<1>1. /\ Len(log) \in Nat /\ Len(log') \in Nat /\ Len(log) <= Len(log')
      /\ \A j \in 1 .. Len(log) : log'[j] = log[j]
      /\ \A j \in Len(log) + 1 .. Len(log') :
           log'[j] = [cmd |-> cmd, token |-> token, lease |-> lease]
  BY SubmitEffect DEF Shape
<1>2. \A j \in 1 .. Len(log') :
        \/ j \in 1 .. Len(log) /\ log'[j].token = log[j].token
        \/ j > Len(log) /\ log'[j].token = token
  BY <1>1
<1>3. \A t : HasAsked(t, calls) => HasAsked(t, calls')
  BY AskedStays DEF Shape
<1>4. Len(log') <= Len(log) + 1
  BY <1>1, AppendedLog DEF Submit, Shape
<1>5. \A i \in 1 .. Len(log') :
        log'[i].token # NoToken => HasAsked(log'[i].token, calls')
  BY <1>2, <1>3 DEF TokensRight
<1>6. ASSUME NEW m \in Server, NEW i \in DOMAIN callbacks'[m]
      PROVE  /\ callbacks'[m][i] # NoToken /\ HasAsked(callbacks'[m][i], calls')
             /\ \A j \in 1 .. Len(log') : log'[j].token = callbacks'[m][i] => j = i
  <2>1. CASE i \in DOMAIN callbacks[m] /\ callbacks'[m][i] = callbacks[m][i]
    <3>1. /\ callbacks[m][i] # NoToken /\ HasAsked(callbacks[m][i], calls)
          /\ \A j \in 1 .. Len(log) : log[j].token = callbacks[m][i] => j = i
      BY <2>1 DEF TokensRight
    <3>2. callbacks[m][i] # token
      BY <3>1
    <3>3. QED
      BY <1>2, <1>3, <2>1, <3>1, <3>2
  <2>2. CASE /\ token # NoToken
             /\ i = Len(log) + 1 /\ Len(log') = Len(log) + 1
             /\ callbacks'[m][i] = token
    <3>1. \A j \in 1 .. Len(log) : log[j].token # token
      BY <2>2 DEF TokensRight
    <3>2. \A j \in 1 .. Len(log') : j > Len(log) => j = i
      BY <1>1, <2>2
    <3>3. QED
      BY <1>2, <2>2, <3>1, <3>2
  <2>3. CASE token = NoToken
    BY <2>1, <2>3 DEF Submit
  <2>4. QED
    BY <2>1, <2>2, <2>3, SubmitFiles DEF Shape
<1>7. ASSUME NEW c \in Client, NEW j \in 1 .. Len(log'), calls'[c].answer.at > 0,
             log'[j].token = <<c, calls'[c].count>>
      PROVE  calls'[c].answer.at = j
  <2>1. calls'[c] = calls[c] /\ <<c, calls[c].count>> # token
    BY <1>7 DEF NoAnswer
  <2>2. j \in 1 .. Len(log) /\ log'[j].token = log[j].token
    BY <1>2, <1>7, <2>1
  <2>3. QED
    BY <1>7, <2>1, <2>2 DEF AnsweredInPlace
<1>8. QED
  BY <1>5, <1>6, <1>7 DEF TokensRight, AnsweredInPlace

\* Tokens, callbacks and answers stay together when nobody submits anything:
\* entries, callbacks and calls may go, but nothing is filed or answered that
\* was not filed before.
LEMMA KeptTokens ==
  ASSUME Shape, TokensRight, AnsweredInPlace,
         Len(log') \in Nat, Len(log') <= Len(log),
         \A j \in 1 .. Len(log') : log'[j] = log[j],
         \A n \in Server : \A i \in DOMAIN callbacks'[n] :
           i \in DOMAIN callbacks[n] /\ callbacks'[n][i] = callbacks[n][i],
         \A c \in Client :
           /\ calls'[c].count = calls[c].count
           /\ \/ calls'[c].answer = calls[c].answer
              \/ \E n \in Server : \E i \in DOMAIN callbacks[n] :
                   /\ callbacks[n][i] = <<c, calls[c].count>>
                   /\ calls'[c].answer.at = i
  PROVE  TokensRight' /\ AnsweredInPlace'
<1>1. \A t : HasAsked(t, calls) => HasAsked(t, calls')
  BY AskedStays DEF Shape, CallShape
<1>2. Len(log) \in Nat
  BY LenProperties DEF Shape, LogShape
<1>3. \A j \in 1 .. Len(log') : j \in 1 .. Len(log) /\ log'[j].token = log[j].token
  BY <1>2
<1>4. TokensRight'
  BY <1>1, <1>3 DEF TokensRight
<1>5. ASSUME NEW c \in Client, NEW j \in 1 .. Len(log'), calls'[c].answer.at > 0,
             log'[j].token = <<c, calls'[c].count>>
      PROVE  calls'[c].answer.at = j
  <2>1. j \in 1 .. Len(log) /\ log[j].token = <<c, calls[c].count>>
    BY <1>3, <1>5
  <2>2. CASE calls'[c].answer = calls[c].answer
    BY <1>5, <2>1, <2>2 DEF AnsweredInPlace
  <2>3. ASSUME NEW n \in Server, NEW i \in DOMAIN callbacks[n],
               callbacks[n][i] = <<c, calls[c].count>>, calls'[c].answer.at = i
        PROVE  calls'[c].answer.at = j
    <3>1. log[j].token = callbacks[n][i]
      BY <2>1, <2>3
    <3>2. j = i
      BY <2>1, <3>1, Zenon DEF TokensRight
    <3>3. QED
      BY <2>3, <3>2
  <2>4. QED
    BY <2>2, <2>3
<1>6. QED
  BY <1>4, <1>5 DEF AnsweredInPlace

\* Tokens, callbacks and answers stay together in all that the replicas do by
\* themselves, changes of leader included.
LEMMA BackgroundTokens ==
  ASSUME Shape, TokensRight, AnsweredInPlace, Background \/ UNCHANGED vars
  PROVE  TokensRight' /\ AnsweredInPlace'
<1>1. Len(log) \in Nat
  BY LenProperties DEF Shape, LogShape
<1>2. CASE UNCHANGED <<log, callbacks, calls>>
  BY <1>1, <1>2, KeptTokens
<1>3. ASSUME NEW n \in Server, NewLeader(n)
      PROVE  TokensRight' /\ AnsweredInPlace'
  <2>1. PICK k \in committed .. Len(log) : log' = SubSeq(log, 1, k)
    BY <1>3 DEF NewLeader
  <2>2. k \in 0 .. Len(log)
    BY <1>1, <2>1 DEF Shape, LogShape
  <2>3. Len(log') = k /\ \A j \in 1 .. k : log'[j] = log[j]
    BY <2>1, <2>2, CutLog DEF Shape
  <2>4. UNCHANGED <<callbacks, calls>>
    BY <1>3 DEF NewLeader
  <2>5. QED
    BY <1>1, <2>2, <2>3, <2>4, KeptTokens
<1>4. ASSUME NEW n \in Server, NEW i \in Nat, NEW answer, Notify(n, i, answer),
             UNCHANGED log
      PROVE  TokensRight' /\ AnsweredInPlace'
  <2>1. /\ \A m \in Server : \A j \in DOMAIN callbacks'[m] :
             j \in DOMAIN callbacks[m] /\ callbacks'[m][j] = callbacks[m][j]
        /\ \A c \in Client :
             \/ calls'[c] = calls[c]
             \/ /\ i \in DOMAIN callbacks[n]
                /\ callbacks[n][i] = <<c, calls[c].count>>
                /\ calls'[c].count = calls[c].count
                /\ calls'[c].answer
                     = [at |-> i, ok |-> answer.ok, lease |-> answer.lease]
    BY <1>4, NotifyEffect DEF Shape
  <2>2. \A c \in Client :
          /\ calls'[c].count = calls[c].count
          /\ \/ calls'[c].answer = calls[c].answer
             \/ /\ i \in DOMAIN callbacks[n]
                /\ callbacks[n][i] = <<c, calls[c].count>>
                /\ calls'[c].answer.at = i
    BY <2>1
  <2>3. QED
    BY <1>1, <1>4, <2>1, <2>2, KeptTokens
<1>5. ASSUME NEW n \in Server, Apply(n)
      PROVE  TokensRight' /\ AnsweredInPlace'
  <2>1. applied[n] + 1 \in Nat
    BY SMTT(60) DEF Shape, ReplicaShape
  <2>2. /\ UNCHANGED log
        /\ \/ UNCHANGED <<callbacks, calls>>
           \/ \E answer : Notify(n, applied[n] + 1, answer)
    BY <1>5 DEF Apply, Block, BeginEnd, Finish
  <2>3. QED
    BY <1>2, <1>4, <2>1, <2>2
<1>6. ASSUME NEW n \in Server, FinishEnd(n)
      PROVE  TokensRight' /\ AnsweredInPlace'
  <2>1. ending[n].at \in Nat
    BY DEF Shape, ReplicaShape
  <2>2. UNCHANGED log /\ \E answer : Notify(n, ending[n].at, answer)
    BY <1>6 DEF FinishEnd
  <2>3. QED
    BY <1>4, <2>1, <2>2
<1>7. ASSUME NEW n \in Server, NEW cmd, NEW lease,
             Submit(n, cmd, NoToken, lease), UNCHANGED calls
      PROVE  TokensRight' /\ AnsweredInPlace'
  <2>1. \A c \in Client : <<c, calls[c].count>> # NoToken
    BY DEF NoToken
  <2>2. \A c \in Client :
          /\ calls'[c].count \in Nat /\ calls[c].count <= calls'[c].count
          /\ \/ calls'[c] = calls[c] /\ <<c, calls[c].count>> # NoToken
             \/ calls'[c].answer = NoAnswer
    BY <1>7, <2>1 DEF Shape, CallShape
  <2>3. QED
    BY <1>7, <2>2, SubmitTokens
<1>8. ASSUME NEW n \in Server, NEW k, SubmitDelete(n, k)
      PROVE  TokensRight' /\ AnsweredInPlace'
  BY <1>7, <1>8 DEF SubmitDelete
<1>9. ASSUME NEW n \in Server, NEW l, SubmitExpire(n, l)
      PROVE  TokensRight' /\ AnsweredInPlace'
  BY <1>7, <1>9 DEF SubmitExpire
<1>10. ASSUME \/ Commit \/ UNCHANGED vars
              \/ \E n \in Server : CheckLeases(n) \/ \E l : RunOut(n, l)
       PROVE  TokensRight' /\ AnsweredInPlace'
  BY <1>2, <1>10 DEF Commit, CheckLeases, RunOut, vars
<1>11. QED
  BY <1>3, <1>5, <1>6, <1>8, <1>9, <1>10 DEF Background

\* The token of a new call is in no entry and no callback yet.
LEMMA AskTokens ==
  ASSUME Shape, TokensRight, AnsweredInPlace, NEW c \in Client,
         NEW n \in Server, NEW cmd, NEW lease, Ask(c, n, cmd, lease)
  PROVE  TokensRight' /\ AnsweredInPlace'
<1> DEFINE token == <<c, calls[c].count + 1>>
<1>1. Submit(n, cmd, token, lease)
  BY DEF Ask
<1>2. calls[c].count \in Nat /\ \A d \in Client : calls[d].count \in Nat
  BY DEF Shape, CallShape
<1>3. /\ calls'[c].count = calls[c].count + 1 /\ calls'[c].answer = NoAnswer
      /\ \A d \in Client : d # c => calls'[d] = calls[d]
  <2>1. calls'[c] = [count |-> calls[c].count + 1, answer |-> NoAnswer]
    BY AskedCall DEF Shape
  <2>2. QED
    BY <2>1, AskedCall DEF Shape
<1>4. ~HasAsked(token, calls)
  BY <1>2 DEF HasAsked
<1>5. HasAsked(token, calls')
  <2>1. calls[c].count + 1 \in 1 .. calls'[c].count
    BY <1>2, <1>3
  <2>2. QED
    BY <2>1 DEF HasAsked
<1>6. \A d \in Client :
        /\ calls'[d].count \in Nat /\ calls[d].count <= calls'[d].count
        /\ \/ calls'[d] = calls[d] /\ <<d, calls[d].count>> # token
           \/ calls'[d].answer = NoAnswer
  BY <1>2, <1>3
<1>7. QED
  BY <1>1, <1>4, <1>5, <1>6, SubmitTokens

\* Whoever is given the answer to another's command has lost its own
\* (OthersAnswerMeansLost), through any changes of leader and for any number of
\* clients, calls and replicas.
THEOREM OthersAnswersMeanLost == Spec => []OthersAnswerMeansLost
<1> DEFINE IInv == Shape /\ TokensRight /\ AnsweredInPlace
<1>1. Init => IInv
  <2>1. SUFFICES ASSUME Init
                 PROVE  IInv
    OBVIOUS
  <2>2. /\ Len(log) = 0 /\ \A n \in Server : DOMAIN callbacks[n] = {}
    BY <2>1 DEF Init
  <2>3. QED
    BY <2>1, <2>2, InitShape DEF TokensRight, AnsweredInPlace
<1>2. IInv /\ [Next]_vars => IInv'
  <2>1. SUFFICES ASSUME IInv, [Next]_vars
                 PROVE  IInv'
    OBVIOUS
  <2>2. CASE Background \/ UNCHANGED vars
    BY <2>1, <2>2, BackgroundShape, StutterShape, BackgroundTokens
  <2>3. ASSUME NEW c \in Client, NEW n \in Server, NEW cmd \in Requests,
               Call(c, n, cmd)
        PROVE  IInv'
    BY <2>1, <2>3, AskShape, AskTokens DEF Call
  <2>4. QED
    BY <2>1, <2>2, <2>3 DEF Next
<1>3. IInv => OthersAnswerMeansLost
  <2>1. SUFFICES ASSUME IInv
                 PROVE  OthersAnswerMeansLost
    OBVIOUS
  <2>2. DOMAIN log = 1 .. Len(log)
    BY <2>1 DEF Shape, LogShape
  <2>3. QED
    BY <2>1, <2>2 DEF AnsweredInPlace, OthersAnswerMeansLost
<1>4. QED
  BY <1>1, <1>2, <1>3, PTL DEF Spec

-----------------------------------------------------------------------------
(* What the machines hold.                                                  *)

\* Machines that differ in their clocks at most.
Alike(a, b) ==
  /\ a.data = b.data /\ a.revision = b.revision
  /\ DOMAIN a.leases = DOMAIN b.leases
  /\ \A l \in DOMAIN a.leases : a.leases[l].keys = b.leases[l].keys

\* Machines have the same content when they differ in their clocks at most.
LEMMA SameContent ==
  ASSUME NEW a, NEW b
  PROVE  Content(a) = Content(b) <=> Alike(a, b)
<1> DEFINE K(sm) == [l \in DOMAIN sm.leases |-> sm.leases[l].keys]
<1>1. K(a) = K(b) <=> /\ DOMAIN a.leases = DOMAIN b.leases
                      /\ \A l \in DOMAIN a.leases :
                           a.leases[l].keys = b.leases[l].keys
  <2>1. ASSUME K(a) = K(b)
        PROVE  /\ DOMAIN a.leases = DOMAIN b.leases
               /\ \A l \in DOMAIN a.leases :
                    a.leases[l].keys = b.leases[l].keys
    <3>1. DOMAIN K(a) = DOMAIN a.leases /\ DOMAIN K(b) = DOMAIN b.leases
      OBVIOUS
    <3>2. /\ \A l \in DOMAIN a.leases : K(a)[l] = a.leases[l].keys
          /\ \A l \in DOMAIN b.leases : K(b)[l] = b.leases[l].keys
      OBVIOUS
    <3> HIDE DEF K
    <3>3. QED
      BY <2>1, <3>1, <3>2
  <2>2. ASSUME /\ DOMAIN a.leases = DOMAIN b.leases
               /\ \A l \in DOMAIN a.leases :
                    a.leases[l].keys = b.leases[l].keys
        PROVE  K(a) = K(b)
    BY <2>2
  <2>3. QED
    BY <2>1, <2>2
<1>2. Content(a) = <<a.data, a.revision, K(a)>>
      /\ Content(b) = <<b.data, b.revision, K(b)>>
  BY DEF Content
<1> HIDE DEF K
<1>3. Content(a) = Content(b)
        <=> a.data = b.data /\ a.revision = b.revision /\ K(a) = K(b)
  BY <1>2
<1>4. QED
  BY <1>1, <1>3 DEF Alike

KeysAlike(a, b) ==
  DOMAIN a = DOMAIN b /\ \A l \in DOMAIN a : a[l].keys = b[l].keys

\* Machines with the same data and leases with the same keys are alike.
LEMMA AlikeMachines ==
  ASSUME NEW data, NEW revision, NEW L, NEW M, KeysAlike(L, M),
         NEW a, a = [data |-> data, revision |-> revision, leases |-> L],
         NEW b, b = [data |-> data, revision |-> revision, leases |-> M]
  PROVE  Alike(a, b)
<1>1. /\ a.data = data /\ a.revision = revision /\ a.leases = L
      /\ b.data = data /\ b.revision = revision /\ b.leases = M
  OBVIOUS
<1>2. QED
  BY <1>1, Zenon DEF Alike, KeysAlike

\* Leases with the same keys have the same keys after a command of the store.
LEMMA UpdateAlike ==
  ASSUME NEW a, IsLeases(a), NEW b, IsLeases(b), KeysAlike(a, b), NEW c, NEW r
  PROVE  KeysAlike(UpdateLeaseKeys(a, c, r), UpdateLeaseKeys(b, c, r))
<1>1. ASSUME NEW x, IsLeases(x), NEW y, IsLeases(y), KeysAlike(x, y), NEW l, NEW k
      PROVE  /\ KeysAlike(AddKey(x, l, k), AddKey(y, l, k))
             /\ KeysAlike(RemoveKey(x, l, k), RemoveKey(y, l, k))
  <2>1. /\ DOMAIN x = DOMAIN y
        /\ \A m \in DOMAIN x : x[m].keys = y[m].keys
    BY <1>1 DEF KeysAlike
  <2>2. /\ DOMAIN AddKey(x, l, k) = DOMAIN x
        /\ DOMAIN RemoveKey(x, l, k) = DOMAIN x
        /\ DOMAIN AddKey(y, l, k) = DOMAIN x
        /\ DOMAIN RemoveKey(y, l, k) = DOMAIN x
    BY <1>1, <2>1, AddKeyLeases, RemoveKeyLeases
  <2>3. ASSUME NEW m \in DOMAIN x
        PROVE  AddKey(x, l, k)[m].keys = AddKey(y, l, k)[m].keys
    <3>1. CASE m # l
      <4>1. /\ AddKey(x, l, k)[m].keys = x[m].keys
            /\ AddKey(y, l, k)[m].keys = y[m].keys
        BY <1>1, <2>1, <3>1, AddKeyLeases
      <4>2. QED
        BY <2>1, <4>1
    <3>2. CASE m = l
      <4>1. l \in DOMAIN x /\ l \in DOMAIN y /\ IsLeases(x) /\ IsLeases(y)
        BY <1>1, <2>1, <3>2
      <4>2. AddKey(x, l, k)[l].keys = x[l].keys \cup {k}
        BY <4>1, AddKeyLeases
      <4>3. AddKey(y, l, k)[l].keys = y[l].keys \cup {k}
        BY <4>1, AddKeyLeases
      <4>4. QED
        BY <2>1, <3>2, <4>2, <4>3, Zenon
    <3>3. QED
      BY <3>1, <3>2
  <2>4. ASSUME NEW m \in DOMAIN x
        PROVE  RemoveKey(x, l, k)[m].keys = RemoveKey(y, l, k)[m].keys
    <3>1. CASE m # l
      <4>1. /\ RemoveKey(x, l, k)[m].keys = x[m].keys
            /\ RemoveKey(y, l, k)[m].keys = y[m].keys
        BY <1>1, <2>1, <3>1, RemoveKeyLeases
      <4>2. QED
        BY <2>1, <4>1
    <3>2. CASE m = l
      <4>1. l \in DOMAIN x /\ l \in DOMAIN y /\ IsLeases(x) /\ IsLeases(y)
        BY <1>1, <2>1, <3>2
      <4>2. RemoveKey(x, l, k)[l].keys = x[l].keys \ {k}
        BY <4>1, RemoveKeyLeases
      <4>3. RemoveKey(y, l, k)[l].keys = y[l].keys \ {k}
        BY <4>1, RemoveKeyLeases
      <4>4. QED
        BY <2>1, <3>2, <4>2, <4>3, Zenon
    <3>3. QED
      BY <3>1, <3>2
  <2>5. QED
    BY <2>2, <2>3, <2>4 DEF KeysAlike
<1>2. CASE r.ok /\ Binds(c)
  <2> DEFINE rest(x) == IF r.prevLease = c.lease THEN x
                        ELSE RemoveKey(x, r.prevLease, c.key)
  <2>1. IsLeases(rest(a)) /\ IsLeases(rest(b)) /\ KeysAlike(rest(a), rest(b))
    BY <1>1, RemoveKeyLeases
  <2>2. /\ UpdateLeaseKeys(a, c, r) = AddKey(rest(a), c.lease, c.key)
        /\ UpdateLeaseKeys(b, c, r) = AddKey(rest(b), c.lease, c.key)
    BY <1>2 DEF UpdateLeaseKeys
  <2> HIDE DEF rest
  <2>3. QED
    BY <1>1, <2>1, <2>2
<1>3. CASE ~(r.ok /\ Binds(c))
  BY <1>1, <1>3 DEF UpdateLeaseKeys
<1>4. QED
  BY <1>2, <1>3

\* A grant that leaves the name of its lease to the replicas.
Named(c) == c.type = "lease_grant" => c.lease # NoLease

\* A lease command, its lease named, does the same to machines that are alike.
LEMMA LeaseAlike ==
  ASSUME NEW a, IsMachine(a), NEW b, IsMachine(b), Alike(a, b),
         NEW c, Named(c), NEW f, NEW g
  PROVE  Alike(ApplyLease(a, c, f).sm, ApplyLease(b, c, g).sm)
<1>0. /\ a.data = b.data /\ a.revision = b.revision
      /\ DOMAIN a.leases = DOMAIN b.leases
      /\ \A l \in DOMAIN a.leases : a.leases[l].keys = b.leases[l].keys
  BY DEF Alike
<1>1. CASE c.type = "lease_grant"
  <2> DEFINE new == [keys |-> {}, expired |-> FALSE]
  <2>1. ASSUME NEW sm, IsMachine(sm), NEW fresh
        PROVE  ApplyLease(sm, c, fresh).sm
                 = IF c.lease \in DOMAIN sm.leases THEN sm
                   ELSE [data |-> sm.data, revision |-> sm.revision,
                         leases |-> Bind(sm.leases, c.lease, new)]
    BY <1>1, <2>1 DEF Named, ApplyLease, DoGrant, Outcome, IsMachine
  <2>2. KeysAlike(Bind(a.leases, c.lease, new), Bind(b.leases, c.lease, new))
    BY <1>0 DEF KeysAlike, Bind
  <2> HIDE DEF new
  <2>3. CASE c.lease \in DOMAIN a.leases
    BY <1>0, <2>1, <2>3 DEF Alike
  <2>4. CASE c.lease \notin DOMAIN a.leases
    <3>1. /\ ApplyLease(a, c, f).sm
               = [data |-> a.data, revision |-> a.revision,
                  leases |-> Bind(a.leases, c.lease, new)]
          /\ ApplyLease(b, c, g).sm
               = [data |-> a.data, revision |-> a.revision,
                  leases |-> Bind(b.leases, c.lease, new)]
      BY <1>0, <2>1, <2>4
    <3>2. QED
      BY <2>2, <3>1, AlikeMachines
  <2>5. QED
    BY <2>3, <2>4
<1>2. CASE c.type # "lease_grant" /\ c.lease \notin DOMAIN a.leases
  BY <1>0, <1>2 DEF ApplyLease, Outcome, Alike
<1>3. CASE c.type # "lease_grant" /\ c.lease \in DOMAIN a.leases
  <2>1. Alike(DoKeepalive(a, c).sm, DoKeepalive(b, c).sm)
    BY <1>0, <1>3, KeepaliveMachine DEF Alike
  <2>2. ASSUME NEW sm, IsMachine(sm)
        PROVE  DoEnd(sm, c).sm = [data |-> sm.data, revision |-> sm.revision,
                                  leases |-> Unbind(sm.leases, c.lease)]
    BY <2>2 DEF DoEnd, Outcome, IsMachine
  <2>3. KeysAlike(Unbind(a.leases, c.lease), Unbind(b.leases, c.lease))
    BY <1>0 DEF KeysAlike, Unbind
  <2>4. Alike(DoEnd(a, c).sm, DoEnd(b, c).sm)
    <3>1. DoEnd(b, c).sm = [data |-> a.data, revision |-> a.revision,
                            leases |-> Unbind(b.leases, c.lease)]
      BY <1>0, <2>2
    <3>2. QED
      BY <2>2, <2>3, <3>1, AlikeMachines
  <2>5. QED
    BY <1>0, <1>3, <2>1, <2>4 DEF ApplyLease
<1>4. QED
  BY <1>1, <1>2, <1>3

\* A command, its lease named, does the same to machines that are alike
\* (CombinedStateMachine.apply is deterministic but for clocks and new ids).
LEMMA CommandAlike ==
  ASSUME NEW a, IsMachine(a), NEW b, IsMachine(b), Alike(a, b),
         NEW c, Named(c), NEW f, NEW g
  PROVE  Alike(ApplyCommand(a, c, f).sm, ApplyCommand(b, c, g).sm)
<1>1. CASE c.type \in LeaseTypes
  BY <1>1, LeaseAlike DEF ApplyCommand
<1>2. CASE c.type \notin LeaseTypes
  <2> DEFINE r(sm) == Execute(sm.data, c, sm.revision + 1)
  <2>1. r(a) = r(b)
    BY DEF Alike
  <2> HIDE DEF r
  <2>2. ASSUME NEW sm
        PROVE  ApplyKV(sm, c).sm
                 = [data |-> r(sm).data, revision |-> sm.revision + 1,
                    leases |-> UpdateLeaseKeys(sm.leases, c, r(sm))]
    BY DEF ApplyKV, Outcome, r
  <2>3. KeysAlike(UpdateLeaseKeys(a.leases, c, r(a)),
                  UpdateLeaseKeys(b.leases, c, r(b)))
    BY <2>1, UpdateAlike DEF Alike, KeysAlike, IsMachine
  <2>4. Alike(ApplyKV(a, c).sm, ApplyKV(b, c).sm)
    <3>1. ApplyKV(b, c).sm
            = [data |-> r(a).data, revision |-> a.revision + 1,
               leases |-> UpdateLeaseKeys(b.leases, c, r(b))]
      BY <2>1, <2>2 DEF Alike
    <3>2. QED
      BY <2>2, <2>3, <3>1, AlikeMachines
  <2>5. QED
    BY <1>2, <2>4 DEF ApplyCommand
<1>3. QED
  BY <1>1, <1>2

-----------------------------------------------------------------------------
(* Replicas agree.                                                          *)

\* A client does something at some server.
ClientStep ==
  \E n \in Server : \E cmd :
    Tell(n, cmd) \/ \E c \in Client : \E lease : Ask(c, n, cmd, lease)

ServiceStep == Background \/ ClientStep \/ UNCHANGED vars

\* What is committed stays in the log, and the log is only cut behind it.
LEMMA CommittedKept ==
  ASSUME Shape, ServiceStep
  PROVE  /\ committed' \in Nat /\ committed <= committed'
         /\ \A i \in 1 .. committed : i \in DOMAIN log' /\ log'[i] = log[i]
<1>0. /\ committed \in Nat /\ Len(log) \in Nat /\ committed <= Len(log)
      /\ DOMAIN log = 1 .. Len(log)
  BY LenProperties DEF Shape, LogShape
<1>1. CASE UNCHANGED <<log, committed>>
  BY <1>0, <1>1
<1>2. ASSUME NEW n, NEW cmd, NEW token, NEW lease, Submit(n, cmd, token, lease)
      PROVE  /\ committed' \in Nat /\ committed <= committed'
             /\ \A i \in 1 .. committed : i \in DOMAIN log' /\ log'[i] = log[i]
  <2>1. /\ log' \in Seq(Range(log'))
        /\ Len(log') \in Nat /\ Len(log) <= Len(log')
        /\ \A i \in 1 .. Len(log) : log'[i] = log[i]
        /\ committed' \in Nat /\ committed <= committed'
    BY <1>2, SubmitEffect DEF Shape
  <2>2. DOMAIN log' = 1 .. Len(log')
    BY <2>1, LenProperties
  <2>3. QED
    BY <1>0, <2>1, <2>2
<1>3. CASE Commit
  <2>1. PICK k \in committed + 1 .. Len(log) : committed' = k
    BY <1>3 DEF Commit
  <2>2. log' = log
    BY <1>3 DEF Commit
  <2>3. QED
    BY <1>0, <2>1, <2>2
<1>4. ASSUME NEW n \in Server, NewLeader(n)
      PROVE  /\ committed' \in Nat /\ committed <= committed'
             /\ \A i \in 1 .. committed : i \in DOMAIN log' /\ log'[i] = log[i]
  <2>1. PICK k \in committed .. Len(log) : log' = SubSeq(log, 1, k)
    BY <1>4 DEF NewLeader
  <2>2. k \in 0 .. Len(log) /\ committed <= k
    BY <1>0, <2>1
  <2>3. /\ log' \in Seq(Range(log')) /\ Len(log') = k
        /\ \A i \in 1 .. k : log'[i] = log[i]
    BY <2>1, <2>2, CutLog DEF Shape
  <2>4. DOMAIN log' = 1 .. k
    BY <2>3, LenProperties
  <2>5. committed' = committed
    BY <1>4 DEF NewLeader
  <2>6. QED
    BY <1>0, <2>2, <2>3, <2>4, <2>5
<1>5. ASSUME NEW n \in Server, NEW cmd, Tell(n, cmd)
      PROVE  /\ committed' \in Nat /\ committed <= committed'
             /\ \A i \in 1 .. committed : i \in DOMAIN log' /\ log'[i] = log[i]
  BY <1>2, <1>5 DEF Tell
<1>6. ASSUME NEW n \in Server, NEW cmd, NEW c \in Client, NEW lease,
             Ask(c, n, cmd, lease)
      PROVE  /\ committed' \in Nat /\ committed <= committed'
             /\ \A i \in 1 .. committed : i \in DOMAIN log' /\ log'[i] = log[i]
  BY <1>2, <1>6 DEF Ask
<1>7. ASSUME NEW n \in Server, NEW k, SubmitDelete(n, k)
      PROVE  /\ committed' \in Nat /\ committed <= committed'
             /\ \A i \in 1 .. committed : i \in DOMAIN log' /\ log'[i] = log[i]
  BY <1>2, <1>7 DEF SubmitDelete
<1>8. ASSUME NEW n \in Server, NEW l, SubmitExpire(n, l)
      PROVE  /\ committed' \in Nat /\ committed <= committed'
             /\ \A i \in 1 .. committed : i \in DOMAIN log' /\ log'[i] = log[i]
  BY <1>2, <1>8 DEF SubmitExpire
<1>9. ASSUME NEW n \in Server,
             Apply(n) \/ FinishEnd(n) \/ CheckLeases(n) \/ \E l : RunOut(n, l)
      PROVE  UNCHANGED <<log, committed>>
  BY <1>9 DEF Apply, FinishEnd, CheckLeases, RunOut
<1>10. QED
  BY <1>1, <1>3, <1>4, <1>5, <1>6, <1>7, <1>8, <1>9
     DEF ServiceStep, ClientStep, Background, vars

\* A replica applies the next committed entry, or its data and leases stay as
\* they are; and it never recovers from waiting for itself.
Stays(n) ==
  /\ applied'[n] = applied[n] /\ stuck'[n] = stuck[n]
  /\ Alike(machine'[n], machine[n])

Advances(n) ==
  /\ log' = log /\ committed' = committed
  /\ applied[n] + 1 <= committed
  /\ applied'[n] = applied[n] + 1
  /\ ~stuck[n]
  /\ \/ stuck'[n]
     \/ LET i == applied[n] + 1
        IN  machine'[n] = ApplyCommand(machine[n], log[i].cmd, <<n, i>>).sm

\* Every step lets each replica stay or advance.
LEMMA ReplicaSteps ==
  ASSUME Shape, ServiceStep, NEW n \in Server
  PROVE  Stays(n) \/ Advances(n)
<1>1. CASE UNCHANGED <<applied, stuck>> /\ machine'[n] = machine[n]
  BY <1>1 DEF Stays, Alike
<1>2. ASSUME NEW m \in Server, Apply(m)
      PROVE  Stays(n) \/ Advances(n)
  <2> DEFINE i == applied[m] + 1
             r == ApplyCommand(machine[m], log[i].cmd, <<m, i>>)
  <2>1. /\ applied' = [applied EXCEPT ![m] = i]
        /\ ~stuck[m] /\ applied[m] < Known(m)
        /\ log' = log /\ committed' = committed
        /\ Block(m, r) \/ BeginEnd(m, r) \/ Finish(m, r)
    BY <1>2 DEF Apply
  <2>2. /\ applied \in [Server -> Nat] /\ stuck \in [Server -> BOOLEAN]
        /\ DOMAIN machine = Server
    BY DEF Shape, ReplicaShape
  <2>3. applied[m] + 1 <= committed
    BY <2>1, AppliesCommitted
  <2> HIDE DEF i, r
  <2>4. CASE n # m
    <3>1. applied'[n] = applied[n] /\ stuck'[n] = stuck[n] /\ machine'[n] = machine[n]
      BY <2>1, <2>2, <2>4 DEF Block, BeginEnd, Finish
    <3>2. QED
      BY <3>1 DEF Stays, Alike
  <2>5. CASE n = m
    <3>1. applied'[n] = applied[n] + 1
      BY <2>1, <2>2, <2>5 DEF i
    <3>2. stuck'[n] \/ machine'[n] = r.sm
      BY <2>1, <2>2, <2>5 DEF Block, BeginEnd, Finish
    <3>3. QED
      BY <2>1, <2>3, <2>5, <3>1, <3>2 DEF Advances, i, r
  <2>6. QED
    BY <2>4, <2>5
<1>3. ASSUME NEW m \in Server, NEW l, RunOut(m, l)
      PROVE  Stays(n) \/ Advances(n)
  <2>1. UNCHANGED <<applied, stuck>>
    BY <1>3 DEF RunOut
  <2>2. Alike(machine'[n], machine[n])
    BY <1>3, RunOutEffect DEF Shape, Alike
  <2>3. QED
    BY <2>1, <2>2 DEF Stays
<1>4. ASSUME \/ ClientStep \/ Commit \/ UNCHANGED vars
             \/ \E m \in Server : \/ NewLeader(m) \/ FinishEnd(m) \/ CheckLeases(m)
                                  \/ \E k : SubmitDelete(m, k)
                                  \/ \E l : SubmitExpire(m, l)
      PROVE  UNCHANGED <<applied, stuck, machine>>
  BY <1>4 DEF ClientStep, Ask, Tell, Commit, NewLeader, FinishEnd, CheckLeases,
     SubmitDelete, SubmitExpire, vars
<1>5. QED
  BY <1>1, <1>2, <1>3, <1>4 DEF ServiceStep, Background

\* The entries that name their lease.
NamedGrants == \A i \in DOMAIN log : Named(log[i].cmd)

\* h is what the machines have been after each of the first k entries.
History(h, k) ==
  /\ k \in Nat /\ k <= committed
  /\ \A i \in 0 .. k : IsMachine(h[i])
  /\ \A i \in 1 .. k :
       Alike(h[i], ApplyCommand(h[i - 1], log[i].cmd, << >>).sm)
  /\ \A n \in Server :
       ~stuck[n] => applied[n] <= k /\ Alike(machine[n], h[applied[n]])

\* There is one history that all replicas have gone through.
OneHistory == \E k, h : History(h, k)

\* To be alike is an equivalence.
LEMMA AlikeEquivalence ==
  ASSUME NEW a, NEW b, NEW c
  PROVE  /\ Alike(a, a)
         /\ Alike(a, b) => Alike(b, a)
         /\ Alike(a, b) /\ Alike(b, c) => Alike(a, c)
  BY DEF Alike

\* Replicas with one history agree.
LEMMA OneHistoryAgrees ==
  ASSUME Shape, OneHistory
  PROVE  ReplicasAgree
<1>1. PICK k, h : History(h, k)
  BY DEF OneHistory
<1>2. SUFFICES ASSUME NEW a \in Server, NEW b \in Server,
                      applied[a] = applied[b], ~stuck[a], ~stuck[b]
               PROVE  Content(machine[a]) = Content(machine[b])
  BY DEF ReplicasAgree
<1>3. Alike(machine[a], h[applied[a]]) /\ Alike(machine[b], h[applied[a]])
  BY <1>1, <1>2 DEF History
<1>4. Alike(machine[a], machine[b])
  BY <1>3, AlikeEquivalence
<1>5. QED
  BY <1>4, SameContent

\* Every step extends the history by one entry at most.
LEMMA HistoryGrows ==
  ASSUME Shape, Shape', NamedGrants, OneHistory, ServiceStep
  PROVE  OneHistory'
<1>1. PICK k, h : History(h, k)
  BY DEF OneHistory
<1>2. /\ committed' \in Nat /\ committed <= committed' /\ committed \in Nat
      /\ \A i \in 1 .. committed : log'[i] = log[i]
  BY CommittedKept DEF Shape, LogShape
<1>3. k \in Nat /\ k <= committed /\ k <= committed'
  BY <1>1, <1>2 DEF History
<1>4. /\ \A i \in 0 .. k : IsMachine(h[i])
      /\ \A i \in 1 .. k :
           Alike(h[i], ApplyCommand(h[i - 1], log'[i].cmd, << >>).sm)
  <2>1. \A i \in 1 .. k : log'[i] = log[i]
    BY <1>2, <1>3
  <2>2. QED
    BY <1>1, <2>1 DEF History
<1>5. \A n \in Server : applied[n] \in Nat /\ IsMachine(machine[n])
  BY DEF Shape, ReplicaShape
<1>6. ASSUME NEW n \in Server, Stays(n), ~stuck'[n]
      PROVE  applied'[n] <= k /\ Alike(machine'[n], h[applied'[n]])
  <2>1. ~stuck[n] /\ applied'[n] = applied[n] /\ Alike(machine'[n], machine[n])
    BY <1>6 DEF Stays
  <2>2. applied[n] <= k /\ Alike(machine[n], h[applied[n]])
    BY <1>1, <2>1 DEF History
  <2>3. QED
    BY <2>1, <2>2, AlikeEquivalence
\* A replica that advances within the history meets it there.
<1>7. ASSUME NEW n \in Server, Advances(n), ~stuck'[n]
      PROVE  /\ applied'[n] = applied[n] + 1
             /\ applied[n] \in Nat /\ applied[n] <= k
             /\ applied[n] + 1 \in 1 .. committed
             /\ Alike(machine'[n],
                      ApplyCommand(h[applied[n]], log[applied[n] + 1].cmd, << >>).sm)
  <2> DEFINE i == applied[n] + 1
             c == log[i].cmd
             old == h[applied[n]]
  <2>1. /\ ~stuck[n] /\ applied'[n] = i /\ i <= committed
        /\ machine'[n] = ApplyCommand(machine[n], c, <<n, i>>).sm
    BY <1>7 DEF Advances
  <2>2. applied[n] <= k /\ Alike(machine[n], old)
    BY <1>1, <2>1 DEF History
  <2>3. i \in 1 .. committed /\ applied[n] \in 0 .. k
    BY <1>2, <1>3, <1>5, <2>1, <2>2
  <2>4. i \in DOMAIN log
    <3>1. Len(log) \in Nat /\ committed <= Len(log) /\ DOMAIN log = 1 .. Len(log)
      BY LenProperties DEF Shape, LogShape
    <3>2. QED
      BY <1>2, <2>3, <3>1
  <2>5. Named(c)
    BY <2>4 DEF NamedGrants
  <2>6. IsMachine(old) /\ IsMachine(machine[n])
    BY <1>4, <1>5, <2>3
  <2> HIDE DEF i, c, old
  <2>7. Alike(machine'[n], ApplyCommand(old, c, << >>).sm)
    BY <2>1, <2>2, <2>5, <2>6, CommandAlike
  <2>8. QED
    BY <1>5, <2>1, <2>2, <2>3, <2>7 DEF i, c, old
<1>8. CASE \A n \in Server : Advances(n) /\ ~stuck'[n] => applied[n] < k
  <2>1. ASSUME NEW n \in Server, ~stuck'[n]
        PROVE  applied'[n] <= k /\ Alike(machine'[n], h[applied'[n]])
    <3>1. CASE Stays(n)
      BY <1>6, <2>1, <3>1
    <3>2. CASE Advances(n)
      <4> DEFINE i == applied[n] + 1
      <4>1. /\ applied'[n] = i
            /\ Alike(machine'[n], ApplyCommand(h[applied[n]], log[i].cmd, << >>).sm)
        BY <1>7, <2>1, <3>2
      <4>2. applied[n] < k
        BY <1>8, <2>1, <3>2
      <4>3. i \in 1 .. k /\ i <= k /\ i - 1 = applied[n]
        BY <1>3, <1>5, <4>2
      <4>4. Alike(h[i], ApplyCommand(h[i - 1], log[i].cmd, << >>).sm)
        BY <1>1, <4>3 DEF History
      <4> HIDE DEF i
      <4>5. Alike(machine'[n], h[i])
        BY <4>1, <4>3, <4>4, AlikeEquivalence
      <4>6. QED
        BY <4>1, <4>3, <4>5
    <3>3. QED
      BY <3>1, <3>2, ReplicaSteps
  <2>2. History(h, k)'
    BY <1>3, <1>4, <2>1 DEF History
  <2>3. QED
    BY <2>2 DEF OneHistory
<1>9. CASE \E n \in Server : Advances(n) /\ ~stuck'[n] /\ ~(applied[n] < k)
  <2>1. PICK n \in Server : Advances(n) /\ ~stuck'[n] /\ ~(applied[n] < k)
    BY <1>9
  <2>0. PICK g : g = [i \in 0 .. k + 1 |-> IF i = k + 1 THEN machine'[n] ELSE h[i]]
    OBVIOUS
  <2>2. /\ applied[n] = k /\ applied'[n] = k + 1
        /\ k + 1 \in 1 .. committed /\ k + 1 <= committed'
        /\ Alike(machine'[n], ApplyCommand(h[k], log[k + 1].cmd, << >>).sm)
    <3>1. /\ applied'[n] = applied[n] + 1
          /\ applied[n] \in Nat /\ applied[n] <= k
          /\ applied[n] + 1 \in 1 .. committed
          /\ Alike(machine'[n],
                   ApplyCommand(h[applied[n]], log[applied[n] + 1].cmd, << >>).sm)
      BY <1>7, <2>1
    <3>2. applied[n] = k
      BY <1>3, <2>1, <3>1
    <3>3. QED
      BY <1>2, <3>1, <3>2
  <2>3. g[k + 1] = machine'[n] /\ \A i \in 0 .. k : g[i] = h[i]
    BY <1>3, <2>0
  <2>4. IsMachine(machine'[n])
    BY DEF Shape, ReplicaShape
  <2>5. \A i \in 0 .. k + 1 : IsMachine(g[i])
    BY <1>3, <1>4, <2>3, <2>4
  <2>6. ASSUME NEW i \in 1 .. k + 1
        PROVE  Alike(g[i], ApplyCommand(g[i - 1], log'[i].cmd, << >>).sm)
    <3>1. CASE i = k + 1
      <4>1. i - 1 = k /\ g[k] = h[k] /\ log'[i] = log[i]
        BY <1>2, <1>3, <2>2, <2>3, <3>1
      <4>2. QED
        BY <2>2, <2>3, <3>1, <4>1
    <3>2. CASE i # k + 1
      <4>1. i \in 1 .. k /\ i \in 0 .. k /\ i - 1 \in 0 .. k
        BY <1>3, <3>2
      <4>2. QED
        BY <1>4, <2>3, <4>1
    <3>3. QED
      BY <3>1, <3>2
  <2>7. ASSUME NEW m \in Server, ~stuck'[m]
        PROVE  applied'[m] <= k + 1 /\ Alike(machine'[m], g[applied'[m]])
    <3>1. CASE Stays(m)
      <4>1. applied'[m] <= k /\ Alike(machine'[m], h[applied'[m]])
        BY <1>6, <2>7, <3>1
      <4>2. applied'[m] \in Nat
        BY <1>5, <3>1 DEF Stays
      <4>3. applied'[m] \in 0 .. k /\ applied'[m] <= k + 1
        BY <1>3, <4>1, <4>2
      <4>4. QED
        BY <2>3, <4>1, <4>3
    <3>2. CASE Advances(m)
      <4> DEFINE i == applied[m] + 1
      <4>1. /\ applied'[m] = i /\ applied[m] <= k /\ applied[m] \in Nat
            /\ Alike(machine'[m], ApplyCommand(h[applied[m]], log[i].cmd, << >>).sm)
        BY <1>7, <2>7, <3>2
      <4>2. i \in 1 .. k + 1 /\ i - 1 = applied[m] /\ applied[m] \in 0 .. k
        BY <1>3, <4>1
      <4>3. log'[i] = log[i]
        BY <3>2 DEF Advances
      <4>4. Alike(g[i], ApplyCommand(g[i - 1], log[i].cmd, << >>).sm)
        BY <2>6, <4>2, <4>3
      <4>5. g[i - 1] = h[applied[m]]
        BY <2>3, <4>2
      <4> HIDE DEF i
      <4>6. Alike(machine'[m], g[i])
        BY <4>1, <4>4, <4>5, AlikeEquivalence
      <4>7. i <= k + 1
        BY <1>3, <4>2
      <4>8. QED
        BY <4>1, <4>6, <4>7
    <3>3. QED
      BY <3>1, <3>2, ReplicaSteps
  <2>8. k + 1 \in Nat
    BY <1>3
  <2>9. History(g, k + 1)'
    BY <2>2, <2>5, <2>6, <2>7, <2>8 DEF History
  <2>10. QED
    BY <2>9 DEF OneHistory
<1>10. QED
  BY <1>8, <1>9

\* At the beginning the history is empty.
LEMMA HistoryBegins ==
  ASSUME Init
  PROVE  OneHistory
<1> DEFINE h == [i \in {0} |-> InitialMachine]
<1>1. 0 .. 0 = {0} /\ 1 .. 0 = {}
  OBVIOUS
<1>2. h[0] = InitialMachine
  OBVIOUS
<1>3. IsMachine(InitialMachine)
  BY DEF IsMachine, IsLeases, InitialMachine
<1> HIDE DEF h
<1>4. \A n \in Server : applied[n] = 0 /\ machine[n] = InitialMachine
  BY DEF Init
<1>5. History(h, 0)
  <2>1. \A n \in Server : applied[n] <= 0 /\ Alike(machine[n], h[applied[n]])
    BY <1>2, <1>4 DEF Alike
  <2>2. committed = 0
    BY DEF Init
  <2>3. QED
    BY <1>1, <1>2, <1>3, <2>1, <2>2 DEF History
<1>6. QED
  BY <1>5 DEF OneHistory

\* A command that names its lease, if it grants one, leaves the log with
\* entries that do.
LEMMA SubmitNamed ==
  ASSUME Shape, NamedGrants, NEW n, NEW cmd, Named(cmd), NEW token, NEW lease,
         Submit(n, cmd, token, lease)
  PROVE  NamedGrants'
<1>1. /\ log \in Seq(Range(log)) /\ log' \in Seq(Range(log'))
      /\ Len(log) \in Nat /\ Len(log') \in Nat /\ Len(log) <= Len(log')
      /\ \A i \in 1 .. Len(log) : log'[i] = log[i]
      /\ \A i \in Len(log) + 1 .. Len(log') :
           log'[i] = [cmd |-> cmd, token |-> token, lease |-> lease]
  BY SubmitEffect DEF Shape, LogShape
<1>2. DOMAIN log = 1 .. Len(log) /\ DOMAIN log' = 1 .. Len(log')
  BY <1>1, LenProperties
<1>3. ASSUME NEW i \in DOMAIN log'
      PROVE  Named(log'[i].cmd)
  <2>1. CASE i <= Len(log)
    <3>1. i \in DOMAIN log /\ log'[i] = log[i]
      BY <1>1, <1>2, <2>1
    <3>2. QED
      BY <3>1 DEF NamedGrants
  <2>2. CASE ~(i <= Len(log))
    <3>1. log'[i] = [cmd |-> cmd, token |-> token, lease |-> lease]
      BY <1>1, <1>2, <2>2
    <3>2. QED
      BY <3>1
  <2>3. QED
    BY <2>1, <2>2
<1>4. QED
  BY <1>3 DEF NamedGrants

\* What the replicas do by themselves leaves no lease unnamed.
LEMMA BackgroundNamed ==
  ASSUME Shape, NamedGrants, Background \/ UNCHANGED vars
  PROVE  NamedGrants'
<1>1. CASE log' = log
  BY <1>1 DEF NamedGrants
<1>2. ASSUME NEW n \in Server, NewLeader(n)
      PROVE  NamedGrants'
  <2>1. PICK k \in committed .. Len(log) : log' = SubSeq(log, 1, k)
    BY <1>2 DEF NewLeader
  <2>2. k \in 0 .. Len(log) /\ Len(log) \in Nat
    BY <2>1, LenProperties DEF Shape, LogShape
  <2>3. /\ log' \in Seq(Range(log')) /\ Len(log') = k
        /\ \A i \in 1 .. k : log'[i] = log[i]
    BY <2>1, <2>2, CutLog DEF Shape
  <2>4. DOMAIN log' = 1 .. k /\ DOMAIN log = 1 .. Len(log)
    BY <2>3, LenProperties DEF Shape, LogShape
  <2>5. \A i \in DOMAIN log' : i \in DOMAIN log /\ log'[i] = log[i]
    BY <2>2, <2>3, <2>4
  <2>6. QED
    BY <2>5 DEF NamedGrants
<1>3. ASSUME NEW n \in Server, NEW k, SubmitDelete(n, k)
      PROVE  NamedGrants'
  <2> DEFINE cmd == [type |-> "delete", key |-> k]
  <2>1. Named(cmd) /\ Submit(n, cmd, NoToken, ending[n].lease)
    BY <1>3 DEF SubmitDelete, Named
  <2>2. QED
    BY <2>1, SubmitNamed
<1>4. ASSUME NEW n \in Server, NEW l, SubmitExpire(n, l)
      PROVE  NamedGrants'
  <2> DEFINE cmd == [type |-> "lease_expire", lease |-> l]
  <2>1. Named(cmd) /\ Submit(n, cmd, NoToken, NoLease)
    BY <1>4 DEF SubmitExpire, Named
  <2>2. QED
    BY <2>1, SubmitNamed
<1>5. ASSUME \/ Commit \/ UNCHANGED vars
             \/ \E n \in Server : \/ Apply(n) \/ FinishEnd(n) \/ CheckLeases(n)
                                  \/ \E l : RunOut(n, l)
      PROVE  log' = log
  BY <1>5 DEF Commit, Apply, FinishEnd, CheckLeases, RunOut, vars
<1>6. QED
  BY <1>1, <1>2, <1>3, <1>4, <1>5 DEF Background

\* Every step of Service is one of its replicas or one of its clients.
LEMMA NextIsStep ==
  ASSUME [Next]_vars
  PROVE  ServiceStep
  BY DEF Next, Call, ServiceStep, ClientStep

\* The shape of the state is kept by every step.
LEMMA StepShape ==
  ASSUME Shape, ServiceStep
  PROVE  Shape'
  BY BackgroundShape, AskShape, TellShape, StutterShape DEF ServiceStep, ClientStep

\* Replicas that have applied as much as each other agree (ReplicasAgree), for
\* any number of them and through any changes of leader, if clients name the
\* leases they ask for: the run service_unnamed shows why they have to.
THEOREM ReplicasStayAlike ==
  ASSUME \A cmd \in Requests : Named(cmd)
  PROVE  Spec => []ReplicasAgree
<1> DEFINE IInv == Shape /\ NamedGrants /\ OneHistory
<1>1. Init => IInv
  <2>1. SUFFICES ASSUME Init
                 PROVE  IInv
    OBVIOUS
  <2>2. NamedGrants
    BY <2>1 DEF Init, NamedGrants
  <2>3. QED
    BY <2>1, <2>2, InitShape, HistoryBegins
<1>2. IInv /\ [Next]_vars => IInv'
  <2>1. SUFFICES ASSUME IInv, [Next]_vars
                 PROVE  IInv'
    OBVIOUS
  <2>2. ServiceStep
    BY <2>1, NextIsStep
  <2>3. Shape'
    BY <2>1, <2>2, StepShape
  <2>4. OneHistory'
    BY <2>1, <2>2, <2>3, HistoryGrows
  <2>5. ASSUME NEW c \in Client, NEW n \in Server, NEW cmd \in Requests,
               Call(c, n, cmd)
        PROVE  NamedGrants'
    <3>1. Submit(n, cmd, <<c, calls[c].count + 1>>, NoLease)
      BY <2>5 DEF Call, Ask
    <3>2. QED
      BY <2>1, <3>1, SubmitNamed
  <2>6. NamedGrants'
    BY <2>1, <2>5, BackgroundNamed DEF Next
  <2>7. QED
    BY <2>3, <2>4, <2>6
<1>3. IInv => ReplicasAgree
  BY OneHistoryAgrees
<1>4. QED
  BY <1>1, <1>2, <1>3, PTL DEF Spec

-----------------------------------------------------------------------------
(* Leases list their own keys.                                              *)

\* The leases of a machine list keys that are bound to them.
Listed(sm) ==
  \A l \in DOMAIN sm.leases : \A k \in sm.leases[l].keys :
    k \in DOMAIN sm.data /\ sm.data[k].lease = l

\* A put moves its key to the lease it names, or leaves it where it is.
LEMMA PutListed ==
  ASSUME NEW sm, IsMachine(sm), Listed(sm), NEW c, c.type \in {"put", "put_if_absent"},
         NEW revision, NEW r, r = DoPut(sm.data, c, revision),
         NEW new, new.data = r.data, new.leases = UpdateLeaseKeys(sm.leases, c, r)
  PROVE  Listed(new)
<1> DEFINE L == sm.leases
           old == EntryOf(sm.data, c.key).lease
<1>1. /\ r.ok /\ r.prevLease = old
      /\ DOMAIN r.data = DOMAIN sm.data \cup {c.key}
      /\ r.data[c.key].lease = KeptLease(EntryOf(sm.data, c.key), c.lease)
      /\ \A k \in DOMAIN sm.data : k # c.key => r.data[k] = sm.data[k]
  BY DEF DoPut, Bind
<1>2. ASSUME NEW l \in DOMAIN L, NEW k \in L[l].keys
      PROVE  k \in DOMAIN sm.data /\ sm.data[k].lease = l
  BY DEF Listed
<1>3. \A l \in DOMAIN L : c.key \in L[l].keys => l = old
  BY <1>2 DEF EntryOf
<1>4. IsLeases(L)
  BY DEF IsMachine
<1>5. CASE c.lease = NoLease
  <2>1. UpdateLeaseKeys(L, c, r) = L
    BY <1>5 DEF UpdateLeaseKeys, Binds
  <2>2. r.data[c.key].lease = old
    BY <1>1, <1>5 DEF KeptLease
  <2> HIDE DEF L, old
  <2>3. ASSUME NEW l \in DOMAIN L, NEW k \in L[l].keys
        PROVE  k \in DOMAIN r.data /\ r.data[k].lease = l
    <3>1. CASE k = c.key
      BY <1>1, <1>3, <2>2, <2>3, <3>1
    <3>2. CASE k # c.key
      BY <1>1, <1>2, <2>3, <3>2
    <3>3. QED
      BY <3>1, <3>2
  <2>4. QED
    BY <2>1, <2>3 DEF Listed, L
<1>6. CASE c.lease # NoLease
  <2> DEFINE rest == IF r.prevLease = c.lease THEN L
                     ELSE RemoveKey(L, r.prevLease, c.key)
             M == AddKey(rest, c.lease, c.key)
  <2>1. UpdateLeaseKeys(L, c, r) = M
    BY <1>1, <1>6 DEF UpdateLeaseKeys, Binds
  <2>2. r.data[c.key].lease = c.lease
    BY <1>1, <1>6 DEF KeptLease
  <2>3. IsLeases(rest) /\ DOMAIN rest = DOMAIN L
    BY <1>4, RemoveKeyLeases
  <2>4. ASSUME NEW l \in DOMAIN L, l # c.lease, NEW k \in rest[l].keys
        PROVE  k \in L[l].keys /\ k # c.key
    <3>1. CASE l = r.prevLease
      <4>1. rest[l].keys = L[l].keys \ {c.key}
        BY <1>4, <2>4, <3>1, RemoveKeyLeases
      <4>2. QED
        BY <2>4, <4>1
    <3>2. CASE l # r.prevLease
      <4>1. rest[l].keys = L[l].keys
        BY <1>4, <2>4, <3>2, RemoveKeyLeases
      <4>2. QED
        BY <1>1, <1>3, <2>4, <3>2, <4>1
    <3>3. QED
      BY <3>1, <3>2
  <2>5. ASSUME c.lease \in DOMAIN L, NEW k \in rest[c.lease].keys
        PROVE  k \in L[c.lease].keys
    <3>1. rest[c.lease].keys = L[c.lease].keys
      BY <1>4, <2>5, RemoveKeyLeases
    <3>2. QED
      BY <2>5, <3>1
  <2> HIDE DEF rest, L
  <2>6. ASSUME NEW l \in DOMAIN M, NEW k \in M[l].keys
        PROVE  k \in DOMAIN r.data /\ r.data[k].lease = l
    <3>1. l \in DOMAIN L /\ l \in DOMAIN rest
      BY <2>3, <2>6, AddKeyLeases
    <3>2. CASE l # c.lease
      <4>1. M[l].keys = rest[l].keys
        BY <2>3, <3>1, <3>2, AddKeyLeases
      <4>2. k \in L[l].keys /\ k # c.key
        BY <2>4, <2>6, <3>1, <3>2, <4>1
      <4>3. QED
        BY <1>1, <1>2, <3>1, <4>2
    <3>3. CASE l = c.lease
      <4>1. M[l].keys = rest[l].keys \cup {c.key}
        BY <2>3, <3>1, <3>3, AddKeyLeases
      <4>2. k = c.key \/ k \in L[l].keys
        BY <2>5, <2>6, <3>1, <3>3, <4>1
      <4>3. CASE k = c.key
        BY <1>1, <2>2, <3>3, <4>3
      <4>4. CASE k # c.key
        BY <1>1, <1>2, <3>1, <4>2, <4>4
      <4>5. QED
        BY <4>3, <4>4
    <3>4. QED
      BY <3>2, <3>3
  <2> HIDE DEF M
  <2>7. QED
    BY <2>1, <2>6 DEF Listed, L
<1>7. QED
  BY <1>5, <1>6

\* A delete takes its key from the lease it was bound to.
LEMMA DeleteListed ==
  ASSUME NEW sm, IsMachine(sm), Listed(sm), NEW c, c.type = "delete",
         NEW revision, NEW r, r = DoDelete(sm.data, c, revision),
         NEW new, new.data = r.data, new.leases = UpdateLeaseKeys(sm.leases, c, r)
  PROVE  Listed(new)
<1> DEFINE L == sm.leases
           M == RemoveKey(L, r.prevLease, c.key)
<1>1. UpdateLeaseKeys(L, c, r) = M
  BY DEF UpdateLeaseKeys, Binds, DoDelete, Answer
<1>2. ASSUME NEW l \in DOMAIN L, NEW k \in L[l].keys
      PROVE  k \in DOMAIN sm.data /\ sm.data[k].lease = l
  BY DEF Listed
<1>3. IsLeases(L)
  BY DEF IsMachine
<1>4. /\ \A k \in DOMAIN sm.data :
           k # c.key => k \in DOMAIN r.data /\ r.data[k] = sm.data[k]
      /\ c.key \in DOMAIN sm.data => r.prevLease = sm.data[c.key].lease
  BY DEF DoDelete, Answer, Unbind
<1> HIDE DEF L
<1>5. ASSUME NEW l \in DOMAIN M, NEW k \in M[l].keys
      PROVE  k \in DOMAIN r.data /\ r.data[k].lease = l
  <2>1. l \in DOMAIN L
    BY <1>3, <1>5, RemoveKeyLeases
  <2>2. CASE l = r.prevLease
    <3>1. M[l].keys = L[l].keys \ {c.key}
      BY <1>3, <2>1, <2>2, RemoveKeyLeases
    <3>2. k \in L[l].keys /\ k # c.key
      BY <1>5, <3>1
    <3>3. QED
      BY <1>2, <1>4, <2>1, <3>2
  <2>3. CASE l # r.prevLease
    <3>1. M[l].keys = L[l].keys
      BY <1>3, <2>1, <2>3, RemoveKeyLeases
    <3>2. k \in L[l].keys /\ k \in DOMAIN sm.data /\ sm.data[k].lease = l
      BY <1>2, <1>5, <2>1, <3>1
    <3>3. k # c.key
      BY <1>4, <2>3, <3>2
    <3>4. QED
      BY <1>4, <3>2, <3>3
  <2>4. QED
    BY <2>2, <2>3
<1> HIDE DEF M
<1>6. QED
  BY <1>1, <1>5 DEF Listed, L

\* Only a compare-and-swap or a transaction can leave a key with a lease it has
\* no longer (CombinedStateMachine._update_lease_keys).
LEMMA CommandListed ==
  ASSUME NEW sm, IsMachine(sm), Listed(sm), NEW c, c.type \notin {"cas", "txn"},
         NEW fresh
  PROVE  Listed(ApplyCommand(sm, c, fresh).sm)
<1>1. CASE c.type = "lease_grant"
  <2> DEFINE new == [keys |-> {}, expired |-> FALSE]
             l == IF c.lease = NoLease THEN fresh ELSE c.lease
  <2>1. ApplyCommand(sm, c, fresh).sm
          = IF l \in DOMAIN sm.leases THEN sm
            ELSE [data |-> sm.data, revision |-> sm.revision,
                  leases |-> Bind(sm.leases, l, new)]
    BY <1>1 DEF ApplyCommand, LeaseTypes, ApplyLease, DoGrant, Outcome, IsMachine
  <2>2. new.keys = {}
    OBVIOUS
  <2> HIDE DEF l, new
  <2>3. \A x \in DOMAIN Bind(sm.leases, l, new) :
          \A k \in Bind(sm.leases, l, new)[x].keys :
            k \in DOMAIN sm.data /\ sm.data[k].lease = x
    BY <2>2 DEF Bind, Listed
  <2>4. QED
    BY <2>1, <2>3 DEF Listed
<1>2. CASE c.type \in LeaseTypes \ {"lease_grant"} /\ c.lease \notin DOMAIN sm.leases
  BY <1>2 DEF ApplyCommand, ApplyLease, Outcome
<1>3. CASE c.type \in LeaseTypes \ {"lease_grant"} /\ c.lease \in DOMAIN sm.leases
  <2>1. Listed(DoKeepalive(sm, c).sm)
    <3>1. /\ DoKeepalive(sm, c).sm.data = sm.data
          /\ DOMAIN DoKeepalive(sm, c).sm.leases = DOMAIN sm.leases
          /\ \A x \in DOMAIN sm.leases :
               DoKeepalive(sm, c).sm.leases[x].keys = sm.leases[x].keys
      BY <1>3, KeepaliveMachine
    <3>2. QED
      BY <3>1 DEF Listed
  <2>2. Listed(DoEnd(sm, c).sm)
    <3>1. DoEnd(sm, c).sm = [data |-> sm.data, revision |-> sm.revision,
                             leases |-> Unbind(sm.leases, c.lease)]
      BY DEF DoEnd, Outcome, IsMachine
    <3>2. \A x \in DOMAIN Unbind(sm.leases, c.lease) :
            \A k \in Unbind(sm.leases, c.lease)[x].keys :
              k \in DOMAIN sm.data /\ sm.data[k].lease = x
      BY DEF Listed, Unbind
    <3>3. QED
      BY <3>1, <3>2 DEF Listed
  <2>3. QED
    BY <1>3, <2>1, <2>2 DEF ApplyCommand, ApplyLease
<1>4. CASE c.type \notin LeaseTypes
  <2> DEFINE r == Execute(sm.data, c, sm.revision + 1)
             new == ApplyKV(sm, c).sm
  <2>1. new.data = r.data /\ new.leases = UpdateLeaseKeys(sm.leases, c, r)
    BY DEF ApplyKV, Outcome
  <2>2. r = DoOp(sm.data, c, sm.revision + 1)
    BY DEF Execute
  <2> HIDE DEF r, new
  <2>3. CASE \/ c.type = "put"
             \/ c.type = "put_if_absent" /\ c.key \notin DOMAIN sm.data
    <3>1. r = DoPut(sm.data, c, sm.revision + 1)
      BY <2>2, <2>3 DEF DoOp, DoPutIfAbsent
    <3>2. Listed(new)
      BY <2>1, <2>3, <3>1, PutListed
    <3>3. QED
      BY <1>4, <3>2 DEF ApplyCommand, new
  <2>4. CASE c.type = "delete"
    <3>1. r = DoDelete(sm.data, c, sm.revision + 1)
      BY <2>2, <2>4 DEF DoOp
    <3>2. Listed(new)
      BY <2>1, <2>4, <3>1, DeleteListed
    <3>3. QED
      BY <1>4, <3>2 DEF ApplyCommand, new
  <2>5. CASE \/ c.type \notin {"put", "delete", "put_if_absent"}
             \/ c.type = "put_if_absent" /\ c.key \in DOMAIN sm.data
    <3>1. r = Answer(FALSE, sm.data)
      BY <2>2, <2>5 DEF DoOp, DoPutIfAbsent
    <3>2. ~r.ok /\ r.data = sm.data
      BY <3>1 DEF Answer
    <3>3. new.data = sm.data /\ new.leases = sm.leases
      BY <2>1, <3>2 DEF UpdateLeaseKeys
    <3>4. Listed(new)
      BY <3>3 DEF Listed
    <3>5. QED
      BY <1>4, <3>4 DEF ApplyCommand, new
  <2>6. QED
    BY <2>3, <2>4, <2>5
<1>5. QED
  BY <1>1, <1>2, <1>3, <1>4

\* The keys that leases list stay their own while nothing bypasses the leases
\* (LeasesListOwnKeys), whatever the log holds.
THEOREM LeasesListOwn == Spec => []LeasesListOwnKeys
<1> DEFINE IInv == Shape /\ \A n \in Server :
                     ~stuck[n] /\ ~Bypassed(n) => Listed(machine[n])
<1>1. Init => IInv
  <2>1. SUFFICES ASSUME Init
                 PROVE  IInv
    OBVIOUS
  <2>2. Listed(InitialMachine)
    BY DEF Listed, InitialMachine
  <2>3. QED
    BY <2>1, <2>2, InitShape DEF Init
<1>2. IInv /\ [Next]_vars => IInv'
  <2>1. SUFFICES ASSUME IInv, [Next]_vars
                 PROVE  IInv'
    OBVIOUS
  <2>2. ServiceStep
    BY <2>1, NextIsStep
  <2>3. Shape'
    BY <2>1, <2>2, StepShape
  <2>4. ASSUME NEW n \in Server, ~stuck'[n], ~Bypassed(n)'
        PROVE  Listed(machine[n])'
    <3>1. /\ applied[n] \in Nat /\ applied[n] <= committed /\ committed \in Nat
          /\ \A i \in 1 .. committed : log'[i] = log[i]
      BY <2>1, <2>2, CommittedKept DEF Shape, LogShape, ReplicaShape
    <3>2. applied'[n] \in Nat /\ applied[n] <= applied'[n]
      <4>1. Stays(n) \/ Advances(n)
        BY <2>1, <2>2, ReplicaSteps
      <4>2. applied'[n] = applied[n] \/ applied'[n] = applied[n] + 1
        BY <4>1 DEF Stays, Advances
      <4>3. QED
        BY <3>1, <4>2
    <3>3. ~Bypassed(n)
      <4>1. \A i \in 1 .. applied[n] : i \in 1 .. applied'[n] /\ log'[i] = log[i]
        BY <3>1, <3>2
      <4>2. QED
        BY <2>4, <4>1 DEF Bypassed
    <3>4. CASE Stays(n)
      <4>1. Listed(machine[n])
        BY <2>1, <2>4, <3>3, <3>4 DEF Stays
      <4>2. QED
        BY <3>4, <4>1 DEF Stays, Alike, Listed
    <3>5. CASE Advances(n)
      <4> DEFINE i == applied[n] + 1
      <4>1. /\ ~stuck[n] /\ log' = log /\ applied'[n] = i
            /\ machine'[n] = ApplyCommand(machine[n], log[i].cmd, <<n, i>>).sm
        BY <2>4, <3>5 DEF Advances
      <4>2. log[i].cmd.type \notin {"cas", "txn"}
        <5>1. i \in 1 .. applied'[n]
          BY <3>1, <4>1
        <5>2. QED
          BY <2>4, <4>1, <5>1 DEF Bypassed
      <4>3. Listed(machine[n]) /\ IsMachine(machine[n])
        BY <2>1, <3>3, <4>1 DEF Shape, ReplicaShape
      <4> HIDE DEF i
      <4>4. Listed(ApplyCommand(machine[n], log[i].cmd, <<n, i>>).sm)
        BY <4>2, <4>3, CommandListed
      <4>5. QED
        BY <4>1, <4>4 DEF Listed
    <3>6. QED
      BY <2>1, <2>2, <3>4, <3>5, ReplicaSteps
  <2>5. QED
    BY <2>3, <2>4
<1>3. IInv => LeasesListOwnKeys
  BY DEF Listed, LeasesListOwnKeys, Keys, Bound
<1>4. QED
  BY <1>1, <1>2, <1>3, PTL DEF Spec
=============================================================================
