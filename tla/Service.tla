------------------------------ MODULE Service ------------------------------
(***************************************************************************)
(* The replicas of the service: on each LockServiceServer a                *)
(* CombinedStateMachine, a RaftNode that feeds it and a LeaseManager that  *)
(* ends leases (src/server.py, src/kvstore/lease.py), and the clients that *)
(* call put, delete, txn and the lease operations.                         *)
(*                                                                         *)
(* Raft is reduced to what it promises: one log, of which a leader's       *)
(* submissions extend the end, a new leader may lose the uncommitted end,  *)
(* and every replica applies the committed part in order.  Raft.tla says   *)
(* how far the code keeps that promise.                                    *)
(*                                                                         *)
(* Applying the end of a lease calls _on_expire_callback under the lock of *)
(* the leases, and at a leader that submits a delete for each key, which   *)
(* applies what is committed by then in the middle of it.  While it lasts  *)
(* the replica is busy: its locks keep all other threads out.              *)
(***************************************************************************)
EXTENDS StateMachine, FiniteSets

CONSTANTS
  Server,
  Client,
  Requests,    \* the commands that clients submit
  Mortal,      \* the leases whose time may run out
  Appliers,    \* bound: the replicas that a run lets apply entries
  MaxCalls,    \* bound: the calls of one client
  MaxPending,  \* bound: calls only while fewer entries wait to be applied
  MaxExpiries, \* bound: unapplied lease_expire commands for one lease
  MaxChanges   \* bound: the changes of leader

ASSUME ServiceAssumption == Appliers \subseteq Server /\ MaxCalls \in Nat

VARIABLES
  leader, changes, \* the leader, and how often it has changed
  log,             \* entries [cmd, token, lease]: who submitted the command,
                   \* and the lease whose end asks for this delete
  own,             \* the length of the log when the leader was elected
  committed,       \* how many entries are committed
  applied,         \* how many entries each replica has applied
  machine,         \* its CombinedStateMachine
  ending,          \* the end of a lease its apply thread is busy with
  stuck,           \* that thread waits for the lock that it holds
  checked,         \* what get_expired_leases told the expiry loop
  callbacks,       \* _apply_callbacks: from places in the log to tokens
  calls            \* the clients' calls

raft == <<leader, changes, own>>
vars == <<raft, log, committed, applied, machine, ending, stuck, checked,
          callbacks, calls>>

\* No lease is being ended; otherwise at is the place of the command and keys
\* are those whose delete is still to be submitted.  Nothing beyond upto is
\* known to be committed until it is over.
Idle == [at |-> 0, lease |-> NoLease, keys |-> {}, upto |-> 0]

NoToken  == << >>
NoAnswer == [at |-> 0, ok |-> FALSE, lease |-> NoLease]
NoCall   == [count |-> 0, answer |-> NoAnswer]

Init ==
  /\ leader \in Appliers /\ changes = 0 /\ own = 0
  /\ log = << >> /\ committed = 0
  /\ applied = [n \in Server |-> 0]
  /\ machine = [n \in Server |-> InitialMachine]
  /\ ending = [n \in Server |-> Idle]
  /\ stuck = [n \in Server |-> FALSE]
  /\ checked = [n \in Server |-> {}]
  /\ callbacks = [n \in Server |-> << >>]
  /\ calls = [c \in Client |-> NoCall]

Alone   == Cardinality(Server) = 1
Busy(n) == ending[n] # Idle

\* Most replicas can take part in votes and replication.
Working == 2 * Cardinality({n \in Server : ~stuck[n]}) > Cardinality(Server)

-----------------------------------------------------------------------------
(* Raft.                                                                    *)

\* Mutant of Slot: the callback is filed before the entry is counted.
Slot_Before(lg) == Len(lg)

\* The place the next entry gets.
Slot(lg) == Len(lg) + 1

\* submit_command: only a leader accepts the command.  A node without peers
\* commits it at once.
Submit(n, cmd, token, lease) ==
  IF n = leader
  THEN /\ log' = Append(log, [cmd |-> cmd, token |-> token, lease |-> lease])
       /\ committed' = IF Alone THEN Len(log) + 1 ELSE committed
       /\ callbacks' = IF token = NoToken THEN callbacks
                       ELSE [callbacks EXCEPT ![n] = Bind(@, Slot(log), token)]
  ELSE UNCHANGED <<log, committed, callbacks>>

\* A node without peers has applied everything when submit_command returns.
Open(n) == ~Busy(n) /\ (Alone => applied[n] = Len(log))

\* A majority holds an entry of the leader's own term.
Commit ==
  /\ ~Alone /\ ~Busy(leader) /\ Working
  /\ \E k \in committed + 1 .. Len(log) :
       k > own /\ committed' = k
  /\ UNCHANGED <<raft, log, applied, machine, ending, stuck, checked, callbacks,
                 calls>>

\* Another node is elected; it holds all that is committed, and perhaps more.
NewLeader(n) ==
  /\ n \in Appliers \ {leader} /\ ~Busy(n) /\ Working
  /\ changes < MaxChanges
  /\ \E k \in committed .. Len(log) : log' = SubSeq(log, 1, k) /\ own' = k
  /\ leader' = n /\ changes' = changes + 1
  /\ UNCHANGED <<committed, applied, machine, ending, stuck, checked, callbacks,
                 calls>>

-----------------------------------------------------------------------------
(* Applying.                                                                *)

\* Mutant of Answered: the calls of a client share what callbacks write into,
\* so that the answer to an earlier call is taken for that to the present one.
Answered_AnyCall(n, i, answer) ==
  [c \in Client |->
     IF i \in DOMAIN callbacks[n] /\ callbacks[n][i][1] = c
     THEN [calls[c] EXCEPT
             !.answer = [at |-> i, ok |-> answer.ok, lease |-> answer.lease]]
     ELSE calls[c]]

\* The calls once the callback of place i at n has been given the answer.
Answered(n, i, answer) ==
  [c \in Client |->
     IF i \in DOMAIN callbacks[n] /\ callbacks[n][i] = <<c, calls[c].count>>
     THEN [calls[c] EXCEPT
             !.answer = [at |-> i, ok |-> answer.ok, lease |-> answer.lease]]
     ELSE calls[c]]

\* The callback of place i is taken out and called.
Notify(n, i, answer) ==
  /\ calls' = Answered(n, i, answer)
  /\ callbacks' = [callbacks EXCEPT ![n] = Unbind(@, i)]

Known(n) == IF Busy(n) /\ ~Alone THEN ending[n].upto ELSE committed

\* The thread that ends a lease applies a command that takes the lock of the
\* leases again: the store has changed, the leases have not and never will.
Block(n, r) ==
  /\ Busy(n) /\ r.locks
  /\ stuck' = [stuck EXCEPT ![n] = TRUE]
  /\ machine' = [machine EXCEPT ![n] = [r.sm EXCEPT !.leases = machine[n].leases]]
  /\ UNCHANGED <<ending, callbacks, calls>>

\* A lease with keys has ended at the leader: their deletes come first.
BeginEnd(n, r) ==
  /\ ~Busy(n) /\ r.orphans # {} /\ n = leader
  /\ machine' = [machine EXCEPT ![n] = r.sm]
  /\ ending' = [ending EXCEPT ![n] =
       [at |-> applied[n] + 1, lease |-> r.answer.lease, keys |-> r.orphans,
        upto |-> committed]]
  /\ UNCHANGED <<stuck, callbacks, calls>>

\* At other nodes the deletes come to nothing, as for a lease without keys.
Finish(n, r) ==
  /\ Busy(n) => ~r.locks
  /\ r.orphans = {} \/ n # leader
  /\ machine' = [machine EXCEPT ![n] = r.sm]
  /\ Notify(n, applied[n] + 1, r.answer)
  /\ UNCHANGED <<ending, stuck>>

\* _maybe_apply_committed, one entry of it.
Apply(n) ==
  /\ n \in Appliers /\ ~stuck[n] /\ applied[n] < Known(n)
  /\ applied' = [applied EXCEPT ![n] = @ + 1]
  /\ LET i == applied[n] + 1
         r == ApplyCommand(machine[n], log[i].cmd, <<n, i>>)
     IN  Block(n, r) \/ BeginEnd(n, r) \/ Finish(n, r)
  /\ UNCHANGED <<raft, log, committed, checked>>

\* _on_lease_expire submits the delete of one key.
SubmitDelete(n, k) ==
  /\ k \in ending[n].keys /\ ~stuck[n]
  /\ Submit(n, [type |-> "delete", key |-> k], NoToken, ending[n].lease)
  /\ ending' = [ending EXCEPT ![n].keys = @ \ {k}]
  /\ UNCHANGED <<raft, applied, machine, stuck, checked, calls>>

\* The callback returns, the locks are free again.
FinishEnd(n) ==
  /\ Busy(n) /\ ~stuck[n]
  /\ ending[n].keys = {} /\ applied[n] >= Known(n)
  /\ ending' = [ending EXCEPT ![n] = Idle]
  /\ Notify(n, ending[n].at, [ok |-> TRUE, lease |-> ending[n].lease])
  /\ UNCHANGED <<raft, log, committed, applied, machine, stuck, checked>>

-----------------------------------------------------------------------------
(* LeaseManager.                                                            *)

\* The clock of the leader passes the expire_time of a lease.  Nobody looks at
\* the other clocks; that of a new leader may run out as soon as it leads.
RunOut(n, l) ==
  /\ n = leader
  /\ l \in DOMAIN machine[n].leases /\ ~machine[n].leases[l].expired
  /\ machine' = [machine EXCEPT ![n].leases[l].expired = TRUE]
  /\ UNCHANGED <<raft, log, committed, applied, ending, stuck, checked,
                 callbacks, calls>>

\* get_expired_leases.
Expired(n) == {l \in DOMAIN machine[n].leases : machine[n].leases[l].expired}

\* _expiry_check_loop looks for expired leases at the leader ...
CheckLeases(n) ==
  /\ n = leader /\ ~Busy(n)
  /\ checked[n] = {} /\ Expired(n) # {}
  /\ checked' = [checked EXCEPT ![n] = Expired(n)]
  /\ UNCHANGED <<raft, log, committed, applied, machine, ending, stuck,
                 callbacks, calls>>

Expiries(l) ==
  {i \in DOMAIN log : /\ log[i].cmd.type = "lease_expire"
                      /\ log[i].cmd.lease = l /\ i > applied[leader]}

\* ... and then submits their ends, one by one.
SubmitExpire(n, l) ==
  /\ l \in checked[n] /\ Open(n)
  /\ Cardinality(Expiries(l)) < MaxExpiries
  /\ Submit(n, [type |-> "lease_expire", lease |-> l], NoToken, NoLease)
  /\ checked' = [checked EXCEPT ![n] = @ \ {l}]
  /\ UNCHANGED <<raft, applied, machine, ending, stuck, calls>>

-----------------------------------------------------------------------------
(* Clients: a call submits its command at some server and waits.  It returns  *)
(* with its answer, or without one after five seconds; then the client may   *)
(* call again, and a late answer is not looked at any more.                  *)

\* The leader is not too far behind its log for another call.
Room == Len(log) - applied[leader] < MaxPending

\* A call of c at n, which asks for the delete on behalf of lease if it is one.
Ask(c, n, cmd, lease) ==
  LET count == calls[c].count + 1
  IN  /\ Open(n) /\ Room
      /\ calls' = [calls EXCEPT ![c] = [count |-> count, answer |-> NoAnswer]]
      /\ Submit(n, cmd, <<c, count>>, lease)
      /\ UNCHANGED <<raft, applied, machine, ending, stuck, checked>>

\* A call whose answer its caller does not look at.
Tell(n, cmd) ==
  /\ Open(n) /\ Room
  /\ Submit(n, cmd, NoToken, NoLease)
  /\ UNCHANGED <<raft, applied, machine, ending, stuck, checked, calls>>

Call(c, n, cmd) == calls[c].count < MaxCalls /\ Ask(c, n, cmd, NoLease)

-----------------------------------------------------------------------------
(* What the replicas do by themselves, and what clients make them do.       *)

Background ==
  \/ Commit
  \/ \E n \in Server :
       \/ NewLeader(n) \/ Apply(n) \/ FinishEnd(n) \/ CheckLeases(n)
       \/ \E k \in ending[n].keys : SubmitDelete(n, k)
       \/ \E l \in Mortal : RunOut(n, l)
       \/ \E l \in checked[n] : SubmitExpire(n, l)

Next ==
  \/ Background
  \/ \E c \in Client, n \in Server, cmd \in Requests : Call(c, n, cmd)

Spec == Init /\ [][Next]_vars
=============================================================================
