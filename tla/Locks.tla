------------------------------- MODULE Locks -------------------------------
(***************************************************************************)
(* The clients of one lock over the replicas of Service: LockManager and   *)
(* DistributedLock of src/kvstore/lock.py, LockLeaseWatcher of             *)
(* src/client.py and the keepalive daemon of src/kvstore/lease.py.         *)
(*                                                                         *)
(* A lock is a key that exists while somebody holds it, bound to the lease *)
(* of its holder.  To acquire it is to be granted a lease and to put the   *)
(* key under it if it is absent; to release it is to look whose it is, to  *)
(* delete it and to revoke the lease.  Each of these is a call of its own, *)
(* which other clients, clocks and time-outs come between.                 *)
(***************************************************************************)
EXTENDS Service

CONSTANTS
  Lock,       \* the key
  Watcher,    \* the clients that use a LockLeaseWatcher
  MaxRenewals \* bound: the keepalives for one lease

VARIABLE locker \* each client's lock object, and how far its call has got

lockVars == <<vars, locker>>

\* lease is _lease_id; in the middle of an acquisition, the lease it was
\* granted.  Daemons live on when the object has forgotten them.
NewLocker(n) == [server |-> n, step |-> "idle", lease |-> NoLease,
                 locked |-> FALSE, daemons |-> {}]

\* Every object belongs to one server, leader or not.
LockInit ==
  /\ Init
  /\ locker \in [Client -> {NewLocker(n) : n \in Server}]

At(c, step) == locker[c].step = step

\* The grant that was asked for last has been answered with a lease.
Granted(c) == calls[c].answer.ok /\ calls[c].answer.lease # NoLease

\* What was asked for last has been answered, whatever the answer.
Told(c) == calls[c].answer.at > 0

Data(c) == machine[locker[c].server].data

PutCommand(l) ==
  [type |-> "put_if_absent", key |-> Lock, value |-> "holder", lease |-> l,
   expected |-> NoVersion]

-----------------------------------------------------------------------------
(* LockManager.acquire.                                                     *)

\* An object that is locked returns at once.
Acquire(c) ==
  /\ At(c, "idle") /\ ~locker[c].locked
  /\ calls[c].count < MaxCalls
  /\ Ask(c, locker[c].server, [type |-> "lease_grant", lease |-> NoLease], NoLease)
  /\ locker' = [locker EXCEPT ![c].step = "granting"]

GrantFails(c) ==
  /\ At(c, "granting") /\ ~Granted(c)
  /\ locker' = [locker EXCEPT ![c].step = "idle"]
  /\ UNCHANGED vars

TakeLock(c) ==
  LET l == calls[c].answer.lease
  IN  /\ At(c, "granting") /\ Granted(c)
      /\ Ask(c, locker[c].server, PutCommand(l), NoLease)
      /\ locker' = [locker EXCEPT ![c].step = "putting", ![c].lease = l]

\* A LockLeaseWatcher starts a second daemon and drops the stop of the first.
Daemons(c, l) ==
  {[lease |-> l, lost |-> x] : x \in {y \in BOOLEAN : y => c \in Watcher}}

\* The lock is taken: it is listed with its lease once more, at this replica
\* alone, and the lease is renewed from now on if it still exists.
Holds(c) ==
  LET n     == locker[c].server
      l     == locker[c].lease
      lives == l \in DOMAIN machine[n].leases
  IN  /\ At(c, "putting") /\ calls[c].answer.ok /\ ~Busy(n)
      /\ machine' = [machine EXCEPT ![n].leases = AddKey(@, l, Lock)]
      /\ locker' = [locker EXCEPT
           ![c].step = "idle", ![c].locked = TRUE,
           ![c].daemons = @ \cup (IF lives THEN Daemons(c, l) ELSE {})]
      /\ UNCHANGED <<raft, log, committed, applied, ending, stuck, checked,
                     callbacks, calls>>

\* The put was refused, or there is no answer to it yet.
GiveUp(c) ==
  /\ At(c, "putting") /\ ~calls[c].answer.ok
  /\ Tell(locker[c].server, [type |-> "lease_revoke", lease |-> locker[c].lease])
  /\ locker' = [locker EXCEPT ![c].step = "idle", ![c].lease = NoLease]

-----------------------------------------------------------------------------
(* release.                                                                 *)

\* The daemons of c without the one that its object can stop.
Unstopped(c) == {d \in locker[c].daemons : d.lost}

\* Mutant of FindGone: the object remains locked.
FindGone_Locked(c) ==
  /\ Lock \notin DOMAIN Data(c)
  /\ locker' = [locker EXCEPT ![c].daemons = Unstopped(c), ![c].lease = NoLease]

\* The key is gone: so is the lock, and nobody revokes the lease.
FindGone(c) ==
  /\ Lock \notin DOMAIN Data(c)
  /\ locker' = [locker EXCEPT ![c].daemons = Unstopped(c), ![c].locked = FALSE,
                              ![c].lease = NoLease]

\* The key is another's: the release fails, the object remains locked.
FindOther(c) ==
  /\ Lock \in DOMAIN Data(c) /\ Data(c)[Lock].lease # locker[c].lease
  /\ locker' = [locker EXCEPT ![c].daemons = Unstopped(c)]

FindOwn(c) ==
  /\ Lock \in DOMAIN Data(c) /\ Data(c)[Lock].lease = locker[c].lease
  /\ locker' = [locker EXCEPT ![c].daemons = Unstopped(c), ![c].step = "checked"]

Release(c) ==
  /\ At(c, "idle") /\ locker[c].locked
  /\ calls[c].count <= MaxCalls + 1
  /\ FindGone(c) \/ FindOther(c) \/ FindOwn(c)
  /\ UNCHANGED vars

DeleteLock(c) ==
  /\ At(c, "checked")
  /\ Ask(c, locker[c].server, [type |-> "delete", key |-> Lock], locker[c].lease)
  /\ locker' = [locker EXCEPT ![c].step = "deleting"]

\* Whether the delete has been answered or not, the lease is revoked ...
Revoke(c) ==
  /\ At(c, "deleting")
  /\ Tell(locker[c].server, [type |-> "lease_revoke", lease |-> locker[c].lease])
  /\ locker' = [locker EXCEPT ![c].step = "ending"]

\* Mutant of EndRelease: the release succeeds whatever became of the delete.
EndRelease_Always(c) ==
  /\ At(c, "ending")
  /\ locker' = [locker EXCEPT ![c].step = "idle", ![c].locked = FALSE,
                              ![c].lease = NoLease]
  /\ UNCHANGED vars

\* ... and then the release has succeeded if the delete has been answered.
EndRelease(c) ==
  /\ At(c, "ending")
  /\ locker' = [locker EXCEPT
       ![c].step = "idle", ![c].locked = ~Told(c),
       ![c].lease = IF Told(c) THEN NoLease ELSE @]
  /\ UNCHANGED vars

-----------------------------------------------------------------------------
(* The end of a holder, and what keeps its lease alive until then.          *)

\* simulate_crash, of a DistributedLock only.
Crash(c) ==
  /\ c \notin Watcher
  /\ At(c, "idle") /\ locker[c].daemons # {}
  /\ locker' = [locker EXCEPT ![c].daemons = {}]
  /\ UNCHANGED vars

Renewals(l) ==
  {i \in DOMAIN log : log[i].cmd = [type |-> "lease_keepalive", lease |-> l]}

\* A daemon asks for its lease to be renewed, bound: only while the lease is
\* about to end, for else it stays as it is.
Keepalive(c) ==
  \E d \in locker[c].daemons, l \in DOMAIN machine[leader].leases :
    /\ d.lease = l /\ machine[leader].leases[l].expired
    /\ Cardinality(Renewals(l)) < MaxRenewals
    /\ Tell(locker[c].server, [type |-> "lease_keepalive", lease |-> l])
    /\ UNCHANGED locker

-----------------------------------------------------------------------------
\* A call that has begun goes on by itself.
GoOn(c) ==
  \/ GrantFails(c) \/ TakeLock(c) \/ Holds(c) \/ GiveUp(c)
  \/ DeleteLock(c) \/ Revoke(c) \/ EndRelease(c)

LockNext ==
  \/ Background /\ UNCHANGED locker
  \/ \E c \in Client :
       Acquire(c) \/ Release(c) \/ Crash(c) \/ Keepalive(c) \/ GoOn(c)

LockSpec == LockInit /\ [][LockNext]_lockVars
=============================================================================
