-------------------------- MODULE LockProperties --------------------------
(***************************************************************************)
(* What holding, releasing and losing a lock means, stated over Locks for  *)
(* runs in which the leader stays.                                         *)
(***************************************************************************)
EXTENDS Locks

LockTypeOK ==
  \A c \in Client :
    /\ locker[c].server \in Server
    /\ locker[c].locked =>
         locker[c].lease # NoLease /\ locker[c].step \notin {"granting", "putting"}
    /\ \A d \in locker[c].daemons : d.lease # NoLease /\ (d.lost => c \in Watcher)
    /\ calls[c].count <= MaxCalls + 2

\* The lock is bound to lease l at the leader.
LockBound(l) ==
  Lock \in DOMAIN machine[leader].data /\ machine[leader].data[Lock].lease = l

Lives(l) == l \in DOMAIN machine[leader].leases

\* The places in the log, as far as the leader has applied it, of the put of
\* the lock under lease l, of what ended l, and of the deletes of the lock.
Done == 1 .. applied[leader]
PutsUnder(l) == {i \in Done : log[i].cmd = PutCommand(l)}
EndsOf(l) == {i \in Done : /\ log[i].cmd.type \in {"lease_revoke", "lease_expire"}
                           /\ log[i].cmd.lease = l}
IsDelete(i) == log[i].cmd.type = "delete"

\* The lock was put under a lease that had ended before: no lease lists it.
PutTooLate(l) == \E i \in EndsOf(l), j \in PutsUnder(l) : i < j

-----------------------------------------------------------------------------

\* c believes to hold the lock, has not tried to release it, and its lease is
\* alive: it is what everybody else takes for the holder.
Holding(c) ==
  /\ locker[c].locked /\ Lives(locker[c].lease)
  /\ [lease |-> locker[c].lease, lost |-> FALSE] \in locker[c].daemons

\* A delete asked for on behalf of another lease was applied after the lock
\* had been put under l: LockManager.release and the end of a lease delete the
\* key without looking whose it has become.
Overtaken(l) ==
  \E i \in PutsUnder(l), j \in Done : i < j /\ IsDelete(j) /\ log[j].lease # l

\* As long as a holder renews a lease that lives, the lock is its own, however
\* acquisitions, releases and expiries of others come in between; all it can
\* lose it to is a delete that was meant for an earlier holder.  So two clients
\* hold the lock at once only after such a delete.
HeldUntilOvertaken ==
  \A c \in Client :
    LET l == locker[c].lease
    IN  Holding(c) => LockBound(l) \/ Overtaken(l)

\* A release that succeeds leaves the lock free of the lease it was held
\* under: the next acquisition does not meet the old holder (demo 5 of
\* example.py: to acquire right after a release must succeed).
ReleasedIsFree ==
  [][\A c \in Client :
       LET l == locker[c].lease
           n == locker[c].server
       IN  locker[c].locked /\ ~locker'[c].locked
             => ~(/\ Lock \in DOMAIN machine'[n].data
                  /\ machine'[n].data[Lock].lease = l)]_lockVars

\* Whoever holds the lock by the data of the leader, something will take it
\* away when the holder does not: its lease lists it, or has ended and its
\* delete is on its way - unless the apply thread waits for itself, or the put
\* came too late.
AccountedFor ==
  \A l \in {log[i].cmd.lease : i \in {j \in Done : Binds(log[j].cmd)}} :
    LockBound(l) =>
      \/ Lives(l) /\ Lock \in machine[leader].leases[l].keys
      \/ ending[leader].lease = l /\ Lock \in ending[leader].keys
      \/ \E i \in applied[leader] + 1 .. Len(log) : IsDelete(i)
      \/ stuck[leader] \/ PutTooLate(l)

-----------------------------------------------------------------------------
(* Liveness.  The threads of the replicas go on, a call that has begun goes  *)
(* on and times out if need be, and the time of a lease that nobody renews   *)
(* runs out.  Nobody has to acquire, release, crash or renew.  That is asked *)
(* of all replicas together, and of all calls: each step uses up something   *)
(* that the bounds limit, so none can keep the others from theirs.           *)

Renewed(l) == \E c \in Client : \E d \in locker[c].daemons : d.lease = l

TimePasses(n) == \E l \in Mortal : ~Renewed(l) /\ RunOut(n, l)

ApplyThread(n) ==
  Apply(n) \/ FinishEnd(n) \/ \E k \in ending[n].keys : SubmitDelete(n, k)

ExpiryLoop(n) == CheckLeases(n) \/ \E l \in checked[n] : SubmitExpire(n, l)

ReplicasGoOn ==
  /\ UNCHANGED locker
  /\ \/ Commit
     \/ \E n \in Appliers : ApplyThread(n) \/ ExpiryLoop(n) \/ TimePasses(n)

LockFairness == WF_lockVars(ReplicasGoOn) /\ WF_lockVars(\E c \in Client : GoOn(c))

FairLockSpec == LockSpec /\ LockFairness

\* The lock is bound to lease l, which nobody renews and nobody is working on.
\* A holder without a daemon is to all others one that has crashed.
Abandoned(l) ==
  /\ LockBound(l) /\ ~Renewed(l)
  /\ \A c \in Client : locker[c].lease = l => At(c, "idle")

\* A lock whose holder has crashed is freed, as is one that an acquisition
\* that gave up has taken after all (demo 7 of example.py: after the crash of
\* client A its lease expires and the lock is released).
LockFreed ==
  \A l \in Mortal : Abandoned(l) ~> ~Abandoned(l) \/ stuck[leader]

\* Only a put that came too late keeps it.
LockFreedUnlessLate ==
  \A l \in Mortal : Abandoned(l) ~> ~Abandoned(l) \/ stuck[leader] \/ PutTooLate(l)
=============================================================================
