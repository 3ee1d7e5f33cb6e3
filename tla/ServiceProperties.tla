------------------------- MODULE ServiceProperties -------------------------
(***************************************************************************)
(* What the replicas and their leases guarantee, stated over Service.      *)
(***************************************************************************)
EXTENDS Service

Keys(n, l) == machine[n].leases[l].keys
Bound(n, k, l) ==
  k \in DOMAIN machine[n].data /\ machine[n].data[k].lease = l

\* The types of the variables that the other properties do not speak of.
TypeOK ==
  /\ leader \in Server /\ own \in 0 .. Len(log)
  /\ committed \in 0 .. Len(log)
  /\ \A n \in Server :
       /\ applied[n] \in 0 .. committed
       /\ stuck[n] => Busy(n)
       /\ Busy(n) => ending[n].at <= applied[n] /\ ending[n].upto <= committed
       /\ DOMAIN callbacks[n] \subseteq Nat \ {0}
  /\ \A c \in Client : calls[c].count \in 0 .. MaxCalls

-----------------------------------------------------------------------------

\* What of a machine does not depend on the replica's clock.
Content(sm) ==
  <<sm.data, sm.revision, [l \in DOMAIN sm.leases |-> sm.leases[l].keys]>>

\* Replicas that have applied the same entries hold the same data and the same
\* leases with the same keys, whatever their clocks say and although a leader
\* applies some entries in the middle of another one (demo 8 of example.py:
\* all replicas hold the same data).
ReplicasAgree ==
  \A a, b \in Server :
    applied[a] = applied[b] /\ ~stuck[a] /\ ~stuck[b]
      => Content(machine[a]) = Content(machine[b])

\* A compare-and-swap or a transaction has been applied at n: it binds and
\* deletes keys and tells no lease.
Bypassed(n) == \E i \in 1 .. applied[n] : log[i].cmd.type \in {"cas", "txn"}

\* A lease never lists a key that is bound to another lease or to none: when
\* it ends, only keys that are its own at that moment are to be deleted.  Only
\* a compare-and-swap or a transaction can leave a key with a lease it has no
\* longer.
LeasesListOwnKeys ==
  \A n \in Server : \A l \in DOMAIN machine[n].leases :
    ~stuck[n] /\ ~Bypassed(n) => \A k \in Keys(n, l) : Bound(n, k, l)

\* The delete that the end of a lease asks for does not touch a key that has
\* been bound to another lease by then (demo 2 of example.py: the end of the
\* old lease does not affect the key of the new one).
RebindSurvives ==
  [][\A n \in Server : \A l \in DOMAIN machine[n].leases :
       /\ applied'[n] = applied[n] + 1
       /\ log[applied'[n]].lease \notin {NoLease, l}
       => \A k \in Keys(n, l) : Bound(n, k, l) => Bound(n, k, l)']_vars

-----------------------------------------------------------------------------

\* Until the leader changes, an answer is the answer to the command that was
\* submitted, however late and however many calls have timed out before it:
\* the entry at the place its callback was filed under is the caller's own.
AnswersOwnCommand ==
  \A c \in Client :
    LET i == calls[c].answer.at
    IN  changes = 0 /\ i > 0 => log[i].token = <<c, calls[c].count>>

\* Through all changes of leader: who is given the answer to another's command
\* at the place where its own was (_apply_callbacks knows places only) has lost
\* its own, which is not in the log any more.  A command that is in the log is
\* answered at its own place or not at all.
OthersAnswerMeansLost ==
  \A c \in Client, i \in DOMAIN log :
    calls[c].answer.at > 0 /\ log[i].token = <<c, calls[c].count>>
      => calls[c].answer.at = i

-----------------------------------------------------------------------------
(* Liveness.  The loops of a RaftNode and of a LeaseManager never end, and a *)
(* thread goes on unless it waits for a lock that is never released; nothing *)
(* is assumed of clocks, clients or elections.                              *)

Fairness ==
  /\ WF_vars(Commit)
  /\ \A n \in Server :
       /\ WF_vars(Apply(n))
       /\ WF_vars(\E k \in ending[n].keys : SubmitDelete(n, k))
       /\ WF_vars(FinishEnd(n))
       /\ WF_vars(CheckLeases(n))
       /\ WF_vars(\E l \in checked[n] : SubmitExpire(n, l))

FairSpec == Spec /\ Fairness

\* A key of an expired lease is for l to release: l is neither renewed nor
\* deprived of the key, and n still leads.
ToRelease(n, k, l) ==
  /\ n = leader
  /\ l \in DOMAIN machine[n].leases /\ machine[n].leases[l].expired
  /\ k \in Keys(n, l)

Released(n, k, l) ==
  \/ n # leader
  \/ ~Bound(n, k, l)
  \/ l \in DOMAIN machine[n].leases /\ ~machine[n].leases[l].expired

\* A key of an expired lease is deleted, unless the lease is renewed or the
\* leader changes before (demo 7 of example.py: when its holder has crashed, a
\* lock is freed by the end of the lease).
KeysReleased ==
  \A n \in Server, k \in {r.key : r \in {q \in Requests : Binds(q)}},
     l \in Mortal : ToRelease(n, k, l) ~> Released(n, k, l)
=============================================================================
