---------------------------- MODULE StateMachine ----------------------------
(***************************************************************************)
(* The state machine a replica applies its log to: a KVStore and a         *)
(* LeaseStateMachine under a CombinedStateMachine                          *)
(* (src/kvstore/combined_sm.py, src/kvstore/lease.py).                     *)
(*                                                                         *)
(* Its state is a record [data, revision, leases].  A lease is             *)
(* [keys, expired]: the clock of the replica is abstracted to whether it   *)
(* has passed the expire_time.  Lease commands are [type, lease].          *)
(***************************************************************************)
EXTENDS KVStore

InitialMachine == [data |-> << >>, revision |-> 0, leases |-> << >>]

\* What a command does: the machine after it, its answer, the keys that
\* _on_expire_callback is given, and whether it takes the lock of the leases.
Outcome(sm, ok, lease, orphans, locks) ==
  [sm |-> sm, answer |-> [ok |-> ok, lease |-> lease],
   orphans |-> orphans, locks |-> locks]

-----------------------------------------------------------------------------
(* Keys of leases.                                                          *)

AddKey(leases, l, k) ==
  IF l \in DOMAIN leases THEN [leases EXCEPT ![l].keys = @ \cup {k}] ELSE leases

RemoveKey(leases, l, k) ==
  IF l \in DOMAIN leases THEN [leases EXCEPT ![l].keys = @ \ {k}] ELSE leases

Binds(c) == c.type \in {"put", "put_if_absent"} /\ c.lease # NoLease

\* Mutant of UpdateLeaseKeys: a rebound key stays with its old lease as well.
UpdateLeaseKeys_KeepOld(leases, c, r) ==
  IF r.ok /\ Binds(c) THEN AddKey(leases, c.lease, c.key)
  ELSE IF r.ok /\ c.type = "delete" THEN RemoveKey(leases, r.prevLease, c.key)
  ELSE leases

\* A put moves its key to the lease it names, a delete takes the key from its
\* lease; compare-and-swap and transactions leave the leases alone.
UpdateLeaseKeys(leases, c, r) ==
  IF r.ok /\ Binds(c)
  THEN LET rest == IF r.prevLease = c.lease THEN leases
                   ELSE RemoveKey(leases, r.prevLease, c.key)
       IN  AddKey(rest, c.lease, c.key)
  ELSE IF r.ok /\ c.type = "delete" THEN RemoveKey(leases, r.prevLease, c.key)
  ELSE leases

-----------------------------------------------------------------------------
(* Commands.                                                                *)

ApplyKV(sm, c) ==
  LET r     == Execute(sm.data, c, sm.revision + 1)
      locks == r.ok /\ \/ Binds(c)
                       \/ c.type = "delete" /\ r.prevLease # NoLease
  IN  Outcome([data |-> r.data, revision |-> sm.revision + 1,
               leases |-> UpdateLeaseKeys(sm.leases, c, r)],
              r.ok, NoLease, {}, locks)

LeaseTypes == {"lease_grant", "lease_revoke", "lease_keepalive", "lease_expire"}

\* _do_grant: without an id, the replica makes up one of its own.
DoGrant(sm, c, fresh) ==
  LET l   == IF c.lease = NoLease THEN fresh ELSE c.lease
      new == [keys |-> {}, expired |-> FALSE]
  IN  IF l \in DOMAIN sm.leases THEN Outcome(sm, FALSE, l, {}, TRUE)
      ELSE Outcome([sm EXCEPT !.leases = Bind(@, l, new)], TRUE, l, {}, TRUE)

DoKeepalive(sm, c) ==
  Outcome([sm EXCEPT !.leases[c.lease].expired = FALSE], TRUE, c.lease, {}, TRUE)

\* Mutant of DoEnd: each replica asks its own clock.
DoEnd_OwnClock(sm, c) ==
  IF c.type = "lease_expire" /\ ~sm.leases[c.lease].expired
  THEN Outcome(sm, FALSE, c.lease, {}, TRUE)
  ELSE Outcome([sm EXCEPT !.leases = Unbind(@, c.lease)], TRUE, c.lease,
               sm.leases[c.lease].keys, TRUE)

\* Mutant of DoEnd: the keys of the lease are forgotten.
DoEnd_NoKeys(sm, c) ==
  Outcome([sm EXCEPT !.leases = Unbind(@, c.lease)], TRUE, c.lease, {}, TRUE)

\* _do_revoke and _do_expire drop the lease, whatever its clock says.
DoEnd(sm, c) ==
  Outcome([sm EXCEPT !.leases = Unbind(@, c.lease)], TRUE, c.lease,
          sm.leases[c.lease].keys, TRUE)

\* All but a grant fail when there is no such lease.
ApplyLease(sm, c, fresh) ==
  CASE c.type = "lease_grant"           -> DoGrant(sm, c, fresh)
    [] c.type # "lease_grant" /\ c.lease \notin DOMAIN sm.leases
                                        -> Outcome(sm, FALSE, NoLease, {}, TRUE)
    [] OTHER -> IF c.type = "lease_keepalive" THEN DoKeepalive(sm, c)
                ELSE DoEnd(sm, c)

\* CombinedStateMachine.apply; fresh is the id the replica would make up.
ApplyCommand(sm, c, fresh) ==
  IF c.type \in LeaseTypes THEN ApplyLease(sm, c, fresh) ELSE ApplyKV(sm, c)
=============================================================================
