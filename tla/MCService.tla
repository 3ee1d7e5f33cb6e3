----------------------------- MODULE MCService -----------------------------
(***************************************************************************)
(* Requests for the runs of Service.                                       *)
(***************************************************************************)
EXTENDS ServiceProperties, TLC

CONSTANTS s1, s2, s3, u1, u2

Symmetry == Permutations(Server)

Lease1 == <<"lease1">>
Lease2 == <<"lease2">>
NamedLeases == {Lease1, Lease2}
OneLease    == {Lease1}

Op(type, key, lease) ==
  [type |-> type, key |-> key, value |-> "v", lease |-> lease,
   expected |-> NoVersion]

Grant(l)     == [type |-> "lease_grant", lease |-> l]
Revoke(l)    == [type |-> "lease_revoke", lease |-> l]
Keepalive(l) == [type |-> "lease_keepalive", lease |-> l]

\* Two leases and one key that moves between them.
Rebinding ==
  {Grant(Lease1), Grant(Lease2), Op("put", "a", Lease1), Op("put", "a", Lease2)}

\* A lease and a key of it.
GrantAndPut == {Grant(Lease1), Op("put", "a", Lease1)}

\* Whatever can be done with one lease and one key, which may also be put
\* under a second lease that has ended before.
LeaseRequests ==
  {Grant(Lease1), Revoke(Lease1), Keepalive(Lease1), Op("put", "a", Lease1),
   Op("put", "a", Lease2), Op("put", "a", NoLease), Op("cas", "a", Lease1),
   Op("delete", "a", NoLease), [type |-> "txn", ops |-> <<Op("delete", "a", NoLease)>>]}

\* The replicas are left to name the lease.
Unnamed == {Grant(NoLease)}
=============================================================================
