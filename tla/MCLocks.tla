------------------------------ MODULE MCLocks ------------------------------
(***************************************************************************)
(* Values for the runs of Locks.                                           *)
(***************************************************************************)
EXTENDS LockProperties

CONSTANTS s1, s2, u1, u2

\* Only the lease of the first grant may run out: it is named by its replica
\* and its place in the log.
FirstLease == {<<s1, 1>>}
=============================================================================
