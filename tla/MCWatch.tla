------------------------------ MODULE MCWatch ------------------------------
(***************************************************************************)
(* Commands and subscriptions for the runs of Watch.                       *)
(***************************************************************************)
EXTENDS WatchProperties

\* An operation; the fields its type does not use stay empty.
Op(type, key, value, lease, expected) ==
  [type |-> type, key |-> key, value |-> value, lease |-> lease,
   expected |-> expected]

Put(key, value)     == Op("put", key, value, NoLease, NoVersion)
PutLeased(key)      == Op("put", key, "v1", <<"lease1">>, NoVersion)
Delete(key)         == Op("delete", key, None, NoLease, NoVersion)
PutIfAbsent(key)    == Op("put_if_absent", key, "v3", NoLease, NoVersion)
Cas(key, expected)  == Op("cas", key, "v4", NoLease, expected)
UnknownOp           == Op("swap", "a", None, NoLease, NoVersion)

Txn(ops) == [type |-> "txn", ops |-> ops]

\* Each type of command, also where its condition fails.
EveryCommand ==
  {PutLeased("a"), Put("a", "v2"), Delete("a"), PutIfAbsent("a"),
   Cas("a", NoVersion), Cas("a", 1)}

\* Transactions that succeed, that fail at their second operation, and that
\* do nothing.
Transactions ==
  {Txn(<< Put("a", "v1"), Put("b", "v1") >>),
   Txn(<< PutLeased("a"), Delete("b"), Put("a", "v2") >>),
   Txn(<< Delete("a"), Cas("b", 1) >>),
   Txn(<< Put("b", "v2"), UnknownOp >>),
   Txn(<< >>)}

TxnCommands == Transactions \cup EveryCommand

TwoPuts == {Txn(<< Put("a", "v1"), Put("b", "v1") >>)}

BothKeys  == {{"a", "b"}}
AnyFilter == {{"a"}, {"a", "b"}}
=============================================================================
