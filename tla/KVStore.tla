------------------------------ MODULE KVStore ------------------------------
(***************************************************************************)
(* The key-value store every replica applies its log to (KVStore of        *)
(* src/kvstore/kvstore.py): what a command makes of the data, which events *)
(* it raises and what it answers.                                          *)
(*                                                                         *)
(* The data is a function from the keys that exist to their entries.  A    *)
(* command is a record [type, key, value, lease, expected]; a transaction  *)
(* is [type |-> "txn", ops], its ops being commands of the other types.    *)
(***************************************************************************)
EXTENDS Integers, Sequences

\* None of Python: for a value, a lease (leases are named by tuples) and the
\* version that a compare-and-swap expects.
None == "none"
NoLease == << >>
NoVersion == -1

\* What stands for the entry of a key that does not exist.
NoEntry == [value |-> None, version |-> 0, lease |-> NoLease,
            created |-> 0, modified |-> 0]

EntryOf(data, k) == IF k \in DOMAIN data THEN data[k] ELSE NoEntry

Bind(data, k, e) ==
  [x \in DOMAIN data \cup {k} |-> IF x = k THEN e ELSE data[x]]

Unbind(data, k) == [x \in DOMAIN data \ {k} |-> data[x]]

\* A command that changes nothing, raises nothing and answers ok.
Answer(ok, data) ==
  [ok |-> ok, data |-> data, events |-> << >>, prevLease |-> NoLease]

\* A put without a lease leaves the key bound to the lease it had.
KeptLease(old, lease) == IF lease # NoLease THEN lease ELSE old.lease

DoPut(data, c, revision) ==
  LET old == EntryOf(data, c.key)
      new == [value |-> c.value, version |-> old.version + 1,
              lease |-> KeptLease(old, c.lease),
              created |-> IF c.key \in DOMAIN data THEN old.created ELSE revision,
              modified |-> revision]
  IN  [ok |-> TRUE, data |-> Bind(data, c.key, new), prevLease |-> old.lease,
       events |-> << [type |-> "PUT", key |-> c.key, value |-> c.value,
                      prev |-> old.value, revision |-> revision] >>]

DoDelete(data, c, revision) ==
  IF c.key \notin DOMAIN data THEN Answer(TRUE, data)
  ELSE [ok |-> TRUE, data |-> Unbind(data, c.key),
        prevLease |-> data[c.key].lease,
        events |-> << [type |-> "DELETE", key |-> c.key, value |-> None,
                       prev |-> data[c.key].value, revision |-> revision] >>]

\* Mutant of DoPutIfAbsent: a key that exists is overwritten.
DoPutIfAbsent_Overwrite(data, c, revision) == DoPut(data, c, revision)

DoPutIfAbsent(data, c, revision) ==
  IF c.key \in DOMAIN data THEN Answer(FALSE, data)
  ELSE DoPut(data, c, revision)

\* Without an expected version the key must not exist.
ExpectationMet(data, c) ==
  IF c.expected = NoVersion THEN c.key \notin DOMAIN data
  ELSE c.key \in DOMAIN data /\ data[c.key].version = c.expected

DoCas(data, c, revision) ==
  IF ExpectationMet(data, c) THEN DoPut(data, c, revision)
  ELSE Answer(FALSE, data)

\* One operation; a type that is none of these fails.
DoOp(data, c, revision) ==
  CASE c.type = "put"           -> DoPut(data, c, revision)
    [] c.type = "delete"        -> DoDelete(data, c, revision)
    [] c.type = "put_if_absent" -> DoPutIfAbsent(data, c, revision)
    [] c.type = "cas"           -> DoCas(data, c, revision)
    [] OTHER                    -> Answer(FALSE, data)

\* The data and the events after each operation of a transaction, up to the
\* first one that fails.
Steps(data, ops, revision) ==
  LET after[i \in 0 .. Len(ops)] ==
        IF i = 0 THEN Answer(TRUE, data)
        ELSE IF ~after[i - 1].ok THEN after[i - 1]
        ELSE LET r == DoOp(after[i - 1].data, ops[i], revision)
             IN  [r EXCEPT !.events = after[i - 1].events \o @,
                           !.prevLease = NoLease]
  IN  after

\* Mutant of DoTxn: a failing transaction keeps what it did before.
DoTxn_NoRollback(data, ops, revision) ==
  LET last == Steps(data, ops, revision)[Len(ops)]
  IN  IF last.ok THEN last ELSE [last EXCEPT !.events = << >>]

\* A transaction holds its events back until all operations have succeeded;
\* when one fails, the saved data is restored and the events are forgotten.
DoTxn(data, ops, revision) ==
  LET last == Steps(data, ops, revision)[Len(ops)]
  IN  IF last.ok THEN last ELSE Answer(FALSE, data)

\* KVStore.apply, under the revision it has just assigned.
Execute(data, c, revision) ==
  IF c.type = "txn" THEN DoTxn(data, c.ops, revision)
  ELSE DoOp(data, c, revision)
=============================================================================
