--------------------------- MODULE RaftRefinement ---------------------------
(***************************************************************************)
(* The nodes of Raft, seen by the state machines above them, are one       *)
(* ReplicatedLog.                                                          *)
(***************************************************************************)
EXTENDS RaftProperties

\* The node that has committed most.
Foremost == CHOOSE n \in Server : \A p \in Server : commitIndex[n] >= commitIndex[p]

\* The commands that some node has committed, in order.
Chosen ==
  LET committed == Upto(log[Foremost], commitIndex[Foremost] + 1)
  IN  [k \in DOMAIN committed |-> committed[k].command]

\* The commands whose callbacks were called for the entry they were filed for.
Answered == {a[1].command : a \in {b \in answers : b[1] = b[2]}}

Above == INSTANCE ReplicatedLog
           WITH Replica <- Server, chosen <- Chosen, given <- applied,
                answered <- Answered

\* Elections, messages, retries, stops and starts do not show: whatever they
\* do, the state machines are given the prefixes of one growing sequence of
\* commands, and no submitter is given a result before its command is in it.
ImplementsReplicatedLog == Above!Spec
=============================================================================
