--------------------------- MODULE ReplicatedLog ---------------------------
(***************************************************************************)
(* What a replicated log promises to the state machines and submitters     *)
(* above it (StateMachine of src/raft/state_machine.py and the callbacks   *)
(* of RaftNode.submit_command): there is one sequence of chosen commands,  *)
(* which only grows, every machine is given a prefix of it, and whoever    *)
(* is answered finds its command in what has been given.                   *)
(***************************************************************************)
EXTENDS SequencesExt

CONSTANT Replica

VARIABLES
  chosen,  \* the commands, in their final order
  given,   \* what the machine of each replica was given
  answered \* the commands whose submitters have been given their results

Init ==
  /\ chosen = << >>
  /\ given = [n \in Replica |-> << >>]
  /\ answered = {}

Choose ==
  /\ IsStrictPrefix(chosen, chosen')
  /\ UNCHANGED <<given, answered>>

\* A replica that is alone chooses what it gives to its machine at once.
Give(n) ==
  /\ IsPrefix(chosen, chosen')
  /\ IsStrictPrefix(given[n], given'[n]) /\ IsPrefix(given'[n], chosen')
  /\ given' = [given EXCEPT ![n] = given'[n]]
  /\ answered \subseteq answered'
  /\ answered' \subseteq answered \cup ToSet(given'[n])

Next == Choose \/ \E n \in Replica : Give(n)

Spec == Init /\ [][Next]_<<chosen, given, answered>>
=============================================================================
