------------------------------- MODULE MCRaft -------------------------------
(***************************************************************************)
(* Bounds for the runs of Raft: which node may start an election for which *)
(* term, and which command may be submitted in which term.                 *)
(***************************************************************************)
EXTENDS RaftRefinement

CONSTANTS s1, s2, s3, c1, c2, c3, c4

\* Every node may stand in the first three terms.
AnyInThreeTerms == Server \X (1 .. 3)

\* s1 leads first; then s1 and s2 compete, and s3 only votes and follows.
Contested == {<<s1, 1>>, <<s1, 2>>, <<s2, 2>>}

\* s1 leads first, then s2.
Successive == {<<s1, 1>>, <<s2, 2>>}

\* s1, s2 and s1 again lead in turn.
TakingTurns == {<<s1, 1>>, <<s2, 2>>, <<s1, 3>>}

\* Any command in any term.
AnySubmission == Command \X (1 .. 3)

\* Two commands in the first term and two in the second, one of them either.
TwoThenTwo == {<<c1, 1>>, <<c2, 1>>, <<c2, 2>>, <<c3, 2>>}

\* Two commands in the first term and one in the second.
TwoThenOne == {<<c1, 1>>, <<c2, 1>>, <<c3, 2>>}

\* One command per term.
OneEach == {<<c1, 1>>, <<c2, 2>>, <<c3, 3>>}
=============================================================================
