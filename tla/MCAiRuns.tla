----------------------------- MODULE MCAiRuns -----------------------------
(***************************************************************************)
(* Instance of AiRuns for TLC.                                             *)
(***************************************************************************)
EXTENDS AiRuns, TLC

CONSTANTS w1, w2, d1, s1

\* A question with a file to make, two questions after each other, a run
\* that an earlier release queued, and one that has a later question.
McHistories == {<<{1}, {}>>, <<{2, 3}, {}>>, <<{}, {4}>>, <<{3}, {2}>>}
McCalls == <<{d1, s1}, {}, {}, {d1}>>

Alike == Permutations(Workers)
=============================================================================
