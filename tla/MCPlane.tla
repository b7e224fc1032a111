------------------------------ MODULE MCPlane ------------------------------
(* One interrupt checkpoint, two supersteps, two answers: the smallest     *)
(* instance where a fork branch and the root race for the same task.       *)
EXTENDS Plane, TLC

CONSTANTS c1, va, vb, none, notask, root

MCCheckpoint == {c1}
MCValue == {va, vb}

AnswerSymmetry == Permutations(MCValue)
=============================================================================
