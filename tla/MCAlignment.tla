---------------------------- MODULE MCAlignment ----------------------------
(* Model values and small sets for Alignment. *)
EXTENDS Alignment, TLC

CONSTANTS w1, w2, s1, s2, s3, d1

MCWorkers == {w1, w2}
MCScenes == {s1, s2, s3}
MCDevices == {d1}

\* Two transforms whose rotations do not commute, the second one with its
\* middle angle a right one.
MCGiven == {[tran |-> 1, rot |-> <<1, 0, 0>>], [tran |-> 3, rot |-> <<1, 1, 0>>]}

\* For all 64 triples of quarter turns and each two of them.
ASSUME AlgebraHolds == TransformAlgebra

\* Workers and scenes are used only through equality.
MCSymmetry == Permutations(MCWorkers) \cup Permutations(MCScenes)
=============================================================================
