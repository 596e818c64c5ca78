----------------------------- MODULE MCConveyor -----------------------------
(* Instances of Conveyor for TLC.                                           *)
EXTENDS Conveyor, TLC

CONSTANTS l1, l2

TwoLoaders == {l1, l2}
LightWeights == {1, 2}
AnyWeights == {1, 2, 3}

LoaderSymmetry == Permutations(Loaders)
=============================================================================
