----------------------- MODULE MCTrainingCheckpoint ------------------------
(* Two processes that write the checkpoint and one reader.                 *)
EXTENDS TrainingCheckpoint, TLC
CONSTANTS studio, cli
MCProcs == {studio, cli}
MCSymmetry == Permutations(MCProcs)
=============================================================================
