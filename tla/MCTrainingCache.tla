--------------------------- MODULE MCTrainingCache ---------------------------
(* Small trainings: one with a device cache that may grow, one without, in *)
(* which steps also ask for neighbours, and one with both.                 *)
EXTENDS TrainingCache

MCConfigs ==
  {[multi |-> FALSE, device |-> 1, ceiling |-> 3, host |-> 1, decoded |-> 1,
    lookahead |-> 2, scales |-> 2, changes |-> 2],
   [multi |-> TRUE, device |-> 0, ceiling |-> 0, host |-> 3, decoded |-> 1,
    lookahead |-> 2, scales |-> 2, changes |-> 0],
   [multi |-> TRUE, device |-> 1, ceiling |-> 3, host |-> 1, decoded |-> 1,
    lookahead |-> 1, scales |-> 2, changes |-> 2]}
=============================================================================
