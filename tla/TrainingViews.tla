----------------------------- MODULE TrainingViews -----------------------------
(***************************************************************************)
(* The views that a training loads (splat/training_data_loader.cpp): what  *)
(* TrainingCache and UploadRing share.                                     *)
(***************************************************************************)
CONSTANTS
  Views,  \* the training views
  None
=============================================================================
