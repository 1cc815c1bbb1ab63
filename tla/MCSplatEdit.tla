---------------------------- MODULE MCSplatEdit ----------------------------
(* Two small models, edited in a session without trainings, and trained    *)
(* and saved in one without undo.                                          *)
EXTENDS SplatEdit
MCClouds == {<<1, 2, 3>>, <<4, 5>>}
MCSessions ==
  {{"stroke", "volume", "menu", "delete", "refuse", "undo", "redo", "simplify",
    "save", "open"},
   {"menu", "delete", "save", "train"}}
=============================================================================
