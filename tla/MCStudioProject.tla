-------------------------- MODULE MCStudioProject --------------------------
(* Command lines on a new or an older project, and Studio with an older    *)
(* project or none: jobs in one session, edits, imports and trainings in   *)
(* another; and the long way of edits over a resumed training to the       *)
(* project and back, with models imported over them.                       *)
EXTENDS StudioProject

MCEarlier ==
  <<[kind |-> "sfm", from |-> {}], [kind |-> "gs", from |-> {1}],
    [kind |-> "mesh", from |-> {1, 2}], [kind |-> "tex", from |-> {1, 2, 3}],
    [kind |-> "ckpt", from |-> {1}]>>

Full == [NoChunks EXCEPT !.sfm = 1, !.gs = 2, !.mesh = 3, !.tex = 4]
Paused == [NoChunks EXCEPT !.sfm = 1, !.gs = 5, !.info = 5, !.mesh = 3]

Projects == {None, Full, Paused}

MCCommands == SUBSET {"splat", "dense", "mesh", "texture", "dataset"}
                \cup {{"capture-mode"}, {"capture-mode", "no-mesh"}, {"capture-mode", "dense"}}

MCSessions ==
  {[uses |-> {"commands"}, max |-> 0, files |-> Projects],
   [uses |-> {"align", "train", "resume", "extract", "dense", "texture", "clear",
              "save", "open", "edit"}, max |-> 4, files |-> Projects],
   [uses |-> {"edit", "train", "import", "remove", "clear", "save", "open"},
    max |-> 5, files |-> Projects],
   [uses |-> {"edit", "resume", "import", "remove", "save", "open"}, max |-> 7,
    files |-> {Paused}]}
=============================================================================
