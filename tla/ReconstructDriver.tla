------------------------- MODULE ReconstructDriver -------------------------
(***************************************************************************)
(* The stages of the photara command line tool (tools/reconstruct.cpp):    *)
(* which cameras, Gaussians and meshes a run starts from, what it makes    *)
(* and in which order it stores the results.  A run of a user writes the   *)
(* project file and sidecar files; a run of Studio (--gui) writes working  *)
(* copies and only reads the project.  A run may fail at every step and    *)
(* may be killed.                                                          *)
(*                                                                         *)
(* A result is a number; made[n] tells what kind it is and from which      *)
(* earlier results it was computed, directly or not.  0 is no result.      *)
(***************************************************************************)
EXTENDS Integers, Sequences, FiniteSets

CONSTANTS
  Commands,    \* the sets of flags that users give
  Earlier,     \* results of earlier sessions
  ProjectFiles,\* project files that exist before the first run
  MaxResults,  \* bound on results
  MaxFaults,   \* bound on failures and kills
  None

VARIABLES
  file,    \* chunks of the project file, or None
  made,    \* the results so far
  store,   \* gui -> sidecars or working copies
  run,     \* the running command, or None
  exit,    \* the code of the last run, -1 when it was killed, or None
  faults

driverVars == <<file, made, store, run, exit, faults>>

\* The chunks: settings (the Gaussian models it names), sfm, gaussians,
\* gaussian_sources, training_model_info, mesh, texture.
Chunks == [list : Seq(Int), sfm : Nat, src : Nat, gs : Nat, srcs : Seq(Nat),
           info : Nat, mesh : Nat, tex : Nat]
NoChunks == [list |-> <<>>, sfm |-> 0, src |-> 0, gs |-> 0, srcs |-> <<>>,
             info |-> 0, mesh |-> 0, tex |-> 0]
NoCopies == [sfm |-> 0, gs |-> 0, mesh |-> 0, tex |-> 0, ckpt |-> 0]

Stages == {"sfm", "gs", "mesh", "tex"}
Kinds == Stages \cup {"ckpt", "import"}

ASSUME ReconstructDriverAssumption ==
  /\ \A c \in Commands : c \subseteq {"splat", "dense", "mesh", "no-mesh", "texture",
                                      "capture-mode", "mesh-only", "dataset"}
  /\ Earlier \in Seq([kind : Kinds, from : SUBSET Nat])
  /\ \A n \in DOMAIN Earlier : Earlier[n].from \subseteq 1 .. n - 1
  /\ ProjectFiles \subseteq {None} \cup Chunks
  /\ \A f \in ProjectFiles \ {None} :
       \A c \in Stages \cup {"info"} : f[c] <= Len(Earlier)
  /\ None \notin Chunks \cup {-1, 0, 1, 2}
  /\ MaxResults \in Nat /\ MaxFaults \in Nat

DriverTypeOK ==
  /\ file = None \/ file \in Chunks
  /\ Len(made) <= MaxResults
  /\ \A n \in DOMAIN made : /\ made[n].kind \in Kinds
                            /\ made[n].from \subseteq 1 .. n - 1
  /\ \A g \in BOOLEAN : \A c \in DOMAIN NoCopies : store[g][c] \in 0 .. Len(made)
  /\ run # None =>
       /\ run.arch \in Chunks
       /\ \A c \in {"scene", "model", "surface"} : run[c] \in 0 .. Len(made)
  /\ run # None /\ run.pc \in {"extract", "keep", "store", "clean"} => run.model # 0
  /\ run # None /\ run.pc \in {"surface", "texture"} => run.surface # 0
  /\ exit \in {-1, 0, 1, 2, None}
  /\ faults \in 0 .. MaxFaults

DriverInit ==
  /\ file \in ProjectFiles
  /\ made = Earlier
  /\ store = [g \in BOOLEAN |-> NoCopies]
  /\ run = None
  /\ exit = None
  /\ faults = 0

----------------------------------------------------------------------------
\* What the flags ask for.

\* A run of Studio always names a working mesh.
Parse(f, gui) ==
  LET bake    == /\ "texture" \in f /\ gui
                 /\ f \cap {"splat", "dense", "mesh", "no-mesh"} = {}
      mvs     == "dense" \in f /\ "splat" \notin f
      preset  == "capture-mode" \in f /\ ~mvs
      splat   == "splat" \in f \/ preset
      mesh    == \/ "mesh" \in f
                 \/ "texture" \in f /\ ~bake
                 \/ preset /\ f \cap {"mesh", "no-mesh"} = {}
      dense   == "dense" \in f \/ (mesh /\ ~splat)
      only    == "mesh-only" \in f
  IN [bake |-> bake, only |-> only, texture |-> "texture" \in f,
      mesh |-> mesh \/ only,
      dense |-> dense /\ ~only,
      splat |-> splat \/ only \/ ("dataset" \in f /\ ~dense),
      dataset |-> "dataset" \in f]

\* Texturing after training on an external dataset is refused.
Refused(q) == q.dataset /\ q.splat /\ q.texture /\ ~q.bake

NeedsCameras(q) == q.splat \/ q.dense \/ q.texture

----------------------------------------------------------------------------
\* Results and where they go.

New(kind, from) ==
  /\ Len(made) < MaxResults
  /\ made' = Append(made, [kind |-> kind,
       from |-> (from \ {0}) \cup UNION {made[n].from : n \in from \ {0}}])

Id == Len(made) + 1

\* Archive::save of the chunks that the run holds.
Save(arch) ==
  /\ file' = arch
  /\ run' = [run EXCEPT !.arch = arch]

\* Seeded fault: the meshes of the old alignment are kept.
FaultReplaceSfm(arch, n) ==
  [arch EXCEPT !.list = <<>>, !.sfm = n, !.src = 0, !.gs = 0]

\* The new SfM stage, and the stages that depended on the old one.
ReplaceSfm(arch, n) ==
  [arch EXCEPT !.list = <<>>, !.sfm = n, !.src = 0, !.gs = 0, !.mesh = 0, !.tex = 0]

WritesProject == run.proj /\ ~run.gui

Goto(pc) == run' = [run EXCEPT !.pc = pc]

End(code) == run' = None /\ exit' = code

At(pc) == run # None /\ run.pc = pc

----------------------------------------------------------------------------
\* A run, stage by stage.

\* The flags are parsed and an existing project is opened.  input is the
\* model file that Studio names for --splat-mesh-only.
NewRun(f, gui, proj, input) ==
  LET q == Parse(f, gui) IN
  [q |-> q, gui |-> gui, proj |-> proj, fresh |-> FALSE,
   pc |-> IF q.dataset THEN "dataset" ELSE "cameras",
   arch |-> IF proj /\ file # None THEN file ELSE NoChunks,
   scene |-> 0, model |-> input, surface |-> 0]

Start(f) ==
  /\ run = None
  /\ IF Refused(Parse(f, FALSE)) THEN End(1)
     ELSE run' = NewRun(f, FALSE, TRUE, 0) /\ exit' = None
  /\ UNCHANGED <<file, made, store, faults>>

\* External cameras: the settings are written into the archive that the run
\* holds and saved with the first result.
LoadDataset ==
  /\ At("dataset")
  /\ run' = [run EXCEPT !.arch = IF WritesProject THEN [@ EXCEPT !.list = <<>>] ELSE @,
                        !.pc = IF run.q.bake THEN "bake"
                               ELSE IF run.q.splat THEN "train" ELSE "densify"]
  /\ UNCHANGED <<file, made, store, exit, faults>>

\* The project's cameras, else the working copy, else they are reconstructed.
LoadCameras ==
  /\ At("cameras")
  /\ LET fromProject == run.proj /\ NeedsCameras(run.q) /\ run.arch.sfm # 0
         fromWork == ~fromProject /\ NeedsCameras(run.q) /\ store[run.gui].sfm # 0
     IN \/ /\ fromProject \/ fromWork
           /\ run' = [run EXCEPT
                !.scene = IF fromProject THEN run.arch.sfm ELSE store[run.gui].sfm,
                !.pc = IF run.q.bake THEN "bake" ELSE "publish"]
           /\ UNCHANGED exit
        \/ /\ ~fromProject /\ ~fromWork
           /\ IF run.q.bake THEN End(1) ELSE Goto("align") /\ UNCHANGED exit
  /\ UNCHANGED <<file, made, store, faults>>

Align ==
  /\ At("align")
  /\ \/ /\ New("sfm", {})
        /\ store' = [store EXCEPT ![run.gui] = [@ EXCEPT !.sfm = IF run.gui THEN Id ELSE 0]]
        /\ run' = [run EXCEPT !.scene = Id, !.fresh = TRUE, !.pc = "publish"]
        /\ UNCHANGED exit
     \/ End(2) /\ UNCHANGED <<made, store>>     \* not valid
  /\ UNCHANGED <<file, faults>>

\* The SfM stage goes to the project before the later stages run.
Publish ==
  /\ At("publish")
  /\ LET arch == IF run.fresh THEN ReplaceSfm(run.arch, run.scene)
                 ELSE [run.arch EXCEPT !.list = <<>>]
         next == IF run.q.dense THEN "densify" ELSE IF run.q.splat THEN "train" ELSE "done"
     IN /\ file' = IF WritesProject THEN arch ELSE file
        /\ run' = [run EXCEPT !.pc = next,
                              !.arch = IF WritesProject THEN arch ELSE @]
  /\ UNCHANGED <<made, store, exit, faults>>

\* MVS.  The mesh of a run that also trains comes from the Gaussians.
Densify ==
  /\ At("densify")
  /\ IF run.q.mesh /\ (run.q.dataset \/ run.q.texture \/ ~run.q.splat)
     THEN /\ New("mesh", {run.scene})
          /\ run' = [run EXCEPT !.surface = Id,
                                !.pc = IF run.q.splat THEN "train" ELSE "surface"]
     ELSE /\ Goto(IF run.q.splat THEN "train" ELSE "done")
          /\ UNCHANGED made
  /\ UNCHANGED <<file, store, exit, faults>>

\* The trainer leaves checkpoints while it runs.
Checkpoint ==
  /\ At("train") /\ ~run.q.only
  /\ New("ckpt", {run.scene})
  /\ store' = [store EXCEPT ![run.gui] = [@ EXCEPT !.ckpt = Id]]
  /\ UNCHANGED <<file, run, exit, faults>>

\* Training ends and the model is published to Studio.
Train ==
  /\ At("train") /\ ~run.q.only
  /\ New("gs", {run.scene})
  /\ run' = [run EXCEPT !.model = Id, !.pc = "keep"]
  /\ UNCHANGED <<file, store, exit, faults>>

\* It is saved beside the project, or as the working copy.
KeepModel ==
  /\ At("keep")
  /\ store' = [store EXCEPT ![run.gui] = [@ EXCEPT !.gs = run.model]]
  /\ Goto("store")
  /\ UNCHANGED <<file, made, exit, faults>>

\* --splat-mesh-only: the saved model file first, then the project's.
LoadModel ==
  /\ At("train") /\ run.q.only
  /\ LET m == IF run.model # 0 THEN run.model
              ELSE IF store[run.gui].gs # 0 THEN store[run.gui].gs
              ELSE IF WritesProject THEN run.arch.gs ELSE 0
     IN IF m = 0 THEN End(1)
        ELSE run' = [run EXCEPT !.model = m, !.pc = "extract"] /\ UNCHANGED exit
  /\ UNCHANGED <<file, made, store, faults>>

StoreModel ==
  /\ At("store")
  /\ IF WritesProject
     THEN /\ file' = [run.arch EXCEPT !.gs = run.model, !.info = 0]
          /\ run' = [run EXCEPT !.arch = file', !.pc = "clean"]
     ELSE Goto("clean") /\ UNCHANGED file
  /\ UNCHANGED <<made, store, exit, faults>>

\* The checkpoint goes only after the final model is saved.
RemoveCheckpoint ==
  /\ At("clean")
  /\ store' = [store EXCEPT ![run.gui] = [@ EXCEPT !.ckpt = 0]]
  /\ Goto(IF run.q.mesh THEN "extract" ELSE "done")
  /\ UNCHANGED <<file, made, exit, faults>>

Extract ==
  /\ At("extract")
  /\ New("mesh", {run.scene, run.model})
  /\ run' = [run EXCEPT !.surface = Id, !.pc = "surface"]
  /\ UNCHANGED <<file, store, exit, faults>>

\* Seeded fault: the mesh goes to its file only.
FaultStoreMesh ==
  /\ At("surface")
  /\ store' = [store EXCEPT ![run.gui] = [@ EXCEPT !.mesh = run.surface]]
  /\ Goto(IF run.q.texture THEN "texture" ELSE "done")
  /\ UNCHANGED <<file, made, exit, faults>>

\* The mesh goes to its file, and to the project unless it came by --dense
\* from internal cameras.
StoreMesh ==
  /\ At("surface")
  /\ store' = [store EXCEPT ![run.gui] = [@ EXCEPT !.mesh = run.surface]]
  /\ LET next == IF run.q.texture THEN "texture" ELSE "done"
         arch == [run.arch EXCEPT !.mesh = run.surface]
     IN IF WritesProject /\ (run.q.dataset \/ ~run.q.dense)
        THEN file' = arch /\ run' = [run EXCEPT !.arch = arch, !.pc = next]
        ELSE Goto(next) /\ UNCHANGED file
  /\ UNCHANGED <<made, exit, faults>>

\* Bake Texture: the mesh file first, then the project's.
LoadMesh ==
  /\ At("bake")
  /\ LET m == IF store[run.gui].mesh # 0 THEN store[run.gui].mesh ELSE run.arch.mesh
     IN IF m = 0 THEN End(1)
        ELSE run' = [run EXCEPT !.surface = m, !.pc = "texture"] /\ UNCHANGED exit
  /\ UNCHANGED <<file, made, store, faults>>

Texture ==
  /\ At("texture")
  /\ New("tex", {run.scene, run.surface})
  /\ store' = [store EXCEPT ![run.gui] = [@ EXCEPT !.tex = Id]]
  /\ LET arch == [run.arch EXCEPT !.tex = Id]
     IN IF WritesProject
        THEN file' = arch /\ run' = [run EXCEPT !.arch = arch, !.pc = "done"]
        ELSE Goto("done") /\ UNCHANGED file
  /\ UNCHANGED <<exit, faults>>

Done == At("done") /\ End(0) /\ UNCHANGED <<file, made, store, faults>>

\* An exception anywhere ends the run with 1; Studio and users can kill it.
Fail ==
  /\ run # None /\ faults < MaxFaults
  /\ faults' = faults + 1
  /\ \/ End(1) \/ End(-1)
  /\ UNCHANGED <<file, made, store>>

Steps ==
  \/ LoadDataset \/ LoadCameras \/ Align \/ Publish \/ Densify
  \/ Checkpoint \/ Train \/ KeepModel \/ LoadModel \/ StoreModel \/ RemoveCheckpoint
  \/ Extract \/ StoreMesh \/ LoadMesh \/ Texture \/ Done \/ Fail

----------------------------------------------------------------------------
(* Properties of the runs of users. *)

Alignments(n) == {m \in made[n].from : made[m].kind = "sfm"}

\* The Gaussians, the mesh and the texture of a project were computed from the
\* cameras that the project holds, or from external ones, also when a run
\* failed or was killed between two saves (reconstruct.cpp main,
\* replace_sfm_stage).
StagesMatchCameras ==
  file # None => \A c \in Stages \ {"sfm"} :
    file[c] # 0 => Alignments(file[c]) \subseteq {file.sfm}

\* A run that ends with 0 has stored what it made in the project; the mesh of
\* --dense with internal cameras is only a file (reconstruct.cpp main).
StoresItsResults ==
  run # None /\ WritesProject /\ exit' = 0 =>
    LET stored(n, c) == n # 0 => file # None /\ file[c] = n
    IN /\ run.fresh => stored(run.scene, "sfm")
       /\ ~run.q.only => stored(run.model, "gs")
       /\ run.q.dataset \/ ~run.q.dense => stored(run.surface, "mesh")
SuccessIsStored == [][StoresItsResults]_driverVars

=============================================================================
