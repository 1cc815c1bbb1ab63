--------------------------- MODULE StudioProject ---------------------------
(***************************************************************************)
(* Studio and its project (apps/editor/app_commands.cpp): which results    *)
(* Studio holds, in its working copies, its lists and its editor, when it  *)
(* believes that they are saved, what a save writes and what the jobs that *)
(* it starts read.  A job is a run of ReconstructDriver with --gui.        *)
(*                                                                         *)
(* A session is one of Studio, or of command lines without Studio.        *)
(* One image source, one project path, one image set: new projects, mesh   *)
(* imports, exports and external datasets are left out.                    *)
(***************************************************************************)
EXTENDS ReconstructDriver

CONSTANTS
  Sessions   \* what a user does: the operations, a bound on how many of them, and
             \* the project files that there may be before

ASSUME StudioProjectAssumption ==
  /\ Sessions \subseteq
       [uses : SUBSET {"commands", "align", "train", "resume", "extract", "dense",
                       "texture", "edit", "import", "remove", "clear", "save", "open"},
        max : Nat, files : SUBSET ProjectFiles]
  /\ \A s \in Sessions : "commands" \in s.uses => s.uses = {"commands"}
  /\ None \notin {"align", "train", "dense", "texture"}

VARIABLES st, session

studioVars == <<driverVars, st, session>>
Uses == session.uses

Idle == run = None /\ st.kind = None
Ckpt == store[TRUE].ckpt
Copies == store[TRUE]
InProject == st.proj /\ file # None

\* st.proj: a project path is set; home: the working copies are in the cache
\* folder of that path; dirty, discarded: project_results_dirty and
\* saved_results_discarded; models, names: the imported models; ready, pending: the
\* model handed over by the trainer, loaded or being loaded; edit: the model
\* with the user's edits; kind: the active job; list, rev, sfm: what
\* mark_project_saved remembers; saved: a project was saved or opened; early: the
\* model that was being loaded at that save; partial: that save left out a copy that
\* it could not read, or an opening has failed since; uses: the user's operations
\* so far.
StudioInit ==
  /\ DriverInit /\ session \in Sessions /\ file \in session.files
  /\ st = [proj |-> FALSE, home |-> TRUE, dirty |-> FALSE, discarded |-> FALSE,
           models |-> <<>>, names |-> <<>>, ready |-> 0, pending |-> 0,
           seen |-> FALSE, edit |-> 0, kind |-> None, list |-> <<>>, rev |-> 0,
           sfm |-> 0, saved |-> FALSE, early |-> 0, partial |-> FALSE, uses |-> 0]

StudioTypeOK ==
  /\ DriverTypeOK
  /\ \A c \in {"ready", "pending", "edit", "rev", "sfm"} : st[c] \in 0 .. Len(made)
  /\ st.ready # 0 => st.pending = 0
  /\ run # None => run.gui = ("commands" \notin Uses) /\ run.gui = (st.kind # None)
  /\ st.saved => InProject

----------------------------------------------------------------------------
\* What Studio shows and believes.

\* existing_splat_model: the model file that Studio has.
ModelFile == IF st.ready = 0 /\ st.models # <<>> THEN st.models[1] ELSE Copies.gs

\* The model in the viewport; edits replace it (ensure_splat_renderer).
Shown == CASE st.edit # 0 -> st.edit
           [] st.edit = 0 /\ st.ready # 0 -> st.ready
           [] st.edit = 0 /\ st.ready = 0 /\ ModelFile # 0 -> ModelFile
           [] OTHER -> IF InProject /\ ~st.discarded THEN file.gs ELSE 0

\* An imported model is known by its file, here the result that the file has.
\* Edits have no file: they are named so when they are saved in place of the
\* imported models and when they become the first of them; in place of an imported
\* model they keep its file and name.
EditedComposition == -1
EditedModel == 0

\* collect_project_settings: the models to be saved, and what settings say of them.
Listed == IF st.models # <<>> /\ st.edit # 0 THEN <<st.edit>> ELSE st.models
Named == IF st.models # <<>> /\ st.edit # 0 THEN <<EditedComposition>> ELSE st.names

\* alignment_ready
Aligned == Copies.sfm # 0 \/ (InProject /\ ~st.discarded /\ file.sfm # 0)

\* training_checkpoint_info
Resumable == \/ Ckpt # 0
             \/ /\ InProject /\ ~st.dirty /\ ~st.discarded
                /\ file.info # 0 /\ file.gs # 0

\* has_unsaved_project_changes of a project that was saved or opened.
Unsaved == \/ st.dirty \/ st.kind # None
           \/ st.edit # 0 /\ st.edit # st.rev
           \/ Named # st.list
           \/ Copies.sfm # 0 /\ st.sfm # 0 /\ Copies.sfm # st.sfm

----------------------------------------------------------------------------
\* The user's operations.

Use(u) == u \in Uses /\ st.uses < session.max

\* A failure that Studio catches and goes on.
Caught(failed) ==
  /\ failed => faults < MaxFaults
  /\ faults' = IF failed THEN faults + 1 ELSE faults

\* A new job; a training drops the model that was handed over.
Job(k) ==
  IF k = "train"
  THEN [st EXCEPT !.kind = k, !.uses = @ + 1, !.dirty = TRUE,
                  !.ready = 0, !.pending = 0, !.seen = FALSE]
  ELSE [st EXCEPT !.kind = k, !.uses = @ + 1]

Launch(k, flags, output, input) ==
  /\ run' = NewRun(flags, TRUE, output, input)
  /\ exit' = None
  /\ st' = Job(k)

\* The project's cameras are copied for the trainer, and its progress for a
\* training that resumes; a new training drops the task checkpoint.
Prepared(resume) ==
  LET saved == InProject /\ ~st.discarded
      ckpt  == IF Ckpt = 0 /\ saved /\ file.gs # 0 THEN file.info ELSE Ckpt
  IN [Copies EXCEPT
        !.sfm = IF @ = 0 /\ saved THEN file.sfm ELSE @,
        !.ckpt = IF resume THEN ckpt ELSE 0]

StartTrain(resume) ==
  /\ resume => Resumable
  /\ resume => Prepared(resume).ckpt # 0
  /\ \E mesh \in {"mesh", "no-mesh"} :
       Launch("train", {"splat", "capture-mode", mesh}, FALSE, 0)
  /\ store' = [store EXCEPT ![TRUE] = Prepared(resume)]
  /\ UNCHANGED <<file, made, faults>>

Align_ ==
  /\ Use("align") /\ Idle
  /\ Launch("align", {}, st.proj, 0)
  /\ UNCHANGED <<file, made, store, faults>>

TrainNew == Use("train") /\ Idle /\ StartTrain(FALSE)
TrainResume == Use("resume") /\ Idle /\ StartTrain(TRUE)

\* Extract Mesh from Gaussians: the model file, or the edits written to one.
\* Without either, a training starts.
ExtractMesh ==
  /\ Use("extract") /\ Idle /\ Aligned
  /\ LET model == IF st.edit # 0 THEN st.edit ELSE ModelFile
     IN IF model = 0 THEN StartTrain(FALSE)
        ELSE /\ Launch("dense", {"splat", "mesh", "mesh-only", "capture-mode"}, FALSE, model)
             /\ UNCHANGED <<file, made, store, faults>>

\* Extract Mesh from MVS.
Dense ==
  /\ Use("dense") /\ Idle /\ Aligned
  /\ Launch("dense", {"dense", "mesh", "capture-mode"}, st.proj, 0)
  /\ UNCHANGED <<file, made, store, faults>>

BakeTexture ==
  /\ Use("texture") /\ Idle /\ Aligned
  /\ Copies.mesh # 0 \/ (InProject /\ ~st.discarded /\ file.mesh # 0)
  /\ Launch("texture", {"texture"}, st.proj, 0)
  /\ UNCHANGED <<file, made, store, faults>>

\* An edit of the model in the viewport; a training hides it, and so does a
\* handed model while it is loaded.
Edit ==
  /\ Use("edit") /\ Shown # 0 /\ st.pending = 0
  /\ st.kind = "train" => st.ready # 0
  /\ New("gs", {Shown})
  /\ st' = [st EXCEPT !.edit = Id, !.uses = @ + 1]
  /\ UNCHANGED <<file, store, run, exit, faults>>

\* import_gaussian_models, of a new file or one that is no longer listed.  Edits
\* become the one model before it, with the file and name of the first.
Import ==
  /\ Use("import") /\ Idle
  /\ \E id \in 1 .. Id :
       /\ \A i \in 1 .. Len(st.names) : st.names[i] # id
       /\ IF id = Id THEN New("import", {})
          ELSE made[id].kind = "import" /\ UNCHANGED made
       /\ st' = [st EXCEPT
            !.models = Append(IF st.edit # 0 THEN <<st.edit>> ELSE @, id),
            !.names = Append(CASE st.edit = 0 -> @
                               [] st.edit # 0 /\ @ # <<>> -> <<@[1]>>
                               [] OTHER -> <<EditedModel>>, id),
            !.edit = 0, !.ready = 0, !.pending = 0, !.uses = @ + 1]
  /\ UNCHANGED <<file, store, run, exit, faults>>

\* A list without its i-th member.
Without(list, i) == [k \in 1 .. Len(list) - 1 |-> IF k < i THEN list[k] ELSE list[k + 1]]

Remove ==
  /\ Use("remove") /\ Idle
  /\ \E i \in 1 .. Len(st.models) :
       st' = [st EXCEPT !.models = Without(@, i), !.names = Without(@, i),
                        !.edit = 0, !.ready = 0, !.pending = 0, !.uses = @ + 1]
  /\ UNCHANGED <<file, made, store, run, exit, faults>>

\* Delete Generated Results: every working copy but the cameras by its path,
\* the cameras with the folder that they are in, if it is the project's.
Clear ==
  /\ Use("clear") /\ Idle
  /\ store' = [store EXCEPT ![TRUE] =
       [NoCopies EXCEPT !.sfm = IF st.home THEN 0 ELSE Copies.sfm]]
  /\ st' = [st EXCEPT !.models = <<>>, !.names = <<>>, !.edit = 0, !.ready = 0, !.pending = 0,
                      !.discarded = TRUE, !.dirty = TRUE, !.uses = @ + 1]
  /\ UNCHANGED <<file, made, run, exit, faults>>

\* apply_opened_project, into a new cache folder.  A texture that cannot be
\* written there is left in the project.
Open ==
  /\ Use("open") /\ Idle /\ file # None
  /\ file.srcs # <<>> => Len(file.srcs) = Len(file.list)
  /\ \E tex \in {file.tex, 0} :
       /\ Caught(tex # file.tex)
       /\ store' = [store EXCEPT ![TRUE] = [NoCopies EXCEPT !.tex = tex]]
  /\ st' = [proj |-> TRUE, home |-> TRUE, dirty |-> FALSE, discarded |-> FALSE,
            models |-> file.srcs, names |-> file.list, ready |-> 0, pending |-> 0,
            seen |-> FALSE, edit |-> 0, kind |-> None, list |-> file.list, rev |-> 0,
            sfm |-> 0, saved |-> TRUE, early |-> 0, partial |-> FALSE, uses |-> st.uses + 1]
  /\ UNCHANGED <<file, made, run, exit>>

\* The project has models that its settings do not list: opening stops before the
\* models are there and before mark_project_saved, but what was open is gone.
OpenFails ==
  /\ Use("open") /\ Idle /\ file # None
  /\ file.srcs # <<>> /\ file.list = <<>>
  /\ store' = [store EXCEPT ![TRUE] = NoCopies]
  /\ st' = [st EXCEPT !.proj = TRUE, !.home = TRUE, !.dirty = FALSE, !.discarded = FALSE,
                      !.models = <<>>, !.names = <<>>, !.ready = 0, !.pending = 0,
                      !.seen = FALSE, !.edit = 0, !.partial = TRUE, !.uses = @ + 1]
  /\ UNCHANGED <<file, made, run, exit, faults>>

----------------------------------------------------------------------------
\* save_project_to_path

\* The training progress to save: the task's, else the project's while
\* nothing has changed the results.
Progress == CASE Ckpt # 0 -> Ckpt
              [] OTHER -> IF InProject /\ ~st.dirty /\ file.gs # 0 THEN file.info ELSE 0

SavesProgress ==
  st.ready = 0 /\ Progress # 0 /\ (st.edit = 0 \/ (run # None /\ st.kind = "train"))

Base == IF st.discarded \/ ~InProject THEN NoChunks ELSE file

\* The cameras are imported unless the project's came from this very file.
SavedSfm(arch) ==
  IF Copies.sfm = 0 \/ (arch.sfm # 0 /\ arch.src = Copies.sfm) THEN arch
  ELSE [arch EXCEPT !.sfm = Copies.sfm, !.src = Copies.sfm]

\* The working copies that a save reads and goes on without when it cannot.
Readings ==
  {c \in {"gs", "mesh", "tex"} :
     /\ Copies[c] # 0
     /\ c = "gs" => ~SavesProgress /\ st.edit = 0 /\ st.ready = 0 /\ st.models = <<>>}

\* Seeded fault: edits do not count once a model file exists.
FaultSavedGaussians(left) ==
  CASE SavesProgress -> Progress
    [] ~SavesProgress /\ ModelFile # 0 /\ "gs" \notin left -> ModelFile
    [] OTHER -> Base.gs

\* left: the copies that this save could not read; of those the project keeps
\* what it has.
SavedGaussians(left) ==
  CASE SavesProgress -> Progress
    [] ~SavesProgress /\ (st.edit # 0 \/ st.ready # 0) -> Shown
    [] ~SavesProgress /\ st.edit = 0 /\ st.ready = 0 /\ ModelFile # 0 /\ "gs" \notin left ->
         ModelFile
    [] OTHER -> Base.gs

\* Seeded fault: the old progress is not erased.
FaultSavedChunks(left) ==
  [SavedSfm(Base) EXCEPT
     !.list = IF SavesProgress \/ st.ready # 0 THEN <<>> ELSE Named,
     !.gs = SavedGaussians(left),
     !.srcs = IF SavesProgress THEN <<>> ELSE Listed,
     !.mesh = IF Copies.mesh # 0 /\ "mesh" \notin left THEN Copies.mesh ELSE @,
     !.tex = IF Copies.tex # 0 /\ "tex" \notin left THEN Copies.tex ELSE @,
     !.info = IF SavesProgress THEN Progress ELSE @]

SavedChunks(left) ==
  [SavedSfm(Base) EXCEPT
     !.list = IF SavesProgress \/ st.ready # 0 THEN <<>> ELSE Named,
     !.gs = SavedGaussians(left),
     !.srcs = IF SavesProgress THEN <<>> ELSE Listed,
     !.mesh = IF Copies.mesh # 0 /\ "mesh" \notin left THEN Copies.mesh ELSE @,
     !.tex = IF Copies.tex # 0 /\ "tex" \notin left THEN Copies.tex ELSE @,
     !.info = IF SavesProgress THEN Progress ELSE 0]

\* A model of the project's own is also written back to its file.
SavedCopies ==
  IF ~SavesProgress /\ st.edit # 0 /\ st.models = <<>> /\ Copies.gs # 0 /\ Progress = 0
  THEN [Copies EXCEPT !.gs = st.edit] ELSE Copies

\* While the trainer runs, it has written a checkpoint for this save
\* (SaveHandshake).
SaveProject ==
  /\ Use("save")
  /\ At("train") => Ckpt # 0
  /\ \E left \in SUBSET Readings :
       /\ Caught(left # {})
       /\ file' = SavedChunks(left)
       /\ st' = [st EXCEPT !.proj = TRUE, !.home = @ /\ st.proj, !.dirty = FALSE,
                           !.discarded = FALSE, !.list = Named, !.rev = st.edit,
                           !.sfm = Copies.sfm, !.saved = TRUE, !.early = st.pending,
                           !.partial = (left # {}), !.uses = @ + 1]
  /\ store' = [store EXCEPT ![TRUE] = SavedCopies]
  /\ UNCHANGED <<made, run, exit>>

----------------------------------------------------------------------------
\* What Studio does by itself.

\* The trainer's model is taken once, while its job is active, and replaces
\* the model in the editor when it is loaded.
SeeHandoff ==
  /\ st.kind = "train" /\ ~st.seen
  /\ run # None /\ run.model # 0
  /\ st' = [st EXCEPT !.seen = TRUE, !.pending = run.model]
  /\ UNCHANGED driverVars

LoadHandoff ==
  /\ st.pending # 0
  /\ st' = [st EXCEPT !.ready = st.pending, !.pending = 0, !.edit = 0]
  /\ UNCHANGED driverVars

\* Seeded fault: a job that failed does not count.
FaultFinish ==
  /\ run = None /\ st.kind # None
  /\ st' = [st EXCEPT !.dirty = @ \/ exit = 0, !.kind = None]
  /\ UNCHANGED driverVars

\* on_job_finished
Finish ==
  /\ run = None /\ st.kind # None
  /\ st' = [st EXCEPT !.dirty = TRUE, !.kind = None,
                      !.pending = IF st.kind = "train" /\ exit # 0 THEN 0 ELSE @]
  /\ UNCHANGED driverVars

\* Command lines, in a session without Studio.
Command == "commands" \in Uses /\ (\E c \in Commands : Start(c)) /\ UNCHANGED st

StudioNext ==
  /\ UNCHANGED session
  /\ \/ Align_ \/ TrainNew \/ TrainResume \/ ExtractMesh \/ Dense \/ BakeTexture
     \/ Edit \/ Import \/ Remove \/ Clear \/ Open \/ OpenFails \/ SaveProject
     \/ SeeHandoff \/ LoadHandoff \/ Finish
     \/ Command
     \/ Steps /\ UNCHANGED st

StudioSpec == StudioInit /\ [][StudioNext]_studioVars

----------------------------------------------------------------------------
(* Properties. *)

\* In a project that command lines have written, the stages fit the cameras.
CommandsMatchCameras == "commands" \in Uses => StagesMatchCameras

\* The saved progress of a project is that of its Gaussians (save_project_to_path,
\* restore_training_checkpoint).
ProgressMatchesModel ==
  file # None /\ file.info # 0 /\ file.gs # 0 => file.gs = file.info

\* The project has the listed models.  A list member that was edited may differ:
\* Studio compares lists by file and name, and when another model is imported over
\* saved edits and removed again, the later edits have the names of the saved.
SameModels ==
  /\ Len(Listed) = Len(file.srcs)
  /\ \A i \in 1 .. Len(Listed) :
       Listed[i] # file.srcs[i] => "gs" \in {made[Listed[i]].kind, made[file.srcs[i]].kind}

\* When Studio closes or opens another project without a question, the
\* project has everything that Studio made or the user edited or imported, and no
\* older model than it shows (has_unsaved_project_changes).  Six cases are left
\* out, because Studio does not ask then either.  A save that could not read a
\* working copy counts as a save of it, and what remains of a project whose opening
\* failed is compared with the project before.  A save while the trainer's model
\* is being loaded has the model that is still shown.  A save of training progress
\* leaves the imported models out.  Edits take the place of training progress in a
\* save: once they have been given up with an imported model, what is below them
\* is shown, which may be newer than the project.  And edits listed under the file
\* and name of the saved model count as that model (SameModels).
NothingLostUnasked ==
  st.saved /\ ~Unsaved /\ st.early = 0 /\ ~st.partial =>
    /\ \A c \in Stages \ {"gs"} : Copies[c] # 0 => file[c] = Copies[c]
    /\ file.info = 0 => SameModels
    /\ file.info = 0 /\ st.edit = st.rev /\ Listed = file.srcs => Shown <= file.gs
    /\ Ckpt # 0 /\ st.rev = 0 => file.info = Ckpt \/ file.gs > Ckpt

\* The saved model is one that Studio showed, or progress: never one that it
\* had replaced, unless it could not read its working copy and says nothing of it
\* (save_project_to_path).
StoresShownModel ==
  file' # file /\ file'.info = 0 /\ Shown # 0 /\ ~st'.partial => file'.gs = Shown
SaveStoresShownModel == [][StoresShownModel]_studioVars

=============================================================================
