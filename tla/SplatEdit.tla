----------------------------- MODULE SplatEdit -----------------------------
(***************************************************************************)
(* Editing the Gaussians in the viewport (apps/editor/splat_edit.cpp): the *)
(* selection, deletions, the undo and redo stacks, Simplify, and how       *)
(* Studio finds out that an edit is not in the project yet.                *)
(*                                                                         *)
(* A Gaussian is a number; a cloud is the sequence of them and stands for  *)
(* the seven arrays that the code edits in step.  A merged Gaussian is     *)
(* known by one of those it stands for.  The move tool is left out: no     *)
(* button selects it.  While a saved model is loaded again nothing is      *)
(* edited.                                                                 *)
(***************************************************************************)
EXTENDS Integers, SequencesExt

CONSTANTS
  Clouds,     \* the clouds of the models that are opened or trained
  Sessions,   \* sets of operations: what the user does in a session, and whether
              \* the GPU may refuse an upload
  UndoLimit,  \* k_undo_limit
  MaxSimplify,  \* bound on the runs of Simplify
  MaxUses     \* bound on the user's operations

ASSUME SplatEditAssumption ==
  /\ Clouds # {} /\ \A c \in Clouds : c \in Seq(Nat \ {0}) /\ c # <<>>
  /\ Sessions \subseteq SUBSET {"stroke", "volume", "menu", "delete", "undo", "redo",
                               "simplify", "refuse", "save", "open", "train"}
  /\ UndoLimit \in Nat \ {0} /\ MaxSimplify \in Nat /\ MaxUses \in Nat

VARIABLES
  Uses,      \* the session
  edit,      \* [cloud, sel, pose, dirty, rev, stroke]: the editor
  undo_, redo_,
  simplify,  \* [running, has_baseline, applied, baseline], and its runs so far
  app,       \* [model, cloud, rev, results, handoff, stale]
  uses

edit_vars == <<Uses, edit, undo_, redo_, simplify, app, uses>>

NoStroke == [on |-> FALSE, n |-> 0, sel |-> {}]
All(cloud) == DOMAIN cloud

\* sync of a new SplatEdit: its revision starts at 0 again.
Synced(cloud) == [cloud |-> cloud, sel |-> {}, pose |-> 0, dirty |-> FALSE,
                  rev |-> 0, stroke |-> NoStroke]

\* app: the model that the project has, what the last save stored of it and at
\* which revision, project_results_dirty, what the model was loaded from (the
\* trainer's memory, Studio's copy or the project) and whether that file has
\* changed since then.
EditInit ==
  /\ Uses \in Sessions
  /\ \E c \in Clouds, from \in IF "train" \in Uses THEN {"memory"} ELSE {"copy", "project"} :
       /\ edit = Synced(c)
       /\ app = [model |-> c, cloud |-> c, rev |-> 0, results |-> FALSE,
                 source |-> from, stale |-> FALSE]
  /\ undo_ = <<>> /\ redo_ = <<>> /\ uses = 0
  /\ simplify = [running |-> FALSE, has_baseline |-> FALSE, applied |-> FALSE,
                 baseline |-> <<>>, runs |-> 0]

----------------------------------------------------------------------------
\* The arrays.

\* The members of S in ascending order.
Before(S, i) == Cardinality({j \in S : j < i})
Sorted(S) == [k \in 1 .. Cardinality(S) |-> CHOOSE i \in S : Before(S, i) = k - 1]

Pick(cloud, S) == [k \in 1 .. Cardinality(S) |-> cloud[Sorted(S)[k]]]

\* take_strided and keep_strided
Kept(cloud, S) == Pick(cloud, DOMAIN cloud \ S)

\* Seeded fault: the kept Gaussians are not shifted behind those put back.
FaultSplice(kept, index, removed) ==
  [i \in 1 .. Len(kept) + Len(index) |->
     IF i \in Range(index) THEN removed[CHOOSE k \in DOMAIN index : index[k] = i]
     ELSE IF i <= Len(kept) THEN kept[i] ELSE 0]

\* splice_strided: a place that neither sequence fills stays zero.
Splice(kept, index, removed) ==
  [i \in 1 .. Len(kept) + Len(index) |->
     IF i \in Range(index) THEN removed[CHOOSE k \in DOMAIN index : index[k] = i]
     ELSE LET k == i - Before(Range(index), i)
          IN IF k <= Len(kept) THEN kept[k] ELSE 0]

\* A step on a stack, with what is to be restored beside it (was).
Step(kind, n, sel, index, removed, cloud) ==
  [kind |-> kind, n |-> n, sel |-> sel, pose |-> edit.pose, index |-> index,
   removed |-> removed, cloud |-> cloud,
   was |-> [cloud |-> edit.cloud, sel |-> sel, pose |-> edit.pose]]

Selection(n, sel) == Step("selection", n, sel, <<>>, <<>>, <<>>)
Deletion == Step("deletion", Len(edit.cloud), edit.sel,
                 Sorted(edit.sel), Pick(edit.cloud, edit.sel), <<>>)
VolumePose == Step("volume", 0, edit.sel, <<>>, <<>>, <<>>)
Replace == Step("replace", Len(edit.cloud), edit.sel, <<>>, <<>>, edit.cloud)

PushUndo(step) ==
  /\ undo_' = LET s == Append(undo_, step)
              IN IF Len(s) > UndoLimit THEN Tail(s) ELSE s
  /\ redo_' = <<>>

Put(e, cloud, sel) == [e EXCEPT !.cloud = cloud, !.sel = sel]

\* Seeded fault: what is put back is put at the end.
FaultReinsert(e, s) ==
  LET cloud == e.cloud \o s.removed
  IN Put(e, cloud, IF s.n = Len(cloud) THEN s.sel ELSE {})

\* reinsert
Reinsert(e, s) ==
  LET cloud == Splice(e.cloud, s.index, s.removed)
  IN Put(e, cloud, IF s.n = Len(cloud) THEN s.sel ELSE {})

\* erase_recorded
EraseRecorded(e, s) == Put(e, Kept(e.cloud, Range(s.index) \cap DOMAIN e.cloud), {})

\* apply_replace
ApplyReplace(e, cloud) == Put(e, cloud, {})

Edited(e) == [e EXCEPT !.dirty = TRUE, !.rev = @ + 1]

----------------------------------------------------------------------------
\* Selection.

\* apply_region, select_at and contains: what a gesture may select.
Regions == SUBSET All(edit.cloud)

Use(u) == u \in Uses /\ uses < MaxUses /\ ~app.stale /\ uses' = uses + 1

Menu ==
  /\ Use("menu") /\ ~edit.stroke.on
  /\ \E sel \in {{}, All(edit.cloud), All(edit.cloud) \ edit.sel} :
       /\ sel = {} => edit.sel # {}
       /\ sel = All(edit.cloud) => edit.sel # sel
       /\ All(edit.cloud) # {}
       /\ edit' = [edit EXCEPT !.sel = sel]
  /\ PushUndo(Selection(Len(edit.cloud), edit.sel))
  /\ UNCHANGED <<simplify, app>>

\* apply_volume
Volume(S) ==
  /\ Use("volume") /\ ~edit.stroke.on /\ S # edit.sel
  /\ edit' = [edit EXCEPT !.sel = S]
  /\ PushUndo(Selection(Len(edit.cloud), edit.sel))
  /\ UNCHANGED <<simplify, app>>

\* begin_volume_drag to end_volume_drag
DragVolume ==
  /\ Use("volume") /\ ~edit.stroke.on
  /\ edit' = [edit EXCEPT !.pose = 1 - @]
  /\ PushUndo(VolumePose)
  /\ UNCHANGED <<simplify, app>>

\* The brackets, Alt and the wheel, and a change of the tool resize or place the
\* volume; no step records that.
AdjustVolume ==
  /\ Use("volume") /\ ~edit.stroke.on
  /\ edit' = [edit EXCEPT !.pose = 1 - @]
  /\ UNCHANGED <<undo_, redo_, simplify, app>>

BeginStroke ==
  /\ Use("stroke") /\ ~edit.stroke.on /\ edit.cloud # <<>>
  /\ edit' = [edit EXCEPT !.stroke = [on |-> TRUE, n |-> Len(edit.cloud), sel |-> edit.sel]]
  /\ UNCHANGED <<undo_, redo_, simplify, app>>

\* apply_region and select_at, and the part of end_stroke that sees a change.
EndStroke(S) ==
  /\ edit.stroke.on
  /\ edit' = [edit EXCEPT !.sel = S, !.stroke = NoStroke]
  /\ IF edit.stroke.n = Len(edit.cloud) /\ edit.stroke.sel # S
     THEN PushUndo(Selection(edit.stroke.n, edit.stroke.sel))
     ELSE UNCHANGED <<undo_, redo_>>
  /\ UNCHANGED <<simplify, app, uses>>

AbortStroke ==
  /\ edit.stroke.on
  /\ edit' = [edit EXCEPT !.stroke = NoStroke,
                          !.sel = IF edit.stroke.n = Len(edit.cloud)
                                  THEN edit.stroke.sel ELSE @]
  /\ UNCHANGED <<undo_, redo_, simplify, app, uses>>

----------------------------------------------------------------------------
\* Deletion, undo and redo.

DeleteSelected ==
  /\ Use("delete") /\ ~edit.stroke.on /\ edit.sel # {}
  /\ edit' = Edited(Put(edit, Kept(edit.cloud, edit.sel), {}))
  /\ PushUndo(Deletion)
  /\ UNCHANGED <<simplify, app>>

\* The upload to the GPU throws or returns a refusal: what was taken out is put
\* back.
DeleteFails ==
  /\ Use("delete") /\ "refuse" \in Uses /\ ~edit.stroke.on /\ edit.sel # {}
  /\ edit' = Reinsert(Put(edit, Kept(edit.cloud, edit.sel), {}), Deletion)
  /\ UNCHANGED <<undo_, redo_, simplify, app>>

Restored(s) == [edit EXCEPT !.sel = IF s.n = Len(edit.cloud) THEN s.sel ELSE @]

\* The step that takes back s, on the other stack: a deletion is kept as it is,
\* with the selection that it took out.
Current(s) ==
  CASE s.kind = "deletion"  -> [s EXCEPT !.was = [cloud |-> edit.cloud, sel |-> s.was.sel,
                                                  pose |-> edit.pose]]
    [] s.kind = "replace"   -> Replace
    [] s.kind = "volume"    -> VolumePose
    [] s.kind = "selection" -> Selection(Len(edit.cloud), edit.sel)

\* An upload that throws skips the rest: the Gaussians and the stacks have
\* changed by then, dirty_ and the revision have not.
Marked(e, threw) == IF threw THEN e ELSE Edited(e)

\* Undoing a deletion uploads the model and leaves dirty_ and the revision.
Undo ==
  /\ Use("undo") /\ undo_ # <<>> /\ ~edit.stroke.on
  /\ \E threw \in {FALSE, "refuse" \in Uses} : LET s == Last(undo_) IN
       /\ edit' = CASE s.kind = "deletion"  -> Reinsert(edit, s)
                    [] s.kind = "replace"   -> Marked(ApplyReplace(edit, s.cloud), threw)
                    [] s.kind = "volume"    -> [edit EXCEPT !.pose = s.pose]
                    [] s.kind = "selection" -> Restored(s)
       /\ undo_' = Front(undo_)
       /\ redo_' = Append(redo_, Current(s))
  /\ UNCHANGED <<simplify, app>>

Redo ==
  /\ Use("redo") /\ redo_ # <<>> /\ ~edit.stroke.on
  /\ \E threw \in {FALSE, "refuse" \in Uses} : LET s == Last(redo_) IN
       /\ edit' = CASE s.kind = "deletion"  -> Marked(EraseRecorded(edit, s), threw)
                    [] s.kind = "replace"   -> Marked(ApplyReplace(edit, s.cloud), threw)
                    [] s.kind = "volume"    -> [edit EXCEPT !.pose = s.pose]
                    [] s.kind = "selection" -> Restored(s)
       /\ redo_' = Front(redo_)
       /\ undo_' = Append(undo_, Current(s))
  /\ UNCHANGED <<simplify, app>>

----------------------------------------------------------------------------
\* Simplify runs beside the editor, always from the baseline of its first run.

StartSimplify ==
  /\ Use("simplify") /\ ~simplify.running /\ simplify.runs < MaxSimplify
  /\ simplify.has_baseline \/ edit.cloud # <<>>
  /\ simplify' = [simplify EXCEPT
       !.running = TRUE, !.has_baseline = TRUE, !.runs = @ + 1,
       !.baseline = IF simplify.has_baseline THEN @ ELSE edit.cloud]
  /\ UNCHANGED <<edit, undo_, redo_, app>>

\* poll_splat_simplify and replace_from_model, which does not look at what upload
\* returns: a result that the GPU refuses that way stays and counts as applied.
FinishSimplify ==
  /\ simplify.running
  /\ \E S \in SUBSET DOMAIN simplify.baseline \ {{}} :
       edit' = Edited(ApplyReplace(edit, Pick(simplify.baseline, S)))
  /\ simplify' = [simplify EXCEPT !.running = FALSE, !.applied = TRUE]
  /\ IF simplify.applied THEN UNCHANGED <<undo_, redo_>> ELSE PushUndo(Replace)
  /\ UNCHANGED <<app, uses>>

\* The upload of the result throws, or Simplify was cancelled or failed.
SimplifyFails ==
  /\ simplify.running
  /\ \E upload \in {FALSE, "refuse" \in Uses} :
       /\ edit' = IF upload THEN ApplyReplace(edit, Replace.cloud) ELSE edit
       /\ simplify' = [simplify EXCEPT !.running = FALSE, !.applied = @ \/ upload]
  /\ UNCHANGED <<undo_, redo_, app, uses>>

----------------------------------------------------------------------------
\* The project.

\* Seeded fault: only edits count.
FaultUnsaved == edit.dirty /\ edit.rev # app.rev

\* has_unsaved_project_changes, as far as edits decide it.
Unsaved == app.results \/ (edit.dirty /\ edit.rev # app.rev)

\* save_project_to_path and mark_project_saved.  Edits are written to the
\* project and to Studio's copy, which gives those files a new time.
Save ==
  /\ Use("save")
  /\ LET stored == edit.dirty \/ app.source = "memory" IN
     app' = [app EXCEPT
       !.cloud = IF stored THEN edit.cloud ELSE @,
       !.rev = edit.rev, !.results = FALSE,
       !.stale = \/ app.source = "project"
                 \/ app.source = "copy" /\ edit.dirty /\ edit.cloud # <<>>]
  /\ UNCHANGED <<edit, undo_, redo_, simplify>>

Loaded(cloud) == /\ edit' = Synced(cloud)
                 /\ undo_' = <<>> /\ redo_' = <<>>

\* ensure_splat_renderer finds another time and poll_splat_model_load swaps in
\* a new editor; an empty model is not loaded.
Reload ==
  /\ app.stale /\ app.cloud # <<>>
  /\ Loaded(app.cloud)
  /\ app' = [app EXCEPT !.stale = FALSE]
  /\ UNCHANGED <<simplify, uses>>

\* apply_opened_project: the revision is remembered before the model is loaded.
OpenProject(c) ==
  /\ "open" \in Uses /\ uses < MaxUses /\ uses' = uses + 1 /\ ~Unsaved
  /\ Loaded(c)
  /\ app' = [app EXCEPT !.model = c, !.cloud = c, !.rev = edit.rev,
                        !.results = FALSE, !.source = "project", !.stale = FALSE]
  /\ UNCHANGED simplify

\* A training ends and hands its model over.
Train(c) ==
  /\ Use("train")
  /\ Loaded(c)
  /\ app' = [app EXCEPT !.model = c, !.results = TRUE, !.source = "memory"]
  /\ UNCHANGED simplify

EditNext ==
  /\ UNCHANGED Uses
  /\ \/ Menu \/ DragVolume \/ AdjustVolume \/ BeginStroke \/ AbortStroke
     \/ \E S \in Regions : Volume(S) \/ EndStroke(S)
     \/ DeleteSelected \/ DeleteFails \/ Undo \/ Redo
     \/ StartSimplify \/ FinishSimplify \/ SimplifyFails
     \/ Save \/ Reload
     \/ \E c \in Clouds : OpenProject(c) \/ Train(c)

EditSpec == EditInit /\ [][EditNext]_edit_vars

----------------------------------------------------------------------------
EditTypeOK ==
  /\ edit.cloud \in Seq(Nat) /\ edit.sel \subseteq DOMAIN edit.cloud
  /\ edit.dirty \in BOOLEAN /\ edit.rev \in Nat /\ edit.pose \in {0, 1}
  /\ Len(undo_) <= UndoLimit /\ Len(redo_) <= UndoLimit
  /\ simplify.applied => simplify.has_baseline
  /\ app.model \in Clouds /\ uses \in 0 .. MaxUses

\* What a step takes back is all there again, in the order of before.
Restores(s, e) ==
  /\ e.cloud = s.was.cloud
  /\ s.kind = "selection" => e.sel = s.was.sel
  /\ s.kind = "volume" => e.pose = s.was.pose

\* Undo and redo bring back exactly the Gaussians that there were before the
\* edit or the undo; undo of a selection also what was selected, of a deletion
\* what it took out, of a drag of the volume the volume; whatever was undone,
\* redone, dropped from the stack or failed in between, also when the upload
\* throws (SplatEdit::undo, SplatEdit::redo).  Other steps leave the volume, which
\* also changes without a step.  A second run of Simplify may replace the model
\* without a step and break this.
HistoryRestores ==
  [][simplify.runs <= 1 =>
       /\ Undo => LET s == Last(undo_) IN
                 /\ Restores(s, edit')
                 /\ s.kind = "deletion" => edit'.sel = s.was.sel
       /\ Redo => Restores(Last(redo_), edit')]_edit_vars

\* A deletion that the GPU refuses, in whichever way, and a Simplify that is
\* cancelled, fails or whose upload throws leave the Gaussians, the history and
\* the question whether there is something to save as they were
\* (delete_selected; replace_from_model, which keeps a result that upload refuses
\* by what it returns).
FailedEditIsUndone ==
  [][DeleteFails \/ SimplifyFails =>
       /\ edit'.cloud = edit.cloud /\ undo_' = undo_
       /\ Unsaved' = Unsaved
       /\ DeleteFails => edit'.sel = edit.sel]_edit_vars

\* If Studio would close or open another project without asking, the project
\* has what the editor holds (has_unsaved_project_changes).  Undo and models
\* that are loaded again break this.
UnsavedIsSeen ==
  app.source = "memory" /\ "undo" \notin Uses => Unsaved \/ edit.cloud = app.cloud

=============================================================================
