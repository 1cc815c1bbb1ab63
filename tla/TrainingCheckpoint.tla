------------------------- MODULE TrainingCheckpoint -------------------------
(***************************************************************************)
(* The training checkpoint on disk (photara/src/splat/checkpoint.cpp): a   *)
(* manifest that names a PLY model beside it.  Trainers, the editor's      *)
(* preparation thread and the editor's "clear" all write it, one at a time *)
(* under the lease; the editor also reads it without the lease.  Any of    *)
(* them may be killed between two file operations, and a write may fail.   *)
(*                                                                         *)
(* A model file is known by the number of its save (the code names it by   *)
(* the clock); what it holds is either partial or complete.  restore_      *)
(* training_checkpoint is a trainer that saves once.  Power loss is not    *)
(* modelled: what a killed process wrote stays written.  Operators named   *)
(* Fault... are seeded faults that the specification does not use.         *)
(***************************************************************************)
EXTENDS Integers, FiniteSets

CONSTANTS
    Procs,      \* processes that write the checkpoint
    NoProc,     \* nobody holds the lease
    MaxSaves,   \* bound: model files created in one behaviour
    MaxFaults   \* bound: processes killed and deletions failed

ASSUME TrainingCheckpointAssumption ==
    /\ NoProc \notin Procs
    /\ MaxSaves \in Nat
    /\ MaxFaults \in Nat

VARIABLES
    models,     \* the PLY files
    manifest,   \* the model the published manifest names, 0 if there is none
    staged,     \* the model the .tmp manifest names, 0 if there is none
    saves,      \* model files created so far
    lease,      \* holder of the lock file, or NoProc
    pc,         \* what each process does next
    new,        \* save_model_checkpoint: the model being written
    previous,   \* save: the model to replace; remove: the model to delete
    again,      \* a remove by prepare_training_inputs, which removes twice
    reading,    \* a manifest read without the lease, its model not yet loaded
    faults      \* history: kills, failed deletions, second removals

files == <<models, manifest, staged, saves>>
locals == <<new, previous, again>>
vars == <<files, lease, pc, locals, reading, faults>>

-----------------------------------------------------------------------------
Files == 1..MaxSaves
Contents == {"absent", "partial", "complete"}
Steps == {"idle", "load", "train", "write", "stage", "publish", "unlink",
          "cleanup", "remove", "delete", "again"}
Leased == {"load", "train", "write", "stage", "publish", "unlink", "remove", "delete"}

TypeOK ==
    /\ models \in [Files -> Contents]
    /\ manifest \in Files \cup {0} /\ staged \in Files \cup {0}
    /\ saves \in 0..MaxSaves
    /\ lease \in Procs \cup {NoProc}
    /\ pc \in [Procs -> Steps]
    /\ new \in [Procs -> Files \cup {0}]
    /\ previous \in [Procs -> Files \cup {0}]
    /\ again \in [Procs -> BOOLEAN]
    /\ reading \in Files \cup {0}
    /\ faults \in Nat
    /\ \A p \in Procs : lease = p <=> pc[p] \in Leased

Init ==
    /\ models = [f \in Files |-> "absent"]
    /\ manifest = 0 /\ staged = 0 /\ saves = 0
    /\ lease = NoProc
    /\ pc = [p \in Procs |-> "idle"]
    /\ new = [p \in Procs |-> 0]
    /\ previous = [p \in Procs |-> 0]
    /\ again = [p \in Procs |-> FALSE]
    /\ reading = 0
    /\ faults = 0

Goto(p, step) == pc' = [pc EXCEPT ![p] = step]
Delete(f) == models' = [g \in Files |-> IF g = f THEN "absent" ELSE models[g]]

\* inspect_training_checkpoint: a manifest whose model is a regular file.
Inspected == manifest # 0 /\ models[manifest] # "absent"

-----------------------------------------------------------------------------
(* A trainer: TrainingCheckpointLease, warm start, checkpoint_step.        *)

FaultNoLease(p) == TRUE
LeaseFree(p) == lease = NoProc

Train(p) ==
    /\ pc[p] = "idle" /\ LeaseFree(p)
    /\ lease' = p
    /\ Goto(p, "train")
    /\ UNCHANGED <<files, locals, reading, faults>>

\* Resuming takes the lease first, then inspects, then loads the model.
Resume(p) ==
    /\ pc[p] = "idle" /\ LeaseFree(p)
    /\ Inspected
    /\ lease' = p
    /\ previous' = [previous EXCEPT ![p] = manifest]
    /\ Goto(p, "load")
    /\ UNCHANGED <<files, new, again, reading, faults>>

Load(p) ==
    /\ pc[p] = "load"
    /\ Goto(p, "train")
    /\ UNCHANGED <<files, lease, locals, reading, faults>>

\* save_model_checkpoint, up to the catch block of its try.
BeginSave(p) ==
    /\ pc[p] = "train"
    /\ saves < MaxSaves
    /\ saves' = saves + 1
    /\ models' = [models EXCEPT ![saves + 1] = "partial"]
    /\ new' = [new EXCEPT ![p] = saves + 1]
    /\ previous' = [previous EXCEPT ![p] = IF Inspected THEN manifest ELSE 0]
    /\ Goto(p, "write")
    /\ UNCHANGED <<manifest, staged, lease, again, reading, faults>>

WriteModel(p) ==
    /\ pc[p] = "write"
    /\ models' = [models EXCEPT ![new[p]] = "complete"]
    /\ Goto(p, "stage")
    /\ UNCHANGED <<manifest, staged, saves, lease, locals, reading, faults>>

FaultUnlinkFirst(p) ==
    /\ pc[p] = "stage"
    /\ Delete(previous[p])
    /\ staged' = new[p]
    /\ Goto(p, "publish")
    /\ UNCHANGED <<manifest, saves, lease, locals, reading, faults>>

Stage(p) ==
    /\ pc[p] = "stage"
    /\ staged' = new[p]
    /\ Goto(p, "publish")
    /\ UNCHANGED <<models, manifest, saves, lease, locals, reading, faults>>

Publish(p) ==
    /\ pc[p] = "publish"
    /\ manifest' = staged /\ staged' = 0
    /\ Goto(p, "unlink")
    /\ UNCHANGED <<models, saves, lease, locals, reading, faults>>

\* The replaced model goes last; an error is ignored.
Unlink(p) ==
    /\ pc[p] = "unlink"
    /\ \/ Delete(previous[p]) /\ UNCHANGED faults
       \/ previous[p] # 0 /\ faults < MaxFaults /\ faults' = faults + 1 /\ UNCHANGED models
    /\ Goto(p, "train")
    /\ UNCHANGED <<manifest, staged, saves, lease, locals, reading>>

\* Any step before the rename may throw: the catch block removes the staged
\* manifest, once this save has created it, and the new model.
FaultKeepModel(p) ==
    /\ pc[p] \in {"write", "stage", "publish"}
    /\ staged' = IF pc[p] = "publish" THEN 0 ELSE staged
    /\ Goto(p, "train")
    /\ UNCHANGED <<models, manifest, saves, lease, locals, reading, faults>>

SaveFails(p) ==
    /\ pc[p] \in {"write", "stage", "publish"}
    /\ staged' = IF pc[p] = "publish" THEN 0 ELSE staged
    /\ \/ Delete(new[p]) /\ UNCHANGED faults
       \/ faults < MaxFaults /\ faults' = faults + 1 /\ UNCHANGED models
    /\ Goto(p, "train")
    /\ UNCHANGED <<manifest, saves, lease, locals, reading>>

\* train() returns or throws and the lease goes; a finished CLI then removes
\* the checkpoint that its final model replaces.
EndTraining(p) ==
    /\ pc[p] = "train"
    /\ lease' = NoProc
    /\ pc' \in {[pc EXCEPT ![p] = step] : step \in {"idle", "cleanup"}}
    /\ UNCHANGED <<files, locals, reading, faults>>

-----------------------------------------------------------------------------
(* remove_training_checkpoint, by the finished CLI, by the editor when it  *)
(* clears the results, and by prepare_training_inputs of a new run.        *)

Remove(p) ==
    /\ pc[p] \in {"idle", "cleanup"} /\ LeaseFree(p)
    /\ manifest # 0
    /\ lease' = p
    /\ previous' = [previous EXCEPT ![p] = manifest]
    /\ again' \in {[again EXCEPT ![p] = twice] : twice \in {FALSE, pc[p] = "idle"}}
    /\ Goto(p, "remove")
    /\ UNCHANGED <<files, new, reading, faults>>

\* There is no checkpoint, or the lease is taken: an exception, reported.
NothingRemoved(p) ==
    /\ pc[p] = "cleanup"
    /\ Goto(p, "idle")
    /\ UNCHANGED <<files, lease, locals, reading, faults>>

RemoveManifest(p) ==
    /\ pc[p] = "remove"
    /\ manifest' = 0
    /\ Goto(p, "delete")
    /\ UNCHANGED <<models, staged, saves, lease, locals, reading, faults>>

DeleteModel(p) ==
    /\ pc[p] = "delete"
    /\ Delete(previous[p])
    /\ lease' = NoProc
    /\ Goto(p, IF again[p] THEN "again" ELSE "idle")
    /\ UNCHANGED <<manifest, staged, saves, locals, reading, faults>>

\* prepare_training_inputs takes the lease once more and removes the manifest
\* that another process may have published meanwhile, but not its model.
RemoveAgain(p) ==
    /\ pc[p] = "again" /\ LeaseFree(p)
    /\ manifest' = 0
    /\ faults' = IF manifest = 0 THEN faults ELSE faults + 1
    /\ Goto(p, "idle")
    /\ UNCHANGED <<models, staged, saves, lease, locals, reading>>

-----------------------------------------------------------------------------
\* The process is killed; the operating system drops its lease.
Kill(p) ==
    /\ pc[p] # "idle"
    /\ faults < MaxFaults
    /\ lease' = IF lease = p THEN NoProc ELSE lease
    /\ Goto(p, "idle")
    /\ faults' = faults + 1
    /\ UNCHANGED <<files, locals, reading>>

\* read_model_checkpoint and then load_gaussians, without the lease
\* (checkpoint_model and training_checkpoint_bytes in the editor).
ReadManifest ==
    /\ reading = 0 /\ manifest # 0
    /\ reading' = manifest
    /\ UNCHANGED <<files, lease, pc, locals, faults>>

LoadModel ==
    /\ reading # 0
    /\ reading' = 0
    /\ UNCHANGED <<files, lease, pc, locals, faults>>

Step(p) ==
    \/ Train(p) \/ Resume(p) \/ Load(p) \/ BeginSave(p) \/ WriteModel(p) \/ Stage(p)
    \/ Publish(p) \/ Unlink(p) \/ SaveFails(p) \/ EndTraining(p) \/ Remove(p)
    \/ NothingRemoved(p) \/ RemoveManifest(p) \/ DeleteModel(p) \/ RemoveAgain(p) \/ Kill(p)

Next == (\E p \in Procs : Step(p)) \/ ReadManifest \/ LoadModel

Spec == Init /\ [][Next]_vars

-----------------------------------------------------------------------------
(* Properties.                                                             *)

\* Whatever process is killed and whatever write fails, a published manifest
\* names a model that is there and complete: the last good checkpoint is never
\* lost to a failed replacement ("Model publication precedes the manifest").
\* A reader without the lease may find its model gone, but never half written.
ManifestIsLoadable ==
    /\ manifest # 0 => models[manifest] = "complete"
    /\ reading # 0 => models[reading] # "partial"

\* The model a resuming trainer has inspected is still there when it loads it,
\* although other processes replace and remove checkpoints.
ResumeFindsItsModel == \A p \in Procs : pc[p] = "load" => models[previous[p]] = "complete"

\* Files that nothing refers to: each is due to a kill, a deletion that failed
\* or a second removal, and each of those leaves one at most.
InUse == {manifest} \cup {new[p] : p \in {q \in Procs : pc[q] \in {"write", "stage", "publish"}}}
                    \cup {previous[p] : p \in {q \in Procs : pc[q] \in {"unlink", "delete"}}}
LeaksBounded == Cardinality({f \in Files : models[f] # "absent"} \ InUse) <= faults
=============================================================================
