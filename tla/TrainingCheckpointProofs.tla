----------------------- MODULE TrainingCheckpointProofs -----------------------
(***************************************************************************)
(* For any number of processes, saves and faults: the published checkpoint *)
(* can be loaded, a trainer that resumes finds the model it has inspected, *)
(* and every file that nothing refers to is due to a fault of its own.     *)
(*                                                                         *)
(* The invariant says for each step under the lease what the process holds *)
(* in new and previous relative to the published manifest.  The lease is   *)
(* what makes it inductive: nobody else is at such a step.                 *)
(***************************************************************************)
EXTENDS TrainingCheckpoint, FiniteSetTheorems, TLAPS

Saving == {"write", "stage", "publish"}

\* Numbers that no save has used yet name no file.
Fresh == \A f \in Files : f > saves => models[f] = "absent"

Published ==
    /\ manifest <= saves
    /\ manifest # 0 => models[manifest] = "complete"

\* What a process under the lease knows of the files.
Holds ==
    \A p \in Procs :
        /\ pc[p] \in Saving => /\ new[p] \in Files /\ new[p] <= saves
                               /\ new[p] # manifest /\ previous[p] = manifest
        /\ pc[p] \in {"stage", "publish"} => models[new[p]] = "complete"
        /\ pc[p] = "publish" => staged = new[p]
        /\ pc[p] = "unlink" => previous[p] # manifest
        /\ pc[p] = "load" => previous[p] = manifest /\ manifest # 0
        /\ pc[p] = "remove" => previous[p] = manifest
        /\ pc[p] = "delete" => manifest = 0

Reader == reading # 0 => reading <= saves /\ models[reading] # "partial"

IInv == TypeOK /\ Fresh /\ Published /\ Holds /\ Reader

LEMMA Start == Init => IInv /\ LeaksBounded
<1> SUFFICES ASSUME Init PROVE IInv /\ LeaksBounded
  OBVIOUS
<1>1. IInv
  BY TrainingCheckpointAssumption
     DEF Init, IInv, TypeOK, Fresh, Published, Holds, Reader, Files, Contents, Steps, Leased, Saving
<1>2. {f \in Files : models[f] # "absent"} \ InUse = {}
  BY DEF Init
<1> QED
  BY <1>1, <1>2, FS_EmptySet DEF Init, LeaksBounded

\* The lease is exclusive: one process at most is at a step that needs it.
LEMMA Exclusive ==
  ASSUME TypeOK, NEW p \in Procs, NEW q \in Procs, pc[p] \in Leased, p # q
  PROVE  pc[q] \notin Leased /\ lease = p
  BY DEF TypeOK

\* Deleting a file, or failing to, changes no other file.
LEMMA Deleted ==
  ASSUME models \in [Files -> Contents], NEW x, Delete(x) \/ UNCHANGED models
  PROVE  /\ models' \in [Files -> Contents]
         /\ \A f \in Files : /\ models'[f] \in {models[f], "absent"}
                             /\ f # x => models'[f] = models[f]
  BY DEF Delete, Contents

LEMMA TrainStep == ASSUME IInv, NEW p \in Procs, Train(p) PROVE IInv'
<1>1. \A q \in Procs : pc[q] \notin Leased
  BY TrainingCheckpointAssumption DEF Train, LeaseFree, IInv, TypeOK
<1>2. NoProc # p
  BY TrainingCheckpointAssumption
<1> QED
  BY <1>1, <1>2 DEF Train, LeaseFree, Goto, files, locals, IInv, TypeOK, Fresh, Published, Holds, Reader,
         Steps, Leased, Saving
LEMMA ResumeStep == ASSUME IInv, NEW p \in Procs, Resume(p) PROVE IInv'
<1>1. \A q \in Procs : pc[q] \notin Leased
  BY TrainingCheckpointAssumption DEF Resume, LeaseFree, IInv, TypeOK
<1>2. NoProc # p
  BY TrainingCheckpointAssumption
<1> QED
  BY <1>1, <1>2 DEF Resume, Inspected, LeaseFree, Goto, files, locals, IInv, TypeOK, Fresh, Published, Holds,
         Reader, Steps, Leased, Saving
LEMMA LoadStep == ASSUME IInv, NEW p \in Procs, Load(p) PROVE IInv'
  BY DEF Load, Goto, files, locals, IInv, TypeOK, Fresh, Published, Holds, Reader,
         Steps, Leased, Saving
LEMMA BeginSaveStep == ASSUME IInv, NEW p \in Procs, BeginSave(p) PROVE IInv'
<1> USE TrainingCheckpointAssumption DEF BeginSave, Goto, IInv
<1>1. TypeOK'
  BY DEF TypeOK, Files, Contents, Steps, Leased, Inspected
<1>2. saves + 1 \in Files /\ saves' = saves + 1 /\ manifest # saves + 1 /\ reading # saves + 1
  BY DEF TypeOK, Files, Published, Reader
<1>3. \A f \in Files : f # saves + 1 => models'[f] = models[f]
  BY DEF TypeOK
<1>4. Fresh' /\ Published' /\ Reader'
  BY <1>2, <1>3 DEF TypeOK, Files, Fresh, Published, Reader
<1>5. previous'[p] = manifest
  BY DEF TypeOK, Published, Inspected
<1>6. Holds'
  BY <1>2, <1>5, Exclusive DEF TypeOK, Holds, Leased, Saving
<1> QED
  BY <1>1, <1>4, <1>6
LEMMA WriteModelStep == ASSUME IInv, NEW p \in Procs, WriteModel(p) PROVE IInv'
<1>1. \A q \in Procs : q # p => pc[q] \notin Leased
  BY Exclusive DEF WriteModel, IInv, Leased
<1> QED
  BY <1>1 DEF WriteModel, Goto, locals, IInv, TypeOK, Files, Contents, Fresh, Published, Holds,
         Reader, Steps, Leased, Saving
LEMMA StageStep == ASSUME IInv, NEW p \in Procs, Stage(p) PROVE IInv'
  BY DEF Stage, Goto, locals, IInv, TypeOK, Fresh, Published, Holds, Reader,
         Steps, Leased, Saving
LEMMA PublishStep == ASSUME IInv, NEW p \in Procs, Publish(p) PROVE IInv'
<1>1. \A q \in Procs : q # p => pc[q] \notin Leased
  BY Exclusive DEF Publish, IInv, Leased
<1> QED
  BY <1>1 DEF Publish, Goto, locals, IInv, TypeOK, Fresh, Published, Holds, Reader,
         Steps, Leased, Saving, Files
LEMMA UnlinkStep == ASSUME IInv, NEW p \in Procs, Unlink(p) PROVE IInv'
<1>1. \A q \in Procs : q # p => pc[q] \notin Leased
  BY Exclusive DEF Unlink, IInv, Leased, Saving
<1>2. /\ models' \in [Files -> Contents]
      /\ \A f \in Files : models'[f] \in {models[f], "absent"}
      /\ manifest # 0 => models'[manifest] = models[manifest]
  <2>1. models \in [Files -> Contents] /\ (manifest # 0 => manifest \in Files)
    BY DEF IInv, TypeOK
  <2>2. Delete(previous[p]) \/ UNCHANGED models
    BY DEF Unlink
  <2>3. manifest # previous[p]
    BY DEF Unlink, IInv, Holds, Saving
  <2> QED
    BY <2>1, <2>2, <2>3, Deleted
<1>3. TypeOK'
  BY <1>2 DEF Unlink, Goto, locals, IInv, TypeOK, Steps, Leased, Saving
<1>4. Fresh' /\ Published' /\ Reader'
  BY <1>2 DEF Unlink, IInv, TypeOK, Fresh, Published, Reader, locals
<1>5. Holds'
  BY <1>1 DEF Unlink, Goto, locals, IInv, TypeOK, Holds, Leased, Saving
<1> QED
  BY <1>3, <1>4, <1>5 DEF IInv
LEMMA SaveFailsStep == ASSUME IInv, NEW p \in Procs, SaveFails(p) PROVE IInv'
<1>1. \A q \in Procs : q # p => pc[q] \notin Leased
  BY Exclusive DEF SaveFails, IInv, Leased, Saving
<1>2. /\ models' \in [Files -> Contents]
      /\ \A f \in Files : models'[f] \in {models[f], "absent"}
      /\ manifest # 0 => models'[manifest] = models[manifest]
  <2>1. models \in [Files -> Contents] /\ (manifest # 0 => manifest \in Files)
    BY DEF IInv, TypeOK
  <2>2. Delete(new[p]) \/ UNCHANGED models
    BY DEF SaveFails
  <2>3. manifest # new[p]
    BY DEF SaveFails, IInv, Holds, Saving
  <2> QED
    BY <2>1, <2>2, <2>3, Deleted
<1>3. TypeOK'
  BY <1>2 DEF SaveFails, Goto, locals, IInv, TypeOK, Steps, Leased, Saving
<1>4. Fresh' /\ Published' /\ Reader'
  BY <1>2 DEF SaveFails, IInv, TypeOK, Fresh, Published, Reader, locals
<1>5. Holds'
  BY <1>1 DEF SaveFails, Goto, locals, IInv, TypeOK, Holds, Leased, Saving
<1> QED
  BY <1>3, <1>4, <1>5 DEF IInv
LEMMA EndTrainingStep == ASSUME IInv, NEW p \in Procs, EndTraining(p) PROVE IInv'
  BY TrainingCheckpointAssumption
     DEF EndTraining, files, locals, IInv, TypeOK, Fresh, Published, Holds, Reader,
         Steps, Leased, Saving
LEMMA RemoveStep == ASSUME IInv, NEW p \in Procs, Remove(p) PROVE IInv'
<1>1. \A q \in Procs : pc[q] \notin Leased
  BY TrainingCheckpointAssumption DEF Remove, LeaseFree, IInv, TypeOK
<1>2. /\ \A q \in Procs : q # p => pc'[q] = pc[q]
      /\ pc'[p] = "remove" /\ previous'[p] = manifest /\ lease' = p
      /\ UNCHANGED <<files, new, reading>>
  BY DEF Remove, Goto, IInv, TypeOK
<1>3. TypeOK'
  <2>1. again' \in [Procs -> BOOLEAN]
    BY DEF Remove, IInv, TypeOK
  <2> QED
    BY <1>1, <1>2, <2>1 DEF Remove, Goto, files, IInv, TypeOK, Steps, Leased
<1>4. Fresh' /\ Published' /\ Reader'
  BY <1>2 DEF IInv, Fresh, Published, Reader, files
<1>5. Holds'
  BY <1>1, <1>2 DEF Holds, Leased, Saving, files
<1> QED
  BY <1>3, <1>4, <1>5 DEF IInv
LEMMA NothingRemovedStep == ASSUME IInv, NEW p \in Procs, NothingRemoved(p) PROVE IInv'
  BY DEF NothingRemoved, Goto, files, locals, IInv, TypeOK, Fresh, Published, Holds, Reader,
         Steps, Leased, Saving
LEMMA RemoveManifestStep == ASSUME IInv, NEW p \in Procs, RemoveManifest(p) PROVE IInv'
<1>1. \A q \in Procs : q # p => pc[q] \notin Leased
  BY Exclusive DEF RemoveManifest, IInv, Leased
<1> QED
  BY <1>1 DEF RemoveManifest, Goto, locals, IInv, TypeOK, Files, Fresh, Published, Holds, Reader,
         Steps, Leased, Saving
LEMMA DeleteModelStep == ASSUME IInv, NEW p \in Procs, DeleteModel(p) PROVE IInv'
<1>1. \A q \in Procs : q # p => pc[q] \notin Leased
  BY Exclusive DEF DeleteModel, IInv, Leased
<1> QED
  BY <1>1, TrainingCheckpointAssumption
     DEF DeleteModel, Delete, Goto, locals, IInv, TypeOK, Contents, Files, Fresh, Published, Holds,
         Reader, Steps, Leased, Saving
LEMMA RemoveAgainStep == ASSUME IInv, NEW p \in Procs, RemoveAgain(p) PROVE IInv'
<1>1. \A q \in Procs : pc[q] \notin Leased
  BY TrainingCheckpointAssumption DEF RemoveAgain, LeaseFree, IInv, TypeOK
<1> QED
  BY <1>1 DEF RemoveAgain, Goto, locals, IInv, TypeOK, Files, Fresh, Published, Holds, Reader,
         Steps, Leased, Saving
LEMMA KillStep == ASSUME IInv, NEW p \in Procs, Kill(p) PROVE IInv'
  BY TrainingCheckpointAssumption
     DEF Kill, Goto, files, locals, IInv, TypeOK, Fresh, Published, Holds, Reader,
         Steps, Leased, Saving

LEMMA NextIInv == IInv /\ [Next]_vars => IInv'
<1> SUFFICES ASSUME IInv, [Next]_vars PROVE IInv'
  OBVIOUS
<1>1. CASE UNCHANGED vars
  BY <1>1 DEF vars, files, locals, IInv, TypeOK, Fresh, Published, Holds, Reader
<1>2. ASSUME NEW p \in Procs, Step(p) PROVE IInv'
  BY <1>2, TrainStep, ResumeStep, LoadStep, BeginSaveStep, WriteModelStep, StageStep,
     PublishStep, UnlinkStep, SaveFailsStep, EndTrainingStep, RemoveStep, NothingRemovedStep,
     RemoveManifestStep, DeleteModelStep, RemoveAgainStep, KillStep DEF Step
<1>3. CASE ReadManifest
  BY <1>3 DEF ReadManifest, files, locals, IInv, TypeOK, Fresh, Published, Holds, Reader
<1>4. CASE LoadModel
  BY <1>4 DEF LoadModel, files, locals, IInv, TypeOK, Fresh, Published, Holds, Reader
<1> QED
  BY <1>1, <1>2, <1>3, <1>4 DEF Next

LEMMA InductiveInvariant == Spec => []IInv
  BY Start, NextIInv, PTL DEF Spec

-----------------------------------------------------------------------------
\* The published checkpoint is complete, whoever was killed when.
THEOREM CheckpointSurvives == Spec => []ManifestIsLoadable
<1>1. IInv => ManifestIsLoadable
  BY DEF IInv, Published, Reader, ManifestIsLoadable
<1> QED
  BY <1>1, InductiveInvariant, PTL

\* The lease protects the model between its inspection and its use.
THEOREM ResumeSucceeds == Spec => []ResumeFindsItsModel
<1>1. IInv => ResumeFindsItsModel
  BY DEF IInv, Published, Holds, ResumeFindsItsModel
<1> QED
  BY <1>1, InductiveInvariant, PTL

-----------------------------------------------------------------------------
\* Files that nothing refers to.
Leaked == {f \in Files : models[f] # "absent"} \ InUse

LEMMA LeakedFiles ==
  \A f : f \in Leaked <=>
    /\ f \in Files /\ models[f] # "absent" /\ f # manifest
    /\ \A q \in Procs : pc[q] \in Saving => new[q] # f
    /\ \A q \in Procs : pc[q] \in {"unlink", "delete"} => previous[q] # f
  BY DEF Leaked, InUse, Saving

LEMMA LeakedFilesNext ==
  \A f : f \in Leaked' <=>
    /\ f \in Files /\ models'[f] # "absent" /\ f # manifest'
    /\ \A q \in Procs : pc'[q] \in Saving => new'[q] # f
    /\ \A q \in Procs : pc'[q] \in {"unlink", "delete"} => previous'[q] # f
  BY DEF Leaked, InUse, Saving

\* A step leaks nothing, or one file to a fault.
Leaks ==
    \/ faults' = faults /\ Leaked' \subseteq Leaked
    \/ faults' = faults + 1 /\ \E x : Leaked' \subseteq Leaked \cup {x}

LEMMA Counted == ASSUME IInv, Leaks, LeaksBounded PROVE LeaksBounded'
<1>1. IsFiniteSet(Files)
  BY TrainingCheckpointAssumption, FS_Interval DEF Files
<1>2. IsFiniteSet(Leaked) /\ Cardinality(Leaked) \in Nat /\ faults \in Nat
  BY <1>1, FS_Subset, FS_CardinalityType DEF Leaked, IInv, TypeOK
<1>3. Cardinality(Leaked) <= faults
  BY DEF LeaksBounded, Leaked
<1>4. CASE faults' = faults /\ Leaked' \subseteq Leaked
  <2>1. Cardinality(Leaked') <= Cardinality(Leaked) /\ Cardinality(Leaked') \in Nat
    BY <1>2, <1>4, FS_Subset, FS_CardinalityType
  <2> QED
    BY <1>2, <1>3, <1>4, <2>1 DEF LeaksBounded, Leaked
<1>5. CASE faults' = faults + 1 /\ \E x : Leaked' \subseteq Leaked \cup {x}
  <2>1. PICK x : Leaked' \subseteq Leaked \cup {x}
    BY <1>5
  <2>2. /\ IsFiniteSet(Leaked \cup {x}) /\ Cardinality(Leaked \cup {x}) \in Nat
        /\ Cardinality(Leaked \cup {x}) <= Cardinality(Leaked) + 1
    BY <1>2, FS_AddElement, FS_CardinalityType
  <2>3. Cardinality(Leaked') <= Cardinality(Leaked \cup {x}) /\ Cardinality(Leaked') \in Nat
    BY <2>1, <2>2, FS_Subset, FS_CardinalityType
  <2> QED
    BY <1>2, <1>3, <1>5, <2>2, <2>3 DEF LeaksBounded, Leaked
<1> QED
  BY <1>4, <1>5 DEF Leaks

LEMMA NextLeaks ==
  ASSUME IInv, NEW p \in Procs, Step(p)
  PROVE  Leaks
<1> USE LeakedFiles, LeakedFilesNext DEF IInv, TypeOK, Goto, Leaks, Saving
<1>1. CASE Train(p) \/ Load(p) \/ NothingRemoved(p)
  BY <1>1 DEF Train, Load, NothingRemoved, files, locals
<1>2. CASE Resume(p) \/ Remove(p)
  BY <1>2 DEF Resume, Remove, files
<1>3. CASE EndTraining(p)
  BY <1>3 DEF EndTraining, files, locals
<1>4. CASE BeginSave(p)
  BY <1>4 DEF BeginSave
<1>5. CASE WriteModel(p) \/ Stage(p)
  BY <1>5 DEF WriteModel, Stage, locals
<1>6. CASE Publish(p)
  BY <1>6 DEF Publish, Holds, locals
<1>7. CASE Unlink(p)
  BY <1>7 DEF Unlink, Delete, locals
<1>8. CASE SaveFails(p)
  <2>1. /\ manifest' = manifest /\ new' = new /\ previous' = previous
        /\ p \in Procs /\ pc' = [pc EXCEPT ![p] = "train"] /\ pc[p] \in Saving
    BY <1>8 DEF SaveFails, locals
  <2>2. ASSUME Delete(new[p]), UNCHANGED faults PROVE Leaks
    <3>1. \A f : f \in Leaked' => f # new[p] /\ models[f] # "absent"
      BY <2>2 DEF Delete
    <3>2. Leaked' \subseteq Leaked
      BY <2>1, <3>1
    <3> QED
      BY <2>2, <3>2
  <2>3. ASSUME faults' = faults + 1, UNCHANGED models PROVE Leaks
    <3>1. Leaked' \subseteq Leaked \cup {new[p]}
      BY <2>1, <2>3
    <3> QED
      BY <2>3, <3>1
  <2> QED
    BY <1>8, <2>2, <2>3 DEF SaveFails
<1>9. CASE RemoveManifest(p)
  BY <1>9 DEF RemoveManifest, Holds, locals
<1>10. CASE DeleteModel(p)
  BY <1>10 DEF DeleteModel, Delete, locals
<1>11. CASE RemoveAgain(p)
  <2>1. /\ models' = models /\ new' = new /\ previous' = previous
        /\ p \in Procs /\ pc[p] = "again" /\ pc' = [pc EXCEPT ![p] = "idle"]
    BY <1>11 DEF RemoveAgain, locals
  <2>2. Leaked' \subseteq Leaked \cup {manifest}
    BY <2>1
  <2>3. CASE manifest = 0
    <3>1. manifest \notin Leaked'
      BY <2>3 DEF Files
    <3>2. Leaked' \subseteq Leaked
      BY <2>2, <3>1
    <3> QED
      BY <1>11, <2>3, <3>2 DEF RemoveAgain
  <2>4. CASE manifest # 0
    <3>1. faults' = faults + 1
      BY <1>11, <2>4 DEF RemoveAgain
    <3> QED
      BY <2>2, <3>1
  <2> QED
    BY <2>3, <2>4
<1>12. CASE Kill(p)
  BY <1>12 DEF Kill, files, locals
<1> QED
  BY <1>1, <1>2, <1>3, <1>4, <1>5, <1>6, <1>7, <1>8, <1>9, <1>10, <1>11, <1>12 DEF Step

\* Every file that is left behind has a kill, a failed deletion or a second
\* removal to answer for it, for any number of each.
THEOREM LeaksAreCounted == Spec => []LeaksBounded
<1>1. IInv /\ LeaksBounded /\ [Next]_vars => LeaksBounded'
  <2> SUFFICES ASSUME IInv, LeaksBounded, [Next]_vars PROVE LeaksBounded'
    OBVIOUS
  <2>1. ASSUME NEW p \in Procs, Step(p) PROVE LeaksBounded'
    BY <2>1, NextLeaks, Counted
  <2>2. CASE ReadManifest \/ LoadModel \/ UNCHANGED vars
    BY <2>2 DEF ReadManifest, LoadModel, vars, files, locals, LeaksBounded, InUse
  <2> QED
    BY <2>1, <2>2 DEF Next
<1> QED
  BY <1>1, Start, InductiveInvariant, PTL DEF Spec
=============================================================================
