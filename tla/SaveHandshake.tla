--------------------------- MODULE SaveHandshake ---------------------------
(***************************************************************************)
(* Saving the project while a trainer runs: request_project_save,          *)
(* poll_project_save and cancel_project_save of the editor                 *)
(* (apps/editor/app_commands.cpp) against checkpoint_step and the end of   *)
(* the training process (photara/src/splat/trainer.cpp, tools/             *)
(* reconstruct.cpp).  They share a control file, a reply file, the task    *)
(* checkpoint and the final model; an agent may pause, resume or stop the  *)
(* job meanwhile, the trainer may die, and each file operation may fail.   *)
(*                                                                         *)
(* A model is known by its iteration, the final model by Total.  A save of *)
(* the checkpoint is one step (TrainingCheckpoint shows what its files do  *)
(* in between) and one training run is modelled.  Operators named Fault... *)
(* are seeded faults that the specification does not use.                  *)
(***************************************************************************)
EXTENDS Integers

CONSTANTS
    Total,          \* iterations of the training run
    MaxRequests     \* bound: save requests in one behaviour

ASSUME SaveHandshakeAssumption ==
    /\ Total \in Nat \ {0}
    /\ MaxRequests \in Nat

VARIABLES
    (* files *)
    control,        \* request in the control file, 0 if empty or absent
    reply,          \* the reply file: the request answered and the response
    checkpoint,     \* iteration of the task checkpoint, 0 if there is none
    final,          \* the final model is on disk
    handed,         \* its shared-memory handoff is published
    project,        \* the project archive: training progress and Gaussians
    (* the trainer *)
    tpc,
    iteration,
    request,        \* read from the control file in this checkpoint_step
    last_control_request,
    (* the editor *)
    pc,
    running_, paused_, exit_code_,
    active_job,
    saving_training, exit_after_save, paused_before_save, checkpoint_request,
    project_results_dirty,
    final_splat_ready,
    close_approved,
    progress,       \* what save_project_to_path has inspected
    message,        \* the status line, as far as it tells of the save
    (* history *)
    requested_at,   \* iteration of the trainer when the save was requested
    wanted          \* the values of paused_ that the last pause or resume allows

files == <<control, reply, checkpoint, final, handed, project>>
trainer == <<tpc, iteration, request, last_control_request>>
job == <<running_, paused_, exit_code_, active_job>>
saving == <<saving_training, exit_after_save, paused_before_save, checkpoint_request>>
results == <<project_results_dirty, final_splat_ready>>
window == <<close_approved, message>>
history == <<requested_at, wanted>>
vars == <<files, trainer, pc, job, saving, results, window, progress, history>>

-----------------------------------------------------------------------------
Requests == 1..MaxRequests
Iterations == 0..Total
NoReply == [to |-> 0, response |-> "none"]
NoProgress == [source |-> "none", at |-> 0]

TypeOK ==
    /\ control \in Requests \cup {0}
    /\ reply \in [to : Requests \cup {0}, response : {"none", "saved", "error"}]
    /\ checkpoint \in Iterations
    /\ final \in BOOLEAN /\ handed \in BOOLEAN
    /\ project \in [info : Iterations, model : Iterations]
    /\ tpc \in {"train", "step", "save", "saved", "failed", "frozen", "final", "store",
                "cleanup", "extract", "exited", "crashed", "reaped"}
    /\ iteration \in Iterations
    /\ request \in Requests \cup {0} /\ last_control_request \in Requests \cup {0}
    /\ pc \in {"poll", "save", "write", "finish", "ui", "post", "last", "exit", "closed"}
    /\ {running_, paused_, active_job, saving_training, exit_after_save, paused_before_save,
        project_results_dirty, final_splat_ready, close_approved} \subseteq BOOLEAN
    /\ exit_code_ \in {-1, 0, 1, 2}
    /\ checkpoint_request \in Requests \cup {0}
    /\ progress \in [source : {"none", "task", "project"}, at : Iterations]
    /\ message \in {"other", "saving", "saved"}
    /\ requested_at \in Iterations /\ wanted \subseteq BOOLEAN
    /\ running_ <=> tpc # "reaped"

\* start_train has launched a new run, or one resumed from the project.
Init ==
    /\ control = 0 /\ reply = NoReply /\ final = FALSE /\ handed = FALSE
    /\ \E start \in 0..(Total - 1) :
          /\ iteration = start /\ checkpoint = start
          /\ project = [info |-> start, model |-> start]
    /\ tpc = "train" /\ request = 0 /\ last_control_request = 0
    /\ pc = "poll"
    /\ running_ = TRUE /\ paused_ = FALSE /\ exit_code_ = -1 /\ active_job = TRUE
    /\ saving_training = FALSE /\ exit_after_save = FALSE /\ paused_before_save = FALSE
    /\ checkpoint_request = 0
    /\ project_results_dirty = TRUE /\ final_splat_ready = FALSE
    /\ close_approved = FALSE /\ message = "other"
    /\ progress = NoProgress
    /\ requested_at = 0 /\ wanted = {FALSE}

-----------------------------------------------------------------------------
(* The trainer.                                                            *)

Alive == tpc \notin {"exited", "crashed", "reaped"}
NextIteration == tpc' = IF iteration = Total THEN "final" ELSE "train"

Iterate ==
    /\ tpc = "train"
    /\ iteration' = iteration + 1
    /\ tpc' = "step"
    /\ UNCHANGED <<files, request, last_control_request>>

\* checkpoint_step.  The control file is read every 100 ms at most; intervals
\* of iterations or seconds may schedule a save at any iteration.
CheckpointStep ==
    /\ tpc = "step"
    /\ request' \in {0, IF control = last_control_request THEN 0 ELSE control}
    /\ \/ tpc' = "save"
       \/ request' = 0 /\ iteration < Total /\ tpc' = "train"
    /\ UNCHANGED <<files, iteration, last_control_request>>

FaultSwallowError ==
    /\ tpc = "save"
    /\ checkpoint' \in {checkpoint, iteration}
    /\ IF request = 0 THEN NextIteration ELSE tpc' = "saved"
    /\ UNCHANGED <<control, reply, final, handed, project, iteration, request, last_control_request>>

SaveCheckpoint ==
    /\ tpc = "save"
    /\ \/ checkpoint' = iteration /\ (IF request = 0 THEN NextIteration ELSE tpc' = "saved")
       \/ UNCHANGED checkpoint /\ (IF request = 0 THEN NextIteration ELSE tpc' = "failed")
    /\ UNCHANGED <<control, reply, final, handed, project, iteration, request, last_control_request>>

Reply ==
    /\ tpc \in {"saved", "failed"}
    /\ last_control_request' = request
    /\ \/ tpc = "saved" /\ tpc' = "frozen" /\ reply' = [to |-> request, response |-> "saved"]
       \/ tpc = "failed" /\ NextIteration /\ reply' = [to |-> request, response |-> "error"]
    /\ UNCHANGED <<control, checkpoint, final, handed, project, iteration, request>>

\* "A save request freezes at an iteration boundary until the editor cancels it
\* or terminates this process".
FaultNeverFrozen ==
    /\ tpc = "frozen"
    /\ NextIteration
    /\ UNCHANGED <<files, iteration, request, last_control_request>>

Unfreeze ==
    /\ tpc = "frozen" /\ control # request
    /\ NextIteration
    /\ UNCHANGED <<files, iteration, request, last_control_request>>

\* The rest of the training process: the handoff, which may fail, the final
\* model, the removal of the checkpoint, which may fail, and the mesh.
PublishHandoff ==
    /\ tpc = "final"
    /\ handed' \in BOOLEAN
    /\ tpc' = "store"
    /\ UNCHANGED <<control, reply, checkpoint, final, project, iteration, request, last_control_request>>

StoreFinal ==
    /\ tpc = "store"
    /\ final' = TRUE
    /\ tpc' = "cleanup"
    /\ UNCHANGED <<control, reply, checkpoint, handed, project, iteration, request, last_control_request>>

RemoveCheckpoint ==
    /\ tpc = "cleanup"
    /\ checkpoint' \in {0, checkpoint}
    /\ tpc' = "extract"
    /\ UNCHANGED <<control, reply, final, handed, project, iteration, request, last_control_request>>

Exit ==
    /\ tpc = "extract"
    /\ tpc' = "exited"
    /\ UNCHANGED <<files, iteration, request, last_control_request>>

\* A suspended process takes no step, but it may be killed.
TrainerRuns ==
    /\ ~paused_
    /\ \/ Iterate \/ CheckpointStep \/ SaveCheckpoint \/ Reply \/ Unfreeze
       \/ PublishHandoff \/ StoreFinal \/ RemoveCheckpoint \/ Exit
    /\ UNCHANGED <<pc, job, saving, results, window, progress, history>>

Crash ==
    /\ Alive
    /\ tpc' = "crashed"
    /\ UNCHANGED <<files, iteration, request, last_control_request, pc, job, saving, results,
                   window, progress, history>>

-----------------------------------------------------------------------------
(* The editor's frame.                                                     *)

PollJob ==
    /\ pc = "poll"
    /\ pc' = "save"
    /\ IF running_ /\ ~Alive
       THEN /\ running_' = FALSE /\ paused_' = FALSE
            /\ exit_code_' = IF tpc = "exited" THEN 0 ELSE 1
            /\ tpc' = "reaped"
            /\ UNCHANGED active_job
       ELSE UNCHANGED <<job, tpc>>
    /\ UNCHANGED <<files, iteration, request, last_control_request, saving, results, window,
                   progress, history>>

\* cancel_project_save, when a save is pending.
FaultForgetPause ==
    /\ control' = 0
    /\ saving_training' = FALSE /\ exit_after_save' = FALSE
    /\ UNCHANGED paused_

FaultKeepControl ==
    /\ paused_' = (paused_ \/ (running_ /\ paused_before_save))
    /\ saving_training' = FALSE /\ exit_after_save' = FALSE
    /\ UNCHANGED control

CancelSave ==
    /\ control' = 0
    /\ paused_' = (paused_ \/ (running_ /\ paused_before_save))
    /\ saving_training' = FALSE /\ exit_after_save' = FALSE

\* save_project_to_path, first part: the progress to save.
Inspected ==
    IF checkpoint # 0 THEN [source |-> "task", at |-> checkpoint]
    ELSE IF ~project_results_dirty /\ project.info # 0
         THEN [source |-> "project", at |-> project.info] ELSE NoProgress

\* Second part: the checkpoint it found is opened again for its model.
WriteProject(found) ==
    LET save_progress_model == ~final_splat_ready /\ found.source # "none"
    IN  /\ save_progress_model /\ found.source = "task" => checkpoint # 0
        /\ project' = [info  |-> IF save_progress_model THEN found.at ELSE 0,
                       model |-> IF save_progress_model /\ found.source = "task" THEN checkpoint
                                 ELSE IF ~save_progress_model /\ (final_splat_ready \/ final) THEN Total
                                 ELSE project.model]
        /\ project_results_dirty' = FALSE

Acknowledged == reply.to = checkpoint_request /\ reply.response # "none"

\* poll_project_save up to save_project_to_path.
PollSave ==
    /\ pc = "save"
    /\ \/ /\ ~saving_training \/ (~Acknowledged /\ running_)
          /\ pc' = "finish"
          /\ UNCHANGED <<control, paused_, saving_training, exit_after_save, progress, message>>
       \/ /\ saving_training
          /\ IF Acknowledged THEN reply.response = "error" ELSE ~running_ /\ exit_code_ # 0
          /\ CancelSave
          /\ pc' = "finish" /\ message' = "other"
          /\ UNCHANGED progress
       \/ /\ saving_training
          /\ IF Acknowledged THEN reply.response = "saved" ELSE ~running_ /\ exit_code_ = 0
          /\ pc' = "write"
          /\ progress' = Inspected
          /\ UNCHANGED <<control, paused_, saving_training, exit_after_save, message>>
    /\ UNCHANGED <<reply, checkpoint, final, handed, project, trainer, running_, exit_code_, active_job,
                   paused_before_save, checkpoint_request, results, close_approved, history>>

SaveDone ==
    /\ WriteProject(progress)
    /\ message' = "saved"
    /\ IF exit_after_save
       THEN close_approved' = TRUE /\ saving_training' = FALSE /\ UNCHANGED <<control, paused_, exit_after_save>>
       ELSE CancelSave /\ UNCHANGED close_approved

SaveFailed ==
    /\ CancelSave
    /\ message' = "other"
    /\ UNCHANGED <<project, project_results_dirty, close_approved>>

EndSave ==
    /\ pc = "write"
    /\ pc' = "finish"
    /\ SaveDone \/ SaveFailed
    /\ progress' = NoProgress
    /\ UNCHANGED <<reply, checkpoint, final, handed, trainer, running_, exit_code_, active_job,
                   paused_before_save, checkpoint_request, final_splat_ready, history>>

\* job.pause and job.resume, from the toolbar or by an agent, who may use them
\* during a save.  A pause or resume without effect leaves paused_ as it is.
PauseOrResume ==
    /\ running_
    /\ paused_' \in BOOLEAN
    /\ wanted' = IF saving_training THEN BOOLEAN ELSE {paused_'}

\* on_job_finished, when the job has ended; poll_splat_model_load, which may
\* have received the final model by now; pump_main_thread.  A minimised window
\* goes on to pump_post_present.
FinishFrame ==
    /\ pc = "finish"
    /\ pc' \in {"ui", "post"}
    /\ active_job' = (active_job /\ running_)
    /\ project_results_dirty' = (project_results_dirty \/ (active_job /\ ~running_))
    /\ final_splat_ready' \in {final_splat_ready, handed}
    /\ PauseOrResume \/ UNCHANGED <<paused_, wanted>>
    /\ UNCHANGED <<files, trainer, running_, exit_code_, saving, window, progress, requested_at>>

\* request_project_save while the trainer runs.
FaultLeaveSuspended(exit) ==
    /\ running_ /\ ~saving_training /\ checkpoint_request < MaxRequests
    /\ checkpoint_request' = checkpoint_request + 1
    /\ reply' = NoReply /\ control' = checkpoint_request'
    /\ paused_before_save' = paused_
    /\ saving_training' = TRUE /\ exit_after_save' = exit
    /\ message' = "saving"
    /\ requested_at' = iteration /\ wanted' = {paused_}
    /\ UNCHANGED <<project, project_results_dirty, close_approved, paused_>>

RequestSave(exit) ==
    /\ running_ /\ ~saving_training /\ checkpoint_request < MaxRequests
    /\ checkpoint_request' = checkpoint_request + 1
    /\ reply' = NoReply /\ control' = checkpoint_request'
    /\ paused_before_save' = paused_ /\ paused_' = FALSE
    /\ saving_training' = TRUE /\ exit_after_save' = exit
    /\ message' = "saving"
    /\ requested_at' = iteration /\ wanted' = {paused_}
    /\ UNCHANGED <<project, project_results_dirty, close_approved>>

\* It cannot publish the request: an exception before or after the old control
\* file is removed.
RequestFails ==
    /\ running_ /\ ~saving_training /\ checkpoint_request < MaxRequests
    /\ checkpoint_request' = checkpoint_request + 1
    /\ reply' = NoReply /\ control' \in {control, 0}
    /\ message' = "other"
    /\ UNCHANGED <<paused_, saving_training, exit_after_save, paused_before_save, project,
                   project_results_dirty, close_approved, history>>

\* request_project_save without a running job saves at once.
SaveNow(exit) ==
    /\ ~running_ /\ ~saving_training
    /\ WriteProject(Inspected)
    /\ close_approved' = exit
    /\ message' = "other"
    /\ UNCHANGED <<control, reply, paused_, saving, history>>

\* "Cancel" and "Exit Without Saving", which cancels a pending save.
Dismiss(close) ==
    /\ saving_training \/ close
    /\ IF saving_training THEN CancelSave ELSE UNCHANGED <<control, paused_, saving_training, exit_after_save>>
    /\ close_approved' = (close_approved \/ close)
    /\ UNCHANGED <<reply, paused_before_save, checkpoint_request, project, project_results_dirty,
                   message, history>>

ToolbarPause ==
    /\ ~saving_training
    /\ PauseOrResume
    /\ UNCHANGED <<control, reply, saving, project, project_results_dirty, window, requested_at>>

Ui ==
    /\ pc = "ui"
    /\ \/ \E choice \in BOOLEAN : RequestSave(choice) \/ SaveNow(choice) \/ Dismiss(choice)
       \/ RequestFails
       \/ ToolbarPause
       \/ UNCHANGED <<control, reply, paused_, saving, project, project_results_dirty, window, history>>
    /\ pc' = IF close_approved' THEN "last" ELSE "post"
    /\ UNCHANGED <<checkpoint, final, handed, trainer, running_, exit_code_, active_job,
                   final_splat_ready, progress>>

\* The Stop button or an agent's stop, after the frame is presented.

Stop ==
    /\ running_' = FALSE /\ paused_' = FALSE /\ exit_code_' = 2
    /\ tpc' = "reaped"
    /\ active_job' = FALSE /\ project_results_dirty' = TRUE

Post ==
    /\ pc \in {"post", "last"}
    /\ pc' = IF pc = "last" THEN "exit" ELSE "poll"
    /\ (running_ /\ Stop) \/ UNCHANGED <<job, tpc, project_results_dirty>>
    /\ UNCHANGED <<files, iteration, request, last_control_request, saving, final_splat_ready,
                   window, progress, history>>

\* The main loop has ended: a running job is stopped.
Close ==
    /\ pc = "exit"
    /\ pc' = "closed"
    /\ IF running_ THEN running_' = FALSE /\ paused_' = FALSE /\ exit_code_' = 2 /\ tpc' = "reaped"
       ELSE UNCHANGED <<running_, paused_, exit_code_, tpc>>
    /\ UNCHANGED <<files, iteration, request, last_control_request, active_job, saving, results,
                   window, progress, history>>

Closed == pc = "closed" /\ UNCHANGED vars

Editor == PollJob \/ PollSave \/ EndSave \/ FinishFrame \/ Ui \/ Post \/ Close

Next == TrainerRuns \/ Crash \/ Editor \/ Closed

\* The frame loop runs, and the operating system schedules the trainer.
Fairness == WF_vars(Editor) /\ WF_vars(TrainerRuns)

Spec == Init /\ [][Next]_vars /\ Fairness

-----------------------------------------------------------------------------
(* Properties.                                                             *)

\* The metadata and the Gaussians of the archive come from one checkpoint,
\* although save_project_to_path opens the checkpoint twice: the trainer is
\* frozen, suspended or gone in between.
ArchiveConsistent == project.info # 0 => project.info = project.model

\* A save the trainer acknowledged holds at least the iteration at which the
\* user asked for it, whatever was cancelled, failed or stopped before.
AcknowledgedSaveIsCurrent ==
    message = "saved" /\ Acknowledged => project.model >= requested_at

\* The save resumes a suspended trainer to get its answer; when it is over, the
\* job is suspended exactly if the user had suspended it.
PauseIsKept == running_ /\ ~saving_training /\ ~close_approved => paused_ \in wanted

\* A save ends - acknowledged, failed, cancelled or with the job - unless an
\* agent suspends the trainer meanwhile or the window is closing.
SaveEnds ==
    saving_training ~> ~saving_training \/ (paused_ /\ wanted = BOOLEAN) \/ close_approved

\* A frozen trainer goes on training unless it is suspended or the window is to
\* be closed, which stops it.
FrozenIsReleased == tpc = "frozen" ~> tpc # "frozen" \/ paused_ \/ close_approved

\* What the close dialog says (ui_chrome.cpp:1368): "Save this project and its
\* current training progress?" - a save that was pending while the training
\* finished, left its final model and removed its checkpoint, and is then reported
\* done, stores that model.
FinishedTrainingIsSaved ==
    [][EndSave /\ message' = "saved" /\ final /\ checkpoint = 0
         => project'.model = Total]_vars
=============================================================================
