---------------------------- MODULE AgentRecipe -----------------------------
(***************************************************************************)
(* An agent's align-and-train recipe (tools/photara_mcp/recipes.py) driving*)
(* Studio: StudioJob composed with the client that observes its operations.*)
(* Every step of `advance` is a photara-ctl process of its own, which looks*)
(* for a running Studio and binds to its session when it starts, so Studio *)
(* may be restarted, and the user may open another project, between two    *)
(* steps of one advance.  Answers may be lost: the handler stops waiting   *)
(* for a command that expires, or that is executed all the same.           *)
(*                                                                         *)
(* A restarted Studio has an empty ledger and numbers its operations from  *)
(* one again.  The project that a state call reports includes whether it   *)
(* has unsaved changes, which a running job counts as.  The verdict of the *)
(* quality call is abstracted, and one recipe is run.  Operators named     *)
(* Fault... are seeded faults that the specification does not use.         *)
(***************************************************************************)
EXTENDS StudioJob

CONSTANT Crews   \* the casts to try, one per behaviour

\* Whether there is a recipe, a user at the window and another agent, whether
\* the project starts without unsaved changes, whether splats are exported, and the
\* bounds on operations (MaxOps at most), on restarts or projects opened, and on
\* answers that do not arrive.
ASSUME AgentRecipeAssumption ==
    Crews \subseteq [recipe : BOOLEAN, user : BOOLEAN, agent : BOOLEAN,
                     clean : BOOLEAN, exports : BOOLEAN,
                     ops : 0..MaxOps, changes : Nat, lost : Nat]

VARIABLES
    crew,       \* the cast of this behaviour
    session,    \* the running Studio
    project,    \* the project it has open
    exporting,  \* splat_export.job: a splat model is being written
    saved,      \* "never", "clean" or "changed" since the last save
    frozen,     \* outcomes that were recorded while an export ran
    recipe,     \* ReconstructionRecipe.runs[run_id]
    call,       \* the photara-ctl process of the advance, and its session
    checked,    \* history: session and project as the last `state` call saw them
    aligned,    \* history: the alignment that the recipe found succeeded
    lost        \* answers lost so far

env == <<session, project, exporting, frozen, saved>>
studio == <<session, project, exporting, frozen>>
client == <<crew, recipe, call, checked, aligned, lost>>
recipeVars == <<vars, env, client>>

-----------------------------------------------------------------------------
Over == {"succeeded", "failed"}
Calls == {"none", "state", "wait", "start", "quality"}
NoSession == 0
Inputs == [session : Nat, project : Nat, dirty : BOOLEAN]

\* has_unsaved_project_changes
Dirty == saved # "clean" \/ running_

\* What advance compares: the session and all that is reported of the project.
Input == [session |-> session, project |-> project, dirty |-> Dirty]
NoInput == [session |-> 0, project |-> 0, dirty |-> FALSE]

RecipeTypeOK ==
    /\ TypeOK
    /\ crew \in Crews
    /\ session \in 1..(crew.changes + 1) /\ project \in 1..(crew.changes + 1)
    /\ saved \in {"never", "clean", "changed"}
    /\ exporting \in BOOLEAN /\ frozen \subseteq Ops
    /\ recipe \in [status : {"none", "ready", "running"} \cup Over, step : 0..2,
                   op : Ops \cup {None}, input : Inputs]
    /\ call \in [at : Calls, session : Nat]
    /\ checked \in Inputs
    /\ aligned \in Ops \cup {None}
    /\ lost \in 0..crew.lost

Idle == [at |-> "none", session |-> NoSession]
Ctl(what) == [at |-> what, session |-> NoSession]

RecipeInit ==
    /\ Init
    /\ crew \in Crews
    /\ session = 1 /\ project = 1
    /\ exporting = FALSE /\ frozen = {}
    /\ saved = IF crew.clean THEN "clean" ELSE "never"
    /\ iconified => crew.user
    /\ recipe = [status |-> "none", step |-> 0, op |-> None, input |-> NoInput]
    /\ call = Idle
    /\ checked = NoInput /\ aligned = None /\ lost = 0

-----------------------------------------------------------------------------
(* The client between its calls.                                           *)

\* The host calls advance on a recipe that is not over.
Advance ==
    /\ call = Idle /\ recipe.status \in {"ready", "running"}
    /\ call' = Ctl("state")
    /\ UNCHANGED <<vars, env, crew, recipe, checked, aligned, lost>>

\* photara-ctl starts and takes the session from the discovery file.
Bind ==
    /\ call.at # "none" /\ call.session = NoSession
    /\ call' = [call EXCEPT !.session = session]
    /\ UNCHANGED <<vars, env, crew, recipe, checked, aligned, lost>>

Failed == [recipe EXCEPT !.status = "failed"]

\* An error of `wait` fails the recipe; any other is raised to the host.
CallError ==
    /\ call' = Idle
    /\ recipe' = IF call.at = "wait" THEN Failed ELSE recipe

\* SESSION_CHANGED, or nobody answers at the port of the Studio that is gone.
SessionChanged ==
    /\ call.session \notin {NoSession, session}
    /\ CallError
    /\ UNCHANGED <<vars, env, crew, checked, aligned, lost>>

\* The handler gives up, and the command expires in the queue.
TimesOut ==
    /\ call.session = session /\ lost < crew.lost
    /\ CallError
    /\ lost' = lost + 1
    /\ UNCHANGED <<vars, env, crew, checked, aligned>>

-----------------------------------------------------------------------------
(* Studio's answers, in the pumps of its frame.                            *)

\* ReconstructionRecipe.start: refused while Studio is busy.  Its patch of the
\* iterations, which comes after the state call, may change a clean project.
Create ==
    /\ crew.recipe /\ recipe.status = "none"
    /\ ~running_ /\ prepare = "none"
    /\ recipe' = [recipe EXCEPT !.status = "ready", !.input = Input]
    /\ saved' \in {saved} \cup (IF saved = "clean" THEN {"changed"} ELSE {})
    /\ UNCHANGED <<crew, call, checked, aligned, lost>>

NextCall(run) ==
    IF run.op # None THEN "wait" ELSE IF run.step = 2 THEN "quality" ELSE "start"

FaultNoSessionCheck ==
    /\ call.at = "state"
    /\ checked' = Input
    /\ recipe' = recipe /\ call' = Ctl(NextCall(recipe))
    /\ UNCHANGED <<crew, aligned, lost>>

\* The state must show the session and the input that the recipe was made for.
AnswerState ==
    /\ call.at = "state"
    /\ checked' = Input
    /\ IF Input = recipe.input
       THEN recipe' = recipe /\ call' = Ctl(NextCall(recipe))
       ELSE recipe' = Failed /\ call' = Idle
    /\ UNCHANGED <<crew, aligned, lost>>

\* What the wait takes for a job that goes on: also an outcome that says a splat
\* export is running, as it was when the operation ended.
GoesOn(op) ==
    \/ active_operation_' = op
    \/ op \in frozen' /\ completed_operations_'[op] # "unknown"

\* operation_status: an operation that goes on is asked for again, until the
\* wait times out; one that the ledger does not know is NOT_FOUND, an error.
\* After a success the same advance goes on to the next step.
AnswerWait ==
    /\ call.at = "wait"
    /\ \/ /\ GoesOn(recipe.op)
          /\ call' \in {call, Idle}
          /\ UNCHANGED <<recipe, aligned>>
       \/ /\ ~GoesOn(recipe.op)
          /\ completed_operations_'[recipe.op] # "succeeded"
          /\ recipe' = Failed /\ call' = Idle
          /\ UNCHANGED aligned
       \/ /\ ~GoesOn(recipe.op)
          /\ completed_operations_'[recipe.op] = "succeeded"
          /\ recipe' = [recipe EXCEPT !.step = @ + 1, !.op = None]
          /\ call' = Ctl(NextCall(recipe'))
          /\ aligned' = IF recipe.step = 0 THEN recipe.op ELSE aligned
    /\ UNCHANGED <<crew, checked, lost>>

AnswerQuality ==
    /\ call.at = "quality"
    /\ recipe' = [recipe EXCEPT !.status = "succeeded"] /\ call' = Idle
    /\ UNCHANGED <<crew, checked, aligned, lost>>

\* on_job_finished: results of any job but an export count as changes.
MarkResults ==
    saved' \in {saved} \cup
        (IF active_job /\ ~active_job' /\ saved = "clean" THEN {"changed"} ELSE {})

\* finish_operation_if_done keeps a snapshot of the export with the outcome.
Snapshot ==
    frozen' = IF exporting /\ active_operation_ # None /\ active_operation_' = None
              THEN frozen \cup {active_operation_} ELSE frozen

\* pump_main_thread executes the call that waits for it.
Reading == call.session = session /\ call.at \in {"state", "wait", "quality"}

Pump ==
    /\ PumpMain
    /\ Snapshot
    /\ IF Reading THEN (AnswerState \/ AnswerWait \/ AnswerQuality) /\ UNCHANGED saved
       ELSE Create \/ UNCHANGED <<client, saved>>
    /\ UNCHANGED <<session, project, exporting>>

\* studio.job.start: align launches its child, train prepares its inputs first.
Starts ==
    IF recipe.step = 0 THEN UNCHANGED preparation ELSE UNCHANGED process

\* BUSY and a refusal are errors, so the step is tried again by the next
\* advance; so is a step whose answer is lost although it was begun.
AnswerStart ==
    /\ call' = Idle
    /\ IF active_operation_' = active_operation_
       THEN recipe' = recipe /\ lost' = lost
       ELSE \/ /\ recipe' = [recipe EXCEPT !.op = active_operation_', !.status = "running"]
               /\ lost' = lost
            \/ lost < crew.lost /\ lost' = lost + 1 /\ recipe' = recipe
    /\ UNCHANGED <<crew, checked, aligned>>

RunStart ==
    /\ call.at = "start" /\ call.session = session
    /\ pc = "post" /\ pc' = "sync"
    /\ IF running_ \/ prepare # "none" \/ next_operation_id_ > crew.ops
       THEN UNCHANGED <<process, active_job, last_error, unread_error, preparation, ledger>>
       ELSE ApiStart /\ Starts
    /\ AnswerStart
    /\ UNCHANGED <<clicked, iconified, env>>

RunOther ==
    /\ call.at # "start" \/ call.session # session
    /\ RunPostCommand
    /\ crew.agent \/ UNCHANGED <<process, preparation>>
    /\ next_operation_id_' <= crew.ops + 1
    /\ MarkResults
    /\ UNCHANGED <<studio, client>>

-----------------------------------------------------------------------------
(* The user.                                                               *)

Changes == (session - 1) + (project - 1)

\* In an idle editor another project is opened, or this one saved elsewhere.
OpenProject ==
    /\ pc = "ui" /\ NothingInProgress
    /\ Changes < crew.changes
    /\ project' = project + 1 /\ saved' = "clean"
    /\ UNCHANGED <<vars, session, exporting, frozen, client>>

Save ==
    /\ pc = "ui" /\ NothingInProgress
    /\ crew.user \/ crew.agent
    /\ saved = "changed"
    /\ saved' = "clean"
    /\ UNCHANGED <<vars, studio, client>>

\* A splat model is exported in the background; only a running job forbids it.
Export ==
    /\ pc = "ui" /\ ~running_
    /\ crew.exports /\ ~exporting
    /\ exporting' = TRUE
    /\ UNCHANGED <<vars, session, project, frozen, saved, client>>

ExportEnds ==
    /\ pc = "log" /\ exporting
    /\ exporting' = FALSE
    /\ UNCHANGED <<vars, session, project, frozen, saved, client>>

\* Studio ends, its job is stopped by ~ProcessJob, and it is started again.
Restart ==
    /\ pc = "poll"
    /\ Changes < crew.changes
    /\ session' = session + 1
    /\ exporting' = FALSE /\ frozen' = {}
    /\ running_' = FALSE /\ paused_' = FALSE /\ completion_pending_' = FALSE
    /\ exit_code_' = -1 /\ child' = NoChild /\ active_job' = FALSE
    /\ unread_error' = FALSE /\ last_error' = FALSE
    /\ prepare' = "none" /\ cancelled' = FALSE /\ clicked' = "none"
    /\ active_operation_' = None /\ operation_cancelled_' = FALSE
    /\ next_operation_id_' = 1 /\ completed_order_' = <<>>
    /\ completed_operations_' = [op \in Ops |-> "unknown"]
    /\ owner' = None /\ fate' = [op \in Ops |-> "no child"]
    /\ UNCHANGED <<pc, iconified, project, saved, client>>

-----------------------------------------------------------------------------
Frame ==
    \/ Pump \/ RunStart \/ RunOther
    \/ /\ Poll \/ ReadLog \/ FinishJob \/ PollTrainStart \/ Clicked \/ SyncPost
             \/ (Ui /\ (crew.user \/ UNCHANGED <<process, clicked, cancelled>>))
       /\ MarkResults /\ Snapshot
       /\ UNCHANGED <<session, project, exporting, client>>

Surroundings ==
    /\ ChildLogsError \/ ChildExits \/ PrepareEnds \/ (crew.user /\ Iconify)
    /\ UNCHANGED <<env, client>>

RecipeNext ==
    \/ Frame \/ Surroundings \/ Advance \/ Bind \/ SessionChanged \/ TimesOut
    \/ OpenProject \/ Save \/ Export \/ ExportEnds \/ Restart

\* As in StudioJob; the host goes on calling advance and its processes run.
RecipeFairness ==
    /\ WF_recipeVars(Frame)
    /\ WF_recipeVars(ChildExits /\ UNCHANGED <<env, client>>)
    /\ WF_recipeVars(PrepareEnds /\ UNCHANGED <<env, client>>)
    /\ WF_recipeVars(Advance) /\ WF_recipeVars(Bind) /\ WF_recipeVars(SessionChanged)

RecipeSpec == RecipeInit /\ [][RecipeNext]_recipeVars /\ RecipeFairness

-----------------------------------------------------------------------------
(* Properties.                                                             *)

Same(input) == session = input.session /\ project = input.project

\* Whatever others start, stop, open or restart, and whichever answers are
\* lost: the training that a recipe starts follows an alignment of its own, of
\* the same project in the same session, whose process ended with 0, unless
\* Studio or its project changed after the state call of that very advance.
TrainsItsOwnAlignment ==
    [][recipe.step = 1 /\ recipe.op = None /\ recipe'.op # None /\ Same(checked) =>
          Same(recipe.input) /\ fate[aligned] = "exit 0"]_recipeVars

\* A step that the recipe has started is settled: the recipe goes on or is
\* over, unless the job stays suspended, the window stays minimised with the
\* preparation waiting to be taken up, or a splat export ran when the step ended.
StepSettles ==
    recipe.op # None ~> \/ recipe.op = None \/ recipe.status \in Over \/ recipe.op \in frozen
                        \/ paused_ \/ (iconified /\ prepare # "none")
=============================================================================
