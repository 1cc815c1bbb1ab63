----------------------------- MODULE StudioJob ------------------------------
(***************************************************************************)
(* One Studio job at a time, started from the window or by an agent:       *)
(*   - ProcessJob: the child CLI process, its exit code and completion     *)
(*     flag (pipeline.cpp);                                                *)
(*   - the asynchronous preparation that precedes training                 *)
(*     (start_train, poll_train_start in app_commands.cpp);                *)
(*   - the operation ledger of ControlBus: begin_operation,                *)
(*     finish_operation_if_done and the retained outcomes;                 *)
(*   - the order in which one frame of main.cpp touches them.              *)
(*                                                                         *)
(* A pump executes at most one command that has an effect (the theorem     *)
(* OneLiveCommand of ControlBus), so each pump here runs at most one.      *)
(* Align, dense, texture and export launch the child at once ("direct");   *)
(* training goes through the preparation thread.  Which precondition of a  *)
(* start fails is left open.  Operators named Fault... are seeded faults   *)
(* of the definition below them; the specification does not use them.      *)
(***************************************************************************)
EXTENDS Integers, Sequences, FiniteSets

CONSTANTS
    MaxOps,     \* bound: operations begun in one behaviour
    Retained    \* completed operations kept: 128 in the code

ASSUME StudioJobAssumption ==
    /\ MaxOps \in Nat
    /\ Retained \in Nat \ {0}

VARIABLES
    pc,                     \* the step of the frame the main thread is at
    running_, paused_, exit_code_, completion_pending_,   \* ProcessJob
    child,                  \* the process itself, and its own exit status
    active_job,             \* App::active_job # JobKind::none
    unread_error,           \* an [error] line in the log, not yet polled
    last_error,             \* RunMonitor::last_error_ is not empty
    prepare,                \* pending_train_prepare and what it will yield
    cancelled,              \* TrainPreparation::cancelled
    clicked,                \* Train or Stop, held until the frame is submitted
    iconified,              \* the window is minimised
    active_operation_, operation_cancelled_, next_operation_id_,
    completed_operations_, completed_order_,
    owner,                  \* history: the operation the child belongs to
    fate                    \* history: how the child of each operation ended

process == <<running_, paused_, exit_code_, completion_pending_, child, owner, fate>>
ledger == <<active_operation_, operation_cancelled_, next_operation_id_,
            completed_operations_, completed_order_>>
preparation == <<prepare, cancelled>>
vars == <<pc, process, active_job, unread_error, last_error, preparation, clicked,
          iconified, ledger>>

-----------------------------------------------------------------------------
Ops == 1..MaxOps
None == 0
ExitCodes == {0, 1, 2}
Outcomes == {"succeeded", "failed", "cancelled"}
Fates == {"no child", "exit 0", "exit 0 with errors", "exit 1", "exit 2", "stopped"}

Child == [at : {"none"}, code : {0}] \cup [at : {"alive"}, code : {0}]
         \cup [at : {"exited"}, code : ExitCodes]
NoChild == [at |-> "none", code |-> 0]
Alive   == [at |-> "alive", code |-> 0]

Steps == {"poll", "log", "finish", "main", "ui", "prepared", "clicked", "post", "sync"}

TypeOK ==
    /\ pc \in Steps
    /\ running_ \in BOOLEAN /\ paused_ \in BOOLEAN /\ completion_pending_ \in BOOLEAN
    /\ exit_code_ \in ExitCodes \cup {-1}
    /\ child \in Child
    /\ active_job \in BOOLEAN
    /\ unread_error \in BOOLEAN /\ last_error \in BOOLEAN
    /\ prepare \in {"none", "working", "ready", "error"} /\ cancelled \in BOOLEAN
    /\ clicked \in {"none", "train", "stop"}
    /\ iconified \in BOOLEAN
    /\ active_operation_ \in Ops \cup {None} /\ operation_cancelled_ \in BOOLEAN
    /\ next_operation_id_ \in 1..(MaxOps + 1)
    /\ completed_order_ \in Seq(Ops)
    /\ completed_operations_ \in [Ops -> Outcomes \cup {"unknown"}]
    /\ owner \in Ops \cup {None}
    /\ fate \in [Ops -> Fates]

Init ==
    /\ pc = "poll"
    /\ running_ = FALSE /\ paused_ = FALSE /\ completion_pending_ = FALSE
    /\ exit_code_ = -1
    /\ child = NoChild
    /\ active_job = FALSE
    /\ unread_error = FALSE /\ last_error = FALSE
    /\ prepare = "none" /\ cancelled = FALSE
    /\ clicked = "none"
    /\ iconified \in BOOLEAN
    /\ active_operation_ = None /\ operation_cancelled_ = FALSE
    /\ next_operation_id_ = 1
    /\ completed_order_ = <<>>
    /\ completed_operations_ = [op \in Ops |-> "unknown"]
    /\ owner = None
    /\ fate = [op \in Ops |-> "no child"]

-----------------------------------------------------------------------------
(* The child process and the preparation thread.                           *)

\* The history variable: the operation that owns the child learns its end.
Ended(how) == fate' = IF owner = None THEN fate ELSE [fate EXCEPT ![owner] = how]

ExitFate(code) ==
    IF code = 1 THEN "exit 1"
    ELSE IF code = 2 THEN "exit 2"
    ELSE IF unread_error \/ last_error THEN "exit 0 with errors" ELSE "exit 0"

ChildLogsError ==
    /\ child = Alive /\ ~paused_
    /\ unread_error' = TRUE
    /\ UNCHANGED <<pc, process, active_job, last_error, preparation, clicked, iconified, ledger>>

ChildExits ==
    /\ child = Alive /\ ~paused_
    /\ \E code \in ExitCodes : child' = [at |-> "exited", code |-> code]
    /\ UNCHANGED <<pc, running_, paused_, exit_code_, completion_pending_, owner, fate,
                   active_job, unread_error, last_error, preparation, clicked, iconified, ledger>>

PrepareEnds ==
    /\ prepare = "working"
    /\ prepare' \in {"ready", "error"}
    /\ UNCHANGED <<pc, process, active_job, unread_error, last_error, cancelled, clicked,
                   iconified, ledger>>

\* The user minimises or restores the window between two frames.
Iconify ==
    /\ pc = "poll"
    /\ iconified' = ~iconified
    /\ UNCHANGED <<pc, process, active_job, unread_error, last_error, preparation, clicked, ledger>>

-----------------------------------------------------------------------------
(* ProcessJob.                                                             *)

\* A successful posix_spawn, after RunMonitor::begin and LogStream::open; the
\* new child truncates the log.
Launch(op) ==
    /\ running_' = TRUE /\ paused_' = FALSE
    /\ exit_code_' = -1 /\ completion_pending_' = FALSE
    /\ child' = Alive
    /\ owner' = op
    /\ active_job' = TRUE
    /\ last_error' = FALSE /\ unread_error' = FALSE
    /\ UNCHANGED fate

\* ProcessJob::start throws after it has reset the exit code.  An old log that
\* could not be truncated is read again from its beginning.
LaunchThrows ==
    /\ running_' = FALSE /\ paused_' = FALSE
    /\ exit_code_' = -1 /\ completion_pending_' = FALSE
    /\ last_error' = FALSE /\ unread_error' \in BOOLEAN
    /\ UNCHANGED <<child, owner, fate, active_job>>

\* A precondition of the start_... function returns early with a message.
StartRefused == UNCHANGED <<process, active_job, last_error, unread_error>>

\* ProcessJob::stop on a running job, consume_completion and on_job_finished.
\* A child that has just exited by itself is reaped here as stopped, too.
StopChild ==
    /\ running_' = FALSE /\ paused_' = FALSE
    /\ exit_code_' = 2 /\ completion_pending_' = FALSE
    /\ child' = NoChild
    /\ owner' = None
    /\ active_job' = FALSE
    /\ Ended("stopped")
    /\ UNCHANGED <<last_error, unread_error>>

Pause ==
    /\ running_ /\ ~paused_
    /\ paused_' = TRUE
    /\ UNCHANGED <<running_, exit_code_, completion_pending_, child, owner, fate>>

Resume ==
    /\ running_ /\ paused_
    /\ paused_' = FALSE
    /\ UNCHANGED <<running_, exit_code_, completion_pending_, child, owner, fate>>

-----------------------------------------------------------------------------
(* The operation ledger of ControlBus.                                     *)

BeginOperation(op) ==
    /\ active_operation_' = op
    /\ operation_cancelled_' = FALSE
    /\ next_operation_id_' = next_operation_id_ + 1
    /\ UNCHANGED <<completed_operations_, completed_order_>>

NothingInProgress == ~running_ /\ prepare = "none" /\ ~active_job

Status ==
    IF operation_cancelled_ \/ exit_code_ = 2 THEN "cancelled"
    ELSE IF exit_code_ # 0 \/ last_error THEN "failed" ELSE "succeeded"

\* Drop the oldest outcome when more than Retained are kept.
Trim(order) == IF Len(order) > Retained THEN Tail(order) ELSE order

\* finish_operation_if_done
FinishOperation ==
    IF active_operation_ # None /\ NothingInProgress
    THEN LET order == Trim(Append(completed_order_, active_operation_))
         IN  /\ completed_order_' = order
             /\ completed_operations_' =
                    [op \in Ops |-> IF \A i \in DOMAIN order : order[i] # op THEN "unknown"
                                    ELSE IF op = active_operation_ THEN Status
                                    ELSE completed_operations_[op]]
             /\ active_operation_' = None
             /\ UNCHANGED <<operation_cancelled_, next_operation_id_>>
    ELSE UNCHANGED ledger

-----------------------------------------------------------------------------
(* One frame of the main loop, in its order.                               *)

\* ProcessJob::poll reaps a child that has exited.
Poll ==
    /\ pc = "poll"
    /\ pc' = "log"
    /\ IF running_ /\ child.at = "exited"
       THEN /\ running_' = FALSE /\ paused_' = FALSE
            /\ exit_code_' = child.code
            /\ completion_pending_' = TRUE
            /\ child' = NoChild
            /\ owner' = None
            /\ Ended(ExitFate(child.code))
       ELSE UNCHANGED process
    /\ UNCHANGED <<active_job, unread_error, last_error, preparation, clicked, iconified, ledger>>

\* LogStream::poll reads to the end of the file, RunMonitor::consume each line.
FaultLogLags ==
    /\ pc = "log"
    /\ pc' = "finish"
    /\ last_error' = (last_error \/ (unread_error /\ running_))
    /\ unread_error' = (unread_error /\ ~running_)
    /\ UNCHANGED <<process, active_job, preparation, clicked, iconified, ledger>>

ReadLog ==
    /\ pc = "log"
    /\ pc' = "finish"
    /\ last_error' = (last_error \/ unread_error)
    /\ unread_error' = FALSE
    /\ UNCHANGED <<process, active_job, preparation, clicked, iconified, ledger>>

FaultForgetJob ==
    /\ pc = "finish"
    /\ pc' = "main"
    /\ completion_pending_' = FALSE
    /\ UNCHANGED <<running_, paused_, exit_code_, child, owner, fate, active_job, unread_error,
                   last_error, preparation, clicked, iconified, ledger>>

\* consume_completion and on_job_finished.
FinishJob ==
    /\ pc = "finish"
    /\ pc' = "main"
    /\ completion_pending_' = FALSE
    /\ active_job' = (active_job /\ ~completion_pending_)
    /\ UNCHANGED <<running_, paused_, exit_code_, child, owner, fate, unread_error, last_error,
                   preparation, clicked, iconified, ledger>>

\* pump_main_thread: a pause, a resume or a command without effect here, then
\* sync_revision; a minimised window goes straight to pump_post_present.
PumpMain ==
    /\ pc = "main"
    /\ pc' = IF iconified THEN "post" ELSE "ui"
    /\ Pause \/ Resume \/ UNCHANGED process
    /\ FinishOperation
    /\ UNCHANGED <<active_job, unread_error, last_error, preparation, clicked, iconified>>

\* At most one menu or toolbar action per frame, disabled while preparing.
GuiStartDirect ==
    /\ prepare = "none" /\ ~running_
    /\ Launch(None) \/ LaunchThrows \/ StartRefused
    /\ UNCHANGED <<clicked, cancelled>>

GuiClick ==
    /\ prepare = "none"
    /\ clicked' \in {"train"} \cup (IF running_ THEN {"stop"} ELSE {})
    /\ UNCHANGED <<process, active_job, last_error, unread_error, cancelled>>

GuiPause ==
    /\ prepare = "none"
    /\ Pause \/ Resume
    /\ UNCHANGED <<active_job, last_error, unread_error, clicked, cancelled>>

GuiCancelPreparation ==
    /\ prepare # "none"
    /\ cancelled' = TRUE
    /\ UNCHANGED <<process, active_job, last_error, unread_error, clicked>>

Ui ==
    /\ pc = "ui"
    /\ pc' = "prepared"
    /\ \/ GuiStartDirect \/ GuiClick \/ GuiPause \/ GuiCancelPreparation
       \/ UNCHANGED <<process, active_job, last_error, unread_error, clicked, cancelled>>
    /\ UNCHANGED <<prepare, iconified, ledger>>

\* poll_train_start.  On success start_train() is entered again, now with its
\* inputs ready; it may still refuse, as may a requested close.
PollTrainStart ==
    /\ pc = "prepared"
    /\ pc' = "clicked"
    /\ IF prepare \in {"ready", "error"}
       THEN /\ prepare' = "none" /\ cancelled' = FALSE
            /\ IF prepare = "ready" /\ ~cancelled
               THEN Launch(active_operation_) \/ LaunchThrows \/ StartRefused
               ELSE UNCHANGED <<process, active_job, last_error, unread_error>>
       ELSE UNCHANGED <<preparation, process, active_job, last_error, unread_error>>
    /\ UNCHANGED <<clicked, iconified, ledger>>

\* start_train with inputs still to be prepared.
FaultTrainUnguarded ==
    \/ /\ prepare' = "working" /\ cancelled' = FALSE
       /\ UNCHANGED <<process, active_job, last_error, unread_error>>
    \/ UNCHANGED <<preparation, process, active_job, last_error, unread_error>>

StartTrain ==
    \/ /\ ~running_ /\ prepare = "none"
       /\ prepare' = "working" /\ cancelled' = FALSE
       /\ UNCHANGED <<process, active_job, last_error, unread_error>>
    \/ UNCHANGED <<preparation, process, active_job, last_error, unread_error>>

\* The Train and Stop buttons take effect once the frame is submitted.
Clicked ==
    /\ pc = "clicked"
    /\ pc' = "post"
    /\ clicked' = "none"
    /\ \/ clicked = "train" /\ StartTrain
       \/ clicked = "stop" /\ running_ /\ StopChild /\ UNCHANGED preparation
       \/ /\ clicked = "none" \/ (clicked = "stop" /\ ~running_)
          /\ UNCHANGED <<preparation, process, active_job, last_error, unread_error>>
    /\ UNCHANGED <<iconified, ledger>>

\* studio.job.start in pump_post_present: BUSY, refused, or begun as op.
Begun == running_' \/ prepare' # "none"
ApiStart ==
    /\ ~running_ /\ prepare = "none"
    /\ next_operation_id_ <= MaxOps
    /\ LET op == next_operation_id_
       IN  /\ \/ (Launch(op) \/ LaunchThrows \/ StartRefused) /\ UNCHANGED preparation
              \/ StartTrain
           /\ IF Begun THEN BeginOperation(op) ELSE UNCHANGED ledger

\* studio.job.control stop: mark_operation_cancelled, then ProcessJob::stop.
ApiStop ==
    /\ running_
    /\ StopChild
    /\ operation_cancelled_' = TRUE
    /\ UNCHANGED <<active_operation_, next_operation_id_, completed_operations_,
                   completed_order_, preparation>>

RunPostCommand ==
    /\ pc = "post"
    /\ pc' = "sync"
    /\ ApiStart \/ ApiStop
       \/ UNCHANGED <<process, active_job, last_error, unread_error, preparation, ledger>>
    /\ UNCHANGED <<clicked, iconified>>

\* The sync_revision that ends pump_post_present.
SyncPost ==
    /\ pc = "sync"
    /\ pc' = "poll"
    /\ FinishOperation
    /\ UNCHANGED <<process, active_job, last_error, unread_error, preparation, clicked, iconified>>

-----------------------------------------------------------------------------
MainThread ==
    \/ Poll \/ ReadLog \/ FinishJob \/ PumpMain \/ Ui \/ PollTrainStart \/ Clicked
    \/ RunPostCommand \/ SyncPost

Next == MainThread \/ ChildLogsError \/ ChildExits \/ PrepareEnds \/ Iconify

\* Frames go on, a job that is not suspended ends, and so does the preparation.
Fairness == WF_vars(MainThread) /\ WF_vars(ChildExits) /\ WF_vars(PrepareEnds)

Spec == Init /\ [][Next]_vars /\ Fairness

-----------------------------------------------------------------------------
(* Properties.                                                             *)

Known(op) == completed_operations_[op] # "unknown"

\* One heavy task at a time, and none left behind.  ProcessJob believes that a
\* child runs exactly as long as there is one to reap, whatever stop, failed
\* start or second start came between, and while training inputs are prepared no
\* child runs, although Train, Align and an agent's start pass different guards.
OneTask ==
    /\ running_ <=> child # NoChild
    /\ running_ => prepare = "none"

\* The recorded outcome of an operation whose child ended by itself is that
\* child's, with every error it logged before it ended taken into account, and a
\* stopped one is never recorded as a success.  (Stopped in the window, it is
\* recorded as failed if an agent's start fails in the rest of the same frame.)
OutcomeReported ==
    \A op \in Ops : Known(op) =>
        /\ fate[op] = "exit 0" => completed_operations_[op] = "succeeded"
        /\ fate[op] \in {"exit 1", "exit 0 with errors"} => completed_operations_[op] = "failed"
        /\ fate[op] = "stopped" => completed_operations_[op] # "succeeded"
=============================================================================
